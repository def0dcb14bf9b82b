----------------------------- MODULE TeamStats -----------------------------
(***************************************************************************)
(* What the application computes from a season's stat lines                *)
(* (services/stats.py, services/archetype.py): averages and percentages,   *)
(* the season highs a game is marked with, a player's standing in the team *)
(* (computed twice, for GET /api/me/team-ranks and for the archetype), and *)
(* the archetype with its receipt. The lines only grow, a game at a time.  *)
(*                                                                         *)
(* One team and one season. Averages, percentiles and scores are fractions *)
(* <<numerator, denominator>>, and the code's floats order unequal ones of *)
(* this size alike. Equal ones it tells apart where it rounded on the way: *)
(* true shooting (Roundings), and scores, which are sums of products.      *)
(***************************************************************************)
EXTENDS Integers, FiniteSets, SequencesExt

CONSTANTS
  Players,    \* the team
  BoxScores,  \* the stat lines a game can leave a player with
  MaxLines,   \* bound: lines of the whole team
  MaxTeam     \* bound: ranked players, where only their number matters

RawStatFields ==
  {"points", "rebounds", "assists", "steals", "blocks", "turnovers", "fouls",
   "fg2_made", "fg2_attempted", "three_made", "three_attempted",
   "ft_made", "ft_attempted"}

\* A basketball box score: no shot is made that was not attempted, and the
\* points are those of the shots made.
TeamStatsAssumption ==
  /\ IsFiniteSet(Players)
  /\ MaxLines \in Nat
  /\ MaxTeam \in Nat
  /\ \A l \in BoxScores :
       /\ l \in [RawStatFields -> Nat]
       /\ l.fg2_made <= l.fg2_attempted /\ l.three_made <= l.three_attempted
       /\ l.ft_made <= l.ft_attempted
       /\ l.points = 2 * l.fg2_made + 3 * l.three_made + l.ft_made
ASSUME TeamStatsAssumption

VARIABLE lines  \* the season's stat lines of each player

vars == <<lines>>

TypeOK == lines \in [Players -> Seq(BoxScores)]

Init == lines = [p \in Players |-> <<>>]

Room == SumFunction([q \in Players |-> Len(lines[q])]) < MaxLines

\* Mutant: the scraped totals of the season so far are stored as the game.
LogGameCumulative(p, l) ==
  /\ Room
  /\ lines' = [lines EXCEPT ![p] =
       Append(@, [f \in RawStatFields |->
                    l[f] + SumFunction([i \in DOMAIN lines[p] |-> lines[p][i][f]])])]

\* A loader adds the line of one player for one more game.
LogGame(p, l) ==
  /\ Room
  /\ lines' = [lines EXCEPT ![p] = Append(@, l)]

Next == \E p \in Players, l \in BoxScores : LogGame(p, l)

Spec == Init /\ [][Next]_vars

-----------------------------------------------------------------------------
(* Averages.                                                               *)

Less(a, b) == a[1] * b[2] < b[1] * a[2]

Ratio(made, attempted) == IF attempted = 0 THEN <<0, 1>> ELSE <<made, attempted>>

\* The percentages of a game, or of the totals t of a season: _ts_pct is
\* points / (2 * (fg2 + three + 0.44 * ft)), here times 100 and not rounded.
Percentages == {"fg_pct", "three_pct", "ft_pct", "ts_pct"}

Pct(t, stat) ==
  CASE stat = "fg_pct" -> Ratio(t.fg2_made, t.fg2_attempted)
    [] stat = "three_pct" -> Ratio(t.three_made, t.three_attempted)
    [] stat = "ft_pct" -> Ratio(t.ft_made, t.ft_attempted)
    [] stat = "ts_pct" ->
         Ratio(100 * t.points,
               2 * (100 * (t.fg2_attempted + t.three_attempted) + 44 * t.ft_attempted))

Totals(p) ==
  [f \in RawStatFields |-> SumFunction([i \in DOMAIN lines[p] |-> lines[p][i][f]])]

\* Mutant: a game without a shot counts as a game at zero percent.
AverageMeanPct(p, stat) ==
  LET pct == [i \in DOMAIN lines[p] |-> Pct(lines[p][i], stat)]
  IN IF stat \in Percentages
     THEN <<SumFunction([i \in DOMAIN pct |-> (27720 * pct[i][1]) \div pct[i][2]]),
            27720 * Len(lines[p])>>
     ELSE Ratio(Totals(p)[stat], Len(lines[p]))

\* season_averages: totals over games, the percentages from the totals.
Average(p, stat) ==
  IF stat \in Percentages THEN Pct(Totals(p), stat)
  ELSE Ratio(Totals(p)[stat], Len(lines[p]))

-----------------------------------------------------------------------------
(* Personal bests of a player's i-th game.                                 *)

PersonalBestFields ==
  {"points", "rebounds", "assists", "steals", "blocks",
   "fg2_made", "three_made", "ft_made"}

\* Mutant: only games up to this one are compared.
BestsSoFar(p, i) ==
  {f \in PersonalBestFields :
     /\ lines[p][i][f] > 0
     /\ \A j \in 1 .. i : lines[p][j][f] <= lines[p][i][f]}

Bests(p, i) ==
  {f \in PersonalBestFields :
     /\ lines[p][i][f] > 0
     /\ \A j \in DOMAIN lines[p] : lines[p][j][f] <= lines[p][i][f]}

-----------------------------------------------------------------------------
(* Standings. The players with lines come in the order the database        *)
(* returns them, which no ORDER BY fixes; sorted() keeps it between equals.*)
(* Each page reads them in a query of its own. A standing is a set of      *)
(* <<stat, p, q>>: the code puts p strictly above q.                       *)

Ranked == {p \in Players : lines[p] # <<>>}
Orders == SetToSeqs(Ranked)

ArchetypeWeights ==  \* in tenths
  [playmaker |-> [assists |-> 5, ts_pct |-> 2, points |-> 1, turnovers |-> 2],
   efficient_scorer |-> [ts_pct |-> 4, fg_pct |-> 2, points |-> 3, turnovers |-> 1],
   glass_cleaner |-> [rebounds |-> 7, blocks |-> 2, fouls |-> 1],
   defensive_anchor |-> [steals |-> 3, blocks |-> 3, rebounds |-> 2, fouls |-> 2],
   wing_3_and_d |-> [three_pct |-> 4, three_made |-> 3, steals |-> 2, ts_pct |-> 1],
   rim_protector |-> [blocks |-> 6, rebounds |-> 3, fouls |-> 1],
   spark_plug |-> [points |-> 4, steals |-> 3, fg_pct |-> 2, ts_pct |-> 1],
   floor_general |-> [assists |-> 4, ts_pct |-> 2, steals |-> 2, turnovers |-> 2],
   hustle_player |-> [steals |-> 3, rebounds |-> 3, blocks |-> 2, fouls |-> 2]]

Archetypes == DOMAIN ArchetypeWeights
StatsOf(a) == DOMAIN ArchetypeWeights[a]
RelevantStats == UNION {StatsOf(a) : a \in Archetypes}

LowerIsBetter == {"turnovers", "fouls"}

\* Mutant: fouls are shown too.
DefaultRankStatsFouls == {"assists", "rebounds", "steals", "three_pct", "fouls"}

DefaultRankStats == {"assists", "rebounds", "steals", "three_pct"}

\* Players with the same of these have the same float for true shooting, where it
\* is the same fraction: without free throws its denominator is an integer, while
\* 3 points and 9 of (1 + 0.44) and (3 + 1.32) shots make different floats.
Shots(t) ==
  IF t.points = 0 \/ t.ft_attempted = 0 THEN <<>>
  ELSE <<t.points, t.fg2_attempted + t.three_attempted, t.ft_attempted>>

\* How rounding may order the players whose true shooting is the same fraction.
Roundings ==
  LET shots == [p \in Ranked |-> Shots(Totals(p))]
  IN {e \in [Ranked -> 1 .. Cardinality(Ranked)] :
        \A p, q \in Ranked : shots[p] = shots[q] => e[p] = e[q]}

\* Who has the higher average; team_ranks sorts so, whatever the stat.
ExactLeads ==
  UNION {LET average == {<<p, Average(p, s)>> : p \in Ranked}
         IN {<<s, x[1][1], x[2][1]>> :
               x \in {y \in average \X average : Less(y[2][2], y[1][2])}} :
           s \in RelevantStats \cup DefaultRankStats}

\* Who of two with the same true shooting has the higher float.
RoundedLeads(e) ==
  {<<"ts_pct", x[1], x[2]>> :
     x \in {y \in Ranked \X Ranked :
              /\ ~Less(Average(y[1], "ts_pct"), Average(y[2], "ts_pct"))
              /\ ~Less(Average(y[2], "ts_pct"), Average(y[1], "ts_pct"))
              /\ e[y[2]] < e[y[1]]}}

\* The standings the code may compute, highest first.
Standings ==
  LET exact == ExactLeads IN {exact \cup RoundedLeads(e) : e \in Roundings}

\* Mutant: turnovers and fouls are sorted highest first too.
BetterHigher(leads) == leads

\* _goodness_percentiles sorts lowest first where lower is better.
Better(leads) ==
  {IF x[1] \in LowerIsBetter THEN <<x[1], x[3], x[2]>> ELSE x : x \in leads}

\* The place of p in the list order, stably sorted by the standing in stat.
Place(standing, order, p, stat) ==
  LET at == CHOOSE i \in DOMAIN order : order[i] = p
  IN 1 + Cardinality({i \in DOMAIN order :
           \/ <<stat, order[i], p>> \in standing
           \/ i < at /\ <<stat, p, order[i]>> \notin standing})

\* _percentile_for_rank, of which services/stats.py and services/archetype.py
\* have each their own.
RankPercentile(rank, total) ==
  IF total <= 1 THEN <<100, 1>> ELSE <<100 * (total - rank), total - 1>>

\* Mutant: the archetype's copy divides by the whole team.
GoodnessPercentileOfAll(rank, total) ==
  IF total <= 1 THEN <<100, 1>> ELSE <<100 * (total - rank), total>>

GoodnessPercentile(rank, total) ==
  IF total <= 1 THEN <<100, 1>> ELSE <<100 * (total - rank), total - 1>>

\* A player's percentile on the team-ranks page, and for the archetype.
RankStanding(leads, order, p, stat) ==
  RankPercentile(Place(leads, order, p, stat), Len(order))

GoodnessStanding(better, order, p, stat) ==
  GoodnessPercentile(Place(better, order, p, stat), Len(order))

Reaches(pct, n) == pct[1] >= n * pct[2]

\* _label_for, where the first is "#{rank} on team", and _bucket_label.
Labels == <<"on team", "top 3", "above avg", "below avg", "bottom 3">>
LabelLevel(pct) == 1 + Cardinality({n \in {90, 70, 50, 30} : ~Reaches(pct, n)})

Buckets == <<"elite", "strong", "above-average", "below-average", "limited">>
BucketLevel(pct) == 1 + Cardinality({n \in {90, 70, 50, 30} : ~Reaches(pct, n)})

-----------------------------------------------------------------------------
(* The archetype of a player, from the player's percentiles: a set of       *)
(* <<stat, percentile>>.                                                    *)

Percentiles(better, order, p) ==
  {<<s, GoodnessStanding(better, order, p, s)>> : s \in RelevantStats}

\* _score_archetype, as a numerator: the denominator, ten times that of the
\* percentiles, is the same for every score of one team.
Weighted(pcts, a) ==
  SumFunction([x \in {y \in pcts : y[1] \in StatsOf(a)} |->
                 ArchetypeWeights[a][x[1]] * x[2][1]])

Scores(pcts) == {<<a, Weighted(pcts, a)>> : a \in Archetypes}

Best(scores) == {x \in scores : \A y \in scores : y[2] <= x[2]}

\* compute_archetype: the answers it may give, equal scores in either order.
ComputeArchetype(pcts) ==
  LET scores == Scores(pcts)
  IN UNION {{[primary |-> x[1], secondary |-> y[1], score |-> x[2]] :
               y \in Best(scores \ {x})} : x \in Best(scores)}

\* contributions[:5], as a set.
TopContributions(pcts, a) ==
  LET share(x) == Weighted({x}, a)
      own == {x \in pcts : x[1] \in StatsOf(a)}
  IN {x \in own : Cardinality({y \in own : share(y) > share(x)}) < 5}

\* _build_receipt: percentile and comment of the stats that made the score.
Receipt(pcts, a) ==
  {[stat |-> x[1], percentile |-> x[2], comment |-> Buckets[BucketLevel(x[2])]] :
     x \in TopContributions(pcts, a)}

-----------------------------------------------------------------------------
(* Properties. Each holds for every order the database may return and     *)
(* every standing the code may compute: a better, worse or equal average   *)
(* is that of the floats.                                                  *)

Equals(leads, stat, p) ==
  {q \in Ranked \ {p} : {<<stat, p, q>>, <<stat, q, p>>} \cap leads = {}}

\* Every rank from first to last is given once, also among equals, and a player
\* with a strictly better average is before one with a worse.
RanksFair ==
  \A leads \in Standings, order \in Orders, stat \in DefaultRankStats :
    LET rank == [p \in Ranked |-> Place(leads, order, p, stat)]
    IN /\ Range(rank) = 1 .. Cardinality(Ranked)
       /\ \A p, q \in Ranked :
            Less(Average(q, stat), Average(p, stat)) => rank[p] < rank[q]

\* Computed from the same lines, the two pages of one player agree about a stat
\* that both show, though each reads the team in an order of its own and ranks
\* and words it with code of its own: the percentile and its level are the same,
\* and where the player has equals the ranks differ by their number at most.
\* (The archetype page shows a row computed at an earlier time, see
\* ArchetypeCache!GameRegenerates: of later lines it may say something else.)
StandingsAgree ==
  \A leads \in Standings : LET better == Better(leads) IN
    \A first, second \in Orders, p \in Ranked, stat \in DefaultRankStats :
      LET rank == Place(leads, first, p, stat)
          place == Place(better, second, p, stat)
          shown == RankStanding(leads, first, p, stat)
          receipt == GoodnessStanding(better, second, p, stat)
          equals == Cardinality(Equals(leads, stat, p))
      IN /\ equals = 0 => shown = receipt /\ LabelLevel(shown) = BucketLevel(receipt)
         /\ rank - place \in -equals .. equals

\* A player with a strictly better average never has the worse label. On a team
\* of up to MaxTeam the labels say what they mean: the first is the only one who
\* may be the best, the last of several is at the bottom, "top 3" is said of no
\* fourth and "bottom 3" of nobody who has three below.
LabelsHonest ==
  /\ \A leads \in Standings, order \in Orders : \A x \in leads :
       LabelLevel(RankStanding(leads, order, x[2], x[1]))
         <= LabelLevel(RankStanding(leads, order, x[3], x[1]))
  /\ \A n \in 1 .. MaxTeam : \A rank \in 1 .. n :
       LET label == Labels[LabelLevel(RankPercentile(rank, n))]
       IN /\ label = "on team" <=> rank = 1
          /\ rank = n /\ n > 1 => label = "bottom 3"
          /\ label = "top 3" => rank <= 3
          /\ label = "bottom 3" => rank > n - 3

\* A standing is fair, worded for what it is, and the same on both pages where
\* no equal average leaves it to the database's order.
StandingsFair == RanksFair /\ StandingsAgree /\ LabelsHonest

\* A season's percentage lies between those of the worst and the best of its
\* games in which the player took such a shot, true shooting included: as
\* fractions, which the code's floats are to the last digit.
PctBetweenGames ==
  \A p \in Ranked, stat \in Percentages :
    LET took(l) == CASE stat = "fg_pct" -> l.fg2_attempted > 0
                     [] stat = "three_pct" -> l.three_attempted > 0
                     [] stat = "ft_pct" -> l.ft_attempted > 0
                     [] stat = "ts_pct" ->
                          l.fg2_attempted + l.three_attempted + l.ft_attempted > 0
        games == {l \in Range(lines[p]) : took(l)}
        season == Average(p, stat)
    IN games # {} =>
         /\ \E l \in games : ~Less(season, Pct(l, stat))
         /\ \E l \in games : ~Less(Pct(l, stat), season)

\* A new game takes a season high from an earlier game exactly when it beats
\* it, holds it then itself, and gives no earlier game a new one.
BestsStand ==
  [][\A p \in Players :
       \A i \in DOMAIN lines[p], new \in DOMAIN lines'[p] \ DOMAIN lines[p] :
         LET beaten == {f \in PersonalBestFields : lines'[p][new][f] > lines[p][i][f]}
         IN /\ Bests(p, i)' = Bests(p, i) \ beaten
            /\ Bests(p, i) \cap beaten \subseteq Bests(p, new)']_vars

\* The database's order decides between equals only: a player who has no equal
\* in any stat that counts is given the same archetype whatever the order.
OrderBreaksTiesOnly ==
  \A leads \in Standings : LET better == Better(leads) IN
    \A p \in Ranked :
      (\A s \in RelevantStats : Equals(leads, s, p) = {}) =>
        Cardinality({ComputeArchetype(Percentiles(better, order, p)) :
                       order \in Orders}) = 1

\* The receipt of an archetype is the reason for it: three to five lines
\* (BACKEND.md), whose weighted percentiles make the whole of the score, so that
\* no other archetype scores more than the best of them.
ReceiptExplains ==
  \A leads \in Standings : LET better == Better(leads) IN
    \A p \in Ranked : \A pcts \in {Percentiles(better, order, p) : order \in Orders} :
      \A r \in ComputeArchetype(pcts) :
        LET receipt == Receipt(pcts, r.primary)
        IN /\ Cardinality(receipt) \in 3 .. 5
           /\ Weighted({<<x.stat, x.percentile>> : x \in receipt}, r.primary) = r.score
           /\ \A y \in Scores(pcts) : \E x \in receipt : 10 * x.percentile[1] >= y[2]

\* The scores of two teammates compare as their averages do: who is worse in
\* nothing an archetype counts (more turnovers and fouls are worse) scores no
\* lower in it, the database's order deciding between equals, and who is better
\* in all of it is ahead by a whole place (of two players: has 100, not 0). True
\* shooting is compared as it was rounded: who plays alike in more games may be
\* told apart by it (Roundings), in whatever order the team is read.
ScoresFollowPlay ==
  \A leads \in Standings :
    LET better == Better(leads)
        above(s, p, q) == IF s \in LowerIsBetter THEN <<s, q, p>> \in leads
                          ELSE <<s, p, q>> \in leads
    IN \A order \in Orders :
         LET scores == {<<p, Scores(Percentiles(better, order, p))>> : p \in Ranked}
         IN \A i, j \in DOMAIN order : \A x, y \in scores :
              (i < j /\ {x[1], y[1]} = {order[i], order[j]}) =>
                \A m \in x[2], n \in y[2] : m[1] = n[1] =>
                  /\ (\A s \in StatsOf(m[1]) : above(s, x[1], y[1])) => m[2] >= n[2] + 1000
                  /\ (x[1] = order[i] /\ \A s \in StatsOf(m[1]) : ~above(s, y[1], x[1]))
                       => m[2] >= n[2]

\* An archetype follows from the averages of the team as the code computes them,
\* and from the order it is read in only between equal ones; its receipt says how
\* (compute_archetype).
ArchetypeJust == ScoresFollowPlay /\ ReceiptExplains /\ OrderBreaksTiesOnly
=============================================================================
