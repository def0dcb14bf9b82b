-------------------------- MODULE TeamStatsProofs --------------------------
(***************************************************************************)
(* Proofs about a season's numbers (TeamStats), for any team, any number    *)
(* of games and any box scores: season highs, averages, standings and       *)
(* archetypes. All follow from the lines being those of the team, by the    *)
(* sums of Sums and the order of the players by their averages.             *)
(***************************************************************************)
EXTENDS TeamStats, Sums, SequenceTheorems

\* A line holds numbers.
LEMMA LineFacts ==
  ASSUME TeamStatsAssumption, NEW l \in BoxScores, NEW f \in PersonalBestFields
  PROVE  l[f] \in Nat
BY DEF TeamStatsAssumption, PersonalBestFields, RawStatFields

\* A game is the last of its player's, and the others' lines stay as they are.
LEMMA GameAdds ==
  ASSUME TypeOK, NEW q \in Players, NEW l \in BoxScores, LogGame(q, l)
  PROVE  /\ lines' \in [Players -> Seq(BoxScores)]
         /\ \A p \in Players \ {q} : lines'[p] = lines[p]
         /\ DOMAIN lines[q] = 1 .. Len(lines[q]) /\ Len(lines[q]) \in Nat
         /\ DOMAIN lines'[q] = 1 .. (Len(lines[q]) + 1)
         /\ lines'[q][Len(lines[q]) + 1] = l
         /\ \A i \in DOMAIN lines[q] : lines'[q][i] = lines[q][i] /\ lines[q][i] \in BoxScores
<1>1. lines[q] \in Seq(BoxScores)
  BY DEF TypeOK
<1>2. Append(lines[q], l) \in Seq(BoxScores)
  BY <1>1, AppendProperties
<1>3. lines' = [lines EXCEPT ![q] = Append(lines[q], l)]
  BY DEF LogGame
<1>4. /\ lines' \in [Players -> Seq(BoxScores)]
      /\ \A p \in Players \ {q} : lines'[p] = lines[p]
      /\ lines'[q] = Append(lines[q], l)
  BY <1>2, <1>3 DEF TypeOK
<1>5. /\ DOMAIN lines[q] = 1 .. Len(lines[q]) /\ Len(lines[q]) \in Nat
      /\ \A i \in 1 .. Len(lines[q]) : lines[q][i] \in BoxScores
  BY <1>1, LenProperties
<1>6. /\ Len(Append(lines[q], l)) = Len(lines[q]) + 1
      /\ \A i \in 1 .. Len(lines[q]) : Append(lines[q], l)[i] = lines[q][i]
      /\ Append(lines[q], l)[Len(lines[q]) + 1] = l
  BY <1>1, AppendProperties
<1>7. DOMAIN lines'[q] = 1 .. (Len(lines[q]) + 1)
  BY <1>2, <1>4, <1>6, LenProperties
<1> QED
  BY <1>4, <1>5, <1>6, <1>7

\* A new game takes away the highs it beats, and those only, and then has them.
LEMMA HighsStand ==
  ASSUME TeamStatsAssumption, TypeOK, NEW q \in Players, NEW l \in BoxScores,
         LogGame(q, l), NEW p \in Players, NEW i \in DOMAIN lines[p],
         NEW new \in DOMAIN lines'[p] \ DOMAIN lines[p]
  PROVE  LET beaten == {f \in PersonalBestFields : lines'[p][new][f] > lines[p][i][f]}
         IN /\ Bests(p, i)' = Bests(p, i) \ beaten
            /\ Bests(p, i) \cap beaten \subseteq Bests(p, new)'
<1> DEFINE beaten == {f \in PersonalBestFields : l[f] > lines[p][i][f]}
<1>1. p = q
  BY GameAdds
<1>2. /\ DOMAIN lines'[p] = DOMAIN lines[p] \cup {new} /\ lines'[p][new] = l
      /\ \A j \in DOMAIN lines[p] : lines'[p][j] = lines[p][j] /\ lines[p][j] \in BoxScores
  BY <1>1, GameAdds
<1>3. \A f \in PersonalBestFields :
        l[f] \in Nat /\ \A j \in DOMAIN lines[p] : lines[p][j][f] \in Nat
  BY <1>2, LineFacts
<1>4. \A f \in PersonalBestFields :
        f \in Bests(p, i)' <=> f \in Bests(p, i) /\ ~(l[f] > lines[p][i][f])
  <2> TAKE f \in PersonalBestFields
  <2>1. f \in Bests(p, i)' <=>
          /\ lines'[p][i][f] > 0
          /\ \A j \in DOMAIN lines'[p] : lines'[p][j][f] <= lines'[p][i][f]
    BY DEF Bests
  <2>2. f \in Bests(p, i) <=>
          /\ lines[p][i][f] > 0
          /\ \A j \in DOMAIN lines[p] : lines[p][j][f] <= lines[p][i][f]
    BY DEF Bests
  <2>3. (\A j \in DOMAIN lines'[p] : lines'[p][j][f] <= lines[p][i][f]) <=>
          /\ \A j \in DOMAIN lines[p] : lines[p][j][f] <= lines[p][i][f]
          /\ l[f] <= lines[p][i][f]
    BY <1>2
  <2>4. l[f] <= lines[p][i][f] <=> ~(l[f] > lines[p][i][f])
    BY <1>3
  <2> QED
    BY <1>2, <2>1, <2>2, <2>3, <2>4
<1>5. Bests(p, i)' = Bests(p, i) \ beaten
  <2>1. Bests(p, i)' \subseteq PersonalBestFields /\ Bests(p, i) \subseteq PersonalBestFields
    BY DEF Bests
  <2> QED
    BY <1>4, <2>1
<1>6. ASSUME NEW f \in Bests(p, i) \cap beaten PROVE f \in Bests(p, new)'
  <2>1. /\ f \in PersonalBestFields /\ l[f] > lines[p][i][f] /\ lines[p][i][f] > 0
        /\ \A j \in DOMAIN lines[p] : lines[p][j][f] <= lines[p][i][f]
    BY DEF Bests
  <2>2. l[f] > 0 /\ \A j \in DOMAIN lines[p] : lines[p][j][f] <= l[f]
    BY <1>3, <2>1
  <2>3. \A j \in DOMAIN lines'[p] : lines'[p][j][f] <= l[f]
    BY <1>2, <1>3, <2>1, <2>2
  <2> QED
    BY <1>2, <2>1, <2>2, <2>3 DEF Bests
<1> QED
  BY <1>2, <1>5, <1>6

-----------------------------------------------------------------------------

\* The lines are those of the team, whoever's game is logged.
THEOREM TypeCorrect == Spec => []TypeOK
<1>1. Init => TypeOK
  BY DEF Init, TypeOK
<1>2. TypeOK /\ [Next]_vars => TypeOK'
  <2> SUFFICES ASSUME TypeOK, [Next]_vars PROVE TypeOK'
    OBVIOUS
  <2>1. ASSUME NEW p \in Players, NEW l \in BoxScores, LogGame(p, l) PROVE TypeOK'
    BY <2>1, GameAdds DEF TypeOK
  <2>2. CASE UNCHANGED vars
    BY <2>2 DEF vars, TypeOK
  <2> QED
    BY <2>1, <2>2 DEF Next
<1> QED
  BY <1>1, <1>2, PTL DEF Spec

\* personal_bests: a game is a season high until it is beaten, by a game that
\* then holds the high itself.
THEOREM HighsBeaten == Spec => BestsStand
<1> DEFINE Stands ==
      \A p \in Players :
        \A i \in DOMAIN lines[p], new \in DOMAIN lines'[p] \ DOMAIN lines[p] :
          LET beaten == {f \in PersonalBestFields : lines'[p][new][f] > lines[p][i][f]}
          IN /\ Bests(p, i)' = Bests(p, i) \ beaten
             /\ Bests(p, i) \cap beaten \subseteq Bests(p, new)'
<1>1. TypeOK /\ [Next]_vars => [Stands]_vars
  <2> SUFFICES ASSUME TypeOK, [Next]_vars PROVE [Stands]_vars
    OBVIOUS
  <2>1. ASSUME NEW q \in Players, NEW l \in BoxScores, LogGame(q, l) PROVE Stands
    <3> SUFFICES ASSUME NEW p \in Players, NEW i \in DOMAIN lines[p],
                        NEW new \in DOMAIN lines'[p] \ DOMAIN lines[p]
                 PROVE  LET beaten == {f \in PersonalBestFields :
                                         lines'[p][new][f] > lines[p][i][f]}
                        IN /\ Bests(p, i)' = Bests(p, i) \ beaten
                           /\ Bests(p, i) \cap beaten \subseteq Bests(p, new)'
      OBVIOUS
    <3> QED
      BY <2>1, HighsStand, TeamStatsAssumption
  <2> QED
    BY <2>1 DEF Next
<1> QED
  BY <1>1, TypeCorrect, PTL DEF Spec, BestsStand
-----------------------------------------------------------------------------
(* Averages: a percentage is the ratio of what was made to what was tried,  *)
(* both of which add up from the games to the season.                       *)

Made(t, stat) ==
  CASE stat = "fg_pct" -> t.fg2_made
    [] stat = "three_pct" -> t.three_made
    [] stat = "ft_pct" -> t.ft_made
    [] stat = "ts_pct" -> 100 * t.points

Tried(t, stat) ==
  CASE stat = "fg_pct" -> t.fg2_attempted
    [] stat = "three_pct" -> t.three_attempted
    [] stat = "ft_pct" -> t.ft_attempted
    [] stat = "ts_pct" -> 2 * (100 * (t.fg2_attempted + t.three_attempted) + 44 * t.ft_attempted)

\* The percentages by their parts.
LEMMA PctParts ==
  ASSUME NEW t, NEW stat \in Percentages
  PROVE  Pct(t, stat) = Ratio(Made(t, stat), Tried(t, stat))
BY DEF Percentages, Pct, Made, Tried

\* Nothing is made that was not tried, and what is tried shows in the parts.
LEMMA PartsFacts ==
  ASSUME TeamStatsAssumption, NEW l \in BoxScores, NEW stat \in Percentages
  PROVE  /\ Made(l, stat) \in Nat /\ Tried(l, stat) \in Nat
         /\ Tried(l, stat) = 0 => Made(l, stat) = 0
         /\ Tried(l, stat) > 0 <=>
              CASE stat = "fg_pct" -> l.fg2_attempted > 0
                [] stat = "three_pct" -> l.three_attempted > 0
                [] stat = "ft_pct" -> l.ft_attempted > 0
                [] stat = "ts_pct" -> l.fg2_attempted + l.three_attempted + l.ft_attempted > 0
<1>1. \A f \in RawStatFields : l[f] \in Nat
  BY DEF TeamStatsAssumption
<1>2. /\ l.points \in Nat /\ l.fg2_made \in Nat /\ l.fg2_attempted \in Nat
      /\ l.three_made \in Nat /\ l.three_attempted \in Nat
      /\ l.ft_made \in Nat /\ l.ft_attempted \in Nat
  BY <1>1 DEF RawStatFields
<1>3. /\ l.fg2_made <= l.fg2_attempted /\ l.three_made <= l.three_attempted
      /\ l.ft_made <= l.ft_attempted
      /\ l.points = 2 * l.fg2_made + 3 * l.three_made + l.ft_made
  BY DEF TeamStatsAssumption
<1>4. CASE stat = "fg_pct"
  BY <1>2, <1>3, <1>4 DEF Made, Tried
<1>5. CASE stat = "three_pct"
  BY <1>2, <1>3, <1>5 DEF Made, Tried
<1>6. CASE stat = "ft_pct"
  BY <1>2, <1>3, <1>6 DEF Made, Tried
<1>7. CASE stat = "ts_pct"
  BY <1>2, <1>3, <1>7 DEF Made, Tried
<1> QED
  BY <1>4, <1>5, <1>6, <1>7 DEF Percentages

\* The lines of a player are a finite sequence of box scores.
LEMMA LinesFacts ==
  ASSUME TeamStatsAssumption, TypeOK, NEW p \in Players
  PROVE  /\ IsFiniteSet(DOMAIN lines[p]) /\ Cardinality(DOMAIN lines[p]) = Len(lines[p])
         /\ Len(lines[p]) \in Nat
         /\ lines[p] # <<>> => Len(lines[p]) > 0
         /\ \A i \in DOMAIN lines[p] :
              lines[p][i] \in BoxScores /\ \A f \in RawStatFields : lines[p][i][f] \in Nat
<1>1. lines[p] \in Seq(BoxScores)
  BY DEF TypeOK
<1>2. /\ DOMAIN lines[p] = 1 .. Len(lines[p]) /\ Len(lines[p]) \in Nat
      /\ \A i \in 1 .. Len(lines[p]) : lines[p][i] \in BoxScores
  BY <1>1, LenProperties
<1>3. IsFiniteSet(1 .. Len(lines[p])) /\ Cardinality(1 .. Len(lines[p])) = Len(lines[p])
  BY <1>2, FS_Interval
<1>4. lines[p] # <<>> => Len(lines[p]) > 0
  BY <1>1, <1>2, EmptySeq
<1>5. \A l \in BoxScores : \A f \in RawStatFields : l[f] \in Nat
  BY DEF TeamStatsAssumption
<1> QED
  BY <1>2, <1>3, <1>4, <1>5

\* A season's totals are sums over its games.
LEMMA TotalsFacts ==
  ASSUME TeamStatsAssumption, TypeOK, NEW p \in Players, NEW f \in RawStatFields
  PROVE  /\ Totals(p)[f] =
              SumFunctionOnSet([i \in DOMAIN lines[p] |-> lines[p][i][f]], DOMAIN lines[p])
         /\ Totals(p)[f] \in Nat
<1> DEFINE g == [i \in DOMAIN lines[p] |-> lines[p][i][f]]
           D == DOMAIN lines[p]
<1>1. Totals(p)[f] = SumFunctionOnSet(g, D)
  BY DEF Totals, SumFunction
<1>2. IsFiniteSet(D) /\ \A i \in D : g[i] \in Nat
  BY LinesFacts
<1> HIDE DEF g, D
<1>3. SumFunctionOnSet(g, D) \in Nat
  BY <1>2, SumNat
<1> QED
  BY <1>1, <1>3 DEF g, D

\* So are the parts of its percentages.
LEMMA SeasonParts ==
  ASSUME TeamStatsAssumption, TypeOK, NEW p \in Players, NEW stat \in Percentages,
         NEW made, made = [i \in DOMAIN lines[p] |-> Made(lines[p][i], stat)],
         NEW tried, tried = [i \in DOMAIN lines[p] |-> Tried(lines[p][i], stat)]
  PROVE  /\ Made(Totals(p), stat) = SumFunctionOnSet(made, DOMAIN lines[p])
         /\ Tried(Totals(p), stat) = SumFunctionOnSet(tried, DOMAIN lines[p])
<1> DEFINE D == DOMAIN lines[p]
           of(f) == [i \in D |-> lines[p][i][f]]
<1>1. IsFiniteSet(D)
  BY LinesFacts
<1>2. \A f \in RawStatFields : \A i \in D : of(f)[i] \in Int /\ of(f)[i] = lines[p][i][f]
  BY LinesFacts
<1>3. \A f \in RawStatFields :
        /\ Totals(p)[f] = SumFunctionOnSet(of(f), D)
        /\ Totals(p)[f] \in Int
  BY TotalsFacts
<1>4. /\ {"points", "fg2_made", "fg2_attempted", "three_made", "three_attempted", "ft_made",
          "ft_attempted"} \subseteq RawStatFields
  BY DEF RawStatFields
<1>5. \A i \in D : made[i] = Made(lines[p][i], stat) /\ tried[i] = Tried(lines[p][i], stat)
  OBVIOUS
<1> HIDE DEF D
<1>6. ASSUME NEW f \in RawStatFields, NEW g, \A i \in D : g[i] = lines[p][i][f]
      PROVE  SumFunctionOnSet(g, D) = Totals(p)[f]
  <2>1. \A i \in D : of(f)[i] \in Int /\ g[i] = of(f)[i]
    BY <1>2, <1>6
  <2> HIDE DEF of
  <2>2. SumFunctionOnSet(g, D) = SumFunctionOnSet(of(f), D)
    BY <1>1, <2>1, SumSame
  <2> QED
    BY <1>3, <2>2
<1>7. CASE stat = "fg_pct"
  <2>1. SumFunctionOnSet(made, D) = Totals(p)["fg2_made"]
    BY <1>4, <1>5, <1>6, <1>7 DEF Made
  <2>2. SumFunctionOnSet(tried, D) = Totals(p)["fg2_attempted"]
    BY <1>4, <1>5, <1>6, <1>7 DEF Tried
  <2> QED
    BY <1>7, <2>1, <2>2 DEF Made, Tried, D
<1>8. CASE stat = "three_pct"
  <2>1. SumFunctionOnSet(made, D) = Totals(p)["three_made"]
    BY <1>4, <1>5, <1>6, <1>8 DEF Made
  <2>2. SumFunctionOnSet(tried, D) = Totals(p)["three_attempted"]
    BY <1>4, <1>5, <1>6, <1>8 DEF Tried
  <2> QED
    BY <1>8, <2>1, <2>2 DEF Made, Tried, D
<1>9. CASE stat = "ft_pct"
  <2>1. SumFunctionOnSet(made, D) = Totals(p)["ft_made"]
    BY <1>4, <1>5, <1>6, <1>9 DEF Made
  <2>2. SumFunctionOnSet(tried, D) = Totals(p)["ft_attempted"]
    BY <1>4, <1>5, <1>6, <1>9 DEF Tried
  <2> QED
    BY <1>9, <2>1, <2>2 DEF Made, Tried, D
<1>10. CASE stat = "ts_pct"
  <2> DEFINE field == of("fg2_attempted")
             three == of("three_attempted")
             free == of("ft_attempted")
             shots == [i \in D |-> field[i] + three[i]]
             shots200 == [i \in D |-> 200 * shots[i]]
             free88 == [i \in D |-> 88 * free[i]]
  <2>1. \A i \in D : /\ field[i] \in Int /\ field[i] = lines[p][i].fg2_attempted
                     /\ three[i] \in Int /\ three[i] = lines[p][i].three_attempted
                     /\ free[i] \in Int /\ free[i] = lines[p][i].ft_attempted
    BY <1>2, <1>4
  <2> HIDE DEF of
  <2>2. \A i \in D : shots[i] \in Int /\ shots[i] = field[i] + three[i]
    BY <2>1
  <2>3. \A i \in D : shots200[i] \in Int /\ shots200[i] = 200 * shots[i]
    BY <2>2
  <2>4. \A i \in D : free88[i] \in Int /\ free88[i] = 88 * free[i]
    BY <2>1
  <2>5. \A i \in D : tried[i] = shots200[i] + free88[i]
    BY <1>5, <1>10, <2>1, <2>2, <2>3, <2>4 DEF Tried
  <2> HIDE DEF field, three, free, shots, shots200, free88
  <2>6. SumFunctionOnSet(tried, D) = SumFunctionOnSet(shots200, D) + SumFunctionOnSet(free88, D)
    <3> DEFINE all == [i \in D |-> shots200[i] + free88[i]]
    <3>1. \A i \in D : all[i] = shots200[i] + free88[i]
      OBVIOUS
    <3> HIDE DEF all
    <3>2. \A i \in D : all[i] \in Int /\ tried[i] = all[i]
      <4> TAKE i \in D
      <4>1. tried[i] = all[i]
        BY <2>5, <3>1
      <4>2. shots200[i] \in Int /\ free88[i] \in Int
        BY <2>3, <2>4
      <4>3. all[i] \in Int
        BY <3>1, <4>2
      <4> QED
        BY <4>1, <4>3
    <3>3. SumFunctionOnSet(all, D) = SumFunctionOnSet(shots200, D) + SumFunctionOnSet(free88, D)
      BY <1>1, <2>3, <2>4, <3>1, SumPlus
    <3>4. SumFunctionOnSet(tried, D) = SumFunctionOnSet(all, D)
      BY <1>1, <3>2, SumSame
    <3> QED
      BY <3>3, <3>4
  <2>7. SumFunctionOnSet(shots200, D) = 200 * SumFunctionOnSet(shots, D)
    BY <1>1, <2>2, <2>3, SumScale
  <2>8. SumFunctionOnSet(shots, D) = SumFunctionOnSet(field, D) + SumFunctionOnSet(three, D)
    BY <1>1, <2>1, <2>2, SumPlus
  <2>9. SumFunctionOnSet(free88, D) = 88 * SumFunctionOnSet(free, D)
    BY <1>1, <2>1, <2>4, SumScale
  <2>10. /\ SumFunctionOnSet(field, D) = Totals(p).fg2_attempted
         /\ SumFunctionOnSet(three, D) = Totals(p).three_attempted
         /\ SumFunctionOnSet(free, D) = Totals(p).ft_attempted
         /\ Totals(p).fg2_attempted \in Int /\ Totals(p).three_attempted \in Int
         /\ Totals(p).ft_attempted \in Int
    BY <1>3, <1>4 DEF field, three, free
  <2>11. Tried(Totals(p), stat) = SumFunctionOnSet(tried, D)
    BY <1>10, <2>6, <2>7, <2>8, <2>9, <2>10 DEF Tried
  <2>12. Made(Totals(p), stat) = SumFunctionOnSet(made, D)
    <3> DEFINE points == of("points")
    <3>1. \A i \in D : points[i] \in Int /\ points[i] = lines[p][i].points
      BY <1>2, <1>4 DEF of
    <3>2. \A i \in D : points[i] \in Int /\ made[i] = 100 * points[i]
      BY <1>5, <1>10, <3>1 DEF Made
    <3>3. SumFunctionOnSet(points, D) = Totals(p).points
      BY <1>3, <1>4
    <3> HIDE DEF points
    <3>4. SumFunctionOnSet(made, D) = 100 * SumFunctionOnSet(points, D)
      BY <1>1, <3>2, SumScale
    <3> QED
      BY <1>10, <3>3, <3>4 DEF Made
  <2> QED
    BY <2>11, <2>12 DEF D
<1> QED
  BY <1>7, <1>8, <1>9, <1>10 DEF Percentages

\* season_averages: a percentage of the totals lies between those of two games.
LEMMA SeasonBetweenGames ==
  ASSUME TeamStatsAssumption, TypeOK
  PROVE  PctBetweenGames
<1> SUFFICES ASSUME NEW p \in Ranked, NEW stat \in Percentages
             PROVE  LET took(l) == CASE stat = "fg_pct" -> l.fg2_attempted > 0
                                     [] stat = "three_pct" -> l.three_attempted > 0
                                     [] stat = "ft_pct" -> l.ft_attempted > 0
                                     [] stat = "ts_pct" ->
                                          l.fg2_attempted + l.three_attempted
                                            + l.ft_attempted > 0
                        games == {l \in Range(lines[p]) : took(l)}
                        season == Average(p, stat)
                    IN games # {} =>
                         /\ \E l \in games : ~Less(season, Pct(l, stat))
                         /\ \E l \in games : ~Less(Pct(l, stat), season)
  BY DEF PctBetweenGames
<1> DEFINE D == DOMAIN lines[p]
           games == {l \in Range(lines[p]) : Tried(l, stat) > 0}
           at == {i \in D : Tried(lines[p][i], stat) > 0}
           made == [i \in D |-> Made(lines[p][i], stat)]
           tried == [i \in D |-> Tried(lines[p][i], stat)]
           m == Made(Totals(p), stat)
           n == Tried(Totals(p), stat)
<1>1. p \in Players
  BY DEF Ranked
<1>2. IsFiniteSet(D) /\ \A i \in D : lines[p][i] \in BoxScores
  BY <1>1, LinesFacts
<1>3. \A i \in D : /\ made[i] \in Nat /\ tried[i] \in Nat
                   /\ tried[i] = 0 => made[i] = 0
  BY <1>2, PartsFacts
<1>4. m = SumFunctionOnSet(made, D) /\ n = SumFunctionOnSet(tried, D)
  BY <1>1, SeasonParts
<1>5. {l \in Range(lines[p]) : CASE stat = "fg_pct" -> l.fg2_attempted > 0
                                 [] stat = "three_pct" -> l.three_attempted > 0
                                 [] stat = "ft_pct" -> l.ft_attempted > 0
                                 [] stat = "ts_pct" -> l.fg2_attempted + l.three_attempted
                                                         + l.ft_attempted > 0} = games
  <2>1. \A l \in Range(lines[p]) : l \in BoxScores
    BY <1>2 DEF Range
  <2> QED
    BY <2>1, PartsFacts
<1>6. SUFFICES ASSUME games # {}
               PROVE  /\ \E l \in games : ~Less(Average(p, stat), Pct(l, stat))
                      /\ \E l \in games : ~Less(Pct(l, stat), Average(p, stat))
  BY <1>5
<1>7. at \in SUBSET D /\ at # {}
  BY <1>6 DEF Range
<1>8. \A i \in at : /\ lines[p][i] \in games
                    /\ made[i] \in Int /\ tried[i] \in Nat /\ tried[i] > 0
                    /\ Pct(lines[p][i], stat) = <<made[i], tried[i]>>
  <2> TAKE i \in at
  <2>1. lines[p][i] \in games /\ tried[i] = Tried(lines[p][i], stat) /\ tried[i] > 0
    BY DEF Range
  <2>2. made[i] = Made(lines[p][i], stat) /\ made[i] \in Nat /\ tried[i] \in Nat
    BY <1>3
  <2>3. Pct(lines[p][i], stat) = Ratio(Made(lines[p][i], stat), Tried(lines[p][i], stat))
    BY PctParts
  <2> HIDE DEF games, made, tried
  <2> QED
    BY <2>1, <2>2, <2>3 DEF Ratio
<1>9. \A i \in D \ at : made[i] = 0 /\ tried[i] = 0
  BY <1>3
<1> HIDE DEF games, at, made, tried, D, m, n
<1>10. m \in Int /\ n \in Nat /\ n > 0
  <2>1. PICK i \in at : TRUE
    BY <1>7
  <2> DEFINE zero == [j \in D |-> 0]
  <2>2. \A j \in D : zero[j] \in Int /\ tried[j] \in Int /\ zero[j] <= tried[j]
                       /\ zero[j] = 0 * tried[j]
    BY <1>3
  <2>3. zero[i] < tried[i] /\ i \in D
    BY <1>7, <1>8, <2>1
  <2> HIDE DEF zero
  <2>4. SumFunctionOnSet(zero, D) < SumFunctionOnSet(tried, D)
    BY <1>2, <2>2, <2>3, SumStrict
  <2>5. SumFunctionOnSet(zero, D) = 0 * SumFunctionOnSet(tried, D)
    BY <1>2, <2>2, SumScale
  <2>6. SumFunctionOnSet(tried, D) \in Nat /\ SumFunctionOnSet(made, D) \in Nat
    BY <1>2, <1>3, SumNat
  <2> QED
    BY <1>4, <2>4, <2>5, <2>6
<1>11. Average(p, stat) = <<m, n>>
  <2>1. Average(p, stat) = Ratio(m, n)
    BY PctParts DEF Average, m, n
  <2> QED
    BY <1>10, <2>1 DEF Ratio
<1>12. /\ \E i \in at : made[i] * n <= m * tried[i]
       /\ \E i \in at : made[i] * n >= m * tried[i]
  BY <1>2, <1>3, <1>4, <1>7, <1>9, SumMediant
<1>13. \A a, b \in Int : a * b \in Int
  OBVIOUS
<1>14. \A i \in at : made[i] * n \in Int /\ m * tried[i] \in Int
  BY <1>8, <1>10, <1>13
<1>15. \A i \in at : /\ Less(Average(p, stat), Pct(lines[p][i], stat)) <=> m * tried[i] < made[i] * n
                     /\ Less(Pct(lines[p][i], stat), Average(p, stat)) <=> made[i] * n < m * tried[i]
  BY <1>8, <1>11 DEF Less
<1> QED
  BY <1>8, <1>12, <1>14, <1>15

-----------------------------------------------------------------------------
(* Standings: a strict order with ties, which the place in the list breaks. *)

ShownStats == RelevantStats \cup DefaultRankStats

\* The stats of every archetype are among those a season has.
LEMMA StatsKnown ==
  /\ ShownStats \subseteq Percentages \cup RawStatFields
  /\ DefaultRankStats \cap LowerIsBetter = {}
<1>1. \A a \in Archetypes : StatsOf(a) \subseteq Percentages \cup RawStatFields
  BY DEF Archetypes, StatsOf, ArchetypeWeights, Percentages, RawStatFields
<1>2. DefaultRankStats \subseteq Percentages \cup RawStatFields
  BY DEF DefaultRankStats, Percentages, RawStatFields
<1>3. DefaultRankStats \cap LowerIsBetter = {}
  BY DEF DefaultRankStats, LowerIsBetter
<1> QED
  BY <1>1, <1>2, <1>3 DEF ShownStats, RelevantStats

\* An average is a fraction with a positive denominator.
LEMMA AverageIsFraction ==
  ASSUME TeamStatsAssumption, TypeOK, NEW p \in Ranked, NEW stat \in ShownStats
  PROVE  /\ Average(p, stat) = <<Average(p, stat)[1], Average(p, stat)[2]>>
         /\ Average(p, stat)[1] \in Nat
         /\ Average(p, stat)[2] \in Nat /\ Average(p, stat)[2] > 0
<1>1. p \in Players /\ lines[p] # <<>>
  BY DEF Ranked
<1>2. \A a, b \in Nat : /\ Ratio(a, b) = <<Ratio(a, b)[1], Ratio(a, b)[2]>>
                        /\ Ratio(a, b)[1] \in Nat
                        /\ Ratio(a, b)[2] \in Nat /\ Ratio(a, b)[2] > 0
  BY DEF Ratio
<1>3. \A f \in RawStatFields : Totals(p)[f] \in Nat
  BY <1>1, TotalsFacts
<1>4. CASE stat \in Percentages
  <2>1. /\ Totals(p).points \in Nat /\ Totals(p).fg2_made \in Nat
        /\ Totals(p).fg2_attempted \in Nat /\ Totals(p).three_made \in Nat
        /\ Totals(p).three_attempted \in Nat /\ Totals(p).ft_made \in Nat
        /\ Totals(p).ft_attempted \in Nat
    BY <1>3 DEF RawStatFields
  <2>2. Made(Totals(p), stat) \in Nat /\ Tried(Totals(p), stat) \in Nat
    BY <1>4, <2>1 DEF Made, Tried, Percentages
  <2>3. Average(p, stat) = Ratio(Made(Totals(p), stat), Tried(Totals(p), stat))
    BY <1>4, PctParts DEF Average
  <2> QED
    BY <1>2, <2>2, <2>3
<1>5. CASE stat \notin Percentages
  <2>1. stat \in RawStatFields
    BY <1>5, StatsKnown
  <2>2. Average(p, stat) = Ratio(Totals(p)[stat], Len(lines[p]))
    BY <1>5 DEF Average
  <2>3. Totals(p)[stat] \in Nat /\ Len(lines[p]) \in Nat
    BY <1>1, <1>3, <2>1, LinesFacts
  <2> QED
    BY <1>2, <2>2, <2>3
<1> QED
  BY <1>4, <1>5

\* Fractions are ordered.
LEMMA FractionOrder ==
  ASSUME NEW a \in Nat, NEW b \in Nat, b > 0, NEW c \in Nat, NEW d \in Nat, d > 0,
         NEW e \in Nat, NEW f \in Nat, f > 0
  PROVE  /\ ~(a * b < a * b)
         /\ a * d < c * b => ~(c * b < a * d)
         /\ a * d <= c * b /\ c * f <= e * d => a * f <= e * b
         /\ a * d < c * b /\ c * f <= e * d => a * f < e * b
         /\ a * d <= c * b /\ c * f < e * d => a * f < e * b
<1>1. /\ a * d \in Nat /\ c * b \in Nat /\ c * f \in Nat /\ e * d \in Nat
      /\ a * f \in Nat /\ e * b \in Nat /\ a * b \in Nat
  OBVIOUS
<1>2. \A x, y, z \in Nat : z > 0 => (x <= y <=> x * z <= y * z) /\ (x < y <=> x * z < y * z)
  OBVIOUS
<1>3. /\ (a * d) * f = (a * f) * d /\ (c * b) * f = (c * f) * b /\ (e * d) * b = (e * b) * d
  OBVIOUS
<1>4. /\ (a * d) * f \in Nat /\ (c * b) * f \in Nat /\ (e * d) * b \in Nat
  BY <1>1
<1>5. ASSUME a * d <= c * b, c * f <= e * d PROVE a * f <= e * b
  <2>1. (a * d) * f <= (c * b) * f /\ (c * f) * b <= (e * d) * b
    BY <1>1, <1>2, <1>5
  <2>2. (a * f) * d <= (e * b) * d
    BY <1>3, <1>4, <2>1
  <2> QED
    BY <1>1, <1>2, <2>2
<1>6. ASSUME a * d < c * b, c * f <= e * d PROVE a * f < e * b
  <2>1. (a * d) * f < (c * b) * f /\ (c * f) * b <= (e * d) * b
    BY <1>1, <1>2, <1>6
  <2>2. (a * f) * d < (e * b) * d
    BY <1>3, <1>4, <2>1
  <2> QED
    BY <1>1, <1>2, <2>2
<1>7. ASSUME a * d <= c * b, c * f < e * d PROVE a * f < e * b
  <2>1. (a * d) * f <= (c * b) * f /\ (c * f) * b < (e * d) * b
    BY <1>1, <1>2, <1>7
  <2>2. (a * f) * d < (e * b) * d
    BY <1>3, <1>4, <2>1
  <2> QED
    BY <1>1, <1>2, <2>2
<1> QED
  BY <1>1, <1>5, <1>6, <1>7

\* Who is above whom in a standing: nobody above himself, and of any three, if one
\* is above another, the third is below the one or above the other.
Orderly(standing, stat) ==
  \A p, q, r \in Ranked :
    /\ <<stat, p, p>> \notin standing
    /\ <<stat, p, q>> \in standing /\ <<stat, q, r>> \in standing => <<stat, p, r>> \in standing
    /\ <<stat, p, q>> \in standing => <<stat, p, r>> \in standing \/ <<stat, r, q>> \in standing

\* Who has the higher average.
LEMMA ExactFacts ==
  /\ \A stat, p, q : <<stat, p, q>> \in ExactLeads <=>
       /\ stat \in ShownStats /\ p \in Ranked /\ q \in Ranked
       /\ Less(Average(q, stat), Average(p, stat))
  /\ \A x \in ExactLeads : x = <<x[1], x[2], x[3]>>
<1> DEFINE of(s) == LET average == {<<p, Average(p, s)>> : p \in Ranked}
                    IN {<<s, x[1][1], x[2][1]>> :
                          x \in {y \in average \X average : Less(y[2][2], y[1][2])}}
<1>1. ExactLeads = UNION {of(s) : s \in ShownStats}
  BY DEF ExactLeads, ShownStats
<1>2. \A s : of(s) = {<<s, x[1][1], x[2][1]>> :
                        x \in {y \in {<<p, Average(p, s)>> : p \in Ranked}
                                       \X {<<p, Average(p, s)>> : p \in Ranked} :
                                 Less(y[2][2], y[1][2])}}
  OBVIOUS
<1>3. ASSUME NEW s, NEW x \in of(s)
      PROVE  \E p, q \in Ranked : x = <<s, p, q>> /\ Less(Average(q, s), Average(p, s))
  OBVIOUS
<1>4. ASSUME NEW s, NEW p \in Ranked, NEW q \in Ranked, Less(Average(q, s), Average(p, s))
      PROVE  <<s, p, q>> \in of(s)
  <2> DEFINE y == <<<<p, Average(p, s)>>, <<q, Average(q, s)>>>>
             average == {<<r, Average(r, s)>> : r \in Ranked}
  <2>1. y \in average \X average /\ Less(y[2][2], y[1][2])
    BY <1>4
  <2>2. <<s, p, q>> = <<s, y[1][1], y[2][1]>>
    OBVIOUS
  <2>3. of(s) = {<<s, x[1][1], x[2][1]>> :
                   x \in {z \in average \X average : Less(z[2][2], z[1][2])}}
    OBVIOUS
  <2> HIDE DEF y, average, of
  <2> QED
    BY <2>1, <2>2, <2>3
<1> HIDE DEF of
<1>5. ASSUME NEW x \in ExactLeads
      PROVE  \E s \in ShownStats : \E p, q \in Ranked :
               x = <<s, p, q>> /\ Less(Average(q, s), Average(p, s))
  <2>1. PICK s \in ShownStats : x \in of(s)
    BY <1>1
  <2> QED
    BY <1>3, <2>1
<1>6. ASSUME NEW s \in ShownStats, NEW p \in Ranked, NEW q \in Ranked,
             Less(Average(q, s), Average(p, s))
      PROVE  <<s, p, q>> \in ExactLeads
  BY <1>1, <1>4, <1>6
<1> QED
  BY <1>5, <1>6

\* Who has the higher float for the same fraction.
LEMMA RoundedFacts ==
  ASSUME NEW e
  PROVE  /\ \A stat, p, q : <<stat, p, q>> \in RoundedLeads(e) <=>
              /\ stat = "ts_pct" /\ p \in Ranked /\ q \in Ranked
              /\ ~Less(Average(p, stat), Average(q, stat))
              /\ ~Less(Average(q, stat), Average(p, stat))
              /\ e[q] < e[p]
         /\ \A x \in RoundedLeads(e) : x = <<x[1], x[2], x[3]>>
<1> DEFINE even == {y \in Ranked \X Ranked :
                      /\ ~Less(Average(y[1], "ts_pct"), Average(y[2], "ts_pct"))
                      /\ ~Less(Average(y[2], "ts_pct"), Average(y[1], "ts_pct"))
                      /\ e[y[2]] < e[y[1]]}
<1>1. RoundedLeads(e) = {<<"ts_pct", x[1], x[2]>> : x \in even}
  BY DEF RoundedLeads
<1>2. \A p, q : <<p, q>> \in even <=>
        /\ p \in Ranked /\ q \in Ranked
        /\ ~Less(Average(p, "ts_pct"), Average(q, "ts_pct"))
        /\ ~Less(Average(q, "ts_pct"), Average(p, "ts_pct"))
        /\ e[q] < e[p]
  OBVIOUS
<1>3. \A x \in even : x = <<x[1], x[2]>>
  OBVIOUS
<1> HIDE DEF even
<1>4. \A stat, p, q : <<stat, p, q>> \in RoundedLeads(e) <=>
        stat = "ts_pct" /\ <<p, q>> \in even
  <2> TAKE stat, p, q
  <2>1. ASSUME <<stat, p, q>> \in RoundedLeads(e) PROVE stat = "ts_pct" /\ <<p, q>> \in even
    <3>1. PICK x \in even : <<stat, p, q>> = <<"ts_pct", x[1], x[2]>>
      BY <1>1, <2>1
    <3> QED
      BY <1>3, <3>1
  <2>2. ASSUME stat = "ts_pct", <<p, q>> \in even PROVE <<stat, p, q>> \in RoundedLeads(e)
    <3> DEFINE x == <<p, q>>
    <3>1. x \in even /\ x[1] = p /\ x[2] = q
      BY <2>2
    <3> HIDE DEF x
    <3> QED
      BY <1>1, <2>2, <3>1
  <2> QED
    BY <2>1, <2>2
<1>5. \A x \in RoundedLeads(e) : x = <<x[1], x[2], x[3]>>
  BY <1>1
<1> QED
  BY <1>2, <1>4, <1>5

\* What is in a standing: the higher average, and of equal true shooting the
\* higher float.
LEMMA LeadsFacts ==
  ASSUME TeamStatsAssumption, NEW leads \in Standings
  PROVE  /\ \E e \in [Ranked -> Nat] : \A stat, p, q : <<stat, p, q>> \in leads <=>
              /\ stat \in ShownStats /\ p \in Ranked /\ q \in Ranked
              /\ \/ Less(Average(q, stat), Average(p, stat))
                 \/ /\ stat = "ts_pct"
                    /\ ~Less(Average(p, stat), Average(q, stat))
                    /\ e[q] < e[p]
         /\ \A x \in leads : x = <<x[1], x[2], x[3]>>
<1>1. PICK e \in Roundings : leads = ExactLeads \cup RoundedLeads(e)
  BY DEF Standings
<1>2. e \in [Ranked -> Nat]
  <2>1. Cardinality(Ranked) \in Nat
    BY FS_Subset, FS_CardinalityType DEF Ranked, TeamStatsAssumption
  <2>2. e \in [Ranked -> 1 .. Cardinality(Ranked)]
    BY DEF Roundings
  <2>3. 1 .. Cardinality(Ranked) \subseteq Nat
    BY <2>1
  <2> HIDE DEF Ranked
  <2> QED
    BY <2>2, <2>3
<1>3. "ts_pct" \in ShownStats
  <2>1. "ts_pct" \in StatsOf("efficient_scorer") /\ "efficient_scorer" \in Archetypes
    BY DEF StatsOf, Archetypes, ArchetypeWeights
  <2> QED
    BY <2>1 DEF ShownStats, RelevantStats
<1>4. \A stat, p, q : <<stat, p, q>> \in leads <=>
        /\ stat \in ShownStats /\ p \in Ranked /\ q \in Ranked
        /\ \/ Less(Average(q, stat), Average(p, stat))
           \/ /\ stat = "ts_pct"
              /\ ~Less(Average(p, stat), Average(q, stat))
              /\ e[q] < e[p]
  <2> TAKE stat, p, q
  <2>1. <<stat, p, q>> \in ExactLeads <=>
          /\ stat \in ShownStats /\ p \in Ranked /\ q \in Ranked
          /\ Less(Average(q, stat), Average(p, stat))
    BY ExactFacts
  <2>2. <<stat, p, q>> \in RoundedLeads(e) <=>
          /\ stat = "ts_pct" /\ p \in Ranked /\ q \in Ranked
          /\ ~Less(Average(p, stat), Average(q, stat))
          /\ ~Less(Average(q, stat), Average(p, stat))
          /\ e[q] < e[p]
    BY RoundedFacts
  <2> QED
    BY <1>1, <1>3, <2>1, <2>2
<1>5. \A x \in leads : x = <<x[1], x[2], x[3]>>
  BY <1>1, ExactFacts, RoundedFacts
<1> QED
  BY <1>2, <1>4, <1>5

\* Where fewer is better, fewer is above; else the standings are the same.
LEMMA BetterFacts ==
  ASSUME TeamStatsAssumption, NEW leads \in Standings
  PROVE  \A stat, p, q : <<stat, p, q>> \in Better(leads) <=>
           IF stat \in LowerIsBetter THEN <<stat, q, p>> \in leads
           ELSE <<stat, p, q>> \in leads
<1> SUFFICES ASSUME NEW stat, NEW p, NEW q
             PROVE  <<stat, p, q>> \in Better(leads) <=>
                      IF stat \in LowerIsBetter THEN <<stat, q, p>> \in leads
                      ELSE <<stat, p, q>> \in leads
  OBVIOUS
<1>1. <<stat, p, q>> \in Better(leads) <=>
        \E x \in leads : <<stat, p, q>> = IF x[1] \in LowerIsBetter THEN <<x[1], x[3], x[2]>>
                                          ELSE x
  BY DEF Better
<1>2. \A x \in leads : x = <<x[1], x[2], x[3]>>
  BY LeadsFacts
<1>3. CASE stat \in LowerIsBetter
  <2>1. ASSUME NEW x \in leads, <<stat, p, q>> = IF x[1] \in LowerIsBetter
                                                 THEN <<x[1], x[3], x[2]>> ELSE x
        PROVE  <<stat, q, p>> \in leads
    <3>1. x[1] = stat /\ x[3] = p /\ x[2] = q
      BY <1>2, <1>3, <2>1
    <3> QED
      BY <1>2, <3>1
  <2> QED
    BY <1>1, <1>3, <2>1
<1>4. CASE stat \notin LowerIsBetter
  BY <1>1, <1>2, <1>4
<1> QED
  BY <1>3, <1>4

\* Both standings are orderly.
LEMMA StandingsOrderly ==
  ASSUME TeamStatsAssumption, TypeOK, NEW leads \in Standings, NEW stat \in ShownStats
  PROVE  Orderly(leads, stat) /\ Orderly(Better(leads), stat)
<1>1. Orderly(leads, stat)
  <2> SUFFICES ASSUME NEW p \in Ranked, NEW q \in Ranked, NEW r \in Ranked
               PROVE  /\ <<stat, p, p>> \notin leads
                      /\ <<stat, p, q>> \in leads /\ <<stat, q, r>> \in leads
                           => <<stat, p, r>> \in leads
                      /\ <<stat, p, q>> \in leads
                           => <<stat, p, r>> \in leads \/ <<stat, r, q>> \in leads
    BY DEF Orderly
  <2> DEFINE v(x) == Average(x, stat)
             higher(x, y) == Less(v(y), v(x))
  <2>1. \A x \in {p, q, r} : v(x)[1] \in Nat /\ v(x)[2] \in Nat /\ v(x)[2] > 0
    BY AverageIsFraction
  <2>2. \A x, y \in {p, q, r} : higher(x, y) <=> v(y)[1] * v(x)[2] < v(x)[1] * v(y)[2]
    BY DEF Less
  <2>3. \A x, y, z \in {p, q, r} :
          /\ ~(v(x)[1] * v(x)[2] < v(x)[1] * v(x)[2])
          /\ v(x)[1] * v(y)[2] <= v(y)[1] * v(x)[2] /\ v(y)[1] * v(z)[2] <= v(z)[1] * v(y)[2]
               => v(x)[1] * v(z)[2] <= v(z)[1] * v(x)[2]
          /\ v(x)[1] * v(y)[2] < v(y)[1] * v(x)[2] /\ v(y)[1] * v(z)[2] <= v(z)[1] * v(y)[2]
               => v(x)[1] * v(z)[2] < v(z)[1] * v(x)[2]
    <3> HIDE DEF v
    <3> TAKE x, y, z \in {p, q, r}
    <3>1. /\ v(x)[1] \in Nat /\ v(x)[2] \in Nat /\ v(x)[2] > 0
          /\ v(y)[1] \in Nat /\ v(y)[2] \in Nat /\ v(y)[2] > 0
          /\ v(z)[1] \in Nat /\ v(z)[2] \in Nat /\ v(z)[2] > 0
      BY <2>1
    <3> QED
      BY <3>1, FractionOrder
  <2>4. \A x, y \in {p, q, r} : v(x)[1] * v(y)[2] \in Nat
    <3> HIDE DEF v
    <3>1. \A a, b \in Nat : a * b \in Nat
      OBVIOUS
    <3> QED
      BY <2>1, <3>1
  <2> HIDE DEF v, higher
  <2>5. \A x, y, z \in {p, q, r} :
          /\ ~higher(x, x)
          /\ higher(x, y) => ~higher(y, x)
          /\ higher(x, y) /\ higher(y, z) => higher(x, z)
          /\ higher(x, y) => higher(x, z) \/ higher(z, y)
    <3> TAKE x, y, z \in {p, q, r}
    <3>1. ~higher(x, x) /\ (higher(x, y) => ~higher(y, x))
      BY <2>2, <2>3, <2>4
    <3>2. higher(x, y) /\ higher(y, z) => higher(x, z)
      BY <2>2, <2>3, <2>4
    <3>3. higher(x, y) => higher(x, z) \/ higher(z, y)
      BY <2>2, <2>3, <2>4
    <3> QED
      BY <3>1, <3>2, <3>3
  <2>6. PICK e \in [Ranked -> Nat] : \A x, y \in {p, q, r} :
          <<stat, x, y>> \in leads <=>
            higher(x, y) \/ (stat = "ts_pct" /\ ~higher(y, x) /\ e[y] < e[x])
    <3>1. PICK e \in [Ranked -> Nat] : \A s, x, y : <<s, x, y>> \in leads <=>
            /\ s \in ShownStats /\ x \in Ranked /\ y \in Ranked
            /\ \/ Less(Average(y, s), Average(x, s))
               \/ s = "ts_pct" /\ ~Less(Average(x, s), Average(y, s)) /\ e[y] < e[x]
      BY LeadsFacts
    <3> QED
      BY <3>1 DEF higher, v
  <2>7. e[p] \in Nat /\ e[q] \in Nat /\ e[r] \in Nat
    OBVIOUS
  <2>8. <<stat, p, p>> \notin leads
    BY <2>5, <2>6, <2>7
  <2>9. <<stat, p, q>> \in leads /\ <<stat, q, r>> \in leads => <<stat, p, r>> \in leads
    BY <2>5, <2>6, <2>7
  <2>10. <<stat, p, q>> \in leads => <<stat, p, r>> \in leads \/ <<stat, r, q>> \in leads
    BY <2>5, <2>6, <2>7
  <2> QED
    BY <2>8, <2>9, <2>10
<1>2. Orderly(Better(leads), stat)
  <2>1. CASE stat \in LowerIsBetter
    <3>1. \A p, q \in Ranked : <<stat, p, q>> \in Better(leads) <=> <<stat, q, p>> \in leads
      BY <2>1, BetterFacts
    <3> QED
      BY <1>1, <3>1 DEF Orderly
  <2>2. CASE stat \notin LowerIsBetter
    <3>1. \A p, q \in Ranked : <<stat, p, q>> \in Better(leads) <=> <<stat, p, q>> \in leads
      BY <2>2, BetterFacts
    <3> QED
      BY <1>1, <3>1 DEF Orderly
  <2> QED
    BY <2>1, <2>2
<1> QED
  BY <1>1, <1>2

-----------------------------------------------------------------------------
(* Places.                                                                 *)

Above(standing, order, stat, i, j) ==
  \/ <<stat, order[i], order[j]>> \in standing
  \/ i < j /\ <<stat, order[j], order[i]>> \notin standing

AboveIt(standing, order, stat, j) ==
  {i \in DOMAIN order : Above(standing, order, stat, i, j)}

\* An order of the list names every ranked player once.
LEMMA OrderOfTeam ==
  ASSUME TeamStatsAssumption, NEW order \in Orders
  PROVE  /\ IsFiniteSet(Ranked) /\ Cardinality(Ranked) \in Nat
         /\ DOMAIN order = 1 .. Cardinality(Ranked)
         /\ Len(order) = Cardinality(Ranked)
         /\ IsFiniteSet(DOMAIN order) /\ Cardinality(DOMAIN order) = Cardinality(Ranked)
         /\ \A i \in DOMAIN order : order[i] \in Ranked
         /\ \A i, j \in DOMAIN order : order[i] = order[j] => i = j
         /\ \A p \in Ranked : \E i \in DOMAIN order : order[i] = p
<1> DEFINE n == Cardinality(Ranked)
<1>1. IsFiniteSet(Ranked) /\ n \in Nat
  BY FS_Subset, FS_CardinalityType DEF Ranked, TeamStatsAssumption
<1>2. order \in [1 .. n -> Ranked] /\ \A i, j \in 1 .. n : i # j => order[i] # order[j]
  BY DEF Orders, SetToSeqs
<1>3. IsFiniteSet(1 .. n) /\ Cardinality(1 .. n) = n
  <2> HIDE DEF n
  <2> QED
    BY <1>1, FS_Interval
<1> HIDE DEF n
<1>4. order \in Injection(1 .. n, Ranked)
  BY <1>2 DEF Injection, IsInjective
<1>5. order \in Surjection(1 .. n, Ranked)
  BY <1>1, <1>3, <1>4, FS_Injection DEF n
<1>6. \A p \in Ranked : \E i \in 1 .. n : order[i] = p
  BY <1>5 DEF Surjection
<1>7. Len(order) = n
  BY <1>1, <1>2
<1> QED
  BY <1>1, <1>2, <1>3, <1>6, <1>7 DEF n

\* The place of the player listed at j is one more than how many are above.
LEMMA PlaceIs ==
  ASSUME TeamStatsAssumption, NEW order \in Orders, NEW standing, NEW stat,
         NEW j \in DOMAIN order
  PROVE  Place(standing, order, order[j], stat)
           = 1 + Cardinality(AboveIt(standing, order, stat, j))
<1> DEFINE at == CHOOSE i \in DOMAIN order : order[i] = order[j]
<1>1. at = j
  BY OrderOfTeam
<1>2. {i \in DOMAIN order :
         \/ <<stat, order[i], order[j]>> \in standing
         \/ i < at /\ <<stat, order[j], order[i]>> \notin standing}
        = AboveIt(standing, order, stat, j)
  BY <1>1 DEF AboveIt, Above
<1> QED
  BY <1>2 DEF Place

\* Of two players one is above the other, and only one; and so on down the list.
LEMMA AboveIsOrder ==
  ASSUME TeamStatsAssumption, NEW order \in Orders, NEW standing, NEW stat,
         Orderly(standing, stat)
  PROVE  \A i, j, k \in DOMAIN order :
           /\ ~Above(standing, order, stat, i, i)
           /\ i # j => Above(standing, order, stat, i, j) \/ Above(standing, order, stat, j, i)
           /\ Above(standing, order, stat, i, j) /\ Above(standing, order, stat, j, k)
                => Above(standing, order, stat, i, k)
<1> SUFFICES ASSUME NEW i \in DOMAIN order, NEW j \in DOMAIN order, NEW k \in DOMAIN order
             PROVE  /\ ~Above(standing, order, stat, i, i)
                    /\ i # j => Above(standing, order, stat, i, j)
                                  \/ Above(standing, order, stat, j, i)
                    /\ Above(standing, order, stat, i, j) /\ Above(standing, order, stat, j, k)
                         => Above(standing, order, stat, i, k)
  OBVIOUS
<1> DEFINE W(x, y) == <<stat, order[x], order[y]>> \in standing
<1>1. i \in Nat /\ j \in Nat /\ k \in Nat
  BY OrderOfTeam
<1>2. order[i] \in Ranked /\ order[j] \in Ranked /\ order[k] \in Ranked
  BY OrderOfTeam
<1>3. \A x, y, z \in {i, j, k} : /\ ~W(x, x)
                                 /\ W(x, y) /\ W(y, z) => W(x, z)
                                 /\ W(x, y) => W(x, z) \/ W(z, y)
  BY <1>2 DEF Orderly
<1>4. \A x, y \in {i, j, k} :
        Above(standing, order, stat, x, y) <=> W(x, y) \/ (x < y /\ ~W(y, x))
  BY DEF Above
<1> HIDE DEF W
<1> QED
  BY <1>1, <1>3, <1>4

\* Places follow the order, and each is taken once.
LEMMA PlaceFacts ==
  ASSUME TeamStatsAssumption, NEW order \in Orders, NEW standing, NEW stat,
         Orderly(standing, stat)
  PROVE  LET n == Cardinality(Ranked)
             place(i) == Place(standing, order, order[i], stat)
         IN /\ \A i \in DOMAIN order : place(i) \in 1 .. n
            /\ \A i, j \in DOMAIN order :
                 Above(standing, order, stat, i, j) => place(i) < place(j)
            /\ \A i, j \in DOMAIN order : place(i) = place(j) => i = j
            /\ \A m \in 1 .. n : \E i \in DOMAIN order : place(i) = m
<1> DEFINE n == Cardinality(Ranked)
           D == DOMAIN order
           above(i) == AboveIt(standing, order, stat, i)
           place(i) == Place(standing, order, order[i], stat)
           rank == [i \in D |-> place(i)]
           R(i, j) == Above(standing, order, stat, i, j)
<1>1. D = 1 .. n /\ n \in Nat /\ IsFiniteSet(D) /\ Cardinality(D) = n
  BY OrderOfTeam
<1>2. \A i, j, k \in D : /\ ~R(i, i)
                         /\ i # j => R(i, j) \/ R(j, i)
                         /\ R(i, j) /\ R(j, k) => R(i, k)
  BY AboveIsOrder
<1>3. \A i \in D : above(i) = {j \in D : R(j, i)}
  BY DEF AboveIt
<1>4. \A i \in D : place(i) = 1 + Cardinality(above(i))
  BY PlaceIs
<1> HIDE DEF n, D, R, place, above
<1>5. \A i \in D : /\ above(i) \in SUBSET D /\ i \notin above(i)
                   /\ IsFiniteSet(above(i)) /\ Cardinality(above(i)) \in Nat
                   /\ Cardinality(above(i) \cup {i}) = place(i)
  <2> TAKE i \in D
  <2>1. above(i) \in SUBSET D /\ i \notin above(i)
    BY <1>2, <1>3
  <2>2. IsFiniteSet(above(i)) /\ Cardinality(above(i)) \in Nat
    BY <1>1, <2>1, FS_Subset, FS_CardinalityType
  <2>3. Cardinality(above(i) \cup {i}) = Cardinality(above(i)) + 1
    BY <2>1, <2>2, FS_AddElement
  <2> QED
    BY <1>4, <2>1, <2>2, <2>3
<1>6. ASSUME NEW i \in D PROVE place(i) \in 1 .. n
  <2>1. above(i) \cup {i} \in SUBSET D
    BY <1>5
  <2>2. Cardinality(above(i) \cup {i}) <= n
    BY <1>1, <2>1, FS_Subset
  <2>3. Cardinality(above(i)) \in Nat /\ place(i) = 1 + Cardinality(above(i))
    BY <1>4, <1>5
  <2> QED
    BY <1>1, <1>5, <2>2, <2>3
<1>7. ASSUME NEW i \in D, NEW j \in D, R(i, j) PROVE place(i) < place(j)
  <2>1. above(i) \cup {i} \in SUBSET above(j)
    BY <1>2, <1>3, <1>7
  <2>2. Cardinality(above(i) \cup {i}) <= Cardinality(above(j))
    BY <1>5, <2>1, FS_Subset
  <2>3. place(i) <= Cardinality(above(j)) /\ place(j) = 1 + Cardinality(above(j))
    BY <1>4, <1>5, <2>2
  <2>4. Cardinality(above(j)) \in Nat
    BY <1>5
  <2>5. place(i) \in Nat
    BY <1>1, <1>6
  <2> QED
    BY <2>3, <2>4, <2>5
<1>8. ASSUME NEW i \in D, NEW j \in D, place(i) = place(j) PROVE i = j
  <2>1. place(i) \in Int /\ place(j) \in Int
    BY <1>1, <1>6
  <2>2. ~R(i, j) /\ ~R(j, i)
    BY <1>7, <1>8, <2>1
  <2> QED
    BY <1>2, <2>2
<1>9. rank \in Injection(D, 1 .. n)
  <2>1. rank \in [D -> 1 .. n] /\ \A i, j \in D : rank[i] = rank[j] => i = j
    BY <1>6, <1>8
  <2> HIDE DEF rank
  <2> QED
    BY <2>1 DEF Injection, IsInjective
<1>10. rank \in Surjection(D, 1 .. n)
  <2> HIDE DEF rank
  <2>1. IsFiniteSet(1 .. n) /\ Cardinality(1 .. n) = Cardinality(D)
    BY <1>1, FS_Interval
  <2> QED
    BY <1>9, <2>1, FS_Injection
<1>11. \A m \in 1 .. n : \E i \in D : place(i) = m
  <2>1. \A m \in 1 .. n : \E i \in D : rank[i] = m
    <3> HIDE DEF rank
    <3> QED
      BY <1>10 DEF Surjection
  <2> QED
    BY <2>1
<1> QED
  BY <1>6, <1>7, <1>8, <1>11 DEF n, D, R, place

\* The same, player by player.
LEMMA PlayerPlaces ==
  ASSUME TeamStatsAssumption, NEW order \in Orders, NEW standing, NEW stat,
         Orderly(standing, stat)
  PROVE  /\ \A p \in Ranked : Place(standing, order, p, stat) \in 1 .. Cardinality(Ranked)
         /\ \A p, q \in Ranked : <<stat, p, q>> \in standing =>
              Place(standing, order, p, stat) < Place(standing, order, q, stat)
         /\ \A m \in 1 .. Cardinality(Ranked) :
              \E p \in Ranked : Place(standing, order, p, stat) = m
<1>1. /\ \A p \in Ranked : \E i \in DOMAIN order : order[i] = p
      /\ \A i \in DOMAIN order : order[i] \in Ranked
  BY OrderOfTeam
<1>2. /\ \A i \in DOMAIN order :
           Place(standing, order, order[i], stat) \in 1 .. Cardinality(Ranked)
      /\ \A i, j \in DOMAIN order : Above(standing, order, stat, i, j) =>
           Place(standing, order, order[i], stat) < Place(standing, order, order[j], stat)
      /\ \A m \in 1 .. Cardinality(Ranked) :
           \E i \in DOMAIN order : Place(standing, order, order[i], stat) = m
  BY PlaceFacts
<1>3. \A p \in Ranked : Place(standing, order, p, stat) \in 1 .. Cardinality(Ranked)
  BY <1>1, <1>2
<1>4. ASSUME NEW p \in Ranked, NEW q \in Ranked, <<stat, p, q>> \in standing
      PROVE  Place(standing, order, p, stat) < Place(standing, order, q, stat)
  <2>1. PICK i \in DOMAIN order : order[i] = p
    BY <1>1
  <2>2. PICK j \in DOMAIN order : order[j] = q
    BY <1>1
  <2>3. Above(standing, order, stat, i, j)
    BY <1>4, <2>1, <2>2 DEF Above
  <2> QED
    BY <1>2, <2>1, <2>2, <2>3
<1>5. \A m \in 1 .. Cardinality(Ranked) :
        \E p \in Ranked : Place(standing, order, p, stat) = m
  BY <1>1, <1>2
<1> QED
  BY <1>3, <1>4, <1>5

\* team_ranks: every rank is given once, a better average before a worse one.
LEMMA FairRanks ==
  ASSUME TeamStatsAssumption, TypeOK
  PROVE  RanksFair
<1> SUFFICES ASSUME NEW leads \in Standings, NEW order \in Orders, NEW stat \in DefaultRankStats
             PROVE  LET rank == [p \in Ranked |-> Place(leads, order, p, stat)]
                    IN /\ Range(rank) = 1 .. Cardinality(Ranked)
                       /\ \A p, q \in Ranked :
                            Less(Average(q, stat), Average(p, stat)) => rank[p] < rank[q]
  BY DEF RanksFair
<1>1. stat \in ShownStats
  BY DEF ShownStats
<1>2. Orderly(leads, stat)
  BY <1>1, StandingsOrderly
<1> DEFINE place(p) == Place(leads, order, p, stat)
           rank == [p \in Ranked |-> place(p)]
<1>3. /\ \A p \in Ranked : place(p) \in 1 .. Cardinality(Ranked)
      /\ \A p, q \in Ranked : <<stat, p, q>> \in leads => place(p) < place(q)
      /\ \A m \in 1 .. Cardinality(Ranked) : \E p \in Ranked : place(p) = m
  BY <1>2, PlayerPlaces
<1> HIDE DEF place
<1>4. Range(rank) = 1 .. Cardinality(Ranked)
  BY <1>3 DEF Range
<1>5. \A p, q \in Ranked : Less(Average(q, stat), Average(p, stat)) => <<stat, p, q>> \in leads
  BY <1>1, LeadsFacts
<1>6. \A p, q \in Ranked : Less(Average(q, stat), Average(p, stat)) => rank[p] < rank[q]
  BY <1>3, <1>5
<1> QED
  BY <1>4, <1>6 DEF place

\* Before a player come those who are better, and of the equals some.
LEMMA PlaceAmongEquals ==
  ASSUME TeamStatsAssumption, NEW order \in Orders, NEW p \in Ranked, NEW standing, NEW stat,
         Orderly(standing, stat)
  PROVE  LET better == Cardinality({q \in Ranked : <<stat, q, p>> \in standing})
             equals == Cardinality(Equals(standing, stat, p))
         IN /\ better \in Nat /\ equals \in Nat
            /\ Place(standing, order, p, stat) \in 1 + better .. 1 + better + equals
<1> DEFINE D == DOMAIN order
           better == {q \in Ranked : <<stat, q, p>> \in standing}
           equals == Equals(standing, stat, p)
<1>1. PICK j \in D : order[j] = p
  BY OrderOfTeam
<1> DEFINE above == AboveIt(standing, order, stat, j)
           who == [i \in above |-> order[i]]
           ahead == {order[i] : i \in above}
<1>2. /\ IsFiniteSet(Ranked) /\ IsFiniteSet(D) /\ \A i \in D : order[i] \in Ranked
      /\ \A i, k \in D : order[i] = order[k] => i = k
      /\ \A q \in Ranked : \E i \in D : order[i] = q
      /\ D = 1 .. Cardinality(Ranked) /\ Cardinality(Ranked) \in Nat
  BY OrderOfTeam
<1>3. above \in SUBSET D /\ \A i \in D : i \in above <=> Above(standing, order, stat, i, j)
  BY DEF AboveIt
<1>4. better \subseteq ahead
  <2> SUFFICES ASSUME NEW q \in better PROVE q \in ahead
    OBVIOUS
  <2>1. PICK i \in D : order[i] = q
    BY <1>2
  <2>2. i \in above
    BY <1>1, <1>3, <2>1 DEF Above
  <2> QED
    BY <2>1, <2>2
<1>5. ahead \subseteq better \cup equals
  <2> SUFFICES ASSUME NEW i \in above PROVE order[i] \in better \cup equals
    OBVIOUS
  <2>1. i \in D /\ order[i] \in Ranked /\ Above(standing, order, stat, i, j)
    BY <1>2, <1>3
  <2>2. CASE <<stat, order[i], p>> \in standing
    BY <2>1, <2>2
  <2>3. CASE <<stat, order[i], p>> \notin standing
    <3>1. i < j /\ <<stat, p, order[i]>> \notin standing
      BY <1>1, <2>1, <2>3 DEF Above
    <3>2. order[i] # p
      BY <1>1, <1>2, <2>1, <3>1
    <3> QED
      BY <2>1, <2>3, <3>1, <3>2 DEF Equals
  <2> QED
    BY <2>2, <2>3
<1>6. ahead \subseteq Ranked /\ better \subseteq Ranked /\ equals \subseteq Ranked
  BY <1>2, <1>3 DEF Equals
<1>7. who \in Bijection(above, ahead)
  <2>1. who \in [above -> ahead] /\ \A q \in ahead : \E i \in above : who[i] = q
    OBVIOUS
  <2>2. \A i, k \in above : who[i] = who[k] => i = k
    BY <1>2, <1>3
  <2> HIDE DEF who, above, ahead
  <2> QED
    BY <2>1, <2>2 DEF Bijection, Injection, IsInjective, Surjection
<1>8. Place(standing, order, p, stat) = 1 + Cardinality(above)
  BY <1>1, PlaceIs
<1> HIDE DEF who, above, ahead, better, equals
<1>9. Cardinality(ahead) = Cardinality(above)
  <2>1. IsFiniteSet(above)
    BY <1>2, <1>3, FS_Subset
  <2> QED
    BY <1>7, <2>1, FS_Bijection DEF ExistsBijection
<1>10. /\ IsFiniteSet(ahead) /\ IsFiniteSet(better) /\ IsFiniteSet(equals)
       /\ Cardinality(ahead) \in Nat /\ Cardinality(better) \in Nat /\ Cardinality(equals) \in Nat
  BY <1>2, <1>6, FS_Subset, FS_CardinalityType
<1>11. Cardinality(better) <= Cardinality(ahead)
  BY <1>4, <1>10, FS_Subset
<1>12. Cardinality(ahead) <= Cardinality(better) + Cardinality(equals)
  <2>1. /\ IsFiniteSet(better \cup equals) /\ Cardinality(better \cup equals) \in Nat
        /\ Cardinality(better \cap equals) \in Nat
        /\ Cardinality(better \cup equals)
             = Cardinality(better) + Cardinality(equals) - Cardinality(better \cap equals)
    <3>1. IsFiniteSet(better \cap equals)
      BY <1>10, FS_Intersection
    <3> QED
      BY <1>10, <3>1, FS_Union, FS_CardinalityType
  <2>2. Cardinality(ahead) <= Cardinality(better \cup equals)
    BY <1>5, <2>1, FS_Subset
  <2> QED
    BY <1>10, <2>1, <2>2
<1> QED
  BY <1>8, <1>9, <1>10, <1>11, <1>12 DEF better, equals

\* Each reading the team in its own order, both pages place a player within the
\* same equals, and word a place alike.
LEMMA AgreeingStandings ==
  ASSUME TeamStatsAssumption, TypeOK
  PROVE  StandingsAgree
<1> SUFFICES ASSUME NEW leads \in Standings, NEW first \in Orders, NEW second \in Orders,
                    NEW p \in Ranked, NEW stat \in DefaultRankStats
             PROVE  LET rank == Place(leads, first, p, stat)
                        place == Place(Better(leads), second, p, stat)
                        shown == RankStanding(leads, first, p, stat)
                        receipt == GoodnessStanding(Better(leads), second, p, stat)
                        equals == Cardinality(Equals(leads, stat, p))
                    IN /\ equals = 0 =>
                            shown = receipt /\ LabelLevel(shown) = BucketLevel(receipt)
                       /\ rank - place \in -equals .. equals
  BY DEF StandingsAgree
<1> DEFINE rank == Place(leads, first, p, stat)
           place == Place(Better(leads), second, p, stat)
           equals == Cardinality(Equals(leads, stat, p))
           better == Cardinality({q \in Ranked : <<stat, q, p>> \in leads})
<1>1. \A x, y : <<stat, x, y>> \in Better(leads) <=> <<stat, x, y>> \in leads
  BY StatsKnown, BetterFacts
<1>2. Orderly(leads, stat) /\ Orderly(Better(leads), stat)
  BY StandingsOrderly DEF ShownStats
<1>3. /\ Equals(Better(leads), stat, p) = Equals(leads, stat, p)
      /\ {q \in Ranked : <<stat, q, p>> \in Better(leads)}
           = {q \in Ranked : <<stat, q, p>> \in leads}
  BY <1>1 DEF Equals
<1>4. better \in Nat /\ equals \in Nat /\ rank \in 1 + better .. 1 + better + equals
  BY <1>2, PlaceAmongEquals
<1>5. place \in 1 + better .. 1 + better + equals
  BY <1>2, <1>3, PlaceAmongEquals
<1>6. \A pct : LabelLevel(pct) = BucketLevel(pct)
  BY DEF LabelLevel, BucketLevel
<1>7. \A r, n : RankPercentile(r, n) = GoodnessPercentile(r, n)
  BY DEF RankPercentile, GoodnessPercentile
<1>8. Len(first) = Len(second)
  BY OrderOfTeam
<1> HIDE DEF rank, place, equals, better
<1>9. equals = 0 => rank = place
  BY <1>4, <1>5
<1>10. rank - place \in -equals .. equals
  BY <1>4, <1>5
<1>11. equals = 0 => /\ RankStanding(leads, first, p, stat)
                          = GoodnessStanding(Better(leads), second, p, stat)
  BY <1>7, <1>8, <1>9 DEF RankStanding, GoodnessStanding, rank, place
<1> QED
  BY <1>6, <1>10, <1>11 DEF rank, place, equals

\* The level of a percentile, bound by bound.
LEMMA LevelIs ==
  ASSUME NEW a \in Int, NEW b \in Nat, b > 0
  PROVE  LabelLevel(<<a, b>>) = IF a >= 90 * b THEN 1 ELSE IF a >= 70 * b THEN 2
                                ELSE IF a >= 50 * b THEN 3 ELSE IF a >= 30 * b THEN 4 ELSE 5
<1> DEFINE S == {n \in {90, 70, 50, 30} : ~Reaches(<<a, b>>, n)}
<1>1. \A n \in {90, 70, 50, 30} : Reaches(<<a, b>>, n) <=> a >= n * b
  BY DEF Reaches
<1>2. LabelLevel(<<a, b>>) = 1 + Cardinality(S)
  BY DEF LabelLevel
<1>3. /\ Cardinality({}) = 0 /\ IsFiniteSet({90}) /\ Cardinality({90}) = 1
  BY FS_EmptySet, FS_Singleton
<1>4. IsFiniteSet({90, 70}) /\ Cardinality({90, 70}) = 2
  <2>1. {90, 70} = {90} \cup {70} /\ 70 \notin {90}
    OBVIOUS
  <2> QED
    BY <1>3, <2>1, FS_AddElement
<1>5. IsFiniteSet({90, 70, 50}) /\ Cardinality({90, 70, 50}) = 3
  <2>1. {90, 70, 50} = {90, 70} \cup {50} /\ 50 \notin {90, 70}
    OBVIOUS
  <2> QED
    BY <1>4, <2>1, FS_AddElement
<1>6. Cardinality({90, 70, 50, 30}) = 4
  <2>1. {90, 70, 50, 30} = {90, 70, 50} \cup {30} /\ 30 \notin {90, 70, 50}
    OBVIOUS
  <2> QED
    BY <1>5, <2>1, FS_AddElement
<1>7. CASE a >= 90 * b
  <2>1. S = {}
    BY <1>1, <1>7
  <2> QED
    BY <1>2, <1>3, <1>7, <2>1
<1>8. CASE ~(a >= 90 * b) /\ a >= 70 * b
  <2>1. S = {90}
    BY <1>1, <1>8
  <2> QED
    BY <1>2, <1>3, <1>8, <2>1
<1>9. CASE ~(a >= 70 * b) /\ a >= 50 * b
  <2>1. S = {90, 70} /\ ~(a >= 90 * b)
    BY <1>1, <1>9
  <2> QED
    BY <1>2, <1>4, <1>9, <2>1
<1>10. CASE ~(a >= 50 * b) /\ a >= 30 * b
  <2>1. S = {90, 70, 50} /\ ~(a >= 90 * b) /\ ~(a >= 70 * b)
    BY <1>1, <1>10
  <2> QED
    BY <1>2, <1>5, <1>10, <2>1
<1>11. CASE ~(a >= 30 * b)
  <2>1. S = {90, 70, 50, 30} /\ ~(a >= 90 * b) /\ ~(a >= 70 * b) /\ ~(a >= 50 * b)
    BY <1>1, <1>11
  <2> QED
    BY <1>2, <1>6, <1>11, <2>1
<1> QED
  BY <1>7, <1>8, <1>9, <1>10, <1>11

\* Labels follow places, and up to a team of ten they say what they mean.
LEMMA HonestLabels ==
  ASSUME TeamStatsAssumption, TypeOK, MaxTeam <= 10
  PROVE  LabelsHonest
<1>1. ASSUME NEW leads \in Standings, NEW order \in Orders, NEW x \in leads
      PROVE  LabelLevel(RankStanding(leads, order, x[2], x[1]))
               <= LabelLevel(RankStanding(leads, order, x[3], x[1]))
  <2>1. /\ x = <<x[1], x[2], x[3]>> /\ x[1] \in ShownStats
        /\ x[2] \in Ranked /\ x[3] \in Ranked
    BY LeadsFacts
  <2>2. Orderly(leads, x[1])
    BY <2>1, StandingsOrderly
  <2> DEFINE n == Cardinality(Ranked)
             r == Place(leads, order, x[2], x[1])
             s == Place(leads, order, x[3], x[1])
             d == IF n <= 1 THEN 1 ELSE n - 1
             v(k) == IF n <= 1 THEN 100 ELSE 100 * (n - k)
  <2>3. r \in 1 .. n /\ s \in 1 .. n /\ r < s
    BY <2>1, <2>2, PlayerPlaces
  <2>4. n \in Nat /\ Len(order) = n
    BY OrderOfTeam
  <2> HIDE DEF n, r, s
  <2>5. /\ RankPercentile(r, n) = <<v(r), d>> /\ RankPercentile(s, n) = <<v(s), d>>
        /\ d \in Nat /\ d > 0
    BY <2>3, <2>4 DEF RankPercentile
  <2>6. v(r) \in Int /\ v(s) \in Int /\ v(s) <= v(r)
    BY <2>3, <2>4
  <2> HIDE DEF v, d
  <2>7. LabelLevel(<<v(r), d>>) <= LabelLevel(<<v(s), d>>)
    BY <2>5, <2>6, LevelIs
  <2> QED
    BY <2>4, <2>5, <2>7 DEF RankStanding, r, s
<1>2. ASSUME NEW n \in 1 .. MaxTeam, NEW rank \in 1 .. n
      PROVE  LET label == Labels[LabelLevel(RankPercentile(rank, n))]
             IN /\ label = "on team" <=> rank = 1
                /\ rank = n /\ n > 1 => label = "bottom 3"
                /\ label = "top 3" => rank <= 3
                /\ label = "bottom 3" => rank > n - 3
  <2> DEFINE d == IF n <= 1 THEN 1 ELSE n - 1
             v == IF n <= 1 THEN 100 ELSE 100 * (n - rank)
             level == LabelLevel(RankPercentile(rank, n))
  <2>1. n \in Nat /\ n >= 1 /\ n <= 10 /\ rank \in Nat /\ rank >= 1 /\ rank <= n
    BY DEF TeamStatsAssumption
  <2>2. RankPercentile(rank, n) = <<v, d>> /\ d \in Nat /\ d > 0 /\ v \in Int
    BY <2>1 DEF RankPercentile
  <2>3. level = IF v >= 90 * d THEN 1 ELSE IF v >= 70 * d THEN 2
                ELSE IF v >= 50 * d THEN 3 ELSE IF v >= 30 * d THEN 4 ELSE 5
    <3> HIDE DEF v, d
    <3> QED
      BY <2>2, LevelIs
  <2>4. level \in 1 .. 5
    BY <2>3
  <2>5. /\ Labels[level] = "on team" <=> level = 1
        /\ Labels[level] = "top 3" <=> level = 2
        /\ Labels[level] = "bottom 3" <=> level = 5
    <3> HIDE DEF level
    <3>1. level = 1 \/ level = 2 \/ level = 3 \/ level = 4 \/ level = 5
      BY <2>4
    <3>2. /\ Labels[1] = "on team" /\ Labels[2] = "top 3" /\ Labels[3] = "above avg"
          /\ Labels[4] = "below avg" /\ Labels[5] = "bottom 3"
      BY DEF Labels
    <3> QED
      BY <3>1, <3>2
  <2>6. CASE n = 1
    <3>1. rank = 1 /\ v = 100 /\ d = 1
      BY <2>1, <2>6
    <3> HIDE DEF v, d, level
    <3>2. level = 1
      BY <2>3, <3>1
    <3>3. Labels[level] = "on team" /\ rank = 1 /\ n = 1
      BY <2>5, <2>6, <3>1, <3>2
    <3>4. /\ Labels[level] = "on team" <=> rank = 1
          /\ rank = n /\ n > 1 => Labels[level] = "bottom 3"
          /\ Labels[level] = "top 3" => rank <= 3
          /\ Labels[level] = "bottom 3" => rank > n - 3
      <4>1. rank <= 3 /\ rank > n - 3 /\ ~(n > 1)
        BY <2>1, <2>6
      <4> QED
        BY <3>3, <4>1
    <3> QED
      BY <3>4 DEF level
  <2>7. CASE n # 1
    <3>1. v = 100 * (n - rank) /\ d = n - 1
      BY <2>1, <2>7
    <3> HIDE DEF v, d
    <3>2. v >= 90 * d <=> rank = 1
      BY <2>1, <2>7, <3>1
    <3>3. v >= 70 * d => rank <= 3
      BY <2>1, <2>7, <3>1
    <3>4. ~(v >= 30 * d) => rank > n - 3
      BY <2>1, <2>7, <3>1
    <3>5. rank = n => ~(v >= 30 * d) /\ ~(v >= 50 * d) /\ ~(v >= 70 * d) /\ ~(v >= 90 * d)
      BY <2>1, <2>7, <3>1
    <3> HIDE DEF level
    <3>6. level = 1 <=> v >= 90 * d
      BY <2>3
    <3>7. level = 2 => v >= 70 * d
      BY <2>3
    <3>8. level = 5 => ~(v >= 30 * d)
      BY <2>3, <2>2
    <3>9. ~(v >= 30 * d) /\ ~(v >= 50 * d) /\ ~(v >= 70 * d) /\ ~(v >= 90 * d) => level = 5
      BY <2>3
    <3>10. /\ Labels[level] = "on team" <=> rank = 1
           /\ rank = n /\ n > 1 => Labels[level] = "bottom 3"
           /\ Labels[level] = "top 3" => rank <= 3
           /\ Labels[level] = "bottom 3" => rank > n - 3
      BY <2>5, <3>2, <3>3, <3>4, <3>5, <3>6, <3>7, <3>8, <3>9
    <3> QED
      BY <3>10 DEF level
  <2> QED
    BY <2>6, <2>7
<1> QED
  BY <1>1, <1>2 DEF LabelsHonest

-----------------------------------------------------------------------------
(* Archetypes: every one weighs three or four stats, ten tenths in all.    *)

\* The weights w of an archetype.
WeightsOk(w) ==
  /\ IsFiniteSet(DOMAIN w) /\ Cardinality(DOMAIN w) \in 3 .. 4
  /\ \A s \in DOMAIN w : w[s] \in Nat /\ w[s] > 0
  /\ SumFunctionOnSet(w, DOMAIN w) = 10

\* That of four stats.
LEMMA FourWeigh ==
  ASSUME NEW a, NEW b, NEW c, NEW d, a # b, a # c, b # c, d \notin {a, b, c},
         NEW w, DOMAIN w = {a, b, c, d},
         w[a] \in 1 .. 10, w[b] \in 1 .. 10, w[c] \in 1 .. 10, w[d] \in 1 .. 10,
         w[a] + w[b] + w[c] + w[d] = 10
  PROVE  WeightsOk(w)
<1>1. w[a] \in Int /\ w[b] \in Int /\ w[c] \in Int /\ w[d] \in Int
  OBVIOUS
<1>2. /\ IsFiniteSet(DOMAIN w) /\ Cardinality(DOMAIN w) = 4
      /\ SumFunctionOnSet(w, DOMAIN w) = w[a] + w[b] + w[c] + w[d]
  BY <1>1, SumFour
<1> QED
  BY <1>2 DEF WeightsOk

\* And of three.
LEMMA ThreeWeigh ==
  ASSUME NEW a, NEW b, NEW c, a # b, a # c, b # c,
         NEW w, DOMAIN w = {a, b, c},
         w[a] \in 1 .. 10, w[b] \in 1 .. 10, w[c] \in 1 .. 10, w[a] + w[b] + w[c] = 10
  PROVE  WeightsOk(w)
<1>1. w[a] \in Int /\ w[b] \in Int /\ w[c] \in Int
  OBVIOUS
<1>2. /\ IsFiniteSet(DOMAIN w) /\ Cardinality(DOMAIN w) = 3
      /\ SumFunctionOnSet(w, DOMAIN w) = w[a] + w[b] + w[c]
  BY <1>1, SumThree
<1> QED
  BY <1>2 DEF WeightsOk

\* Every archetype weighs three or four stats, ten tenths in all.
LEMMA ArchetypesOk ==
  ASSUME NEW a \in Archetypes
  PROVE  WeightsOk(ArchetypeWeights[a])
<1> DEFINE w == ArchetypeWeights[a]
<1>1. CASE a = "playmaker"
  <2>1. w = [assists |-> 5, ts_pct |-> 2, points |-> 1, turnovers |-> 2]
    BY <1>1 DEF ArchetypeWeights
  <2> HIDE DEF w
  <2>2. DOMAIN w = {"assists", "ts_pct", "points", "turnovers"}
    BY <2>1
  <2>3. w["assists"] = 5 /\ w["ts_pct"] = 2 /\ w["points"] = 1 /\ w["turnovers"] = 2
    BY <2>1
  <2> QED
    BY <2>2, <2>3, FourWeigh DEF w
<1>2. CASE a = "efficient_scorer"
  <2>1. w = [ts_pct |-> 4, fg_pct |-> 2, points |-> 3, turnovers |-> 1]
    BY <1>2 DEF ArchetypeWeights
  <2> HIDE DEF w
  <2>2. DOMAIN w = {"ts_pct", "fg_pct", "points", "turnovers"}
    BY <2>1
  <2>3. w["ts_pct"] = 4 /\ w["fg_pct"] = 2 /\ w["points"] = 3 /\ w["turnovers"] = 1
    BY <2>1
  <2> QED
    BY <2>2, <2>3, FourWeigh DEF w
<1>3. CASE a = "glass_cleaner"
  <2>1. w = [rebounds |-> 7, blocks |-> 2, fouls |-> 1]
    BY <1>3 DEF ArchetypeWeights
  <2> HIDE DEF w
  <2>2. DOMAIN w = {"rebounds", "blocks", "fouls"}
    BY <2>1
  <2>3. w["rebounds"] = 7 /\ w["blocks"] = 2 /\ w["fouls"] = 1
    BY <2>1
  <2> QED
    BY <2>2, <2>3, ThreeWeigh DEF w
<1>4. CASE a = "defensive_anchor"
  <2>1. w = [steals |-> 3, blocks |-> 3, rebounds |-> 2, fouls |-> 2]
    BY <1>4 DEF ArchetypeWeights
  <2> HIDE DEF w
  <2>2. DOMAIN w = {"steals", "blocks", "rebounds", "fouls"}
    BY <2>1
  <2>3. w["steals"] = 3 /\ w["blocks"] = 3 /\ w["rebounds"] = 2 /\ w["fouls"] = 2
    BY <2>1
  <2> QED
    BY <2>2, <2>3, FourWeigh DEF w
<1>5. CASE a = "wing_3_and_d"
  <2>1. w = [three_pct |-> 4, three_made |-> 3, steals |-> 2, ts_pct |-> 1]
    BY <1>5 DEF ArchetypeWeights
  <2> HIDE DEF w
  <2>2. DOMAIN w = {"three_pct", "three_made", "steals", "ts_pct"}
    BY <2>1
  <2>3. w["three_pct"] = 4 /\ w["three_made"] = 3 /\ w["steals"] = 2 /\ w["ts_pct"] = 1
    BY <2>1
  <2> QED
    BY <2>2, <2>3, FourWeigh DEF w
<1>6. CASE a = "rim_protector"
  <2>1. w = [blocks |-> 6, rebounds |-> 3, fouls |-> 1]
    BY <1>6 DEF ArchetypeWeights
  <2> HIDE DEF w
  <2>2. DOMAIN w = {"blocks", "rebounds", "fouls"}
    BY <2>1
  <2>3. w["blocks"] = 6 /\ w["rebounds"] = 3 /\ w["fouls"] = 1
    BY <2>1
  <2>4. WeightsOk(w)
    BY <2>2, <2>3, ThreeWeigh
  <2> QED
    BY <2>4 DEF w
<1>7. CASE a = "spark_plug"
  <2>1. w = [points |-> 4, steals |-> 3, fg_pct |-> 2, ts_pct |-> 1]
    BY <1>7 DEF ArchetypeWeights
  <2> HIDE DEF w
  <2>2. DOMAIN w = {"points", "steals", "fg_pct", "ts_pct"}
    BY <2>1
  <2>3. w["points"] = 4 /\ w["steals"] = 3 /\ w["fg_pct"] = 2 /\ w["ts_pct"] = 1
    BY <2>1
  <2> QED
    BY <2>2, <2>3, FourWeigh DEF w
<1>8. CASE a = "floor_general"
  <2>1. w = [assists |-> 4, ts_pct |-> 2, steals |-> 2, turnovers |-> 2]
    BY <1>8 DEF ArchetypeWeights
  <2> HIDE DEF w
  <2>2. DOMAIN w = {"assists", "ts_pct", "steals", "turnovers"}
    BY <2>1
  <2>3. w["assists"] = 4 /\ w["ts_pct"] = 2 /\ w["steals"] = 2 /\ w["turnovers"] = 2
    BY <2>1
  <2> QED
    BY <2>2, <2>3, FourWeigh DEF w
<1>9. CASE a = "hustle_player"
  <2>1. w = [steals |-> 3, rebounds |-> 3, blocks |-> 2, fouls |-> 2]
    BY <1>9 DEF ArchetypeWeights
  <2> HIDE DEF w
  <2>2. DOMAIN w = {"steals", "rebounds", "blocks", "fouls"}
    BY <2>1
  <2>3. w["steals"] = 3 /\ w["rebounds"] = 3 /\ w["blocks"] = 2 /\ w["fouls"] = 2
    BY <2>1
  <2> QED
    BY <2>2, <2>3, FourWeigh DEF w
<1> QED
  BY <1>1, <1>2, <1>3, <1>4, <1>5, <1>6, <1>7, <1>8, <1>9 DEF Archetypes, ArchetypeWeights

-----------------------------------------------------------------------------
(* Scores.                                                                 *)

\* The weighted percentiles pct of the stats of a.
Shares(a, pct) == [s \in StatsOf(a) |-> ArchetypeWeights[a][s] * pct[s][1]]

\* Those of pcts that the archetype counts.
OwnOf(pcts, a) == {x \in pcts : x[1] \in StatsOf(a)}

\* A score is a sum over the stats of the archetype.
LEMMA WeightedIs ==
  ASSUME NEW a \in Archetypes, NEW pct, \A s \in StatsOf(a) : pct[s][1] \in Nat,
         NEW pcts, OwnOf(pcts, a) = {<<s, pct[s]>> : s \in StatsOf(a)}
  PROVE  Weighted(pcts, a) = SumFunctionOnSet(Shares(a, pct), StatsOf(a))
<1> DEFINE K == StatsOf(a)
           w == ArchetypeWeights[a]
           own == OwnOf(pcts, a)
           g == [x \in own |-> w[x[1]] * x[2][1]]
           key == [x \in own |-> x[1]]
           total == Shares(a, pct)
           pair == [s \in K |-> <<s, pct[s]>>]
<1>1. IsFiniteSet(K) /\ \A s \in K : w[s] \in Nat
  BY ArchetypesOk DEF WeightsOk, StatsOf
<1>2. Weighted(pcts, a) = SumFunctionOnSet(g, own)
  BY DEF Weighted, SumFunction, OwnOf
<1>3. \A s \in K : total[s] = w[s] * pct[s][1]
  BY DEF Shares
<1>4. own = {<<s, pct[s]>> : s \in K}
  OBVIOUS
<1> HIDE DEF K, w, own, total
<1>5. IsFiniteSet(own)
  <2>1. pair \in Surjection(K, own)
    BY <1>4 DEF Surjection
  <2> HIDE DEF pair
  <2> QED
    BY <1>1, <2>1, FS_Surjection
<1>6. \A a1, b1 \in Nat : a1 * b1 \in Int
  OBVIOUS
<1>7. \A s \in K : /\ <<s, pct[s]>> \in own /\ g[<<s, pct[s]>>] = total[s]
                   /\ total[s] \in Int /\ key[<<s, pct[s]>>] = s
  BY <1>1, <1>3, <1>4, <1>6 DEF K
<1>8. \A x \in own : \E s \in K : x = <<s, pct[s]>>
  BY <1>4
<1> HIDE DEF g, key
<1>9. \A x \in own : g[x] \in Int /\ key[x] \in K
  BY <1>7, <1>8
<1>10. \A s \in K : total[s] = SumFunctionOnSet(g, {x \in own : key[x] = s})
  <2> TAKE s \in K
  <2> DEFINE x == <<s, pct[s]>>
             T == {y \in own : key[y] = s}
  <2>1. T = {x}
    BY <1>7, <1>8
  <2>2. g[x] \in Int /\ g[x] = total[s]
    BY <1>7
  <2> HIDE DEF x, T
  <2>3. SumFunctionOnSet(g, T) = g[x]
    BY <2>1, <2>2, SumOne
  <2> QED
    BY <2>2, <2>3 DEF T
<1>11. SumFunctionOnSet(total, K) = SumFunctionOnSet(g, own)
  <2>1. IsFiniteSet(K) /\ IsFiniteSet(own)
    BY <1>1, <1>5
  <2>2. \A x \in own : g[x] \in Int
    BY <1>9
  <2>3. \A x \in own : key[x] \in K
    BY <1>9
  <2> QED
    BY <1>10, <2>1, <2>2, <2>3, SumGroups
<1> QED
  BY <1>2, <1>11 DEF K, total

PctOf(better, order, p) == [s \in RelevantStats |-> GoodnessStanding(better, order, p, s)]

\* What the percentiles of a player are, and what the archetypes make of them.
LEMMA ScoreFacts ==
  ASSUME TeamStatsAssumption, TypeOK, NEW leads \in Standings, NEW order \in Orders, NEW p \in Ranked,
         NEW a \in Archetypes
  PROVE  LET pcts == Percentiles(Better(leads), order, p)
             pct == PctOf(Better(leads), order, p)
         IN /\ StatsOf(a) \subseteq RelevantStats
            /\ \A s \in StatsOf(a) : pct[s][1] \in Nat
            /\ OwnOf(pcts, a) = {<<s, pct[s]>> : s \in StatsOf(a)}
            /\ Weighted(pcts, a) = SumFunctionOnSet(Shares(a, pct), StatsOf(a))
<1> DEFINE pcts == Percentiles(Better(leads), order, p)
           pct == PctOf(Better(leads), order, p)
           n == Cardinality(Ranked)
<1>1. StatsOf(a) \subseteq RelevantStats
  BY DEF RelevantStats
<1>2. \A s \in RelevantStats : pct[s] = GoodnessPercentile(Place(Better(leads), order, p, s), n)
  BY OrderOfTeam DEF PctOf, GoodnessStanding
<1>3. \A s \in RelevantStats : pct[s][1] \in Nat
  <2> TAKE s \in RelevantStats
  <2>1. Orderly(Better(leads), s)
    BY StandingsOrderly DEF ShownStats
  <2> DEFINE r == Place(Better(leads), order, p, s)
  <2>2. r \in 1 .. n /\ n \in Nat
    BY <2>1, PlayerPlaces, OrderOfTeam
  <2> HIDE DEF r, n, pct
  <2>3. GoodnessPercentile(r, n)[1] \in Nat
    BY <2>2 DEF GoodnessPercentile
  <2> QED
    BY <1>2, <2>3 DEF r
<1>4. pcts = {<<s, pct[s]>> : s \in RelevantStats}
  BY DEF Percentiles, PctOf
<1> HIDE DEF pct, pcts
<1>5. OwnOf(pcts, a) = {<<s, pct[s]>> : s \in StatsOf(a)}
  BY <1>1, <1>4 DEF OwnOf
<1>6. Weighted(pcts, a) = SumFunctionOnSet(Shares(a, pct), StatsOf(a))
  BY <1>1, <1>3, <1>5, WeightedIs
<1> QED
  BY <1>1, <1>3, <1>5, <1>6 DEF pcts, pct

\* Who is placed before a teammate in everything an archetype counts is a whole
\* place ahead in it.
LEMMA PlacesAhead ==
  ASSUME TeamStatsAssumption, TypeOK, NEW leads \in Standings, NEW order \in Orders, NEW a \in Archetypes,
         NEW p \in Ranked, NEW q \in Ranked,
         \A s \in StatsOf(a) : Place(Better(leads), order, p, s) < Place(Better(leads), order, q, s)
  PROVE  /\ Weighted(Percentiles(Better(leads), order, p), a) \in Int
         /\ Weighted(Percentiles(Better(leads), order, q), a) \in Int
         /\ Weighted(Percentiles(Better(leads), order, p), a)
              >= Weighted(Percentiles(Better(leads), order, q), a) + 1000
<1> DEFINE K == StatsOf(a)
           w == ArchetypeWeights[a]
           n == Cardinality(Ranked)
           mine == Shares(a, PctOf(Better(leads), order, p))
           theirs == Shares(a, PctOf(Better(leads), order, q))
           place == [s \in K |-> 100 * w[s]]
           ahead == [s \in K |-> theirs[s] + place[s]]
<1>1. /\ IsFiniteSet(K) /\ K # {} /\ \A s \in K : w[s] \in Nat
      /\ SumFunctionOnSet(w, K) = 10
  BY ArchetypesOk, FS_EmptySet DEF WeightsOk, StatsOf
<1>2. /\ K \subseteq RelevantStats
      /\ \A s \in K : PctOf(Better(leads), order, p)[s][1] \in Nat /\ PctOf(Better(leads), order, q)[s][1] \in Nat
      /\ Weighted(Percentiles(Better(leads), order, p), a) = SumFunctionOnSet(mine, K)
      /\ Weighted(Percentiles(Better(leads), order, q), a) = SumFunctionOnSet(theirs, K)
  BY ScoreFacts
<1>3. \A s \in K : /\ mine[s] = w[s] * PctOf(Better(leads), order, p)[s][1]
                   /\ theirs[s] = w[s] * PctOf(Better(leads), order, q)[s][1]
  BY DEF Shares
<1>4. \A s \in K : PctOf(Better(leads), order, p)[s][1] >= PctOf(Better(leads), order, q)[s][1] + 100
  <2> TAKE s \in K
  <2> DEFINE r == Place(Better(leads), order, p, s)
             t == Place(Better(leads), order, q, s)
  <2>1. Orderly(Better(leads), s)
    BY <1>2, StandingsOrderly DEF ShownStats
  <2>2. r \in 1 .. n /\ t \in 1 .. n /\ n \in Nat
    BY <2>1, PlayerPlaces, OrderOfTeam
  <2>3. r < t
    OBVIOUS
  <2>4. PctOf(Better(leads), order, p)[s] = GoodnessPercentile(r, n) /\ PctOf(Better(leads), order, q)[s] = GoodnessPercentile(t, n)
    BY <1>2, OrderOfTeam DEF PctOf, GoodnessStanding
  <2> HIDE DEF r, t, n
  <2>5. GoodnessPercentile(r, n)[1] = 100 * (n - r) /\ GoodnessPercentile(t, n)[1] = 100 * (n - t)
    BY <2>2, <2>3 DEF GoodnessPercentile
  <2> QED
    BY <2>2, <2>3, <2>4, <2>5
<1>5. \A x, y, z \in Nat : /\ x * y \in Int /\ x * z \in Int
                           /\ y >= z + 100 => x * z + 100 * x <= x * y
  <2> TAKE x, y, z \in Nat
  <2>1. ASSUME y >= z + 100 PROVE x * z + 100 * x <= x * y
    <3> DEFINE d == y - z - 100
    <3>1. d \in Nat /\ y = (z + 100) + d
      BY <2>1
    <3>2. x * ((z + 100) + d) = x * z + 100 * x + x * d /\ x * d \in Nat /\ x * z \in Nat
      BY <3>1
    <3> HIDE DEF d
    <3> QED
      BY <3>1, <3>2
  <2> QED
    BY <2>1
<1>6. \A s \in K : /\ mine[s] \in Int /\ theirs[s] \in Int
                   /\ theirs[s] + 100 * w[s] <= mine[s]
  BY <1>1, <1>2, <1>3, <1>4, <1>5
<1>7. \A s \in K : w[s] \in Int /\ place[s] = 100 * w[s] /\ place[s] \in Int
  BY <1>1
<1>8. \A s \in K : ahead[s] = theirs[s] + place[s]
  OBVIOUS
<1> HIDE DEF K, w, mine, theirs, place, ahead
<1>9. \A s \in K : ahead[s] \in Int /\ ahead[s] <= mine[s]
  BY <1>6, <1>7, <1>8
<1>10. SumFunctionOnSet(place, K) = 1000
  <2>1. IsFiniteSet(K) /\ \A s \in K : w[s] \in Int /\ place[s] = 100 * w[s]
    BY <1>1, <1>7
  <2>2. \A c \in Int : (\A s \in K : w[s] \in Int /\ place[s] = c * w[s])
          => SumFunctionOnSet(place, K) = c * SumFunctionOnSet(w, K)
    BY <2>1, SumScale
  <2>3. SumFunctionOnSet(place, K) = 100 * SumFunctionOnSet(w, K)
    BY <2>1, <2>2
  <2> QED
    BY <1>1, <2>3
<1>11. SumFunctionOnSet(ahead, K) = SumFunctionOnSet(theirs, K) + SumFunctionOnSet(place, K)
  BY <1>1, <1>6, <1>7, <1>8, SumPlus
<1>12. SumFunctionOnSet(ahead, K) <= SumFunctionOnSet(mine, K)
  BY <1>1, <1>6, <1>9, SumMono
<1>13. SumFunctionOnSet(mine, K) \in Int /\ SumFunctionOnSet(theirs, K) \in Int
  BY <1>1, <1>6, SumInt
<1> QED
  BY <1>2, <1>10, <1>11, <1>12, <1>13 DEF K

\* Scores compare as the play of two teammates does.
LEMMA PlayFollowed ==
  ASSUME TeamStatsAssumption, TypeOK
  PROVE  ScoresFollowPlay
<1> SUFFICES ASSUME NEW leads \in Standings, NEW order \in Orders, NEW i \in DOMAIN order, NEW j \in DOMAIN order,
                    NEW p \in Ranked, NEW q \in Ranked, i < j, {p, q} = {order[i], order[j]},
                    NEW m \in Scores(Percentiles(Better(leads), order, p)),
                    NEW n \in Scores(Percentiles(Better(leads), order, q)), m[1] = n[1]
             PROVE  LET above(s, x, y) == IF s \in LowerIsBetter THEN <<s, y, x>> \in leads
                                          ELSE <<s, x, y>> \in leads
                    IN /\ (\A s \in StatsOf(m[1]) : above(s, p, q)) => m[2] >= n[2] + 1000
                       /\ (p = order[i] /\ \A s \in StatsOf(m[1]) : ~above(s, q, p))
                            => m[2] >= n[2]
  BY DEF ScoresFollowPlay
<1> DEFINE above(s, x, y) == IF s \in LowerIsBetter THEN <<s, y, x>> \in leads
                             ELSE <<s, x, y>> \in leads
<1>1. PICK a \in Archetypes : m = <<a, Weighted(Percentiles(Better(leads), order, p), a)>>
  BY DEF Scores
<1>2. n = <<a, Weighted(Percentiles(Better(leads), order, q), a)>> /\ m[1] = a
  BY <1>1 DEF Scores
<1>3. \A s, x, y : above(s, x, y) <=> <<s, x, y>> \in Better(leads)
  BY BetterFacts
<1>4. \A s \in StatsOf(a) : Orderly(Better(leads), s)
  BY StandingsOrderly DEF ShownStats, RelevantStats
<1>5. \A s \in StatsOf(a) : <<s, p, q>> \in Better(leads) =>
        Place(Better(leads), order, p, s) < Place(Better(leads), order, q, s)
  BY <1>4, PlayerPlaces
<1> HIDE DEF above
<1>6. ASSUME \A s \in StatsOf(a) : above(s, p, q) PROVE m[2] >= n[2] + 1000
  <2>1. \A s \in StatsOf(a) : Place(Better(leads), order, p, s) < Place(Better(leads), order, q, s)
    BY <1>3, <1>5, <1>6
  <2> QED
    BY <1>1, <1>2, <2>1, PlacesAhead
<1>7. ASSUME p = order[i], \A s \in StatsOf(a) : ~above(s, q, p) PROVE m[2] >= n[2]
  <2>1. i # j /\ order[i] # order[j]
    BY OrderOfTeam
  <2>2. q = order[j]
    BY <1>7, <2>1
  <2>3. \A s \in StatsOf(a) : Above(Better(leads), order, s, i, j)
    BY <1>3, <1>7, <2>2 DEF Above
  <2>4. \A s \in StatsOf(a) : Place(Better(leads), order, p, s) < Place(Better(leads), order, q, s)
    BY <1>4, <1>7, <2>2, <2>3, PlaceFacts
  <2>5. /\ m[2] \in Int /\ n[2] \in Int /\ m[2] >= n[2] + 1000
    BY <1>1, <1>2, <2>4, PlacesAhead
  <2> QED
    BY <2>5
<1> QED
  BY <1>2, <1>6, <1>7 DEF above

-----------------------------------------------------------------------------
(* Receipts.                                                               *)

\* No archetype has so many stats that the receipt would leave one out.
LEMMA ContributionsAll ==
  ASSUME NEW a \in Archetypes, NEW pct, \A s \in StatsOf(a) : pct[s][1] \in Nat,
         NEW pcts, OwnOf(pcts, a) = {<<s, pct[s]>> : s \in StatsOf(a)}
  PROVE  TopContributions(pcts, a) = OwnOf(pcts, a)
<1> DEFINE K == StatsOf(a)
           own == OwnOf(pcts, a)
           pair == [s \in K |-> <<s, pct[s]>>]
           more(x) == {y \in own : Weighted({y}, a) > Weighted({x}, a)}
<1>1. IsFiniteSet(K) /\ Cardinality(K) \in 3 .. 4
  BY ArchetypesOk DEF WeightsOk, StatsOf
<1>2. IsFiniteSet(own) /\ Cardinality(own) <= Cardinality(K)
  <2>1. pair \in Surjection(K, own)
    BY DEF Surjection
  <2> HIDE DEF pair, K, own
  <2> QED
    BY <1>1, <2>1, FS_Surjection
<1>3. TopContributions(pcts, a) = {x \in own : Cardinality(more(x)) < 5}
  BY DEF TopContributions, OwnOf
<1> HIDE DEF K, own
<1>4. ASSUME NEW x \in own PROVE Cardinality(more(x)) < 5
  <2>1. more(x) \in SUBSET own
    OBVIOUS
  <2> HIDE DEF more
  <2>2. /\ Cardinality(more(x)) <= Cardinality(own)
        /\ Cardinality(more(x)) \in Nat /\ Cardinality(own) \in Nat
    BY <1>2, <2>1, FS_Subset, FS_CardinalityType
  <2> QED
    BY <1>1, <1>2, <2>2
<1> QED
  BY <1>3, <1>4 DEF own

\* What a receipt lists: each stat of the archetype with its percentile, once.
LEMMA ReceiptLists ==
  ASSUME NEW a \in Archetypes, NEW pct, \A s \in StatsOf(a) : pct[s][1] \in Nat,
         NEW pcts, OwnOf(pcts, a) = {<<s, pct[s]>> : s \in StatsOf(a)}
  PROVE  LET receipt == Receipt(pcts, a)
         IN /\ Cardinality(receipt) \in 3 .. 5
            /\ {<<x.stat, x.percentile>> : x \in receipt} = OwnOf(pcts, a)
            /\ \A s \in StatsOf(a) : \E x \in receipt : x.percentile = pct[s]
<1> DEFINE K == StatsOf(a)
           receipt == Receipt(pcts, a)
           entry(s) == [stat |-> s, percentile |-> pct[s],
                       comment |-> Buckets[BucketLevel(pct[s])]]
           row == [s \in K |-> entry(s)]
<1>1. IsFiniteSet(K) /\ Cardinality(K) \in 3 .. 4
  BY ArchetypesOk DEF WeightsOk, StatsOf
<1>2. receipt = {[stat |-> x[1], percentile |-> x[2], comment |-> Buckets[BucketLevel(x[2])]] :
                   x \in OwnOf(pcts, a)}
  BY ContributionsAll DEF Receipt
<1>3. receipt = {entry(s) : s \in K}
  <2>1. ASSUME NEW x \in receipt PROVE x \in {entry(s) : s \in K}
    BY <1>2
  <2>2. ASSUME NEW s \in K PROVE entry(s) \in receipt
    <3> DEFINE x == <<s, pct[s]>>
    <3>1. x \in OwnOf(pcts, a) /\ x[1] = s /\ x[2] = pct[s]
      OBVIOUS
    <3>2. [stat |-> x[1], percentile |-> x[2], comment |-> Buckets[BucketLevel(x[2])]] \in receipt
      BY <1>2, <3>1
    <3> HIDE DEF x
    <3> QED
      BY <3>1, <3>2
  <2> QED
    BY <2>1, <2>2
<1>4. \A s \in K : entry(s).stat = s /\ entry(s).percentile = pct[s]
  OBVIOUS
<1> HIDE DEF receipt, entry, K
<1>5. Cardinality(receipt) = Cardinality(K)
  <2>1. row \in Bijection(K, receipt)
    BY <1>3, <1>4 DEF Bijection, Injection, IsInjective, Surjection
  <2> HIDE DEF row
  <2>2. ExistsBijection(K, receipt)
    BY <2>1 DEF ExistsBijection
  <2> QED
    BY <1>1, <2>2, FS_Bijection
<1>6. {<<x.stat, x.percentile>> : x \in receipt} = {<<s, pct[s]>> : s \in K}
  BY <1>3, <1>4
<1>7. \A s \in K : \E x \in receipt : x.percentile = pct[s]
  BY <1>3, <1>4
<1> QED
  BY <1>1, <1>5, <1>6, <1>7 DEF K, receipt

\* A sum of ten tenths is no more than the largest part: if each percentile is
\* too small for y tenths, so is the score.
LEMMA LargestShare ==
  ASSUME NEW a \in Archetypes, NEW pct, \A s \in StatsOf(a) : pct[s][1] \in Nat,
         NEW y \in Int, y <= SumFunctionOnSet(Shares(a, pct), StatsOf(a))
  PROVE  \E s \in StatsOf(a) : 10 * pct[s][1] >= y
<1> SUFFICES ASSUME \A s \in StatsOf(a) : ~(10 * pct[s][1] >= y) PROVE FALSE
  OBVIOUS
<1> DEFINE K == StatsOf(a)
           w == ArchetypeWeights[a]
           share == Shares(a, pct)
           tens == [s \in K |-> 10 * share[s]]
           asked == [s \in K |-> y * w[s]]
<1>1. /\ IsFiniteSet(K) /\ K # {} /\ \A s \in K : w[s] \in Nat /\ w[s] > 0
      /\ SumFunctionOnSet(w, K) = 10
  BY ArchetypesOk, FS_EmptySet DEF WeightsOk, StatsOf
<1>2. \A s \in K : share[s] = w[s] * pct[s][1]
  BY DEF Shares
<1>3. \A k \in Nat, c \in Nat : /\ k * c \in Int /\ y * k \in Int
                                /\ k > 0 /\ 10 * c < y => 10 * (k * c) < y * k
  <2> TAKE k \in Nat, c \in Nat
  <2>1. ASSUME k > 0, 10 * c < y PROVE 10 * (k * c) < y * k
    <3> DEFINE d == y - 10 * c
    <3>1. d \in Nat /\ d > 0 /\ y = 10 * c + d
      BY <2>1
    <3>2. (10 * c + d) * k = 10 * (k * c) + d * k /\ d * k \in Nat /\ d * k > 0 /\ k * c \in Nat
      BY <2>1, <3>1
    <3> HIDE DEF d
    <3> QED
      BY <3>1, <3>2
  <2> QED
    BY <2>1
<1>4. \A s \in K : /\ share[s] \in Int /\ tens[s] = 10 * share[s]
                   /\ w[s] \in Int /\ asked[s] = y * w[s]
  BY <1>1, <1>2, <1>3
<1>5. \A s \in K : pct[s][1] \in Nat /\ 10 * pct[s][1] < y
  OBVIOUS
<1>6. \A s \in K : tens[s] \in Int /\ asked[s] \in Int /\ tens[s] < asked[s]
  <2> TAKE s \in K
  <2>1. 10 * (w[s] * pct[s][1]) < y * w[s] /\ y * w[s] \in Int
    BY <1>1, <1>3, <1>5
  <2> HIDE DEF tens, asked, share
  <2> QED
    BY <1>2, <1>4, <2>1
<1>7. y <= SumFunctionOnSet(share, K)
  OBVIOUS
<1> HIDE DEF K, w, share, tens, asked
<1>8. SumFunctionOnSet(tens, K) = 10 * SumFunctionOnSet(share, K)
  BY <1>1, <1>4, SumScale
<1>9. SumFunctionOnSet(asked, K) = y * SumFunctionOnSet(w, K)
  <2>1. \A s \in K : w[s] \in Int /\ asked[s] = y * w[s]
    BY <1>4
  <2>2. IsFiniteSet(K)
    BY <1>1
  <2>3. \A c \in Int : (\A s \in K : w[s] \in Int /\ asked[s] = c * w[s])
          => SumFunctionOnSet(asked, K) = c * SumFunctionOnSet(w, K)
    BY <2>2, SumScale
  <2> QED
    BY <2>1, <2>3
<1>10. SumFunctionOnSet(tens, K) < SumFunctionOnSet(asked, K)
  <2>1. PICK s \in K : TRUE
    BY <1>1
  <2>2. \A x \in K : tens[x] \in Int /\ asked[x] \in Int /\ tens[x] <= asked[x]
    BY <1>6
  <2>3. tens[s] < asked[s]
    BY <1>6
  <2> QED
    BY <1>1, <2>2, <2>3, SumStrict
<1>11. SumFunctionOnSet(share, K) \in Int
  BY <1>1, <1>4, SumInt
<1> QED
  BY <1>1, <1>7, <1>8, <1>9, <1>10, <1>11

\* The receipt makes the whole of the score, and one of its lines as much as any.
LEMMA ReceiptsExplain ==
  ASSUME TeamStatsAssumption, TypeOK
  PROVE  ReceiptExplains
<1> SUFFICES ASSUME NEW leads \in Standings, NEW p \in Ranked,
                    NEW given \in {Percentiles(Better(leads), order, p) : order \in Orders},
                    NEW r \in ComputeArchetype(given)
             PROVE  LET receipt == Receipt(given, r.primary)
                    IN /\ Cardinality(receipt) \in 3 .. 5
                       /\ Weighted({<<x.stat, x.percentile>> : x \in receipt}, r.primary)
                            = r.score
                       /\ \A y \in Scores(given) : \E x \in receipt :
                            10 * x.percentile[1] >= y[2]
  BY DEF ReceiptExplains
<1>0. PICK order \in Orders : given = Percentiles(Better(leads), order, p)
  OBVIOUS
<1> DEFINE pcts == Percentiles(Better(leads), order, p)
           pct == PctOf(Better(leads), order, p)
           a == r.primary
           listed == {<<x.stat, x.percentile>> : x \in Receipt(pcts, a)}
<1> DEFINE best == Best(Scores(pcts))
           next(x) == Best(Scores(pcts) \ {x})
           answers(x) == {[primary |-> x[1], secondary |-> y[1], score |-> x[2]] :
                            y \in next(x)}
<1>1. PICK x \in best : r.primary = x[1] /\ r.score = x[2]
  <2>1. r \in UNION {answers(x) : x \in best}
    BY <1>0 DEF ComputeArchetype
  <2>2. PICK x \in best : r \in answers(x)
    <3> HIDE DEF answers, best
    <3> QED
      BY <2>1
  <2>3. PICK y \in next(x) : r = [primary |-> x[1], secondary |-> y[1], score |-> x[2]]
    <3> HIDE DEF next, best
    <3> QED
      BY <2>2
  <2> HIDE DEF next, best
  <2> QED
    BY <2>3
<1>2. x \in Scores(pcts) /\ \A y \in Scores(pcts) : y[2] <= x[2]
  BY <1>1 DEF Best
<1>3. PICK b \in Archetypes : x = <<b, Weighted(pcts, b)>>
  BY <1>2 DEF Scores
<1>4. a \in Archetypes /\ r.score = Weighted(pcts, a)
  BY <1>1, <1>3
<1>5. /\ \A s \in StatsOf(a) : pct[s][1] \in Nat
      /\ OwnOf(pcts, a) = {<<s, pct[s]>> : s \in StatsOf(a)}
      /\ Weighted(pcts, a) = SumFunctionOnSet(Shares(a, pct), StatsOf(a))
  BY <1>4, ScoreFacts
<1>6. \A y \in Scores(pcts) : y[2] \in Int /\ y[2] <= r.score
  <2> TAKE y \in Scores(pcts)
  <2>1. PICK c \in Archetypes : y = <<c, Weighted(pcts, c)>>
    BY DEF Scores
  <2>2. /\ \A s \in StatsOf(c) : pct[s][1] \in Nat
        /\ Weighted(pcts, c) = SumFunctionOnSet(Shares(c, pct), StatsOf(c))
    BY ScoreFacts
  <2> DEFINE share == Shares(c, pct)
             K == StatsOf(c)
             w == ArchetypeWeights[c]
  <2>3. IsFiniteSet(K) /\ \A s \in K : w[s] \in Nat
    BY ArchetypesOk DEF WeightsOk, StatsOf
  <2>4. \A s \in K : share[s] = w[s] * pct[s][1]
    BY DEF Shares
  <2>5. \A k, m \in Nat : k * m \in Int
    OBVIOUS
  <2>6. \A s \in K : share[s] \in Int
    <3> HIDE DEF share, w, pct
    <3> QED
      BY <2>2, <2>3, <2>4, <2>5
  <2>7. SumFunctionOnSet(share, K) \in Int
    <3> HIDE DEF share, K
    <3> QED
      BY <2>3, <2>6, SumInt
  <2> QED
    BY <1>1, <1>2, <2>1, <2>2, <2>7
<1> HIDE DEF pcts, pct, a
<1>7. /\ Cardinality(Receipt(pcts, a)) \in 3 .. 5
      /\ listed = OwnOf(pcts, a)
      /\ \A s \in StatsOf(a) : \E z \in Receipt(pcts, a) : z.percentile = pct[s]
  BY <1>4, <1>5, ReceiptLists
<1>8. OwnOf(listed, a) = OwnOf(pcts, a)
  BY <1>7 DEF OwnOf
<1> HIDE DEF listed
<1>9. Weighted(listed, a) = SumFunctionOnSet(Shares(a, pct), StatsOf(a))
  BY <1>4, <1>5, <1>8, WeightedIs
<1>10. ASSUME NEW y \in Scores(pcts)
       PROVE  \E z \in Receipt(pcts, a) : 10 * z.percentile[1] >= y[2]
  <2>1. PICK s \in StatsOf(a) : 10 * pct[s][1] >= y[2]
    BY <1>4, <1>5, <1>6, LargestShare
  <2> QED
    BY <1>7, <2>1
<1> QED
  BY <1>0, <1>4, <1>5, <1>7, <1>9, <1>10 DEF pcts, a, listed

-----------------------------------------------------------------------------
(* The order of the list, which the database chooses.                      *)

\* There is an order, the database returns one.
LEMMA SomeOrder ==
  ASSUME TeamStatsAssumption
  PROVE  Orders # {}
<1> DEFINE n == Cardinality(Ranked)
<1>1. IsFiniteSet(Ranked)
  BY FS_Subset DEF Ranked, TeamStatsAssumption
<1>2. ExistsBijection(1 .. n, Ranked)
  BY <1>1, FS_CardinalityType
<1>3. PICK f : f \in Bijection(1 .. n, Ranked)
  BY <1>2 DEF ExistsBijection
<1>4. f \in [1 .. n -> Ranked] /\ \A i, j \in 1 .. n : i # j => f[i] # f[j]
  BY <1>3 DEF Bijection, Injection, IsInjective
<1>5. f \in Orders
  BY <1>4 DEF Orders, SetToSeqs
<1> QED
  BY <1>5

\* Who has no equal is placed alike in every order, so scored alike too.
LEMMA TiesOnly ==
  ASSUME TeamStatsAssumption, TypeOK
  PROVE  OrderBreaksTiesOnly
<1> SUFFICES ASSUME NEW leads \in Standings, NEW p \in Ranked,
                    \A s \in RelevantStats : Equals(leads, s, p) = {}
             PROVE  Cardinality({ComputeArchetype(Percentiles(Better(leads), order, p)) :
                                   order \in Orders}) = 1
  BY DEF OrderBreaksTiesOnly
<1> DEFINE n == Cardinality(Ranked)
           place(s) == 1 + Cardinality({q \in Ranked : <<s, q, p>> \in Better(leads)})
           pcts == {<<s, GoodnessPercentile(place(s), n)>> : s \in RelevantStats}
           answer == ComputeArchetype(pcts)
<1>1. \A s \in RelevantStats : Equals(Better(leads), s, p) = {}
  <2> SUFFICES ASSUME NEW s \in RelevantStats, NEW q \in Ranked \ {p}
               PROVE  <<s, p, q>> \in Better(leads) \/ <<s, q, p>> \in Better(leads)
    BY DEF Equals
  <2>1. Equals(leads, s, p) = {}
    OBVIOUS
  <2>2. <<s, p, q>> \in leads \/ <<s, q, p>> \in leads
    BY <2>1 DEF Equals
  <2> QED
    BY <2>2, BetterFacts
<1>2. ASSUME NEW order \in Orders PROVE Percentiles(Better(leads), order, p) = pcts
  <2>1. \A s \in RelevantStats : Place(Better(leads), order, p, s) = place(s)
    <3> TAKE s \in RelevantStats
    <3> DEFINE better == Cardinality({q \in Ranked : <<s, q, p>> \in Better(leads)})
               equals == Cardinality(Equals(Better(leads), s, p))
    <3>1. Orderly(Better(leads), s)
      BY StandingsOrderly DEF ShownStats
    <3>2. /\ better \in Nat
          /\ Place(Better(leads), order, p, s) \in 1 + better .. 1 + better + equals
      BY <3>1, PlaceAmongEquals
    <3>3. equals = 0
      BY <1>1, FS_EmptySet
    <3> HIDE DEF better, equals
    <3>4. Place(Better(leads), order, p, s) = 1 + better
      BY <3>2, <3>3
    <3> QED
      BY <3>4 DEF better
  <2>2. Len(order) = n
    BY OrderOfTeam
  <2> HIDE DEF place
  <2>3. \A s \in RelevantStats :
          GoodnessStanding(Better(leads), order, p, s) = GoodnessPercentile(place(s), n)
    BY <2>1, <2>2 DEF GoodnessStanding
  <2> HIDE DEF n
  <2> QED
    BY <2>3 DEF Percentiles
<1> HIDE DEF pcts
<1>3. {ComputeArchetype(Percentiles(Better(leads), order, p)) : order \in Orders} = {answer}
  BY <1>2, SomeOrder
<1> HIDE DEF answer
<1> QED
  BY <1>3, FS_Singleton

-----------------------------------------------------------------------------
(* The season's properties, from the lines alone: TypeOK is all they need.  *)

\* season_averages: a season's percentage lies between those of its games.
THEOREM SeasonsBetweenGames == Spec => []PctBetweenGames
<1>1. TypeOK => PctBetweenGames
  BY SeasonBetweenGames, TeamStatsAssumption
<1> QED
  BY <1>1, TypeCorrect, PTL

\* team_ranks and _goodness_percentiles: every place is given once, to the
\* better before the worse, and of the same lines both pages say the same, as far
\* as no equal leaves it to the order each reads the team in. The labels mean
\* what they say up to a team of ten: of eleven, the fourth has 100 * 7 / 10.
THEOREM StandingsAreFair ==
  ASSUME MaxTeam <= 10
  PROVE  Spec => []StandingsFair
<1>1. TypeOK => StandingsFair
  BY FairRanks, AgreeingStandings, HonestLabels, TeamStatsAssumption DEF StandingsFair
<1> QED
  BY <1>1, TypeCorrect, PTL

\* Ten is the most: _label_for calls the fourth of eleven one of the top three.
LEMMA ElevenMislabelled == Labels[LabelLevel(RankPercentile(4, 11))] = "top 3"
<1>1. RankPercentile(4, 11) = <<700, 10>>
  BY DEF RankPercentile
<1>2. \A a \in Int, b \in Nat : a = 700 /\ b = 10 => LabelLevel(<<a, b>>) = 2
  BY LevelIs
<1>3. LabelLevel(<<700, 10>>) = 2
  <2>1. 700 \in Int /\ 10 \in Nat
    OBVIOUS
  <2> QED
    BY <1>2, <2>1
<1>4. Labels[2] = "top 3"
  BY DEF Labels
<1> QED
  BY <1>1, <1>3, <1>4

\* compute_archetype: scores follow the averages as the code computes them, true
\* shooting rounded in any way it may be, the receipt makes the score, and the
\* database's order decides between equal averages only.
THEOREM ArchetypesJust == Spec => []ArchetypeJust
<1>1. TypeOK => ArchetypeJust
  BY PlayFollowed, ReceiptsExplain, TiesOnly, TeamStatsAssumption DEF ArchetypeJust
<1> QED
  BY <1>1, TypeCorrect, PTL
=============================================================================
