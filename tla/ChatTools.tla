----------------------------- MODULE ChatTools -----------------------------
(***************************************************************************)
(* What the chat model is told when it looks a player's games up           *)
(* (services/chat_tools.py): the five tools, statement by statement, over  *)
(* the same stored lines the app's lists are read from (GamePages), while  *)
(* lines are logged and seasons close and open. A conversation asks one    *)
(* question and may then open a game by an id it was given.                *)
(*                                                                         *)
(* A line's box score goes with its id: points stand for every number a    *)
(* search may sort by, venue for every attribute it may filter or a split  *)
(* may group by, the month apart. Averages are fractions, not rounded.     *)
(***************************************************************************)
EXTENDS GamePages

CONSTANTS
  Points,    \* of each line
  Venue,     \* of each line
  Venues,
  DaysPerMonth,
  Searches,  \* the filters, orders and limits of find_games that are tried
  LastNs,    \* the values of last_n_games that are tried, 0 for none
  All,       \* every season
  Foreign    \* the id of another team's season

ASSUME ChatToolsAssumption ==
  /\ Points \in [Games -> Nat]
  /\ Venue \in [Games -> Venues]
  /\ IsFiniteSet(Venues)
  /\ DaysPerMonth \in Nat \ {0}
  /\ LastNs \subseteq Nat
  /\ Searches \subseteq [venue : {"any"} \cup Venues, from : Nat,
                          sort : {"date", "points"}, order : {"asc", "desc"},
                          limit : Nat \ {0}]
  /\ All \notin Seasons \cup {Current, Foreign}
  /\ Foreign \notin Seasons \cup {Current}

VARIABLE chat  \* one conversation of one player

toolVars == <<lines, open, client, chat>>

Nothing == [tool |-> "none"]  \* neither called nor returned

AskedSeasons == Seasons \cup {Current, Foreign}

Calls ==
  [tool : {"list_seasons"}]
    \cup [tool : {"get_season_summary"}, season : AskedSeasons]
    \cup [tool : {"find_games"}, season : AskedSeasons \cup {All}, search : Searches]
    \cup [tool : {"get_game"}, id : Games]
    \cup [tool : {"get_game"}, date : Range(Date)]
    \cup [tool : {"get_split_averages"}, season : AskedSeasons \cup {All},
          by : {"venue", "month"}, last : LastNs]
    \cup [tool : {"unknown"}]

ChatTypeOK ==
  /\ TypeOK
  /\ chat.pc \in {"idle", "resolve", "read", "count", "highs", "result", "error", "over"}
  /\ chat.player \in Players
  /\ chat.season \in Seasons \cup {All}
  /\ chat.told \subseteq Games
  /\ chat.began \subseteq Games
  /\ chat.pc # "idle" => chat.call \in Calls

ChatInit ==
  \E p \in Players :
    chat = [pc |-> "idle", player |-> p, call |-> Nothing, season |-> All,
            began |-> {}, told |-> {}, out |-> Nothing]

-----------------------------------------------------------------------------
(* What a tool makes of the lines q that player_performances returned.     *)

AverageOf(gs) == <<MapThenSumSet(LAMBDA g : Points[g], gs), Cardinality(gs)>>

Matches(g, f) ==
  /\ f.venue \in {"any", Venue[g]}
  /\ Date[g] >= f.from

Value(g, field) == IF field = "date" THEN Date[g] ELSE Points[g]

\* g is sorted before h; equals stay as player_performances returned them.
Precedes(g, h, f) ==
  IF f.order = "desc" THEN Value(g, f.sort) > Value(h, f.sort)
  ELSE Value(g, f.sort) < Value(h, f.sort)

\* The matching games of q, sorted: rank is how many of them come before.
Matched(q, f) ==
  LET kept == {i \in DOMAIN q : Matches(q[i], f)}
      before(j, i) == \/ Precedes(q[j], q[i], f)
                      \/ j < i /\ ~Precedes(q[i], q[j], f)
      rank(i) == Cardinality({j \in kept : before(j, i)})
  IN [n \in 1 .. Cardinality(kept) |-> q[CHOOSE i \in kept : rank(i) = n - 1]]

\* The ids of a result.
RowIds(q) == ToSet(q)

\* Mutant: the limit is applied by the query, before the filters.
FindGamesLimitFirst(q, f) ==
  LET matched == Matched(Slice(q, 0, f.limit), f)
      page == Slice(matched, 0, f.limit)
  IN [games |-> page, total_matched |-> Len(matched), truncated |-> Len(matched) > Len(page),
      seen |-> ToSet(q)]

FindGames(q, f) ==
  LET matched == Matched(q, f)
      page == Slice(matched, 0, f.limit)
  IN [games |-> page, total_matched |-> Len(matched), truncated |-> Len(matched) > Len(page),
      seen |-> ToSet(q)]

GetSeasonSummary(q) ==
  [seen |-> ToSet(q), games_played |-> Len(q), averages |-> AverageOf(ToSet(q)),
   record |-> [v \in Venues |-> Cardinality({g \in ToSet(q) : Venue[g] = v})]]

GroupKey(g, by) ==
  IF by = "venue" THEN Venue[g] ELSE (Date[g] - 1) \div DaysPerMonth

\* Mutant: the last games are taken from the other end.
LastGamesOldest(q, n) == IF n = 0 THEN q ELSE Slice(Reverse(q), 0, n)

\* games[: last_n_games], if given.
LastGames(q, n) == IF n = 0 THEN q ELSE Slice(q, 0, n)

GetSplitAverages(q, c) ==
  LET games == ToSet(LastGames(q, c.last))
  IN [seen |-> ToSet(q), considered |-> games, overall |-> AverageOf(games),
      groups |-> {LET gs == {g \in games : GroupKey(g, c.by) = k}
                  IN [games |-> gs, averages |-> AverageOf(gs)] :
                    k \in {GroupKey(g, c.by) : g \in games}}]

-----------------------------------------------------------------------------
(* The statements of a call.                                               *)

Step(pc) == chat.pc = pc /\ UNCHANGED <<lines, open, client>>

NeedsSeason(c) ==
  c.tool \in {"get_season_summary", "find_games", "get_split_averages"} /\ c.season # All

Start(c) ==
  chat' = [chat EXCEPT !.call = c, !.out = Nothing, !.season = All,
             !.began = IF "search" \in DOMAIN c \/ "by" \in DOMAIN c THEN {} ELSE Stored,
             !.pc = IF NeedsSeason(c) THEN "resolve"
                    ELSE IF c.tool = "unknown" THEN "error" ELSE "read"]

\* execute_tool: a name or arguments it does not know are an error at once.
Call(c) == Step("idle") /\ Start(c)

\* The model opens a game by an id from the result, or from the error.
Follow ==
  /\ UNCHANGED <<lines, open, client>>
  /\ chat.pc \in {"result", "error"}
  /\ "id" \notin DOMAIN chat.call
  /\ \E g \in chat.told : Start([tool |-> "get_game", id |-> g])

\* _resolve_season: the season asked for, or the team's open one.
Resolve ==
  /\ Step("resolve")
  /\ LET asked == chat.call.season
         found == IF asked = Current THEN open ELSE {asked} \cap Seasons
     IN \/ \E s \in found : chat' = [chat EXCEPT !.pc = "read", !.season = s]
        \/ found = {} /\ chat' = [chat EXCEPT !.pc = "error"]

\* player_performances, of one season or of all.
Played ==
  IF chat.season # All THEN Results(chat.player, chat.season)
  ELSE {q \in SetToSeqs({g \in Stored : lines[g].player = chat.player}) :
          \A i, j \in DOMAIN q : i < j => Date[q[i]] >= Date[q[j]]}

Return(out, ids) ==
  chat' = [chat EXCEPT !.pc = "result", !.out = out, !.told = @ \cup ids]

ReadGames ==
  /\ Step("read")
  /\ \E q \in Played :
       \/ /\ chat.call.tool = "get_season_summary"
          /\ Return(GetSeasonSummary(q), {})
       \/ /\ chat.call.tool = "find_games"
          /\ LET out == FindGames(q, chat.call.search) IN Return(out, RowIds(out.games))
       \/ /\ chat.call.tool = "get_split_averages"
          /\ Return(GetSplitAverages(q, chat.call), {})

\* list_seasons: the team's seasons, whose labels and dates are not kept.
TeamSeasons ==
  /\ Step("read")
  /\ chat.call.tool = "list_seasons"
  /\ chat' = [chat EXCEPT !.pc = "count"]

\* Mutant: games are counted for the whole team.
CountSeasonsOfTeam ==
  /\ Step("count")
  /\ Return([counts |-> [s \in Seasons |-> Cardinality({g \in Stored : lines[g].season = s})]], {})

\* list_seasons, its second statement: the games in them by then.
CountSeasons ==
  /\ Step("count")
  /\ Return([counts |-> [s \in Seasons |-> Cardinality(Of(chat.player, s))]], {})

\* Mutant: the player is not in the WHERE clause.
MatchesOfAnyone ==
  {g \in Stored : IF "id" \in DOMAIN chat.call THEN g = chat.call.id
                  ELSE Date[g] = chat.call.date}

\* get_game: the player's line with the id, or those of the day, in any season.
GameMatches ==
  {g \in Stored : /\ lines[g].player = chat.player
                  /\ IF "id" \in DOMAIN chat.call THEN g = chat.call.id
                     ELSE Date[g] = chat.call.date}

\* No match is an error, and several are one that names their ids.
GetGameTool ==
  /\ Step("read")
  /\ chat.call.tool = "get_game"
  /\ LET found == GameMatches
     IN IF Cardinality(found) = 1
        THEN chat' = [chat EXCEPT !.pc = "highs", !.out = [game |-> CHOOSE g \in found : TRUE]]
        ELSE chat' = [chat EXCEPT !.pc = "error", !.told = @ \cup found]

\* personal_bests, in the season's lines as they are now.
High(g) ==
  /\ Points[g] > 0
  /\ \A h \in Of(chat.player, lines[g].season) : Points[h] <= Points[g]

GetGameHighs ==
  /\ Step("highs")
  /\ LET g == chat.out.game IN Return([game |-> g, high |-> High(g)], {g})

ChatNext ==
  \/ \E c \in Calls : Call(c)
  \/ Follow \/ Resolve \/ ReadGames \/ TeamSeasons \/ CountSeasons
  \/ GetGameTool \/ GetGameHighs

\* Both only read, so that neither changes what the other is shown: a behaviour
\* has a client that pages or one that chats, and the environment next to them.
\* Bound: it rests while an answer is complete, which nothing reads again; what
\* happens before a follow-up reads can happen after it was asked.
Complete == chat.pc \in {"result", "error"} \/ client.pc \in {"done", "404"}

ToolsInit == Init /\ ChatInit
ToolsNext ==
  \/ ~Complete /\ Environment /\ UNCHANGED chat
  \/ chat.pc = "idle" /\ ClientNext /\ UNCHANGED chat
  \/ client.pc = "idle" /\ ChatNext

ToolsSpec == ToolsInit /\ [][ToolsNext]_toolVars

-----------------------------------------------------------------------------
(* Properties. out.seen is what the statement returned, so that they hold   *)
(* of the answer also when lines have been logged since.                    *)

Returned(tool) == chat.pc = "result" /\ chat.call.tool = tool
Own(s) == {g \in Stored : lines[g].player = chat.player /\ s \in {All, lines[g].season}}

\* "Every tool is scoped to the authenticated player": whatever ids, dates and
\* seasons the model asks for, nothing it is told is of a teammate, or of a
\* season of another team, or of another season than it asked for.
ToolsScoped ==
  /\ chat.told \subseteq Own(All)
  /\ "seen" \in DOMAIN chat.out =>
       LET asked == chat.call.season
       IN chat.out.seen \subseteq Own(IF asked \in Seasons THEN asked ELSE All)
  /\ "game" \in DOMAIN chat.out => chat.out.game \in Own(All)
  /\ chat.pc = "result" /\ NeedsSeason(chat.call) => chat.call.season # Foreign

\* Neither the app nor the chat is shown anything of another player.
NobodyElses == OwnGames /\ ToolsScoped

\* An id the model was given by a search, or by the error of an ambiguous date,
\* opens the game it stood for, whatever was logged in between.
IdsResolve ==
  "id" \in DOMAIN chat.call /\ chat.call.id \in chat.told =>
    /\ chat.pc # "error"
    /\ chat.out # Nothing => chat.out.game = chat.call.id

\* A search that was cut short says so, and what it left out is no better: no
\* matching game that is not shown belongs before one that is. If it was not
\* cut short every matching game is shown.
SearchHonest ==
  Returned("find_games") =>
    LET f == chat.call.search
        shown == ToSet(chat.out.games)
        matching == {g \in chat.out.seen : Matches(g, f)}
    IN /\ shown \subseteq matching
       /\ chat.out.truncated <=> shown # matching
       /\ chat.out.total_matched = Cardinality(matching)
       /\ \A g \in matching \ shown, h \in shown : ~Precedes(g, h, f)
       /\ Len(chat.out.games) = (IF f.limit < Cardinality(matching) THEN f.limit
                                 ELSE Cardinality(matching))

\* A split takes the most recent games, puts each into one group, and its
\* overall average lies between those of the worst and the best group. The
\* record of a season's summary splits all its games in the same way.
SplitsPartition ==
  /\ Returned("get_split_averages") =>
       LET out == chat.out
       IN /\ \A g \in out.considered, h \in out.seen \ out.considered :
               Date[g] >= Date[h]
          /\ UNION {x.games : x \in out.groups} = out.considered
          /\ SumFunction([x \in out.groups |-> x.averages[2]])
               = Cardinality(out.considered)
          /\ out.groups # {} =>
               /\ \E x \in out.groups :
                    x.averages[1] * out.overall[2] <= out.overall[1] * x.averages[2]
               /\ \E x \in out.groups :
                    x.averages[1] * out.overall[2] >= out.overall[1] * x.averages[2]
  /\ Returned("get_season_summary") =>
       SumFunction(chat.out.record) = chat.out.games_played

\* The games counted in list_seasons are those a summary of each season is
\* made of, up to what is logged while the conversation goes on.
CountsAgree ==
  /\ Returned("list_seasons") => \A s \in Seasons :
       chat.out.counts[s] \in Cardinality(Own(s) \cap chat.began) .. Cardinality(Own(s))
  /\ Returned("get_season_summary") =>
       chat.out.games_played \in
         Cardinality(Own(chat.season) \cap chat.began) .. Cardinality(Own(chat.season))

\* A game that is called a season high still beats every game there was when
\* it was asked for, and one that is not called so does not beat them all now.
HighsHold ==
  Returned("get_game") =>
    LET g == chat.out.game
        season == Own(lines[g].season)
        beats(gs) == Points[g] > 0 /\ \A h \in gs : Points[h] <= Points[g]
    IN /\ chat.out.high => beats(season \cap chat.began)
       /\ beats(season) => chat.out.high

\* What one tool says of a game or a season, the next one and the lists confirm:
\* ids, counts and season highs.
ToolsAgree == IdsResolve /\ CountsAgree /\ HighsHold
=============================================================================
