-------------------------- MODULE ChatToolsProofs --------------------------
(***************************************************************************)
(* Proofs about the games a player is shown (GamePages) and what the chat's *)
(* tools tell of them (ChatTools), for any number of lines, of any dates.   *)
(*                                                                         *)
(* What a client was shown of a list, page by page, is related to the lines *)
(* there are now by their ranks: how many lines are newer than a given one. *)
(* Logging a line only raises ranks, which pushes lines to later pages.     *)
(***************************************************************************)
EXTENDS ChatTools, Sums, SequenceTheorems

-----------------------------------------------------------------------------
(* Orders and ranks.                                                       *)

Newer(S, d) == {h \in S : Date[h] > d}
NotOlder(S, d) == {h \in S : Date[h] >= d}

\* An order of a set of lines has each of them once.
LEMMA OrderFacts ==
  ASSUME GamePagesAssumption, NEW S \in SUBSET Games, NEW q \in SetToSeqs(S)
  PROVE  /\ IsFiniteSet(S) /\ Cardinality(S) \in Nat
         /\ q \in Seq(S) /\ Len(q) = Cardinality(S) /\ DOMAIN q = 1 .. Cardinality(S)
         /\ \A i, j \in DOMAIN q : q[i] = q[j] => i = j
         /\ ToSet(q) = S
<1>1. IsFiniteSet(S) /\ Cardinality(S) \in Nat
  BY FS_Subset, FS_CardinalityType DEF GamePagesAssumption
<1>2. /\ q \in [1 .. Cardinality(S) -> S]
      /\ \A i, j \in 1 .. Cardinality(S) : q[i] = q[j] => i = j
  BY DEF SetToSeqs
<1>3. q \in Seq(S) /\ Len(q) = Cardinality(S) /\ DOMAIN q = 1 .. Cardinality(S)
  BY <1>1, <1>2, SeqDef, LenProperties
<1>4. q \in Injection(1 .. Cardinality(S), S)
  BY <1>2 DEF Injection, IsInjective
<1>5. Cardinality(1 .. Cardinality(S)) = Cardinality(S)
  BY <1>1, FS_Interval
<1>6. q \in Surjection(1 .. Cardinality(S), S)
  BY <1>1, <1>4, <1>5, FS_Injection
<1>7. ToSet(q) = S
  BY <1>2, <1>3, <1>6 DEF Surjection, ToSet
<1> QED
  BY <1>1, <1>2, <1>3, <1>7

\* The first k of an order are k lines.
LEMMA FirstOfOrder ==
  ASSUME GamePagesAssumption, NEW S \in SUBSET Games, NEW q \in SetToSeqs(S),
         NEW k \in 0 .. Cardinality(S)
  PROVE  LET first == {q[j] : j \in 1 .. k}
         IN first \subseteq S /\ IsFiniteSet(first) /\ Cardinality(first) = k
<1> DEFINE first == {q[j] : j \in 1 .. k}
           f == [j \in 1 .. k |-> q[j]]
<1>1. /\ Cardinality(S) \in Nat
      /\ DOMAIN q = 1 .. Cardinality(S)
      /\ \A i \in DOMAIN q : q[i] \in S
      /\ \A i, j \in DOMAIN q : q[i] = q[j] => i = j
  BY OrderFacts DEF ToSet
<1>2. k \in Nat /\ 1 .. k \subseteq DOMAIN q
  BY <1>1
<1>3. f \in Bijection(1 .. k, first)
  BY <1>1, <1>2 DEF Bijection, Injection, Surjection, IsInjective
<1>4. IsFiniteSet(1 .. k) /\ Cardinality(1 .. k) = k
  BY <1>2, FS_Interval
<1>5. IsFiniteSet(first) /\ Cardinality(first) = k
  BY <1>3, <1>4, FS_Bijection DEF ExistsBijection
<1> QED
  BY <1>1, <1>2, <1>5

\* The place of a line in an order by date lies between how many lines are newer
\* and how many are not older.
LEMMA PlaceIsRank ==
  ASSUME GamePagesAssumption, NEW S \in SUBSET Games, NEW q \in SetToSeqs(S),
         \A i, j \in DOMAIN q : i < j => Date[q[i]] >= Date[q[j]],
         NEW i \in DOMAIN q
  PROVE  /\ Cardinality(Newer(S, Date[q[i]])) \in 0 .. (i - 1)
         /\ i <= Cardinality(NotOlder(S, Date[q[i]]))
<1> DEFINE d == Date[q[i]]
           before == {q[j] : j \in 1 .. (i - 1)}
           upto == {q[j] : j \in 1 .. i}
<1>1. /\ IsFiniteSet(S) /\ Cardinality(S) \in Nat
      /\ DOMAIN q = 1 .. Cardinality(S)
      /\ ToSet(q) = S
  BY OrderFacts
<1>2. i \in 1 .. Cardinality(S) /\ i - 1 \in 0 .. Cardinality(S) /\ i \in 0 .. Cardinality(S)
  BY <1>1
<1>3. \A g \in S : Date[g] \in Nat
  BY DEF GamePagesAssumption
<1>4. Newer(S, d) \subseteq before
  <2> SUFFICES ASSUME NEW h \in Newer(S, d) PROVE h \in before
    OBVIOUS
  <2>1. PICK j \in DOMAIN q : q[j] = h
    BY <1>1 DEF Newer, ToSet
  <2>2. q[i] \in S /\ h \in S
    BY <1>1 DEF Newer, ToSet
  <2>3. ~(i < j) /\ j # i
    BY <1>3, <2>1, <2>2 DEF Newer
  <2> QED
    BY <1>1, <1>2, <2>1, <2>3
<1>5. upto \subseteq NotOlder(S, d)
  <2> SUFFICES ASSUME NEW j \in 1 .. i PROVE q[j] \in NotOlder(S, d)
    OBVIOUS
  <2>1. j \in DOMAIN q /\ q[j] \in S /\ q[i] \in S
    BY <1>1, <1>2 DEF ToSet
  <2>2. j < i \/ j = i
    BY <1>2
  <2> QED
    BY <1>3, <2>1, <2>2 DEF NotOlder
<1>6. IsFiniteSet(before) /\ Cardinality(before) = i - 1
  BY <1>2, FirstOfOrder
<1>7. IsFiniteSet(upto) /\ Cardinality(upto) = i
  BY <1>2, FirstOfOrder
<1>8. IsFiniteSet(Newer(S, d)) /\ Cardinality(Newer(S, d)) <= i - 1
  BY <1>4, <1>6, FS_Subset
<1>9. Cardinality(Newer(S, d)) \in Nat
  BY <1>8, FS_CardinalityType
<1>10. IsFiniteSet(NotOlder(S, d))
  BY <1>1, FS_Subset DEF NotOlder
<1>11. Cardinality(NotOlder(S, d)) \in Nat /\ i <= Cardinality(NotOlder(S, d))
  BY <1>5, <1>7, <1>10, FS_Subset, FS_CardinalityType
<1> QED
  BY <1>2, <1>8, <1>9, <1>11
-----------------------------------------------------------------------------
(* The inductive invariant: of the client that pages ...                   *)

\* What a request carries between its statements and its pages.
PageOk ==
  /\ client.began \subseteq Stored
  /\ client.pc = "idle" => client.what = "list" /\ client.asked = Current
  /\ client.pc = "idle" \/ client.what = "last" => client.offset = 0
  /\ client.pc = "idle" \/ (client.pc \in {"page", "read"} /\ client.what = "last") =>
       client.shown = <<>>
  /\ client.what = "game" => client.asked = Current /\ client.pc \in {"done", "404"}
  /\ client.pc = "read" =>
       client.season \in Seasons /\ client.asked \in {Current, client.season}

\* A line that was shown stays the player's, and of the season asked for.
ShownOk ==
  \A g \in Shown : /\ g \in Stored
                   /\ lines[g].player = client.player
                   /\ Named => lines[g].season = client.asked

\* As long as no season ends or begins, pages of the current one agree.
SteadyOk ==
  client.asked = Current /\ client.steady =>
    /\ client.pc = "read" => client.season \in open
    /\ client.what = "list" => \A g \in Shown : lines[g].season \in open

\* A line alone on its day that was there from the start and is not shown yet is
\* on a later page.
SkipOk ==
  Named /\ client.what = "list" =>
    \A g \in (Asked \cap client.began) \ Shown : Alone(g) =>
      client.pc # "done" /\ client.offset <= Cardinality(Newer(Asked, Date[g]))

\* Without a load, all pages but the last are full.
CountOk ==
  Named /\ client.what = "list" /\ Quiet =>
    IF client.pc = "done"
    THEN Len(client.shown) = client.total /\ client.total = Cardinality(Asked)
    ELSE /\ Len(client.shown) = client.offset
         /\ client.offset = 0 \/ client.offset < Cardinality(Asked)

\* Without a load, each line is shown at a place its date allows.
RankOk ==
  Named /\ Quiet =>
    \A i \in DOMAIN client.shown :
      /\ Cardinality(Newer(Asked, Date[client.shown[i]])) < i
      /\ i <= Cardinality(NotOlder(Asked, Date[client.shown[i]]))

\* Without a load, the last game is the last one.
LastOk ==
  Named /\ Quiet /\ client.what = "last" /\ client.pc = "done" =>
    \A g \in Asked : \E h \in Shown : Date[h] >= Date[g]

PagesInv ==
  TypeOK /\ PageOk /\ ShownOk /\ SteadyOk /\ SkipOk /\ CountOk /\ RankOk /\ LastOk

-----------------------------------------------------------------------------
(* ... and of the conversation.                                            *)

ChatFields == {"pc", "player", "call", "season", "began", "told", "out"}

\* What a call carries between its statements: the season it resolved.
CallOk ==
  /\ DOMAIN chat = ChatFields
  /\ ChatTypeOK
  /\ chat.began \subseteq Stored
  /\ chat.pc = "idle" => chat.call = Nothing
  /\ chat.pc = "resolve" => NeedsSeason(chat.call)
  /\ chat.pc \in {"read", "count", "highs", "result"} =>
       IF NeedsSeason(chat.call)
       THEN chat.season \in Seasons /\ chat.call.season \in {Current, chat.season}
       ELSE chat.season = All
  /\ chat.pc = "count" => chat.call.tool = "list_seasons"
  /\ chat.pc \in {"highs", "result"} => chat.call.tool # "unknown"
  /\ chat.call = Nothing \/ chat.call \in Calls

\* The shape of an answer, by what was called; only answers hold any lines.
OutOk ==
  /\ chat.pc \notin {"highs", "result"} => chat.out = Nothing
  /\ chat.pc = "highs" =>
       /\ chat.call.tool = "get_game"
       /\ DOMAIN chat.out = {"game"}
  /\ chat.pc = "result" =>
       DOMAIN chat.out =
         CASE chat.call.tool = "list_seasons" -> {"counts"}
           [] chat.call.tool = "get_season_summary" ->
                {"seen", "games_played", "averages", "record"}
           [] chat.call.tool = "find_games" ->
                {"games", "total_matched", "truncated", "seen"}
           [] chat.call.tool = "get_game" -> {"game", "high"}
           [] chat.call.tool = "get_split_averages" ->
                {"seen", "considered", "overall", "groups"}

\* Every line told of is the player's, and one asked for by its id is that one.
ToldOk ==
  /\ chat.told \subseteq Own(All)
  /\ chat.pc = "result" /\ "seen" \in DOMAIN chat.out =>
       chat.out.seen \subseteq Own(chat.season)
  /\ chat.pc \in {"highs", "result"} /\ chat.call.tool = "get_game" =>
       /\ chat.out.game \in Own(All)
       /\ "id" \in DOMAIN chat.call => chat.out.game = chat.call.id
  /\ chat.pc = "error" /\ "id" \in DOMAIN chat.call => chat.call.id \notin chat.told

ToolsInv == CallOk /\ OutOk /\ ToldOk /\ CountsAgree /\ HighsHold /\ SearchHonest

Inv == PagesInv /\ ToolsInv
-----------------------------------------------------------------------------
(* Lines are only added.                                                   *)

\* A logged line was not stored before, and every other one is as it was.
LEMMA LogAdds ==
  ASSUME GamePagesAssumption, TypeOK, NEW g \in Games, NEW l \in Line, Log(g, l)
  PROVE  /\ g \notin Stored /\ Stored' = Stored \cup {g}
         /\ \A h \in Stored : lines'[h] = lines[h]
         /\ \A p \in Players, s \in Seasons :
              Of(p, s) \subseteq Of(p, s)' /\ Of(p, s)' \subseteq Of(p, s) \cup {g}
<1>1. l # NoLine
  BY DEF GamePagesAssumption, Line
<1>2. lines'[g] = l /\ \A h \in Games \ {g} : lines'[h] = lines[h]
  BY DEF TypeOK, Log
<1>3. g \notin Stored /\ Stored' = Stored \cup {g}
  BY <1>1, <1>2 DEF Log, Stored
<1>4. \A h \in Stored : lines'[h] = lines[h]
  BY <1>2, <1>3 DEF Stored
<1> QED
  BY <1>3, <1>4 DEF Of

\* More lines never lower a rank.
LEMMA RanksGrow ==
  ASSUME GamePagesAssumption, NEW S, NEW T \in SUBSET Games, S \subseteq T, NEW d
  PROVE  /\ Cardinality(Newer(S, d)) \in Nat /\ Cardinality(Newer(T, d)) \in Nat
         /\ Cardinality(Newer(S, d)) <= Cardinality(Newer(T, d))
         /\ IsFiniteSet(NotOlder(S, d)) /\ Cardinality(NotOlder(S, d)) \in Nat
<1>1. /\ Newer(S, d) \in SUBSET Newer(T, d)
      /\ Newer(T, d) \in SUBSET Games
      /\ NotOlder(S, d) \in SUBSET Games
  BY DEF Newer, NotOlder
<1>2. IsFiniteSet(Newer(T, d)) /\ IsFiniteSet(NotOlder(S, d))
  BY <1>1, FS_Subset DEF GamePagesAssumption
<1>3. IsFiniteSet(Newer(S, d)) /\ Cardinality(Newer(S, d)) <= Cardinality(Newer(T, d))
  BY <1>1, <1>2, FS_Subset
<1> QED
  BY <1>2, <1>3, FS_CardinalityType

\* Nothing is logged and nobody has asked.
LEMMA PagesInit ==
  ASSUME GamePagesAssumption, Init
  PROVE  PagesInv
<1>1. TypeOK
  BY DEF TypeOK, Init, GamePagesAssumption
<1>2. PageOk /\ ShownOk /\ SteadyOk /\ SkipOk /\ CountOk /\ RankOk /\ LastOk
  BY DEF Init, PageOk, ShownOk, SteadyOk, SkipOk, CountOk, RankOk, LastOk, Named, Shown, ToSet
<1> QED
  BY <1>1, <1>2 DEF PagesInv

\* A logged line pushes lines only to later pages.
LEMMA LogPages ==
  ASSUME GamePagesAssumption, PagesInv, NEW g \in Games, NEW l \in Line, Log(g, l)
  PROVE  PagesInv'
<1> USE GamePagesAssumption DEF PagesInv
<1>1. client' = client /\ open' = open
  BY DEF Log
<1>2. /\ g \notin Stored /\ Stored' = Stored \cup {g}
      /\ \A h \in Stored : lines'[h] = lines[h]
  BY LogAdds
<1>3. TypeOK'
  BY DEF TypeOK, Log
<1>4. PageOk'
  BY <1>1, <1>2 DEF PageOk
<1>5. Named' = Named /\ Shown' = Shown
  BY <1>1 DEF Named, Shown
<1>6. ShownOk'
  BY <1>1, <1>2, <1>5 DEF ShownOk
<1>7. SteadyOk'
  BY <1>1, <1>2, <1>5 DEF SteadyOk, ShownOk
<1> SUFFICES ASSUME Named PROVE SkipOk' /\ CountOk' /\ RankOk' /\ LastOk'
  BY <1>3, <1>4, <1>5, <1>6, <1>7 DEF SkipOk, CountOk, RankOk, LastOk
<1>8. client.player \in Players /\ client.asked \in Seasons
  BY DEF TypeOK, Named
<1>9. /\ Asked \subseteq Asked' /\ Asked' \subseteq Asked \cup {g}
      /\ Asked' \in SUBSET Games /\ Asked \in SUBSET Games
  BY <1>1, <1>8, LogAdds DEF Asked, Of, Stored
<1>10. ASSUME Quiet' PROVE Quiet /\ Asked' = Asked
  BY <1>1, <1>2, <1>9, <1>10 DEF Quiet, PageOk
<1>11. SkipOk'
  <2> SUFFICES ASSUME client.what = "list",
                      NEW h \in (Asked' \cap client.began) \ Shown, Alone(h)'
               PROVE  client.pc # "done"
                        /\ client.offset <= Cardinality(Newer(Asked', Date[h]))
    BY <1>1, <1>5 DEF SkipOk
  <2>2. h \in Asked
    BY <1>2, <1>9 DEF PageOk
  <2>1. Alone(h)
    BY <1>9, <2>2 DEF Alone, SameDay
  <2>3. client.pc # "done" /\ client.offset <= Cardinality(Newer(Asked, Date[h]))
    BY <2>1, <2>2 DEF SkipOk
  <2>4. /\ Cardinality(Newer(Asked, Date[h])) \in Nat
        /\ Cardinality(Newer(Asked', Date[h])) \in Nat
        /\ Cardinality(Newer(Asked, Date[h])) <= Cardinality(Newer(Asked', Date[h]))
    BY <1>9, RanksGrow
  <2>5. client.offset \in Nat
    BY DEF TypeOK
  <2> QED
    BY <2>3, <2>4, <2>5
<1>12. CountOk'
  BY <1>1, <1>5, <1>10 DEF CountOk
<1>13. RankOk'
  BY <1>1, <1>5, <1>10 DEF RankOk
<1>14. LastOk'
  BY <1>1, <1>5, <1>10 DEF LastOk
<1> QED
  BY <1>11, <1>12, <1>13, <1>14

\* Opening and closing seasons changes no line.
LEMMA SeasonPages ==
  ASSUME GamePagesAssumption, PagesInv, NEW s \in Seasons, Close(s) \/ Open(s)
  PROVE  PagesInv'
<1> USE DEF PagesInv
<1>1. lines' = lines /\ open' \in SUBSET Seasons
      /\ client' = [client EXCEPT !.steady = @ /\ client.pc = "idle"]
  BY DEF Close, Open, Unsettle, TypeOK
<1>2. /\ client'.pc = client.pc /\ client'.what = client.what
      /\ client'.player = client.player /\ client'.asked = client.asked
      /\ client'.season = client.season /\ client'.limit = client.limit
      /\ client'.offset = client.offset /\ client'.shown = client.shown
      /\ client'.total = client.total /\ client'.began = client.began
      /\ client'.steady = (client.steady /\ client.pc = "idle")
  BY <1>1 DEF TypeOK
<1>3. TypeOK'
  BY <1>1 DEF TypeOK
<1>4. Stored' = Stored /\ Named' = Named /\ Shown' = Shown /\ Asked' = Asked
  BY <1>1, <1>2 DEF Stored, Named, Shown, Asked, Of
<1>5. (\A g : Alone(g)' = Alone(g)) /\ Quiet' = Quiet
  BY <1>2, <1>4 DEF Alone, SameDay, Quiet
<1>6. PageOk'
  BY <1>2, <1>4 DEF PageOk
<1>7. ShownOk'
  BY <1>1, <1>2, <1>4 DEF ShownOk
<1>8. SteadyOk'
  <2>1. CASE client.pc = "idle"
    <3>1. Shown = {}
      BY <2>1 DEF PageOk, Shown, ToSet
    <3> QED
      BY <1>2, <1>4, <2>1, <3>1 DEF SteadyOk
  <2>2. CASE client.pc # "idle"
    BY <1>2, <2>2 DEF SteadyOk
  <2> QED
    BY <2>1, <2>2
<1>9. SkipOk'
  BY <1>2, <1>4, <1>5 DEF SkipOk
<1>10. CountOk' /\ RankOk'
  BY <1>2, <1>4, <1>5 DEF CountOk, RankOk
<1>11. LastOk'
  BY <1>2, <1>4, <1>5 DEF LastOk
<1> QED
  BY <1>3, <1>6, <1>7, <1>8, <1>9, <1>10, <1>11
-----------------------------------------------------------------------------
(* The client's requests. Before a page is read nothing is shown that was   *)
(* not shown before.                                                       *)

\* A new question starts with no page.
LEMMA AskPages ==
  ASSUME GamePagesAssumption, PagesInv,
         NEW p \in Players, NEW what \in {"list", "last"},
         NEW s \in Seasons \cup {Current}, NEW limit \in Limits,
         Ask(p, what, s, limit)
  PROVE  PagesInv'
<1> USE DEF PagesInv
<1>1. /\ client.pc = "idle"
      /\ client'.pc = "page" /\ client'.what = what /\ client'.player = p
      /\ client'.asked = s /\ client'.began = Stored
      /\ client'.offset = 0 /\ client'.shown = <<>> /\ client'.steady = client.steady
      /\ lines' = lines /\ open' = open
  BY DEF Ask, TypeOK, PageOk
<1>2. TypeOK'
  BY DEF Ask, TypeOK, Stored
<1>3. Stored' = Stored /\ Shown' = {}
  BY <1>1 DEF Stored, Shown, ToSet
<1>4. PageOk'
  BY <1>1, <1>3 DEF PageOk
<1>5. ShownOk' /\ SteadyOk'
  BY <1>1, <1>3 DEF ShownOk, SteadyOk
<1>6. SkipOk'
  <2> SUFFICES ASSUME Named', NEW g \in Asked'
               PROVE  0 <= Cardinality(Newer(Asked', Date[g]))
    BY <1>1 DEF SkipOk
  <2>1. Asked' \subseteq Games
    BY DEF Asked, Of, Stored
  <2> QED
    BY <2>1, RanksGrow
<1>7. CountOk' /\ RankOk' /\ LastOk'
  BY <1>1 DEF CountOk, RankOk, LastOk
<1> QED
  BY <1>2, <1>4, <1>5, <1>6, <1>7

\* One game is the player's or a 404.
LEMMA GetGamePages ==
  ASSUME GamePagesAssumption, PagesInv, NEW p \in Players, NEW g \in Games, GetGame(p, g)
  PROVE  PagesInv'
<1> USE DEF PagesInv
<1>1. /\ client.pc = "idle" /\ lines' = lines /\ open' = open
      /\ client'.what = "game" /\ client'.player = p /\ client'.asked = client.asked
      /\ client'.offset = 0
      /\ client'.pc \in {"done", "404"}
      /\ client'.began \in {Stored, client.began}
      /\ client'.shown # <<>> =>
           client'.shown = <<g>> /\ g \in Stored /\ lines[g].player = p
  BY DEF GetGame, TypeOK, PageOk
<1>2. TypeOK'
  <2>1. <<g>> \in Seq(Games) /\ Stored \in SUBSET Games
    BY DEF Stored
  <2>2. CASE g \in Stored /\ lines[g].player = p
    BY <2>1, <2>2 DEF GetGame, TypeOK
  <2>3. CASE ~(g \in Stored /\ lines[g].player = p)
    BY <2>3 DEF GetGame, TypeOK
  <2> QED
    BY <2>2, <2>3
<1>3. client.asked = Current
  BY <1>1 DEF PageOk
<1>4. Stored' = Stored /\ \A h \in Shown' : h \in Stored /\ lines[h].player = p
  BY <1>1 DEF Stored, Shown, ToSet
<1>5. ~Named'
  BY <1>1, <1>3 DEF Named
<1>6. PageOk'
  BY <1>1, <1>3, <1>4 DEF PageOk
<1>7. ShownOk'
  BY <1>1, <1>4, <1>5 DEF ShownOk
<1>8. SteadyOk' /\ SkipOk' /\ CountOk' /\ RankOk' /\ LastOk'
  BY <1>1, <1>5 DEF SteadyOk, SkipOk, CountOk, RankOk, LastOk
<1> QED
  BY <1>2, <1>6, <1>7, <1>8

\* The season a page is of is resolved before it is read.
LEMMA ResolvePages ==
  ASSUME GamePagesAssumption, PagesInv, ResolveSeason
  PROVE  PagesInv'
<1> USE DEF PagesInv
<1>1. /\ client.pc = "page" /\ lines' = lines /\ open' = open
      /\ client'.what = client.what /\ client'.player = client.player
      /\ client'.asked = client.asked /\ client'.limit = client.limit
      /\ client'.offset = client.offset /\ client'.shown = client.shown
      /\ client'.total = client.total /\ client'.began = client.began
      /\ client'.steady = client.steady
      /\ \/ /\ client'.pc = "read" /\ client'.season \in Seasons
            /\ client.asked \in {Current, client'.season}
            /\ client.asked = Current => client'.season \in open
         \/ client'.pc = "404"
  BY DEF ResolveSeason, TypeOK
<1>2. TypeOK'
  BY DEF ResolveSeason, TypeOK
<1>3. Stored' = Stored /\ Shown' = Shown /\ Asked' = Asked /\ (Named' => Named)
  BY <1>1 DEF Stored, Named, Shown, Asked, Of
<1>4. (\A g : Alone(g)' = Alone(g)) /\ Quiet' = Quiet
  BY <1>1, <1>3 DEF Alone, SameDay, Quiet
<1>5. PageOk'
  BY <1>1, <1>3 DEF PageOk
<1>6. ShownOk'
  BY <1>1, <1>3 DEF ShownOk
<1>7. SteadyOk'
  BY <1>1, <1>3 DEF SteadyOk
<1>8. SkipOk'
  BY <1>1, <1>3, <1>4 DEF SkipOk
<1>9. CountOk' /\ RankOk' /\ LastOk'
  BY <1>1, <1>3, <1>4 DEF CountOk, RankOk, LastOk
<1> QED
  BY <1>2, <1>5, <1>6, <1>7, <1>8, <1>9
-----------------------------------------------------------------------------
(* Reading a page.                                                         *)

\* A slice is the part of the list after offset, as far as there is one.
LEMMA SliceFacts ==
  ASSUME NEW S, NEW q \in Seq(S), NEW offset \in Nat, NEW limit \in Nat \ {0}
  PROVE  /\ Slice(q, offset, limit) \in Seq(S)
         /\ \A k \in DOMAIN Slice(q, offset, limit) :
              offset + k \in DOMAIN q /\ k <= limit
                /\ Slice(q, offset, limit)[k] = q[offset + k]
         /\ \A i \in DOMAIN q :
              offset < i /\ i <= offset + limit => q[i] \in ToSet(Slice(q, offset, limit))
         /\ ToSet(Slice(q, offset, limit)) \subseteq ToSet(q)
         /\ offset <= Len(q) =>
              Len(Slice(q, offset, limit)) =
                IF offset + limit < Len(q) THEN limit ELSE Len(q) - offset
<1> DEFINE last == IF offset + limit < Len(q) THEN offset + limit ELSE Len(q)
           slice == Slice(q, offset, limit)
<1>1. Len(q) \in Nat /\ DOMAIN q = 1 .. Len(q) /\ \A i \in 1 .. Len(q) : q[i] \in S
  BY LenProperties
<1>2. last \in Nat /\ last <= Len(q) /\ last <= offset + limit
  BY <1>1
<1>3. slice = SubSeq(q, offset + 1, last)
  BY DEF Slice
<1>4. \A i \in (offset + 1) .. last : q[i] \in S
  BY <1>1, <1>2
<1>5. /\ slice \in Seq(S)
      /\ Len(slice) = IF offset + 1 <= last THEN last - offset ELSE 0
      /\ \A k \in 1 .. (last - offset) : slice[k] = q[offset + k]
  <2> HIDE DEF last, slice
  <2>1. offset + 1 \in Int /\ last \in Int
    BY <1>2
  <2>2. /\ SubSeq(q, offset + 1, last) \in Seq(S)
        /\ Len(SubSeq(q, offset + 1, last)) =
             IF offset + 1 <= last THEN last - (offset + 1) + 1 ELSE 0
        /\ \A k \in 1 .. (last - (offset + 1) + 1) :
             SubSeq(q, offset + 1, last)[k] = q[offset + 1 + k - 1]
    BY <1>4, <2>1, SubSeqProperties
  <2> QED
    BY <1>2, <1>3, <2>2
<1>6. DOMAIN slice = 1 .. Len(slice)
  BY <1>5, LenProperties
<1>7. \A k \in DOMAIN slice : offset + k \in DOMAIN q /\ k <= limit /\ slice[k] = q[offset + k]
  <2> HIDE DEF last, slice
  <2> QED
    BY <1>1, <1>2, <1>5, <1>6
<1>8. ASSUME NEW i \in DOMAIN q, offset < i, i <= offset + limit
      PROVE  q[i] \in ToSet(slice)
  <2>1. i <= last /\ i - offset \in 1 .. (last - offset)
    BY <1>1, <1>8
  <2>2. i - offset \in DOMAIN slice /\ slice[i - offset] = q[i]
    <3> HIDE DEF last, slice
    <3> QED
      BY <1>1, <1>2, <1>5, <1>6, <2>1
  <2> QED
    BY <2>2 DEF ToSet
<1>9. ToSet(slice) \subseteq ToSet(q)
  BY <1>7 DEF ToSet
<1>10. offset <= Len(q) =>
         Len(slice) = IF offset + limit < Len(q) THEN limit ELSE Len(q) - offset
  <2>1. CASE offset + limit < Len(q)
    <3>1. last = offset + limit /\ offset + 1 <= last
      BY <1>1, <2>1
    <3> HIDE DEF last, slice
    <3> QED
      BY <1>5, <2>1, <3>1
  <2>2. CASE ~(offset + limit < Len(q))
    <3>1. last = Len(q)
      BY <2>2
    <3>2. Len(slice) = IF offset + 1 <= Len(q) THEN Len(q) - offset ELSE 0
      BY <1>5, <3>1
    <3> DEFINE n == Len(q)  m == Len(slice)
    <3>3. offset <= n => m = n - offset
      <4>1. n \in Nat /\ m = IF offset + 1 <= n THEN n - offset ELSE 0
        BY <1>1, <3>2
      <4> HIDE DEF n, m
      <4> QED
        BY <4>1
    <3> HIDE DEF slice
    <3> QED
      BY <2>2, <3>3
  <2> QED
    BY <2>1, <2>2
<1> QED
  BY <1>5, <1>7, <1>8, <1>9, <1>10

\* What a longer list has: the elements of both parts at their places.
LEMMA LongerFacts ==
  ASSUME NEW S, NEW s \in Seq(S), NEW t \in Seq(S)
  PROVE  /\ s \o t \in Seq(S) /\ Len(s \o t) = Len(s) + Len(t)
         /\ ToSet(s \o t) = ToSet(s) \cup ToSet(t)
         /\ \A i \in DOMAIN (s \o t) :
              \/ i \in DOMAIN s /\ (s \o t)[i] = s[i]
              \/ i - Len(s) \in DOMAIN t /\ (s \o t)[i] = t[i - Len(s)]
<1>1. /\ Len(s) \in Nat /\ DOMAIN s = 1 .. Len(s)
      /\ Len(t) \in Nat /\ DOMAIN t = 1 .. Len(t)
  BY LenProperties
<1>2. s \o t \in Seq(S) /\ Len(s \o t) = Len(s) + Len(t)
  BY ConcatProperties
<1>3. DOMAIN (s \o t) = 1 .. (Len(s) + Len(t))
  BY <1>2, LenProperties
<1>4. \A i \in 1 .. (Len(s) + Len(t)) :
        (s \o t)[i] = IF i <= Len(s) THEN s[i] ELSE t[i - Len(s)]
  BY <1>1, ConcatProperties
<1>5. \A i \in DOMAIN (s \o t) :
        \/ i \in DOMAIN s /\ (s \o t)[i] = s[i]
        \/ i - Len(s) \in DOMAIN t /\ (s \o t)[i] = t[i - Len(s)]
  BY <1>1, <1>3, <1>4
<1>6. \A i \in DOMAIN s : i \in DOMAIN (s \o t) /\ (s \o t)[i] = s[i]
  BY <1>1, <1>3, <1>4
<1>7. \A i \in DOMAIN t : Len(s) + i \in DOMAIN (s \o t) /\ (s \o t)[Len(s) + i] = t[i]
  BY <1>1, <1>3, <1>4
<1>8. ToSet(s \o t) = ToSet(s) \cup ToSet(t)
  <2>1. ToSet(s \o t) \subseteq ToSet(s) \cup ToSet(t)
    BY <1>5 DEF ToSet
  <2>2. ToSet(s) \subseteq ToSet(s \o t)
    BY <1>6 DEF ToSet
  <2>3. ToSet(t) \subseteq ToSet(s \o t)
    BY <1>7 DEF ToSet
  <2> QED
    BY <2>1, <2>2, <2>3
<1> QED
  BY <1>2, <1>5, <1>8

\* As new as a line are the newer ones and those of its day.
LEMMA DayRank ==
  ASSUME GamePagesAssumption, Asked \in SUBSET Games, NEW g \in Asked
  PROVE  /\ IsFiniteSet(SameDay(g)) /\ Cardinality(SameDay(g)) \in Nat
         /\ Cardinality(NotOlder(Asked, Date[g]))
              = Cardinality(Newer(Asked, Date[g])) + Cardinality(SameDay(g))
<1> DEFINE newer == Newer(Asked, Date[g])
           day == SameDay(g)
<1>1. \A h \in Asked : Date[h] \in Nat
  BY DEF GamePagesAssumption
<1>2. NotOlder(Asked, Date[g]) = newer \cup day /\ newer \cap day = {}
  BY <1>1 DEF NotOlder, Newer, SameDay
<1>3. newer \in SUBSET Games /\ day \in SUBSET Games
  BY DEF Newer, SameDay
<1> HIDE DEF newer, day
<1>4. /\ IsFiniteSet(newer) /\ IsFiniteSet(day)
      /\ Cardinality(newer) \in Nat /\ Cardinality(day) \in Nat
  BY <1>3, FS_Subset, FS_CardinalityType DEF GamePagesAssumption
<1>5. Cardinality(newer \cup day) = Cardinality(newer) + Cardinality(day)
  <2>1. Cardinality(newer \cap day) = 0
    BY <1>2, FS_EmptySet
  <2>2. Cardinality(newer \cup day)
          = Cardinality(newer) + Cardinality(day) - Cardinality(newer \cap day)
    BY <1>4, FS_Union
  <2> QED
    BY <1>4, <2>1, <2>2
<1> QED
  BY <1>2, <1>4, <1>5 DEF newer, day

\* A page takes up the list where the last one ended.
LEMMA ReadPages ==
  ASSUME GamePagesAssumption, PagesInv, ReadPage
  PROVE  PagesInv'
<1> USE DEF PagesInv
<1> DEFINE S == Of(client.player, client.season)
           offset == client.offset
           limit == client.limit
<1>1. PICK q \in Results(client.player, client.season) :
        client' = [client EXCEPT
          !.pc = IF client.offset + client.limit < Len(q) THEN "page" ELSE "done",
          !.offset = @ + client.limit,
          !.shown = @ \o Slice(q, client.offset, client.limit),
          !.total = Len(q)]
  BY DEF ReadPage
<1> DEFINE page == Slice(q, offset, limit)
<1>2. /\ lines' = lines /\ open' = open /\ client.pc = "read" /\ client.what = "list"
      /\ offset \in Nat /\ limit \in Nat \ {0} /\ client.shown \in Seq(Games)
      /\ client.season \in Seasons /\ client.player \in Players
  BY DEF ReadPage, TypeOK, PageOk, GamePagesAssumption
<1>3. S \in SUBSET Games /\ S \in SUBSET Stored
  BY DEF Of, Stored
<1>4. /\ q \in SetToSeqs(S)
      /\ \A i, j \in DOMAIN q : i < j => Date[q[i]] >= Date[q[j]]
  BY DEF Results
<1>5. /\ Cardinality(S) \in Nat /\ q \in Seq(S) /\ Len(q) = Cardinality(S)
      /\ DOMAIN q = 1 .. Cardinality(S) /\ ToSet(q) = S
  BY <1>3, <1>4, OrderFacts
<1>6. /\ page \in Seq(S)
      /\ \A k \in DOMAIN page :
           offset + k \in DOMAIN q /\ k <= limit /\ page[k] = q[offset + k]
      /\ \A i \in DOMAIN q : offset < i /\ i <= offset + limit => q[i] \in ToSet(page)
      /\ ToSet(page) \subseteq ToSet(q)
      /\ offset <= Len(q) =>
           Len(page) = IF offset + limit < Len(q) THEN limit ELSE Len(q) - offset
  <2> HIDE DEF S, offset, limit
  <2>1. q \in Seq(S) /\ offset \in Nat /\ limit \in Nat \ {0}
    BY <1>2, <1>5
  <2> QED
    BY <2>1, SliceFacts
<1>7. page \in Seq(Games)
  BY <1>3, <1>6, SeqMonotonic
<1>8. /\ client.shown \o page \in Seq(Games)
      /\ Len(client.shown \o page) = Len(client.shown) + Len(page)
      /\ ToSet(client.shown \o page) = Shown \cup ToSet(page)
      /\ \A i \in DOMAIN (client.shown \o page) :
           \/ i \in DOMAIN client.shown /\ (client.shown \o page)[i] = client.shown[i]
           \/ i - Len(client.shown) \in DOMAIN page
                /\ (client.shown \o page)[i] = page[i - Len(client.shown)]
  <2> DEFINE s == client.shown
  <2>1. s \in Seq(Games) /\ Shown = ToSet(s)
    BY <1>2 DEF Shown
  <2> HIDE DEF page, s
  <2>2. /\ s \o page \in Seq(Games) /\ Len(s \o page) = Len(s) + Len(page)
        /\ ToSet(s \o page) = ToSet(s) \cup ToSet(page)
        /\ \A i \in DOMAIN (s \o page) :
             \/ i \in DOMAIN s /\ (s \o page)[i] = s[i]
             \/ i - Len(s) \in DOMAIN page /\ (s \o page)[i] = page[i - Len(s)]
    BY <1>7, <2>1, LongerFacts
  <2> QED
    BY <2>1, <2>2 DEF s
<1> HIDE DEF page, S
<1>9. /\ client'.pc = IF offset + limit < Len(q) THEN "page" ELSE "done"
      /\ client'.what = "list" /\ client'.player = client.player
      /\ client'.asked = client.asked /\ client'.season = client.season
      /\ client'.limit = limit /\ client'.offset = offset + limit
      /\ client'.shown = client.shown \o page /\ client'.total = Len(q)
      /\ client'.began = client.began /\ client'.steady = client.steady
  BY <1>1, <1>2 DEF TypeOK, page
<1>10. TypeOK'
  <2>1. Len(q) \in Nat /\ offset + limit \in Nat
    BY <1>2, <1>5
  <2>2. client' = [client EXCEPT
          !.pc = IF offset + limit < Len(q) THEN "page" ELSE "done",
          !.offset = offset + limit, !.shown = client.shown \o page, !.total = Len(q)]
    BY <1>1 DEF page
  <2> HIDE DEF offset
  <2> QED
    BY <1>2, <1>8, <2>1, <2>2 DEF TypeOK
<1>11. /\ Stored' = Stored /\ Asked' = Asked /\ Shown' = Shown \cup ToSet(page)
       /\ ToSet(page) \subseteq S
       /\ Named => client.asked = client.season /\ Asked = S
  BY <1>2, <1>5, <1>6, <1>8, <1>9 DEF Stored, Asked, Shown, Of, Named, PageOk, S
<1>12. (\A g : Alone(g)' = Alone(g)) /\ Quiet' = Quiet /\ Named' = Named
  BY <1>2, <1>9, <1>11 DEF Alone, SameDay, Quiet, Named
<1>13. PageOk'
  BY <1>2, <1>9, <1>11 DEF PageOk
<1>14. ShownOk'
  BY <1>2, <1>9, <1>11, <1>12 DEF ShownOk, S, Of
<1>15. SteadyOk'
  BY <1>2, <1>9, <1>11 DEF SteadyOk, S, Of
<1>16. LastOk'
  BY <1>9 DEF LastOk
<1> SUFFICES ASSUME Named PROVE SkipOk' /\ CountOk' /\ RankOk'
  BY <1>10, <1>12, <1>13, <1>14, <1>15, <1>16 DEF SkipOk, CountOk, RankOk
<1>17. SkipOk'
  <2> SUFFICES ASSUME NEW g \in (Asked \cap client.began) \ Shown, Alone(g),
                      g \notin ToSet(page)
               PROVE  /\ client'.pc # "done"
                      /\ offset + limit <= Cardinality(Newer(Asked, Date[g]))
    BY <1>9, <1>11, <1>12 DEF SkipOk
  <2>1. PICK i \in DOMAIN q : q[i] = g
    BY <1>5, <1>11 DEF ToSet
  <2>2. i <= Cardinality(NotOlder(S, Date[g]))
    BY <1>3, <1>4, <2>1, PlaceIsRank
  <2>3. Cardinality(NotOlder(S, Date[g])) = Cardinality(Newer(S, Date[g])) + 1
    <3>1. Asked \in SUBSET Games /\ Asked = S /\ Cardinality(SameDay(g)) = 1
      BY <1>3, <1>11, FS_Singleton DEF Alone
    <3> QED
      BY <3>1, DayRank
  <2>4. offset <= Cardinality(Newer(S, Date[g])) /\ Cardinality(Newer(S, Date[g])) \in 0 .. (i - 1)
    BY <1>2, <1>3, <1>4, <1>11, <2>1, PlaceIsRank DEF SkipOk
  <2>5. i \in Nat /\ i <= Len(q)
    BY <1>5
  <2>6. offset < i
    BY <1>2, <2>4, <2>5
  <2>7. ~(i <= offset + limit)
    BY <1>6, <2>1, <2>6
  <2> QED
    BY <1>2, <1>5, <1>9, <1>11, <2>2, <2>3, <2>4, <2>5, <2>7
<1>18. ASSUME Quiet PROVE Len(client.shown) = offset /\ offset <= Len(q)
  BY <1>2, <1>5, <1>11, <1>18 DEF CountOk
<1>19. CountOk'
  <2> SUFFICES ASSUME Quiet
               PROVE  IF client'.pc = "done"
                      THEN Len(client'.shown) = client'.total
                             /\ client'.total = Cardinality(Asked)
                      ELSE /\ Len(client'.shown) = client'.offset
                           /\ client'.offset < Cardinality(Asked)
    BY <1>9, <1>11, <1>12 DEF CountOk
  <2>1. Len(page) = IF offset + limit < Len(q) THEN limit ELSE Len(q) - offset
    BY <1>6, <1>18
  <2>2. Len(client'.shown) = offset + Len(page)
    BY <1>8, <1>9, <1>18
  <2>3. CASE offset + limit < Len(q)
    BY <1>2, <1>5, <1>9, <1>11, <2>1, <2>2, <2>3
  <2>4. CASE ~(offset + limit < Len(q))
    BY <1>2, <1>5, <1>9, <1>11, <2>1, <2>2, <2>4
  <2> QED
    BY <2>3, <2>4
<1>20. RankOk'
  <2> SUFFICES ASSUME Quiet, NEW i \in DOMAIN (client.shown \o page)
               PROVE  LET d == Date[(client.shown \o page)[i]]
                      IN /\ Cardinality(Newer(Asked, d)) < i
                         /\ i <= Cardinality(NotOlder(Asked, d))
    BY <1>9, <1>11, <1>12 DEF RankOk
  <2>1. CASE i \in DOMAIN client.shown /\ (client.shown \o page)[i] = client.shown[i]
    BY <2>1 DEF RankOk
  <2>2. CASE /\ i - Len(client.shown) \in DOMAIN page
             /\ (client.shown \o page)[i] = page[i - Len(client.shown)]
    <3>1. i \in Nat
      BY <1>8, LenProperties
    <3>2. i \in DOMAIN q /\ (client.shown \o page)[i] = q[i]
      <4>1. i - offset \in DOMAIN page /\ (client.shown \o page)[i] = page[i - offset]
        BY <1>18, <2>2
      <4>2. offset + (i - offset) \in DOMAIN q /\ page[i - offset] = q[offset + (i - offset)]
        BY <1>6, <4>1
      <4>3. offset + (i - offset) = i
        BY <1>2, <3>1
      <4> QED
        BY <4>1, <4>2, <4>3
    <3>3. /\ Cardinality(Newer(S, Date[q[i]])) \in 0 .. (i - 1)
          /\ i <= Cardinality(NotOlder(S, Date[q[i]]))
      BY <1>3, <1>4, <3>2, PlaceIsRank
    <3> QED
      BY <1>11, <3>1, <3>2, <3>3
  <2> QED
    BY <1>8, <2>1, <2>2
<1> QED
  BY <1>17, <1>19, <1>20
\* The last game is the first of the list.
LEMMA LastPages ==
  ASSUME GamePagesAssumption, PagesInv, ReadLast
  PROVE  PagesInv'
<1> USE DEF PagesInv
<1> DEFINE S == Of(client.player, client.season)
<1>1. PICK q \in Results(client.player, client.season) :
        client' = [client EXCEPT !.pc = "done", !.shown = Slice(q, 0, 1)]
  BY DEF ReadLast
<1> DEFINE page == Slice(q, 0, 1)
<1>2. /\ lines' = lines /\ open' = open /\ client.pc = "read" /\ client.what = "last"
      /\ client.season \in Seasons /\ client.player \in Players
  BY DEF ReadLast, TypeOK, PageOk
<1>3. S \in SUBSET Games /\ S \in SUBSET Stored
  BY DEF Of, Stored
<1>4. /\ q \in SetToSeqs(S)
      /\ \A i, j \in DOMAIN q : i < j => Date[q[i]] >= Date[q[j]]
  BY DEF Results
<1>5. /\ Cardinality(S) \in Nat /\ q \in Seq(S) /\ Len(q) = Cardinality(S)
      /\ DOMAIN q = 1 .. Cardinality(S) /\ ToSet(q) = S
  BY <1>3, <1>4, OrderFacts
<1> HIDE DEF S
<1>6. /\ page \in Seq(S)
      /\ \A k \in DOMAIN page : 0 + k \in DOMAIN q /\ page[k] = q[0 + k]
      /\ \A i \in DOMAIN q : 0 < i /\ i <= 0 + 1 => q[i] \in ToSet(page)
      /\ ToSet(page) \subseteq S
  <2> DEFINE offset == 0  limit == 1
  <2>1. q \in Seq(S) /\ offset \in Nat /\ limit \in Nat \ {0}
    BY <1>5
  <2>2. /\ Slice(q, offset, limit) \in Seq(S)
        /\ \A k \in DOMAIN Slice(q, offset, limit) :
             offset + k \in DOMAIN q /\ k <= limit
               /\ Slice(q, offset, limit)[k] = q[offset + k]
        /\ \A i \in DOMAIN q :
             offset < i /\ i <= offset + limit => q[i] \in ToSet(Slice(q, offset, limit))
        /\ ToSet(Slice(q, offset, limit)) \subseteq ToSet(q)
        /\ offset <= Len(q) =>
             Len(Slice(q, offset, limit)) =
               IF offset + limit < Len(q) THEN limit ELSE Len(q) - offset
    <3> HIDE DEF offset, limit, page
    <3> QED
      BY <2>1, SliceFacts
  <2> QED
    BY <1>5, <2>2
<1>7. page \in Seq(Games)
  BY <1>3, <1>6, SeqMonotonic
<1> HIDE DEF page
<1>8. /\ client'.pc = "done" /\ client'.what = "last" /\ client'.player = client.player
      /\ client'.asked = client.asked /\ client'.offset = client.offset
      /\ client'.began = client.began /\ client'.shown = page
      /\ client'.steady = client.steady
  BY <1>1, <1>2 DEF TypeOK, page
<1>9. TypeOK'
  BY <1>1, <1>2, <1>7 DEF TypeOK, page
<1>10. /\ Stored' = Stored /\ Asked' = Asked /\ Shown' = ToSet(page)
       /\ Named => client.asked = client.season /\ Asked = S
  BY <1>2, <1>8 DEF Stored, Asked, Shown, Of, Named, PageOk, S
<1>11. Quiet' = Quiet /\ Named' = Named
  BY <1>2, <1>8, <1>10 DEF Quiet, Named
<1>12. PageOk'
  BY <1>2, <1>8, <1>10 DEF PageOk
<1>13. ShownOk'
  BY <1>2, <1>6, <1>8, <1>10, <1>11 DEF ShownOk, S, Of
<1>14. SteadyOk' /\ SkipOk' /\ CountOk'
  BY <1>8 DEF SteadyOk, SkipOk, CountOk
<1> SUFFICES ASSUME Named PROVE RankOk' /\ LastOk'
  BY <1>9, <1>11, <1>12, <1>13, <1>14 DEF RankOk, LastOk
<1>15. RankOk'
  <2> SUFFICES ASSUME NEW i \in DOMAIN page
               PROVE  /\ Cardinality(Newer(S, Date[page[i]])) < i
                      /\ i <= Cardinality(NotOlder(S, Date[page[i]]))
    BY <1>8, <1>10, <1>11 DEF RankOk
  <2>1. i \in Nat
    BY <1>6, LenProperties
  <2>2. i \in DOMAIN q /\ page[i] = q[i]
    BY <1>6, <2>1
  <2>3. /\ Cardinality(Newer(S, Date[q[i]])) \in 0 .. (i - 1)
        /\ i <= Cardinality(NotOlder(S, Date[q[i]]))
    BY <1>3, <1>4, <2>2, PlaceIsRank
  <2> QED
    BY <2>1, <2>2, <2>3
<1>16. LastOk'
  <2> SUFFICES ASSUME NEW g \in S PROVE \E h \in ToSet(page) : Date[h] >= Date[g]
    BY <1>8, <1>10, <1>11 DEF LastOk
  <2>1. PICK i \in DOMAIN q : q[i] = g
    BY <1>5 DEF ToSet
  <2>2. 1 \in DOMAIN q /\ q[1] \in ToSet(page) /\ i \in Nat /\ (i = 1 \/ 1 < i)
    BY <1>5, <1>6
  <2>3. Date[g] \in Nat
    BY <1>3 DEF GamePagesAssumption
  <2>4. Date[q[1]] >= Date[g]
    BY <1>4, <2>1, <2>2, <2>3
  <2> QED
    BY <2>2, <2>4
<1> QED
  BY <1>15, <1>16

\* Every step of the environment and of the client preserves the invariant.
LEMMA PagesStep ==
  ASSUME GamePagesAssumption, PagesInv, Next
  PROVE  PagesInv'
<1>1. ASSUME NEW g \in Games, NEW l \in Line, Log(g, l) PROVE PagesInv'
  BY <1>1, LogPages
<1>2. ASSUME NEW s \in Seasons, Close(s) \/ Open(s) PROVE PagesInv'
  BY <1>2, SeasonPages
<1>3. ASSUME NEW p \in Players, NEW what \in {"list", "last"},
             NEW s \in Seasons \cup {Current}, NEW limit \in Limits,
             Ask(p, what, s, limit)
      PROVE  PagesInv'
  BY <1>3, AskPages
<1>4. ASSUME NEW p \in Players, NEW g \in Games, GetGame(p, g) PROVE PagesInv'
  BY <1>4, GetGamePages
<1>5. CASE ResolveSeason
  BY <1>5, ResolvePages
<1>6. CASE ReadPage
  BY <1>6, ReadPages
<1>7. CASE ReadLast
  BY <1>7, LastPages
<1> QED
  BY <1>1, <1>2, <1>3, <1>4, <1>5, <1>6, <1>7 DEF Next, Environment, ClientNext

\* What the invariant says of a list, in the words of ListHonest.
LEMMA PagesHonest ==
  ASSUME GamePagesAssumption, PagesInv
  PROVE  OwnGames /\ ListHonest
<1> USE DEF PagesInv
<1>1. OwnGames
  BY DEF ShownOk, OwnGames
<1>2. OneSeasonList
  BY DEF SteadyOk, OneSeasonList
<1>3. NothingSkipped
  BY DEF SkipOk, Listed, NothingSkipped
<1> DEFINE shown == client.shown
<1>4. /\ shown \in Seq(Games) /\ Len(shown) \in Nat /\ DOMAIN shown = 1 .. Len(shown)
      /\ \A i \in DOMAIN shown : shown[i] \in Games /\ Date[shown[i]] \in Nat
  BY LenProperties DEF TypeOK, GamePagesAssumption
<1>5. Asked \in SUBSET Games
  BY DEF Asked, Of, Stored
<1>6. PagesMakeList
  <2> SUFFICES ASSUME Listed, Quiet
               PROVE  /\ Len(shown) = client.total
                      /\ \A g \in Asked :
                           Cardinality({i \in DOMAIN shown : Date[shown[i]] = Date[g]})
                             = Cardinality(SameDay(g))
    BY DEF PagesMakeList
  <2>1. Named /\ client.what = "list" /\ client.pc = "done"
    BY DEF Listed
  <2>2. Len(shown) = client.total /\ Len(shown) = Cardinality(Asked)
    BY <2>1 DEF CountOk
  <2>3. ASSUME NEW g \in Asked
        PROVE  Cardinality({i \in DOMAIN shown : Date[shown[i]] = Date[g]})
                 = Cardinality(SameDay(g))
    <3> DEFINE d == Date[g]
               a == Cardinality(Newer(Asked, d))
               b == Cardinality(NotOlder(Asked, d))
               at == {i \in DOMAIN shown : Date[shown[i]] = d}
    <3>1. /\ d \in Nat /\ a \in Nat /\ b \in Nat /\ b <= Len(shown)
          /\ b = a + Cardinality(SameDay(g)) /\ Cardinality(SameDay(g)) \in Nat
      <4>1. d \in Nat /\ a \in Nat /\ b \in Nat
        BY <1>5, RanksGrow DEF GamePagesAssumption
      <4>2. NotOlder(Asked, d) \in SUBSET Asked /\ IsFiniteSet(Asked)
        BY <1>5, FS_Subset DEF NotOlder, GamePagesAssumption
      <4>3. b <= Cardinality(Asked)
        BY <4>2, FS_Subset
      <4> QED
        BY <1>5, <2>2, <4>1, <4>3, DayRank
    <3>2. ASSUME NEW i \in DOMAIN shown, Date[shown[i]] = d PROVE i \in a + 1 .. b
      <4>1. a < i /\ i <= b
        BY <2>1, <3>2 DEF RankOk
      <4> QED
        BY <1>4, <3>1, <4>1
    <3>3. ASSUME NEW i \in a + 1 .. b PROVE i \in DOMAIN shown /\ Date[shown[i]] = d
      <4>1. i \in DOMAIN shown
        BY <1>4, <3>1
      <4> DEFINE e == Date[shown[i]]
                 newer == Cardinality(Newer(Asked, e))
                 other == Cardinality(NotOlder(Asked, e))
      <4>2. e \in Nat /\ newer < i /\ i <= other
        BY <1>4, <2>1, <4>1 DEF RankOk
      <4>3. \A h \in Asked : Date[h] \in Nat
        BY <1>5 DEF GamePagesAssumption
      <4>4. /\ newer \in Nat /\ other \in Nat
            /\ e < d => b <= newer
            /\ d < e => other <= a
        <5>1. /\ IsFiniteSet(Newer(Asked, e)) /\ IsFiniteSet(Newer(Asked, d))
              /\ newer \in Nat /\ other \in Nat
          <6>1. Newer(Asked, e) \in SUBSET Games /\ Newer(Asked, d) \in SUBSET Games
            BY <1>5 DEF Newer
          <6> QED
            BY <1>5, <6>1, RanksGrow, FS_Subset DEF GamePagesAssumption
        <5>2. e < d => NotOlder(Asked, d) \in SUBSET Newer(Asked, e)
          BY <3>1, <4>2, <4>3 DEF NotOlder, Newer
        <5>3. d < e => NotOlder(Asked, e) \in SUBSET Newer(Asked, d)
          BY <3>1, <4>2, <4>3 DEF NotOlder, Newer
        <5> QED
          BY <5>1, <5>2, <5>3, FS_Subset
      <4> HIDE DEF a, b, d, e, newer, other
      <4>5. ~(e < d) /\ ~(d < e)
        BY <3>1, <4>2, <4>4
      <4> QED
        BY <3>1, <4>1, <4>2, <4>5 DEF e
    <3>4. at = a + 1 .. b
      BY <3>2, <3>3
    <3> HIDE DEF a, b, at
    <3>5. Cardinality(at) = b - a
      <4>1. \A x, y \in Nat : x <= y => Cardinality(x + 1 .. y) = y - x
        <5> TAKE x, y \in Nat
        <5> HAVE x <= y
        <5>1. Cardinality(x + 1 .. y) = IF x + 1 > y THEN 0 ELSE y - (x + 1) + 1
          BY FS_Interval
        <5> QED
          BY <5>1
      <4> QED
        BY <3>1, <3>4, <4>1
    <3> QED
      BY <3>1, <3>5 DEF at
  <2> QED
    BY <2>2, <2>3
<1>7. NewestFirst
  <2> SUFFICES ASSUME Named, Quiet, NEW i \in DOMAIN shown, NEW j \in DOMAIN shown, i < j
               PROVE  Date[shown[i]] >= Date[shown[j]]
    BY DEF NewestFirst, LastOk
  <2> DEFINE newer == Newer(Asked, Date[shown[i]])
             other == NotOlder(Asked, Date[shown[j]])
  <2>1. Cardinality(newer) < i /\ j <= Cardinality(other)
    BY DEF RankOk
  <2>2. Asked \in SUBSET Games
    BY DEF Asked, Of, Stored
  <2>3. ASSUME Date[shown[i]] < Date[shown[j]] PROVE other \in SUBSET newer
    BY <1>4, <2>2, <2>3 DEF NotOlder, Newer, GamePagesAssumption
  <2>4. IsFiniteSet(newer) /\ Cardinality(newer) \in Nat /\ Cardinality(other) \in Nat
    <3>1. newer \in SUBSET Games
      BY <2>2 DEF Newer
    <3> QED
      BY <2>2, <3>1, RanksGrow, FS_Subset DEF GamePagesAssumption
  <2>5. ASSUME Date[shown[i]] < Date[shown[j]] PROVE FALSE
    <3>1. Cardinality(other) <= Cardinality(newer)
      BY <2>3, <2>4, <2>5, FS_Subset
    <3> QED
      BY <1>4, <2>1, <2>4, <3>1
  <2> QED
    BY <1>4, <2>5
<1> QED
  BY <1>1, <1>2, <1>3, <1>6, <1>7 DEF ListHonest
-----------------------------------------------------------------------------
(* A search: filtering and sorting a list.                                 *)

Kept(q, f) == {i \in DOMAIN q : Matches(q[i], f)}
Before(q, f, j, i) == \/ Precedes(q[j], q[i], f)
                      \/ j < i /\ ~Precedes(q[i], q[j], f)
BeforeIt(q, f, i) == {j \in Kept(q, f) : Before(q, f, j, i)}
RankIn(q, f, i) == Cardinality(BeforeIt(q, f, i))

\* The order of a search is total and strict.
LEMMA BeforeIsOrder ==
  ASSUME GamePagesAssumption, ChatToolsAssumption,
         NEW S \in SUBSET Games, NEW q \in SetToSeqs(S), NEW f \in Searches
  PROVE  \A i, j, k \in DOMAIN q :
           /\ ~Before(q, f, i, i)
           /\ i # j => Before(q, f, i, j) \/ Before(q, f, j, i)
           /\ Before(q, f, i, j) /\ Before(q, f, j, k) => Before(q, f, i, k)
<1>1. /\ DOMAIN q \subseteq Nat
      /\ \A i \in DOMAIN q : q[i] \in Games
  <2>1. Cardinality(S) \in Nat /\ DOMAIN q = 1 .. Cardinality(S) /\ ToSet(q) = S
    BY OrderFacts
  <2> QED
    BY <2>1 DEF ToSet
<1> DEFINE v(i) == Value(q[i], f.sort)
<1>2. \A i \in DOMAIN q : v(i) \in Nat
  BY <1>1 DEF Value, GamePagesAssumption, ChatToolsAssumption
<1>3. CASE f.order = "desc"
  <2>1. \A i, j \in DOMAIN q : Before(q, f, j, i) <=> (v(j) > v(i) \/ (j < i /\ ~(v(i) > v(j))))
    BY <1>3 DEF Before, Precedes
  <2> HIDE DEF v
  <2> QED
    BY <1>1, <1>2, <2>1
<1>4. CASE f.order # "desc"
  <2>1. \A i, j \in DOMAIN q : Before(q, f, j, i) <=> (v(j) < v(i) \/ (j < i /\ ~(v(i) < v(j))))
    BY <1>4 DEF Before, Precedes
  <2> HIDE DEF v
  <2> QED
    BY <1>1, <1>2, <2>1
<1> QED
  BY <1>3, <1>4

\* Ranks follow the order, and each rank is of one line of those kept.
LEMMA RanksAreFilled ==
  ASSUME GamePagesAssumption, ChatToolsAssumption,
         NEW S \in SUBSET Games, NEW q \in SetToSeqs(S), NEW f \in Searches
  PROVE  LET n == Cardinality(Kept(q, f))
         IN /\ n \in Nat
            /\ \A i, j \in Kept(q, f) :
                 Before(q, f, i, j) => RankIn(q, f, i) < RankIn(q, f, j)
            /\ \A i \in Kept(q, f) : RankIn(q, f, i) \in 0 .. (n - 1)
            /\ \A i, j \in Kept(q, f) : RankIn(q, f, i) = RankIn(q, f, j) => i = j
            /\ \A m \in 0 .. (n - 1) : \E i \in Kept(q, f) : RankIn(q, f, i) = m
<1> DEFINE kept == Kept(q, f)
           n == Cardinality(kept)
           rank == [i \in kept |-> RankIn(q, f, i)]
<1>1. kept \subseteq DOMAIN q /\ IsFiniteSet(kept) /\ n \in Nat
  <2>1. Cardinality(S) \in Nat /\ DOMAIN q = 1 .. Cardinality(S)
    BY OrderFacts
  <2>2. IsFiniteSet(DOMAIN q)
    BY <2>1, FS_Interval
  <2>3. kept \in SUBSET DOMAIN q
    BY DEF Kept
  <2> QED
    BY <2>2, <2>3, FS_Subset, FS_CardinalityType
<1>2. /\ \A i \in kept : ~Before(q, f, i, i)
      /\ \A i, j \in kept : i # j => Before(q, f, i, j) \/ Before(q, f, j, i)
      /\ \A i, j, k \in kept :
           Before(q, f, i, j) /\ Before(q, f, j, k) => Before(q, f, i, k)
  BY <1>1, BeforeIsOrder
<1>3. \A i \in kept : /\ BeforeIt(q, f, i) \in SUBSET kept /\ i \notin BeforeIt(q, f, i)
                      /\ IsFiniteSet(BeforeIt(q, f, i)) /\ RankIn(q, f, i) \in Nat
  <2> TAKE i \in kept
  <2>1. BeforeIt(q, f, i) \in SUBSET kept /\ i \notin BeforeIt(q, f, i)
    BY <1>2 DEF BeforeIt
  <2>2. IsFiniteSet(BeforeIt(q, f, i))
    BY <1>1, <2>1, FS_Subset
  <2> QED
    BY <2>1, <2>2, FS_CardinalityType DEF RankIn
<1>4. ASSUME NEW i \in kept, NEW j \in kept, Before(q, f, i, j)
      PROVE  RankIn(q, f, i) < RankIn(q, f, j)
  <2>1. BeforeIt(q, f, i) \cup {i} \in SUBSET BeforeIt(q, f, j)
    BY <1>2, <1>4 DEF BeforeIt
  <2>2. Cardinality(BeforeIt(q, f, i) \cup {i}) = RankIn(q, f, i) + 1
    BY <1>3, FS_AddElement DEF RankIn
  <2>3. RankIn(q, f, i) + 1 <= RankIn(q, f, j)
    BY <1>3, <2>1, <2>2, FS_Subset DEF RankIn
  <2> QED
    BY <1>3, <2>3
<1>5. ASSUME NEW i \in kept PROVE RankIn(q, f, i) \in 0 .. (n - 1)
  <2>1. BeforeIt(q, f, i) \cup {i} \in SUBSET kept
    BY <1>3
  <2>2. Cardinality(BeforeIt(q, f, i) \cup {i}) = RankIn(q, f, i) + 1
    BY <1>3, FS_AddElement DEF RankIn
  <2>3. RankIn(q, f, i) + 1 <= n
    BY <1>1, <2>1, <2>2, FS_Subset
  <2> QED
    BY <1>1, <1>3, <2>3
<1>6. ASSUME NEW i \in kept, NEW j \in kept, RankIn(q, f, i) = RankIn(q, f, j) PROVE i = j
  BY <1>2, <1>3, <1>4, <1>6
<1>7. rank \in Injection(kept, 0 .. (n - 1))
  <2>1. rank \in [kept -> 0 .. (n - 1)]
    BY <1>5
  <2>2. \A i, j \in kept : rank[i] = rank[j] => i = j
    BY <1>6
  <2> HIDE DEF rank, n, kept
  <2> QED
    BY <2>1, <2>2 DEF Injection, IsInjective
<1>8. IsFiniteSet(0 .. (n - 1)) /\ Cardinality(0 .. (n - 1)) = n
  <2>1. 0 \in Int /\ n - 1 \in Int
    BY <1>1
  <2>2. /\ IsFiniteSet(0 .. (n - 1))
        /\ Cardinality(0 .. (n - 1)) = IF 0 > n - 1 THEN 0 ELSE n - 1 - 0 + 1
    BY <2>1, FS_Interval
  <2> HIDE DEF n
  <2> QED
    BY <1>1, <2>2
<1>9. rank \in Surjection(kept, 0 .. (n - 1))
  <2> HIDE DEF rank
  <2> QED
    BY <1>7, <1>8, FS_Injection
<1>10. \A m \in 0 .. (n - 1) : \E i \in kept : RankIn(q, f, i) = m
  <2>1. \A m \in 0 .. (n - 1) : \E i \in kept : rank[i] = m
    <3> HIDE DEF rank, n, kept
    <3> QED
      BY <1>9 DEF Surjection
  <2> QED
    BY <2>1
<1> QED
  BY <1>1, <1>4, <1>5, <1>6, <1>10
\* Sorting leaves each matching line in the list once, none before a better one.
LEMMA MatchedFacts ==
  ASSUME GamePagesAssumption, ChatToolsAssumption,
         NEW S \in SUBSET Games, NEW q \in SetToSeqs(S), NEW f \in Searches
  PROVE  LET matching == {g \in S : Matches(g, f)}
             m == Matched(q, f)
             n == Cardinality(matching)
         IN /\ n \in Nat /\ m \in Seq(S) /\ Len(m) = n /\ DOMAIN m = 1 .. n
            /\ ToSet(m) = matching
            /\ \A a, b \in 1 .. n : m[a] = m[b] => a = b
            /\ \A a, b \in 1 .. n : a < b => ~Precedes(m[b], m[a], f)
<1> DEFINE matching == {g \in S : Matches(g, f)}
           m == Matched(q, f)
           kept == Kept(q, f)
           n == Cardinality(kept)
           at(k) == CHOOSE i \in kept : RankIn(q, f, i) = k - 1
<1>1. /\ q \in [DOMAIN q -> S] /\ ToSet(q) = S /\ DOMAIN q \subseteq Nat
      /\ \A i, j \in DOMAIN q : q[i] = q[j] => i = j
  <2>1. q \in [1 .. Cardinality(S) -> S]
    BY DEF SetToSeqs
  <2>2. /\ Cardinality(S) \in Nat /\ DOMAIN q = 1 .. Cardinality(S) /\ ToSet(q) = S
        /\ \A i, j \in DOMAIN q : q[i] = q[j] => i = j
    BY OrderFacts
  <2> QED
    BY <2>1, <2>2
<1>2. /\ n \in Nat
      /\ \A i, j \in kept : Before(q, f, i, j) => RankIn(q, f, i) < RankIn(q, f, j)
      /\ \A i \in kept : RankIn(q, f, i) \in 0 .. (n - 1)
      /\ \A i, j \in kept : RankIn(q, f, i) = RankIn(q, f, j) => i = j
      /\ \A r \in 0 .. (n - 1) : \E i \in kept : RankIn(q, f, i) = r
  BY RanksAreFilled
<1>3. m = [k \in 1 .. n |-> q[at(k)]]
  BY DEF Matched, Kept, RankIn, BeforeIt, Before
<1>4. kept \subseteq DOMAIN q /\ \A i \in kept : q[i] \in matching
  BY <1>1 DEF Kept
<1> HIDE DEF m, kept, n
<1>5. \A k \in 1 .. n : at(k) \in kept /\ RankIn(q, f, at(k)) = k - 1
  <2> TAKE k \in 1 .. n
  <2>1. k - 1 \in 0 .. (n - 1)
    BY <1>2
  <2>2. \E i \in kept : RankIn(q, f, i) = k - 1
    BY <1>2, <2>1
  <2> QED
    BY <2>2
<1>6. m \in [1 .. n -> S] /\ \A k \in 1 .. n : m[k] = q[at(k)]
  <2>1. \A k \in 1 .. n : m[k] = q[at(k)]
    BY <1>3
  <2>2. \A k \in 1 .. n : q[at(k)] \in S
    BY <1>1, <1>4, <1>5
  <2> HIDE DEF at
  <2> QED
    BY <1>3, <2>1, <2>2
<1> HIDE DEF at
<1>7. \A i \in kept : \E k \in 1 .. n : at(k) = i
  <2> TAKE i \in kept
  <2>1. RankIn(q, f, i) \in 0 .. (n - 1)
    BY <1>2
  <2>2. RankIn(q, f, i) + 1 \in 1 .. n /\ RankIn(q, f, i) + 1 - 1 = RankIn(q, f, i)
    BY <1>2, <2>1
  <2>3. at(RankIn(q, f, i) + 1) = i
    BY <1>2, <1>5, <2>2
  <2> QED
    BY <2>2, <2>3
<1>8. \A a, b \in 1 .. n : at(a) = at(b) => a = b
  <2> TAKE a, b \in 1 .. n
  <2>1. RankIn(q, f, at(a)) = a - 1 /\ RankIn(q, f, at(b)) = b - 1
    BY <1>5
  <2> QED
    BY <1>2, <2>1
<1>9. \A a, b \in 1 .. n : m[a] = m[b] => a = b
  BY <1>1, <1>4, <1>5, <1>6, <1>8
<1>10. m \in Seq(S) /\ Len(m) = n /\ DOMAIN m = 1 .. n
  BY <1>2, <1>6, SeqDef, LenProperties
<1>11. ToSet(m) = matching
  <2>1. \A g \in matching : \E i \in kept : q[i] = g
    BY <1>1 DEF Kept, ToSet, kept
  <2>2. matching \subseteq ToSet(m)
    BY <1>6, <1>7, <1>10, <2>1 DEF ToSet
  <2>3. \A k \in DOMAIN m : m[k] \in matching
    BY <1>4, <1>5, <1>6, <1>10
  <2>4. ToSet(m) \subseteq matching
    BY <2>3 DEF ToSet
  <2> QED
    BY <2>2, <2>4
<1>12. ASSUME NEW a \in 1 .. n, NEW b \in 1 .. n, a < b, Precedes(m[b], m[a], f)
       PROVE  FALSE
  <2>1. Before(q, f, at(b), at(a))
    BY <1>6, <1>12 DEF Before
  <2>2. RankIn(q, f, at(b)) < RankIn(q, f, at(a))
    BY <1>2, <1>5, <2>1
  <2> QED
    BY <1>5, <1>12, <2>2
<1>13. Cardinality(matching) = n
  <2>1. m \in Bijection(1 .. n, matching)
    <3>1. \A k \in 1 .. n : m[k] \in matching
      BY <1>10, <1>11 DEF ToSet
    <3>2. \A g \in matching : \E k \in 1 .. n : m[k] = g
      BY <1>10, <1>11 DEF ToSet
    <3>3. m = [k \in 1 .. n |-> m[k]]
      BY <1>10, LenProperties
    <3> HIDE DEF n, m, matching
    <3>4. m \in [1 .. n -> matching]
      BY <3>1, <3>3
    <3> QED
      BY <1>9, <3>2, <3>4 DEF Bijection, Injection, Surjection, IsInjective
  <2>2. IsFiniteSet(1 .. n) /\ Cardinality(1 .. n) = n
    <3>1. n \in Nat
      BY <1>2
    <3> HIDE DEF n
    <3> QED
      BY <3>1, FS_Interval
  <2> QED
    BY <2>1, <2>2, FS_Bijection DEF ExistsBijection
<1> QED
  BY <1>2, <1>9, <1>10, <1>11, <1>12, <1>13 DEF m, matching
\* An answer to a search f of the lines S that says what it left out, and leaves
\* out nothing better.
FullAnswer(out, S, f) ==
  LET shown == ToSet(out.games)
      matching == {g \in S : Matches(g, f)}
  IN /\ DOMAIN out = {"games", "total_matched", "truncated", "seen"}
     /\ out.seen = S
     /\ shown \subseteq matching
     /\ out.truncated <=> shown # matching
     /\ out.total_matched = Cardinality(matching)
     /\ \A g \in matching \ shown, h \in shown : ~Precedes(g, h, f)
     /\ Len(out.games) = (IF f.limit < Cardinality(matching) THEN f.limit
                          ELSE Cardinality(matching))

\* Every answer of a search is one.
LEMMA SearchFacts ==
  ASSUME GamePagesAssumption, ChatToolsAssumption,
         NEW S \in SUBSET Games, NEW q \in SetToSeqs(S), NEW f \in Searches
  PROVE  FullAnswer(FindGames(q, f), S, f)
<1> DEFINE matching == {g \in S : Matches(g, f)}
           n == Cardinality(matching)
           m == Matched(q, f)
           limit == f.limit
           page == Slice(m, 0, limit)
<1>1. limit \in Nat \ {0}
  BY DEF ChatToolsAssumption
<1>2. ToSet(q) = S
  BY OrderFacts
<1>3. /\ FindGames(q, f).games = page /\ FindGames(q, f).total_matched = Len(m)
      /\ FindGames(q, f).truncated = (Len(m) > Len(page)) /\ FindGames(q, f).seen = S
      /\ DOMAIN FindGames(q, f) = {"games", "total_matched", "truncated", "seen"}
  BY <1>2 DEF FindGames
<1>4. /\ n \in Nat /\ m \in Seq(S) /\ Len(m) = n /\ DOMAIN m = 1 .. n
      /\ ToSet(m) = matching
      /\ \A a, b \in 1 .. n : m[a] = m[b] => a = b
      /\ \A a, b \in 1 .. n : a < b => ~Precedes(m[b], m[a], f)
  BY MatchedFacts
<1>5. /\ \A k \in DOMAIN page : k \in DOMAIN m /\ k <= limit /\ page[k] = m[k]
      /\ \A i \in DOMAIN m : i <= limit => m[i] \in ToSet(page)
      /\ ToSet(page) \subseteq matching
      /\ Len(page) = IF limit < n THEN limit ELSE n
  <2> DEFINE offset == 0
  <2> HIDE DEF m, limit, n, matching
  <2>1. m \in Seq(S) /\ offset \in Nat /\ offset <= Len(m)
    BY <1>4
  <2>2. /\ Slice(m, offset, limit) \in Seq(S)
        /\ \A k \in DOMAIN Slice(m, offset, limit) :
             offset + k \in DOMAIN m /\ k <= limit
               /\ Slice(m, offset, limit)[k] = m[offset + k]
        /\ \A i \in DOMAIN m :
             offset < i /\ i <= offset + limit => m[i] \in ToSet(Slice(m, offset, limit))
        /\ ToSet(Slice(m, offset, limit)) \subseteq ToSet(m)
        /\ offset <= Len(m) =>
             Len(Slice(m, offset, limit)) =
               IF offset + limit < Len(m) THEN limit ELSE Len(m) - offset
    <3> HIDE DEF offset, page
    <3> QED
      BY <1>1, <2>1, SliceFacts
  <2>3. \A k \in DOMAIN page : k \in Nat
    BY <2>2, LenProperties
  <2>4. \A k \in DOMAIN page : k \in DOMAIN m /\ k <= limit /\ page[k] = m[k]
    BY <2>2, <2>3
  <2>5. \A i \in DOMAIN m : i <= limit => m[i] \in ToSet(page)
    BY <1>1, <1>4, <2>2
  <2>6. ToSet(page) \subseteq matching
    BY <1>4, <2>2
  <2>7. Len(page) = IF limit < n THEN limit ELSE n
    BY <1>1, <1>4, <2>1, <2>2
  <2> QED
    BY <2>4, <2>5, <2>6, <2>7
<1> HIDE DEF matching, m, page, limit, n
<1>6. ASSUME NEW g \in matching \ ToSet(page), NEW h \in ToSet(page)
      PROVE  ~Precedes(g, h, f)
  <2>1. PICK b \in 1 .. n : m[b] = g
    BY <1>4 DEF ToSet
  <2>2. PICK a \in 1 .. n : a <= limit /\ m[a] = h
    BY <1>4, <1>5 DEF ToSet
  <2>3. ~(b <= limit)
    BY <1>4, <1>5, <2>1
  <2>4. a < b
    BY <1>1, <2>2, <2>3
  <2> QED
    BY <1>4, <2>1, <2>2, <2>4
<1>7. (Len(m) > Len(page)) <=> ToSet(page) # matching
  <2>1. CASE limit < n
    <3>1. m[n] \in matching
      <4>1. n \in DOMAIN m
        BY <1>1, <1>4, <2>1
      <4> QED
        BY <1>4, <4>1 DEF ToSet
    <3>2. m[n] \notin ToSet(page)
      BY <1>1, <1>4, <1>5, <2>1 DEF ToSet
    <3> QED
      BY <1>1, <1>4, <1>5, <2>1, <3>1, <3>2
  <2>2. CASE ~(limit < n)
    <3>1. \A i \in 1 .. n : i <= limit
      BY <1>1, <1>4, <2>2
    <3>2. matching \subseteq ToSet(page)
      BY <1>4, <1>5, <3>1 DEF ToSet
    <3>3. ToSet(page) = matching
      BY <1>5, <3>2
    <3>4. Len(page) = Len(m)
      BY <1>4, <1>5, <2>2
    <3> QED
      BY <1>4, <3>3, <3>4
  <2> QED
    BY <2>1, <2>2
<1> QED
  BY <1>3, <1>4, <1>5, <1>6, <1>7 DEF matching, n, limit, FullAnswer
-----------------------------------------------------------------------------
(* The conversation.                                                       *)

\* What the arguments of each tool are.
LEMMA CallFacts ==
  ASSUME GamePagesAssumption, ChatToolsAssumption, NEW c \in Calls
  PROVE  /\ c # Nothing
         /\ "id" \in DOMAIN c => c.tool = "get_game" /\ c.id \in Games
         /\ c.tool = "find_games" => c.search \in Searches
         /\ NeedsSeason(c) => c.season \in AskedSeasons
         /\ c.tool = "get_season_summary" => NeedsSeason(c)
         /\ c.tool \in {"list_seasons", "get_season_summary", "find_games", "get_game",
                        "get_split_averages", "unknown"}
<1>1. CASE c \in [tool : {"list_seasons"}]
  BY <1>1 DEF NeedsSeason, Nothing
<1>2. CASE c \in [tool : {"get_season_summary"}, season : AskedSeasons]
  BY <1>2 DEF NeedsSeason, Nothing, AskedSeasons, ChatToolsAssumption
<1>3. CASE c \in [tool : {"find_games"}, season : AskedSeasons \cup {All}, search : Searches]
  BY <1>3 DEF NeedsSeason, Nothing
<1>4. CASE c \in [tool : {"get_game"}, id : Games]
  BY <1>4 DEF NeedsSeason, Nothing
<1>5. CASE c \in [tool : {"get_game"}, date : Range(Date)]
  BY <1>5 DEF NeedsSeason, Nothing
<1>6. CASE c \in [tool : {"get_split_averages"}, season : AskedSeasons \cup {All},
                  by : {"venue", "month"}, last : LastNs]
  BY <1>6 DEF NeedsSeason, Nothing
<1>7. CASE c \in [tool : {"unknown"}]
  BY <1>7 DEF NeedsSeason, Nothing
<1> QED
  BY <1>1, <1>2, <1>3, <1>4, <1>5, <1>6, <1>7 DEF Calls

\* Nothing was called before the first call.
LEMMA NothingFacts ==
  /\ Nothing.tool = "none" /\ ~NeedsSeason(Nothing)
  /\ DOMAIN Nothing = {"tool"}
BY DEF Nothing, NeedsSeason

\* What is the player's stays so; what is added was not there before.
LEMMA OwnGrows ==
  ASSUME GamePagesAssumption, TypeOK, Environment, chat' = chat, NEW s
  PROVE  /\ Own(s) \subseteq Own(s)'
         /\ Own(s)' \in SUBSET Games
         /\ Own(s)' \cap Stored = Own(s)
<1>1. /\ Stored \subseteq Stored' /\ \A h \in Stored : lines'[h] = lines[h]
      /\ Stored' \in SUBSET Games
  <2>1. ASSUME NEW g \in Games, NEW l \in Line, Log(g, l)
        PROVE  Stored \subseteq Stored' /\ \A h \in Stored : lines'[h] = lines[h]
    BY <2>1, LogAdds
  <2>2. ASSUME NEW t \in Seasons, Close(t) \/ Open(t)
        PROVE  Stored \subseteq Stored' /\ \A h \in Stored : lines'[h] = lines[h]
    BY <2>2 DEF Close, Open, Stored
  <2>3. Stored' \in SUBSET Games
    BY DEF Stored
  <2> QED
    BY <2>1, <2>2, <2>3 DEF Environment
<1> QED
  BY <1>1 DEF Own

\* The conversation has been told of nothing.
LEMMA ToolsStart ==
  ASSUME GamePagesAssumption, TypeOK, ChatInit
  PROVE  ToolsInv
<1>1. PICK p \in Players :
        chat = [pc |-> "idle", player |-> p, call |-> Nothing, season |-> All,
                began |-> {}, told |-> {}, out |-> Nothing]
  BY DEF ChatInit
<1>2. CallOk
  BY <1>1, NothingFacts DEF CallOk, ChatFields, ChatTypeOK
<1>3. OutOk /\ ToldOk
  BY <1>1 DEF OutOk, ToldOk
<1>4. CountsAgree /\ HighsHold /\ SearchHonest
  BY <1>1 DEF CountsAgree, HighsHold, SearchHonest, Returned
<1> QED
  BY <1>2, <1>3, <1>4 DEF ToolsInv

\* What the conversation was told of stays true while lines are logged.
LEMMA LoadTools ==
  ASSUME GamePagesAssumption, Inv, TypeOK', Environment, chat' = chat
  PROVE  ToolsInv'
<1> USE DEF Inv, PagesInv, ToolsInv
<1>1. /\ Stored \subseteq Stored' /\ \A h \in Stored : lines'[h] = lines[h]
  <2>1. ASSUME NEW g \in Games, NEW l \in Line, Log(g, l)
        PROVE  Stored \subseteq Stored' /\ \A h \in Stored : lines'[h] = lines[h]
    BY <2>1, LogAdds
  <2>2. ASSUME NEW t \in Seasons, Close(t) \/ Open(t)
        PROVE  Stored \subseteq Stored' /\ \A h \in Stored : lines'[h] = lines[h]
    BY <2>2 DEF Close, Open, Stored
  <2> QED
    BY <2>1, <2>2 DEF Environment
<1>2. \A s : /\ Own(s) \subseteq Own(s)'
             /\ Own(s)' \in SUBSET Games
             /\ Own(s)' \cap Stored = Own(s)
  BY OwnGrows
<1>3. CallOk' /\ OutOk'
  BY <1>1 DEF CallOk, ChatTypeOK, OutOk
<1>4. ToldOk'
  <2>1. Own(All) \subseteq Own(All)'
    BY <1>2
  <2>2. Own(chat.season) \subseteq Own(chat.season)'
    BY <1>1 DEF Own
  <2> QED
    BY <2>1, <2>2 DEF ToldOk
<1>5. ASSUME NEW s
      PROVE  Cardinality(Own(s) \cap chat.began) .. Cardinality(Own(s))
               \subseteq Cardinality(Own(s)' \cap chat.began) .. Cardinality(Own(s)')
  <2>1. Own(s)' \cap chat.began = Own(s) \cap chat.began
    BY <1>2 DEF CallOk
  <2>2. IsFiniteSet(Own(s)') /\ Own(s) \in SUBSET Own(s)'
    BY <1>2, FS_Subset DEF GamePagesAssumption
  <2>3. /\ IsFiniteSet(Own(s)) /\ Cardinality(Own(s)) <= Cardinality(Own(s)')
        /\ IsFiniteSet(Own(s) \cap chat.began)
    BY <2>2, FS_Subset
  <2>4. /\ Cardinality(Own(s)) \in Nat /\ Cardinality(Own(s)') \in Nat
        /\ Cardinality(Own(s) \cap chat.began) \in Nat
    BY <2>2, <2>3, FS_CardinalityType
  <2> QED
    BY <2>1, <2>3, <2>4
<1>6. CountsAgree'
  <2>1. \A s : chat'.began = chat.began
                 /\ Cardinality(Own(s) \cap chat.began) .. Cardinality(Own(s))
                      \subseteq Cardinality((Own(s) \cap chat.began)') .. Cardinality(Own(s)')
    BY <1>5
  <2>2. ASSUME Returned("list_seasons"), NEW s \in Seasons
        PROVE  chat.out.counts[s] \in
                 Cardinality((Own(s) \cap chat.began)') .. Cardinality(Own(s)')
    BY <2>1, <2>2 DEF CountsAgree
  <2>3. ASSUME Returned("get_season_summary")
        PROVE  chat.out.games_played \in
                 Cardinality((Own(chat.season) \cap chat.began)') .. Cardinality(Own(chat.season)')
    <3> DEFINE s == chat.season
    <3>1. chat.out.games_played \in Cardinality(Own(s) \cap chat.began) .. Cardinality(Own(s))
      BY <2>3 DEF CountsAgree
    <3> QED
      BY <2>1, <3>1
  <2> QED
    BY <2>2, <2>3 DEF CountsAgree, Returned
<1>7. HighsHold'
  <2> SUFFICES ASSUME Returned("get_game")
               PROVE  LET g == chat.out.game
                          season == Own(lines[g].season)'
                          beats(gs) == Points[g] > 0 /\ \A h \in gs : Points[h] <= Points[g]
                      IN /\ chat.out.high => beats(season \cap chat.began)
                         /\ beats(season) => chat.out.high
    BY DEF HighsHold, Returned
  <2> DEFINE g == chat.out.game
             s == lines[g].season
  <2>1. g \in Stored /\ lines'[g] = lines[g]
    BY <1>1 DEF ToldOk, Returned, Own
  <2>2. Own(lines[g].season)' \cap Stored = Own(s) /\ Own(s) \subseteq Own(lines[g].season)'
    BY <1>1, <2>1 DEF Own
  <2>3. Own(lines[g].season)' \cap chat.began = Own(s) \cap chat.began
    BY <2>2 DEF CallOk
  <2> QED
    BY <2>2, <2>3 DEF HighsHold
<1>8. SearchHonest'
  BY DEF SearchHonest, Returned
<1> QED
  BY <1>3, <1>4, <1>6, <1>7, <1>8
\* The steps of the conversation change nothing but the conversation.
LEMMA StoredStays ==
  ASSUME UNCHANGED <<lines, open, client>>, TypeOK
  PROVE  TypeOK' /\ Stored' = Stored
BY DEF TypeOK, Stored

\* A call with ids and seasons the conversation was told of, or made up.
LEMMA StartTools ==
  ASSUME GamePagesAssumption, ChatToolsAssumption, TypeOK, ToolsInv,
         UNCHANGED <<lines, open, client>>, NEW c \in Calls, Start(c)
  PROVE  ToolsInv'
<1> USE DEF ToolsInv
<1>1. TypeOK' /\ Stored' = Stored /\ lines' = lines
  BY StoredStays
<1>2. /\ DOMAIN chat' = ChatFields
      /\ chat'.call = c /\ chat'.out = Nothing /\ chat'.season = All
      /\ chat'.told = chat.told /\ chat'.player = chat.player
      /\ chat'.began \in {{}, Stored}
      /\ chat'.pc = IF NeedsSeason(c) THEN "resolve"
                    ELSE IF c.tool = "unknown" THEN "error" ELSE "read"
  BY DEF Start, CallOk, ChatFields
<1>3. CallOk'
  <2>1. ChatTypeOK'
    BY <1>1, <1>2 DEF ChatTypeOK, CallOk, Stored
  <2>2. chat'.began \subseteq Stored'
    BY <1>1, <1>2
  <2>3. /\ chat'.pc # "idle" /\ chat'.call \in Calls
        /\ chat'.pc = "resolve" => NeedsSeason(chat'.call)
        /\ chat'.pc \in {"read", "count", "highs", "result"} => ~NeedsSeason(chat'.call) /\ chat'.season = All
        /\ chat'.pc \notin {"count", "highs", "result"}
    BY <1>2
  <2> QED
    BY <1>2, <2>1, <2>2, <2>3 DEF CallOk
<1>4. OutOk'
  BY <1>2 DEF OutOk
<1>5. ToldOk'
  <2>1. Own(All)' = Own(All)
    BY <1>1, <1>2 DEF Own
  <2>2. chat'.pc = "error" => "id" \notin DOMAIN chat'.call
    BY <1>2, CallFacts
  <2>3. chat'.pc \notin {"highs", "result"}
    BY <1>2
  <2> QED
    BY <1>2, <2>1, <2>2, <2>3 DEF ToldOk
<1>6. CountsAgree' /\ HighsHold' /\ SearchHonest'
  BY <1>2 DEF CountsAgree, HighsHold, SearchHonest, Returned
<1> QED
  BY <1>3, <1>4, <1>5, <1>6

\* The season of a call is resolved, or is none of the player's.
LEMMA ResolveTools ==
  ASSUME GamePagesAssumption, ChatToolsAssumption, TypeOK, ToolsInv, Resolve
  PROVE  ToolsInv'
<1> USE DEF ToolsInv
<1>1. TypeOK' /\ Stored' = Stored /\ lines' = lines /\ chat.pc = "resolve"
  BY StoredStays DEF Resolve, Step
<1>2. chat.call \in Calls /\ NeedsSeason(chat.call) /\ chat.call.season \in AskedSeasons
  <2>1. chat.call \in Calls /\ NeedsSeason(chat.call)
    BY <1>1 DEF CallOk, ChatTypeOK
  <2> QED
    BY <2>1, CallFacts
<1>3. /\ DOMAIN chat' = ChatFields
      /\ chat'.call = chat.call /\ chat'.out = chat.out
      /\ chat'.told = chat.told /\ chat'.player = chat.player /\ chat'.began = chat.began
      /\ \/ /\ chat'.pc = "read" /\ chat'.season \in Seasons
            /\ chat.call.season \in {Current, chat'.season}
         \/ chat'.pc = "error" /\ chat'.season = chat.season
  <2> DEFINE found == IF chat.call.season = Current THEN open ELSE {chat.call.season} \cap Seasons
  <2>1. \A s \in found : s \in Seasons /\ chat.call.season \in {Current, s}
    BY DEF TypeOK
  <2>2. DOMAIN chat = ChatFields
    BY DEF CallOk
  <2>3. \/ \E s \in found : chat' = [chat EXCEPT !.pc = "read", !.season = s]
        \/ chat' = [chat EXCEPT !.pc = "error"]
    BY DEF Resolve
  <2> HIDE DEF found
  <2> QED
    BY <2>1, <2>2, <2>3 DEF ChatFields
<1>4. CallOk'
  <2>1. ChatTypeOK'
    BY <1>1, <1>3 DEF ChatTypeOK, CallOk
  <2> QED
    BY <1>1, <1>2, <1>3, <2>1 DEF CallOk
<1>5. OutOk'
  BY <1>1, <1>3 DEF OutOk
<1>6. ToldOk'
  <2>1. Own(All)' = Own(All)
    BY <1>1, <1>3 DEF Own
  <2>2. "id" \notin DOMAIN chat.call
    BY <1>2, CallFacts DEF NeedsSeason
  <2> QED
    BY <1>3, <2>1, <2>2 DEF ToldOk
<1>7. CountsAgree' /\ HighsHold' /\ SearchHonest'
  BY <1>3 DEF CountsAgree, HighsHold, SearchHonest, Returned
<1> QED
  BY <1>4, <1>5, <1>6, <1>7

\* What player_performances returns: the player's lines of the season.
LEMMA PlayedFacts ==
  ASSUME GamePagesAssumption, ChatToolsAssumption, TypeOK, ToolsInv,
         chat.pc = "read", NEW q \in Played
  PROVE  /\ Own(chat.season) \in SUBSET Games
         /\ q \in SetToSeqs(Own(chat.season))
         /\ ToSet(q) = Own(chat.season) /\ Len(q) = Cardinality(Own(chat.season))
<1>1. Own(chat.season) \in SUBSET Games
  BY DEF Own, Stored
<1>2. chat.season \in Seasons \cup {All}
  BY DEF ToolsInv, CallOk, ChatTypeOK
<1>3. q \in SetToSeqs(Own(chat.season))
  <2>1. CASE chat.season # All
    <3>1. q \in SetToSeqs(Of(chat.player, chat.season))
      BY <2>1 DEF Played, Results
    <3>2. Of(chat.player, chat.season) = Own(chat.season)
      BY <2>1 DEF Of, Own
    <3> QED
      BY <3>1, <3>2
  <2>2. CASE chat.season = All
    <3>1. q \in SetToSeqs({g \in Stored : lines[g].player = chat.player})
      BY <2>2 DEF Played
    <3>2. {g \in Stored : lines[g].player = chat.player} = Own(chat.season)
      BY <2>2 DEF Own
    <3> QED
      BY <3>1, <3>2
  <2> QED
    BY <2>1, <2>2
<1> QED
  BY <1>1, <1>3, OrderFacts
\* Counts made now agree with what is there now and was there before.
LEMMA CountsNow ==
  ASSUME GamePagesAssumption, NEW S \in SUBSET Games, NEW T
  PROVE  Cardinality(S) \in Cardinality(S \cap T) .. Cardinality(S)
<1>1. IsFiniteSet(S) /\ S \cap T \in SUBSET S
  BY FS_Subset DEF GamePagesAssumption
<1>2. IsFiniteSet(S \cap T) /\ Cardinality(S \cap T) <= Cardinality(S)
  BY <1>1, FS_Subset
<1> QED
  BY <1>1, <1>2, FS_CardinalityType

\* What an answer leaves as it was.
LEMMA ReturnFacts ==
  ASSUME ToolsInv, TypeOK, NEW pc, Step(pc), NEW out, NEW ids, Return(out, ids)
  PROVE  /\ TypeOK' /\ Stored' = Stored /\ lines' = lines
         /\ DOMAIN chat' = ChatFields /\ chat'.pc = "result" /\ chat'.out = out
         /\ chat'.told = chat.told \cup ids
         /\ chat'.call = chat.call /\ chat'.season = chat.season
         /\ chat'.player = chat.player /\ chat'.began = chat.began
         /\ \A s : Own(s)' = Own(s)
<1>1. TypeOK' /\ Stored' = Stored /\ lines' = lines
  BY StoredStays DEF Step
<1>2. DOMAIN chat = ChatFields
  BY DEF ToolsInv, CallOk
<1>3. /\ DOMAIN chat' = ChatFields /\ chat'.pc = "result" /\ chat'.out = out
      /\ chat'.told = chat.told \cup ids
      /\ chat'.call = chat.call /\ chat'.season = chat.season
      /\ chat'.player = chat.player /\ chat'.began = chat.began
  BY <1>2 DEF Return, ChatFields
<1> QED
  BY <1>1, <1>3 DEF Own

\* The tools that read a season's lines in one statement.
LEMMA ReadGamesTools ==
  ASSUME GamePagesAssumption, ChatToolsAssumption, TypeOK, ToolsInv, ReadGames
  PROVE  ToolsInv'
<1> USE DEF ToolsInv
<1>1. Step("read") /\ chat.pc = "read" /\ chat.call \in Calls
  BY DEF ReadGames, Step, CallOk, ChatTypeOK
<1>2. PICK q \in Played :
        \/ /\ chat.call.tool = "get_season_summary"
           /\ Return(GetSeasonSummary(q), {})
        \/ /\ chat.call.tool = "find_games"
           /\ Return(FindGames(q, chat.call.search),
                     RowIds(FindGames(q, chat.call.search).games))
        \/ /\ chat.call.tool = "get_split_averages"
           /\ Return(GetSplitAverages(q, chat.call), {})
  BY DEF ReadGames
<1> DEFINE S == Own(chat.season)
<1>3. /\ S \in SUBSET Games /\ q \in SetToSeqs(S)
      /\ ToSet(q) = S /\ Len(q) = Cardinality(S)
  BY <1>1, PlayedFacts
<1>4. S \subseteq Own(All)
  BY DEF Own
<1>5. ASSUME NEW out, NEW ids, Return(out, ids), ids \subseteq S,
             DOMAIN out = CASE chat.call.tool = "get_season_summary" ->
                                 {"seen", "games_played", "averages", "record"}
                            [] chat.call.tool = "find_games" ->
                                 {"games", "total_matched", "truncated", "seen"}
                            [] chat.call.tool = "get_split_averages" ->
                                 {"seen", "considered", "overall", "groups"},
             out.seen = S,
             chat.call.tool \in {"get_season_summary", "find_games", "get_split_averages"}
      PROVE  CallOk' /\ OutOk' /\ ToldOk' /\ HighsHold'
  <2>1. /\ TypeOK' /\ Stored' = Stored /\ lines' = lines
        /\ DOMAIN chat' = ChatFields /\ chat'.pc = "result" /\ chat'.out = out
        /\ chat'.told = chat.told \cup ids
        /\ chat'.call = chat.call /\ chat'.season = chat.season
        /\ chat'.player = chat.player /\ chat'.began = chat.began
        /\ \A s : Own(s)' = Own(s)
    BY <1>1, <1>5, ReturnFacts
  <2>2. chat.told \cup ids \subseteq Own(All)
    BY <1>4, <1>5 DEF ToldOk
  <2>3. CallOk'
    <3>1. chat.told \cup ids \subseteq Games
      BY <2>2 DEF Own, Stored
    <3>2. ChatTypeOK'
      BY <1>1, <2>1, <3>1 DEF CallOk, ChatTypeOK
    <3> QED
      BY <1>1, <1>5, <2>1, <3>2 DEF CallOk
  <2>4. OutOk'
    BY <1>5, <2>1 DEF OutOk
  <2>5. ToldOk'
    <3>1. Own(All)' = Own(All) /\ Own(chat.season)' = S
      BY <2>1 DEF Own
    <3> QED
      BY <1>5, <2>1, <2>2, <3>1 DEF ToldOk
  <2>6. HighsHold'
    BY <1>5, <2>1 DEF HighsHold, Returned
  <2> QED
    BY <2>3, <2>4, <2>5, <2>6
<1>6. CASE chat.call.tool = "get_season_summary" /\ Return(GetSeasonSummary(q), {})
  <2> DEFINE out == GetSeasonSummary(q)
  <2>1. /\ DOMAIN out = {"seen", "games_played", "averages", "record"}
        /\ out.seen = S /\ out.games_played = Cardinality(S)
    BY <1>3 DEF GetSeasonSummary
  <2> HIDE DEF out
  <2>2. CallOk' /\ OutOk' /\ ToldOk' /\ HighsHold'
    BY <1>5, <1>6, <2>1 DEF out
  <2>3. /\ chat'.pc = "result" /\ chat'.out = out /\ chat'.call = chat.call
        /\ chat'.season = chat.season /\ chat'.began = chat.began
        /\ lines' = lines /\ Stored' = Stored /\ chat'.player = chat.player
    BY <1>1, <1>6, ReturnFacts DEF out
  <2>4. CountsAgree'
    <3>1. Own(chat.season)' = S
      BY <2>3 DEF Own
    <3>2. Cardinality(S) \in Cardinality(S \cap chat.began) .. Cardinality(S)
      BY <1>3, CountsNow
    <3> QED
      BY <1>6, <2>1, <2>3, <3>1, <3>2 DEF CountsAgree, Returned
  <2>5. SearchHonest'
    BY <1>6, <2>3 DEF SearchHonest, Returned
  <2> QED
    BY <2>2, <2>4, <2>5
<1>7. CASE /\ chat.call.tool = "find_games"
           /\ Return(FindGames(q, chat.call.search), RowIds(FindGames(q, chat.call.search).games))
  <2> DEFINE f == chat.call.search
             out == FindGames(q, f)
  <2>1. f \in Searches
    BY <1>1, <1>7, CallFacts
  <2>2. FullAnswer(out, S, f)
    <3>1. S \in SUBSET Games /\ q \in SetToSeqs(S)
      BY <1>3
    <3> HIDE DEF f, S
    <3> QED
      BY <2>1, <3>1, SearchFacts
  <2>3. Return(out, ToSet(out.games)) /\ ToSet(out.games) \subseteq S
    BY <1>7, <2>2 DEF RowIds, FullAnswer
  <2> HIDE DEF out
  <2>4. CallOk' /\ OutOk' /\ ToldOk' /\ HighsHold'
    BY <1>5, <1>7, <2>2, <2>3 DEF FullAnswer
  <2>5. chat'.pc = "result" /\ chat'.out = out /\ chat'.call = chat.call
    BY <1>1, <2>3, ReturnFacts
  <2>6. CountsAgree'
    BY <1>7, <2>5 DEF CountsAgree, Returned
  <2>7. SearchHonest'
    <3>1. FullAnswer(out, out.seen, f)
      BY <2>2 DEF FullAnswer
    <3>2. chat'.call.search = f
      BY <2>5
    <3> HIDE DEF f
    <3> QED
      BY <2>5, <3>1, <3>2 DEF SearchHonest, Returned, FullAnswer
  <2> QED
    BY <2>4, <2>6, <2>7
<1>8. CASE chat.call.tool = "get_split_averages" /\ Return(GetSplitAverages(q, chat.call), {})
  <2> DEFINE out == GetSplitAverages(q, chat.call)
  <2>1. /\ DOMAIN out = {"seen", "considered", "overall", "groups"}
        /\ out.seen = S
    BY <1>3 DEF GetSplitAverages
  <2> HIDE DEF out
  <2>2. CallOk' /\ OutOk' /\ ToldOk' /\ HighsHold'
    BY <1>5, <1>8, <2>1 DEF out
  <2>3. chat'.pc = "result" /\ chat'.call = chat.call
    BY <1>1, <1>8, ReturnFacts DEF out
  <2>4. CountsAgree' /\ SearchHonest'
    BY <1>8, <2>3 DEF CountsAgree, SearchHonest, Returned
  <2> QED
    BY <2>2, <2>4
<1> QED
  BY <1>2, <1>6, <1>7, <1>8
\* Reading the seasons changes nothing that the invariant is about.
LEMMA SeasonsTools ==
  ASSUME GamePagesAssumption, ChatToolsAssumption, TypeOK, ToolsInv, TeamSeasons
  PROVE  ToolsInv'
<1> USE DEF ToolsInv
<1>1. /\ chat.pc = "read" /\ chat.call \in Calls /\ chat.call.tool = "list_seasons"
      /\ UNCHANGED <<lines, open, client>> /\ DOMAIN chat = ChatFields
      /\ chat' = [chat EXCEPT !.pc = "count"]
  BY DEF TeamSeasons, Step, CallOk, ChatTypeOK
<1>2. /\ TypeOK' /\ Stored' = Stored /\ lines' = lines
      /\ DOMAIN chat' = ChatFields /\ chat'.pc = "count" /\ chat'.out = chat.out
      /\ chat'.told = chat.told /\ chat'.call = chat.call /\ chat'.season = chat.season
      /\ chat'.player = chat.player /\ chat'.began = chat.began
  BY <1>1, StoredStays DEF ChatFields
<1>3. CallOk'
  <2>1. ChatTypeOK'
    BY <1>1, <1>2 DEF CallOk, ChatTypeOK
  <2> QED
    BY <1>1, <1>2, <2>1 DEF CallOk, NeedsSeason
<1>4. OutOk'
  BY <1>1, <1>2 DEF OutOk
<1>5. ToldOk'
  <2>1. Own(All)' = Own(All)
    BY <1>2 DEF Own
  <2> QED
    BY <1>2, <2>1 DEF ToldOk
<1>6. CountsAgree' /\ HighsHold' /\ SearchHonest'
  BY <1>2 DEF CountsAgree, HighsHold, SearchHonest, Returned
<1> QED
  BY <1>3, <1>4, <1>5, <1>6

\* list_seasons counts the lines of each season.
LEMMA CountTools ==
  ASSUME GamePagesAssumption, ChatToolsAssumption, TypeOK, ToolsInv, CountSeasons
  PROVE  ToolsInv'
<1> USE DEF ToolsInv
<1> DEFINE out == [counts |-> [s \in Seasons |-> Cardinality(Of(chat.player, s))]]
<1>1. /\ Step("count") /\ chat.pc = "count" /\ chat.call \in Calls
      /\ chat.call.tool = "list_seasons" /\ Return(out, {})
  BY DEF CountSeasons, Step, CallOk, ChatTypeOK
<1>2. DOMAIN out = {"counts"} /\ \A s \in Seasons : out.counts[s] = Cardinality(Of(chat.player, s))
  OBVIOUS
<1> HIDE DEF out
<1>3. /\ TypeOK' /\ Stored' = Stored /\ lines' = lines
      /\ DOMAIN chat' = ChatFields /\ chat'.pc = "result" /\ chat'.out = out
      /\ chat'.told = chat.told
      /\ chat'.call = chat.call /\ chat'.season = chat.season
      /\ chat'.player = chat.player /\ chat'.began = chat.began
      /\ \A s : Own(s)' = Own(s)
  <2>1. chat'.told = chat.told \cup {}
    BY <1>1, ReturnFacts
  <2> QED
    BY <1>1, <2>1, ReturnFacts
<1>4. CallOk'
  <2>1. ChatTypeOK'
    BY <1>1, <1>3 DEF CallOk, ChatTypeOK
  <2> QED
    BY <1>1, <1>3, <2>1 DEF CallOk, NeedsSeason
<1>5. OutOk'
  BY <1>1, <1>2, <1>3 DEF OutOk
<1>6. ToldOk'
  <2>1. Own(All)' = Own(All)
    BY <1>3
  <2> QED
    BY <1>1, <1>2, <1>3, <2>1 DEF ToldOk
<1>7. CountsAgree'
  <2>1. ASSUME NEW s \in Seasons
        PROVE  out.counts[s] \in Cardinality(Own(s) \cap chat.began) .. Cardinality(Own(s))
    <3>1. Of(chat.player, s) = Own(s) /\ Own(s) \in SUBSET Games
      BY DEF Of, Own, Stored, ChatToolsAssumption
    <3>2. Cardinality(Own(s)) \in Cardinality(Own(s) \cap chat.began) .. Cardinality(Own(s))
      BY <3>1, CountsNow
    <3> QED
      BY <1>2, <3>1, <3>2
  <2>2. \A s \in Seasons : out.counts[s] \in
          Cardinality(Own(s)' \cap chat'.began) .. Cardinality(Own(s)')
    BY <1>3, <2>1
  <2> QED
    BY <1>1, <1>3, <2>2 DEF CountsAgree, Returned
<1>8. HighsHold' /\ SearchHonest'
  BY <1>1, <1>3 DEF HighsHold, SearchHonest, Returned
<1> QED
  BY <1>4, <1>5, <1>6, <1>7, <1>8

\* get_game finds a line by its id or its date among the player's own.
LEMMA GetGameTools ==
  ASSUME GamePagesAssumption, ChatToolsAssumption, TypeOK, ToolsInv, GetGameTool
  PROVE  ToolsInv'
<1> USE DEF ToolsInv
<1>1. /\ chat.pc = "read" /\ chat.call \in Calls /\ chat.call.tool = "get_game"
      /\ UNCHANGED <<lines, open, client>> /\ DOMAIN chat = ChatFields /\ chat.out = Nothing
  BY DEF GetGameTool, Step, CallOk, ChatTypeOK, OutOk
<1>2. TypeOK' /\ Stored' = Stored /\ lines' = lines
  BY <1>1, StoredStays
<1>3. ~NeedsSeason(chat.call)
  BY <1>1 DEF NeedsSeason
<1>4. GameMatches \subseteq Own(All)
  BY DEF GameMatches, Own
<1>5. CASE Cardinality(GameMatches) = 1
  <2> DEFINE g == CHOOSE h \in GameMatches : TRUE
  <2>1. g \in GameMatches
    <3>1. Cardinality({}) = 0
      BY FS_EmptySet
    <3>2. GameMatches # {}
      BY <1>5, <3>1
    <3> QED
      BY <3>2
  <2>2. chat' = [chat EXCEPT !.pc = "highs", !.out = [game |-> g]]
    BY <1>5 DEF GetGameTool
  <2>3. "id" \in DOMAIN chat.call => g = chat.call.id
    BY <2>1 DEF GameMatches
  <2> HIDE DEF g
  <2>4. /\ DOMAIN chat' = ChatFields /\ chat'.pc = "highs"
        /\ DOMAIN chat'.out = {"game"} /\ chat'.out.game = g
        /\ chat'.told = chat.told /\ chat'.call = chat.call /\ chat'.season = chat.season
        /\ chat'.player = chat.player /\ chat'.began = chat.began
    BY <1>1, <2>2 DEF ChatFields
  <2>5. CallOk'
    <3>1. ChatTypeOK'
      BY <1>1, <1>2, <2>4 DEF CallOk, ChatTypeOK
    <3> QED
      BY <1>1, <1>2, <2>4, <3>1 DEF CallOk
  <2>6. OutOk'
    BY <1>1, <2>4 DEF OutOk
  <2>7. ToldOk'
    <3>1. Own(All)' = Own(All)
      BY <1>2, <2>4 DEF Own
    <3> QED
      BY <1>4, <2>1, <2>3, <2>4, <3>1 DEF ToldOk
  <2>8. CountsAgree' /\ HighsHold' /\ SearchHonest'
    BY <2>4 DEF CountsAgree, HighsHold, SearchHonest, Returned
  <2> QED
    BY <2>5, <2>6, <2>7, <2>8
<1>6. CASE Cardinality(GameMatches) # 1
  <2>1. chat' = [chat EXCEPT !.pc = "error", !.told = @ \cup GameMatches]
    BY <1>6 DEF GetGameTool
  <2>2. /\ DOMAIN chat' = ChatFields /\ chat'.pc = "error" /\ chat'.out = Nothing
        /\ chat'.told = chat.told \cup GameMatches
        /\ chat'.call = chat.call /\ chat'.season = chat.season
        /\ chat'.player = chat.player /\ chat'.began = chat.began
    BY <1>1, <2>1 DEF ChatFields
  <2>3. chat'.told \subseteq Own(All)
    BY <1>4, <2>2 DEF ToldOk
  <2>4. ASSUME "id" \in DOMAIN chat.call PROVE chat.call.id \notin chat'.told
    <3>1. GameMatches \subseteq {chat.call.id}
      BY <2>4 DEF GameMatches
    <3>2. GameMatches # {chat.call.id}
      BY <1>6, FS_Singleton
    <3>3. chat.call.id \in Own(All) => chat.call.id \in GameMatches
      BY <2>4 DEF GameMatches, Own
    <3> QED
      BY <2>3, <3>1, <3>2, <3>3
  <2>5. CallOk'
    <3>1. chat'.told \subseteq Games
      BY <2>3 DEF Own, Stored
    <3>2. ChatTypeOK'
      BY <1>1, <1>2, <2>2, <3>1 DEF CallOk, ChatTypeOK
    <3> QED
      BY <1>1, <1>2, <2>2, <3>2 DEF CallOk
  <2>6. OutOk'
    BY <2>2 DEF OutOk
  <2>7. ToldOk'
    <3>1. Own(All)' = Own(All)
      BY <1>2, <2>2 DEF Own
    <3> QED
      BY <2>2, <2>3, <2>4, <3>1 DEF ToldOk
  <2>8. CountsAgree' /\ HighsHold' /\ SearchHonest'
    BY <2>2 DEF CountsAgree, HighsHold, SearchHonest, Returned
  <2> QED
    BY <2>5, <2>6, <2>7, <2>8
<1> QED
  BY <1>5, <1>6

\* get_game compares its line with those of the season, read later.
LEMMA HighsTools ==
  ASSUME GamePagesAssumption, ChatToolsAssumption, TypeOK, ToolsInv, GetGameHighs
  PROVE  ToolsInv'
<1> USE DEF ToolsInv
<1> DEFINE g == chat.out.game
           out == [game |-> g, high |-> High(g)]
<1>1. /\ Step("highs") /\ chat.pc = "highs" /\ chat.call \in Calls
      /\ chat.call.tool = "get_game" /\ Return(out, {g})
  BY DEF GetGameHighs, Step, CallOk, ChatTypeOK, OutOk
<1>2. DOMAIN out = {"game", "high"} /\ out.game = g /\ out.high = High(g)
  OBVIOUS
<1>3. g \in Own(All) /\ ("id" \in DOMAIN chat.call => g = chat.call.id)
  BY <1>1 DEF ToldOk
<1> HIDE DEF out, g
<1>4. /\ TypeOK' /\ Stored' = Stored /\ lines' = lines
      /\ DOMAIN chat' = ChatFields /\ chat'.pc = "result" /\ chat'.out = out
      /\ chat'.told = chat.told \cup {g}
      /\ chat'.call = chat.call /\ chat'.season = chat.season
      /\ chat'.player = chat.player /\ chat'.began = chat.began
      /\ \A s : Own(s)' = Own(s)
  BY <1>1, ReturnFacts
<1>5. chat'.told \subseteq Own(All)
  BY <1>3, <1>4 DEF ToldOk
<1>6. chat.season = All
  BY <1>1 DEF CallOk, NeedsSeason
<1>7. CallOk'
  <2>1. chat'.told \subseteq Games
    BY <1>5 DEF Own, Stored
  <2>2. ChatTypeOK'
    BY <1>1, <1>4, <2>1 DEF CallOk, ChatTypeOK
  <2> QED
    BY <1>1, <1>4, <1>6, <2>2 DEF CallOk, NeedsSeason
<1>8. OutOk'
  BY <1>1, <1>2, <1>4 DEF OutOk
<1>9. ToldOk'
  <2>1. Own(All)' = Own(All)
    BY <1>4
  <2> QED
    BY <1>1, <1>2, <1>3, <1>4, <1>5, <2>1 DEF ToldOk
<1>10. HighsHold'
  <2> DEFINE season == Own(lines[g].season)
             beats(gs) == Points[g] > 0 /\ \A h \in gs : Points[h] <= Points[g]
  <2>1. lines[g].season \in Seasons
    BY <1>3 DEF Own, Stored, TypeOK, Line
  <2>2. season = Of(chat.player, lines[g].season)
    BY <2>1 DEF Own, Of, ChatToolsAssumption
  <2>3. out.high = beats(season)
    BY <1>2, <2>2 DEF High
  <2>4. Own(lines[chat.out.game].season)' = season
    <3>1. /\ Stored' = Stored /\ lines' = lines /\ chat'.player = chat.player
          /\ chat'.out.game = g
      BY <1>2, <1>4
    <3> QED
      BY <3>1 DEF Own
  <2>5. chat'.out.game = g /\ chat'.out.high = beats(season) /\ chat'.began = chat.began
    BY <1>2, <1>4, <2>3
  <2> SUFFICES ASSUME Returned("get_game")'
               PROVE  /\ chat'.out.high => beats(season \cap chat.began)
                      /\ beats(season) => chat'.out.high
    <3> HIDE DEF season
    <3> QED
      BY <2>4, <2>5 DEF HighsHold
  <2> QED
    BY <2>5
<1>11. CountsAgree' /\ SearchHonest'
  BY <1>1, <1>4 DEF CountsAgree, SearchHonest, Returned
<1> QED
  BY <1>7, <1>8, <1>9, <1>10, <1>11
\* Every step of a conversation preserves its invariant.
LEMMA ChatStep ==
  ASSUME GamePagesAssumption, ChatToolsAssumption, TypeOK, ToolsInv, ChatNext
  PROVE  ToolsInv'
<1>1. ASSUME NEW c \in Calls, Call(c) PROVE ToolsInv'
  <2>1. UNCHANGED <<lines, open, client>> /\ Start(c)
    BY <1>1 DEF Call, Step
  <2> QED
    BY <2>1, StartTools
<1>2. CASE Follow
  <2>1. PICK g \in chat.told : Start([tool |-> "get_game", id |-> g])
    BY <1>2 DEF Follow
  <2>2. g \in Games
    BY DEF ToolsInv, CallOk, ChatTypeOK
  <2>3. [tool |-> "get_game", id |-> g] \in Calls
    BY <2>2 DEF Calls
  <2>4. UNCHANGED <<lines, open, client>>
    BY <1>2 DEF Follow
  <2> QED
    BY <2>1, <2>3, <2>4, StartTools
<1>3. CASE Resolve
  BY <1>3, ResolveTools
<1>4. CASE ReadGames
  BY <1>4, ReadGamesTools
<1>5. CASE CountSeasons
  BY <1>5, CountTools
<1>6. CASE GetGameTool
  BY <1>6, GetGameTools
<1>7. CASE GetGameHighs
  BY <1>7, HighsTools
<1>8. CASE TeamSeasons
  BY <1>8, SeasonsTools
<1> QED
  BY <1>1, <1>2, <1>3, <1>4, <1>5, <1>6, <1>7, <1>8 DEF ChatNext

\* What neither the client nor the environment touches stays as it is.
LEMMA PagesStay ==
  ASSUME PagesInv, UNCHANGED <<lines, open, client>>
  PROVE  PagesInv'
<1>1. /\ TypeOK' = TypeOK /\ Stored' = Stored /\ Named' = Named /\ Shown' = Shown
      /\ Asked' = Asked
  BY DEF TypeOK, Stored, Named, Shown, Asked, Of
<1>2. (\A g : Alone(g)' = Alone(g)) /\ Quiet' = Quiet
  BY <1>1 DEF Alone, SameDay, Quiet
<1>3. PageOk' /\ ShownOk' /\ SteadyOk'
  BY <1>1 DEF PagesInv, PageOk, ShownOk, SteadyOk
<1>4. SkipOk' /\ CountOk'
  BY <1>1, <1>2 DEF PagesInv, SkipOk, CountOk
<1>5. RankOk' /\ LastOk'
  BY <1>1, <1>2 DEF PagesInv, RankOk, LastOk
<1> QED
  BY <1>1, <1>3, <1>4, <1>5 DEF PagesInv

\* What the conversation was told stays right as long as the lines do.
LEMMA ToolsStay ==
  ASSUME ToolsInv, TypeOK', lines' = lines, chat' = chat
  PROVE  ToolsInv'
<1>1. Stored' = Stored
  BY DEF Stored
<1>2. CallOk' /\ OutOk'
  BY <1>1 DEF ToolsInv, CallOk, ChatTypeOK, OutOk
<1>3. /\ \A s : Own(s)' = Own(s)
      /\ Own(chat.season)' = Own(chat.season)
      /\ Own(lines[chat.out.game].season)' = Own(lines[chat.out.game].season)
  BY <1>1 DEF Own
<1>4. ToldOk'
  BY <1>3 DEF ToolsInv, ToldOk
<1>5. CountsAgree'
  BY <1>3 DEF ToolsInv, CountsAgree, Returned
<1>6. HighsHold'
  BY <1>3 DEF ToolsInv, HighsHold, Returned
<1>7. SearchHonest'
  BY DEF ToolsInv, SearchHonest, Returned
<1> QED
  BY <1>2, <1>4, <1>5, <1>6, <1>7 DEF ToolsInv

\* Every step of pages and tools keeps the invariant.
LEMMA InvStep ==
  ASSUME GamePagesAssumption, ChatToolsAssumption, Inv, [ToolsNext]_toolVars
  PROVE  Inv'
<1> USE DEF Inv
<1>1. CASE Environment /\ UNCHANGED chat
  <2>1. PagesInv'
    BY <1>1, PagesStep DEF Next
  <2> QED
    BY <1>1, <2>1, LoadTools DEF PagesInv
<1>2. CASE ClientNext /\ UNCHANGED chat
  <2>1. PagesInv'
    BY <1>2, PagesStep DEF Next
  <2>2. lines' = lines
    BY <1>2 DEF ClientNext, Ask, GetGame, ResolveSeason, ReadPage, ReadLast
  <2> QED
    BY <1>2, <2>1, <2>2, ToolsStay DEF PagesInv
<1>3. CASE ChatNext
  <2>1. UNCHANGED <<lines, open, client>>
    BY <1>3 DEF ChatNext, Call, Follow, Resolve, ReadGames, TeamSeasons, CountSeasons, GetGameTool,
                GetGameHighs, Step
  <2>2. PagesInv'
    BY <2>1, PagesStay
  <2>3. ToolsInv'
    BY <1>3, ChatStep DEF PagesInv
  <2> QED
    BY <2>2, <2>3
<1>4. CASE UNCHANGED toolVars
  <2>1. PagesInv'
    BY <1>4, PagesStay DEF toolVars
  <2> QED
    BY <1>4, <2>1, ToolsStay DEF toolVars, PagesInv
<1> QED
  BY <1>1, <1>2, <1>3, <1>4 DEF ToolsNext

-----------------------------------------------------------------------------
(* A split: groups of games.                                               *)

\* The sum an average is made of.
LEMMA AverageFacts ==
  ASSUME NEW gs
  PROVE  AverageOf(gs) = <<SumFunctionOnSet(Points, gs), Cardinality(gs)>>
<1>1. MapThenSumSet(LAMBDA g : Points[g], gs) = SumFunctionOnSet(Points, gs)
  BY DEF MapThenSumSet, SumFunctionOnSet, FoldFunctionOnSet, MapThenFoldSet
<1> QED
  BY <1>1 DEF AverageOf

GroupBy(games, by, k) == {g \in games : GroupKey(g, by) = k}

\* What a split says of the games with key k.
GroupOf(games, by, k) ==
  [games |-> GroupBy(games, by, k), averages |-> AverageOf(GroupBy(games, by, k))]

GroupsOf(games, by) == {GroupOf(games, by, k) : k \in {GroupKey(g, by) : g \in games}}

\* Every game is in one group, and the groups' sums make that of all games.
LEMMA GroupSums ==
  ASSUME NEW S, IsFiniteSet(S), NEW by, NEW f, \A g \in S : f[g] \in Int,
         NEW total, \A x \in GroupsOf(S, by) : total[x] = SumFunctionOnSet(f, x.games)
  PROVE  /\ IsFiniteSet(GroupsOf(S, by))
         /\ UNION {x.games : x \in GroupsOf(S, by)} = S
         /\ SumFunctionOnSet(total, GroupsOf(S, by)) = SumFunctionOnSet(f, S)
<1> DEFINE K == {GroupKey(g, by) : g \in S}
           groups == GroupsOf(S, by)
           key == [g \in S |-> GroupOf(S, by, GroupKey(g, by))]
<1>1. K = {GroupKey(g, by) : g \in S} /\ groups = {GroupOf(S, by, k) : k \in K}
  BY DEF GroupsOf
<1>2. IsFiniteSet(groups)
  <2> DEFINE rec == [g \in S |-> GroupOf(S, by, GroupKey(g, by))]
  <2>1. rec \in Surjection(S, groups)
    BY <1>1 DEF Surjection
  <2> HIDE DEF rec, groups
  <2> QED
    BY <2>1, FS_Surjection
<1>3. \A k \in K : GroupOf(S, by, k) \in groups
  BY DEF GroupsOf
<1>4. \A k \in K : GroupOf(S, by, k).games = GroupBy(S, by, k)
  BY DEF GroupOf
<1>5. \A x \in groups : \E k \in K : x = GroupOf(S, by, k)
  BY DEF GroupsOf
<1>6. \A g \in S, k \in K : g \in GroupBy(S, by, k) <=> GroupKey(g, by) = k
  BY DEF GroupBy
<1>7. \A k \in K : GroupBy(S, by, k) \subseteq S /\ GroupBy(S, by, k) # {}
  BY DEF GroupBy
<1> HIDE DEF groups
<1>8. \A g \in S : key[g] \in groups /\ key[g] = GroupOf(S, by, GroupKey(g, by))
  BY <1>3
<1>9. \A k \in K, g \in S : key[g] = GroupOf(S, by, k) <=> GroupKey(g, by) = k
  <2> TAKE k \in K, g \in S
  <2>1. ASSUME key[g] = GroupOf(S, by, k) PROVE GroupKey(g, by) = k
    <3>1. GroupBy(S, by, GroupKey(g, by)) = GroupBy(S, by, k)
      BY <1>4, <1>8, <2>1
    <3> QED
      BY <1>6, <3>1
  <2> QED
    BY <1>8, <2>1
<1>10. \A x \in groups : x.games = {g \in S : key[g] = x}
  <2> TAKE x \in groups
  <2>1. PICK k \in K : x = GroupOf(S, by, k)
    BY <1>5
  <2>2. x.games = GroupBy(S, by, k)
    BY <1>4, <2>1
  <2>3. \A g : g \in x.games <=> g \in S /\ key[g] = x
    BY <1>6, <1>7, <1>9, <2>1, <2>2
  <2> QED
    BY <2>3
<1>11. UNION {x.games : x \in groups} = S
  <2>1. \A x \in groups : x.games \subseteq S
    BY <1>10
  <2>2. \A g \in S : key[g] \in groups /\ g \in key[g].games
    <3> HIDE DEF key
    <3> QED
      BY <1>8, <1>10
  <2> QED
    BY <2>1, <2>2
<1>12. \A x \in groups : total[x] = SumFunctionOnSet(f, {g \in S : key[g] = x})
  BY <1>10 DEF groups
<1>13. \A g \in S : key[g] \in groups
  BY <1>8
<1> HIDE DEF key
<1>14. SumFunctionOnSet(total, groups) = SumFunctionOnSet(f, S)
  BY <1>2, <1>12, <1>13, SumGroups
<1> QED
  BY <1>2, <1>11, <1>14 DEF groups

\* What get_split_averages may say.
SplitAnswer(out) ==
  /\ \A g \in out.considered, h \in out.seen \ out.considered : Date[g] >= Date[h]
  /\ UNION {x.games : x \in out.groups} = out.considered
  /\ SumFunction([x \in out.groups |-> x.averages[2]]) = Cardinality(out.considered)
  /\ out.groups # {} =>
       /\ \E x \in out.groups :
            x.averages[1] * out.overall[2] <= out.overall[1] * x.averages[2]
       /\ \E x \in out.groups :
            x.averages[1] * out.overall[2] >= out.overall[1] * x.averages[2]

\* The games considered are the most recent ones.
LEMMA LastFacts ==
  ASSUME GamePagesAssumption, ChatToolsAssumption, NEW S \in SUBSET Games,
         NEW q \in SetToSeqs(S), \A i, j \in DOMAIN q : i < j => Date[q[i]] >= Date[q[j]],
         NEW n \in Nat
  PROVE  /\ ToSet(LastGames(q, n)) \subseteq S
         /\ \A g \in ToSet(LastGames(q, n)), h \in S \ ToSet(LastGames(q, n)) :
              Date[g] >= Date[h]
<1>1. q \in Seq(S) /\ ToSet(q) = S
  BY OrderFacts
<1>2. CASE n = 0
  BY <1>1, <1>2 DEF LastGames
<1>3. CASE n # 0
  <2> PICK o \in Nat : o = 0
    OBVIOUS
  <2> DEFINE last == Slice(q, o, n)
  <2>1. /\ DOMAIN last \subseteq Nat
        /\ \A k \in DOMAIN last : o + k \in DOMAIN q /\ k <= n /\ last[k] = q[o + k]
        /\ \A i \in DOMAIN q : o < i /\ i <= o + n => q[i] \in ToSet(last)
        /\ ToSet(last) \subseteq ToSet(q)
    <3>1. n \in Nat \ {0}
      BY <1>3
    <3>2. last \in Seq(S)
      BY <1>1, <3>1, SliceFacts
    <3>3. DOMAIN last \subseteq Nat
      <4> HIDE DEF last
      <4> QED
        BY <3>2, LenProperties
    <3>4. \A k \in DOMAIN last : o + k \in DOMAIN q /\ k <= n /\ last[k] = q[o + k]
      BY <1>1, <3>1, SliceFacts
    <3>5. \A i \in DOMAIN q : o < i /\ i <= o + n => q[i] \in ToSet(last)
      BY <1>1, <3>1, SliceFacts
    <3>6. ToSet(last) \subseteq ToSet(q)
      BY <1>1, <3>1, SliceFacts
    <3> HIDE DEF last
    <3> QED
      BY <3>3, <3>4, <3>5, <3>6
  <2>2. LastGames(q, n) = last
    BY <1>3 DEF LastGames
  <2> HIDE DEF last
  <2>3. DOMAIN q \subseteq Nat \ {0}
    BY <1>1, LenProperties
  <2>4. ASSUME NEW g \in ToSet(last), NEW h \in S \ ToSet(last)
        PROVE  Date[g] >= Date[h]
    <3>1. PICK k \in DOMAIN last : g = last[k]
      BY DEF ToSet
    <3>2. k \in Nat /\ k \in DOMAIN q /\ k <= n /\ g = q[k]
      BY <2>1, <2>3, <3>1
    <3>3. PICK j \in DOMAIN q : h = q[j]
      BY <1>1 DEF ToSet
    <3>4. j \in Nat /\ ~(j <= n)
      BY <2>1, <2>3, <3>3
    <3>5. k < j
      BY <3>2, <3>4
    <3> QED
      BY <3>2, <3>3, <3>5
  <2> QED
    BY <1>1, <2>1, <2>2, <2>4
<1> QED
  BY <1>2, <1>3

\* A split puts each of the games it considers into one group, and its average
\* over all of them is the mean of the groups', weighted by their games.
LEMMA SplitFacts ==
  ASSUME GamePagesAssumption, ChatToolsAssumption, NEW S \in SUBSET Games,
         NEW q \in SetToSeqs(S), \A i, j \in DOMAIN q : i < j => Date[q[i]] >= Date[q[j]],
         NEW c, c.last \in Nat
  PROVE  SplitAnswer(GetSplitAverages(q, c))
<1> DEFINE games == ToSet(LastGames(q, c.last))
           groups == GroupsOf(games, c.by)
           made == [x \in groups |-> x.averages[1]]
           count == [x \in groups |-> x.averages[2]]
           one == [g \in games |-> 1]
           out == GetSplitAverages(q, c)
<1>1. out = [seen |-> ToSet(q), considered |-> games, overall |-> AverageOf(games),
             groups |-> groups]
  BY DEF GetSplitAverages, GroupsOf, GroupOf, GroupBy
<1>2. /\ games \subseteq S /\ ToSet(q) = S
      /\ \A g \in games, h \in S \ games : Date[g] >= Date[h]
  BY LastFacts, OrderFacts
<1>3. IsFiniteSet(games) /\ \A g \in games : Points[g] \in Int
  BY <1>2, FS_Subset DEF GamePagesAssumption, ChatToolsAssumption
<1>4. AverageOf(games) = <<SumFunctionOnSet(Points, games), Cardinality(games)>>
  BY AverageFacts
<1>5. \A x \in groups : /\ x.games \in SUBSET games
                        /\ x.averages = AverageOf(x.games)
  <2> HIDE DEF games
  <2> TAKE x \in groups
  <2>1. PICK k : x = GroupOf(games, c.by, k)
    BY DEF GroupsOf
  <2>2. x.games = GroupBy(games, c.by, k) /\ x.averages = AverageOf(GroupBy(games, c.by, k))
    BY <2>1 DEF GroupOf
  <2>3. GroupBy(games, c.by, k) \subseteq games
    BY DEF GroupBy
  <2> QED
    BY <2>2, <2>3
<1> HIDE DEF games, out
<1>6. \A x \in groups : /\ made[x] = SumFunctionOnSet(Points, x.games)
                        /\ count[x] = Cardinality(x.games)
                        /\ made[x] \in Int /\ count[x] \in Int
  <2> TAKE x \in groups
  <2>1. x.averages = <<SumFunctionOnSet(Points, x.games), Cardinality(x.games)>>
    BY <1>5, AverageFacts
  <2>2. IsFiniteSet(x.games) /\ \A g \in x.games : Points[g] \in Int
    BY <1>3, <1>5, FS_Subset
  <2>3. SumFunctionOnSet(Points, x.games) \in Int /\ Cardinality(x.games) \in Int
    BY <2>2, SumInt, FS_CardinalityType
  <2> QED
    BY <2>1, <2>3
<1>7. \A x \in groups : count[x] = SumFunctionOnSet(one, x.games)
  <2> TAKE x \in groups
  <2>1. IsFiniteSet(x.games) /\ \A g \in x.games : one[g] = 1
    BY <1>3, <1>5, FS_Subset
  <2> HIDE DEF one
  <2>2. SumFunctionOnSet(one, x.games) = Cardinality(x.games)
    BY <2>1, SumCount
  <2> QED
    BY <1>6, <2>2
<1>8. \A g \in games : one[g] \in Int /\ one[g] = 1
  OBVIOUS
<1>9. DOMAIN count = groups
  OBVIOUS
<1>10. \A x \in groups : made[x] = x.averages[1] /\ count[x] = x.averages[2]
  OBVIOUS
<1> HIDE DEF one, made, count, groups
<1>11. /\ IsFiniteSet(groups) /\ UNION {x.games : x \in groups} = games
       /\ SumFunctionOnSet(made, groups) = SumFunctionOnSet(Points, games)
  <2>1. \A x \in GroupsOf(games, c.by) : made[x] = SumFunctionOnSet(Points, x.games)
    BY <1>6 DEF groups
  <2>2. /\ IsFiniteSet(GroupsOf(games, c.by))
        /\ UNION {x.games : x \in GroupsOf(games, c.by)} = games
        /\ SumFunctionOnSet(made, GroupsOf(games, c.by)) = SumFunctionOnSet(Points, games)
    BY <1>3, <2>1, GroupSums
  <2> QED
    BY <2>2 DEF groups
<1>12. SumFunctionOnSet(count, groups) = Cardinality(games)
  <2>1. SumFunctionOnSet(count, groups) = SumFunctionOnSet(one, games)
    BY <1>3, <1>7, <1>8, GroupSums DEF groups
  <2>2. SumFunctionOnSet(one, games) = Cardinality(games)
    BY <1>3, <1>8, SumCount
  <2> QED
    BY <2>1, <2>2
<1>13. SumFunction(count) = Cardinality(games)
  BY <1>9, <1>12 DEF SumFunction
<1>14. ASSUME groups # {}
       PROVE  /\ \E x \in groups : made[x] * out.overall[2] <= out.overall[1] * count[x]
              /\ \E x \in groups : made[x] * out.overall[2] >= out.overall[1] * count[x]
  <2> DEFINE m == out.overall[1]
             n == out.overall[2]
  <2>1. m = SumFunctionOnSet(made, groups) /\ n = SumFunctionOnSet(count, groups)
    BY <1>1, <1>4, <1>11, <1>12
  <2> HIDE DEF m, n
  <2>2. /\ \E x \in groups : made[x] * n <= m * count[x]
        /\ \E x \in groups : made[x] * n >= m * count[x]
    BY <1>6, <1>11, <1>14, <2>1, SumMediant
  <2> QED
    BY <2>2 DEF m, n
<1>15. /\ out.seen = S /\ out.considered = games /\ out.groups = groups
       /\ [x \in out.groups |-> x.averages[2]] = count
  BY <1>1, <1>2 DEF count
<1> QED
  BY <1>2, <1>10, <1>11, <1>13, <1>14, <1>15 DEF SplitAnswer, out

\* A season's record counts each of its games once.
LEMMA RecordFacts ==
  ASSUME GamePagesAssumption, ChatToolsAssumption, NEW S \in SUBSET Games,
         NEW q \in SetToSeqs(S)
  PROVE  SumFunction(GetSeasonSummary(q).record) = GetSeasonSummary(q).games_played
<1> DEFINE record == [v \in Venues |-> Cardinality({g \in S : Venue[g] = v})]
           one == [g \in S |-> 1]
<1>1. ToSet(q) = S /\ Len(q) = Cardinality(S) /\ IsFiniteSet(S)
  BY OrderFacts, FS_Subset DEF GamePagesAssumption
<1>2. /\ GetSeasonSummary(q).record = record
      /\ GetSeasonSummary(q).games_played = Cardinality(S)
  BY <1>1 DEF GetSeasonSummary
<1>3. \A v \in Venues : record[v] = SumFunctionOnSet(one, {g \in S : Venue[g] = v})
  <2> TAKE v \in Venues
  <2> DEFINE T == {g \in S : Venue[g] = v}
  <2>1. IsFiniteSet(T) /\ \A g \in T : one[g] = 1
    BY <1>1, FS_Subset
  <2> HIDE DEF one, T
  <2>2. SumFunctionOnSet(one, T) = Cardinality(T)
    BY <2>1, SumCount
  <2> QED
    BY <2>2 DEF T
<1>4. /\ \A g \in S : one[g] = 1 /\ one[g] \in Int
      /\ DOMAIN record = Venues
  OBVIOUS
<1>5. IsFiniteSet(Venues) /\ \A g \in S : Venue[g] \in Venues
  BY DEF ChatToolsAssumption
<1> HIDE DEF record, one
<1>6. SumFunctionOnSet(record, Venues) = SumFunctionOnSet(one, S)
  <2>1. IsFiniteSet(S) /\ \A g \in S : one[g] \in Int
    BY <1>1, <1>4
  <2> QED
    BY <1>3, <1>5, <2>1, SumGroups, SMTT(60)
<1>7. SumFunctionOnSet(one, S) = Cardinality(S)
  BY <1>1, <1>4, SumCount
<1> QED
  BY <1>2, <1>4, <1>6, <1>7 DEF SumFunction

\* The number of games a split is asked for is one.
LEMMA CallLast ==
  ASSUME ChatToolsAssumption, NEW c \in Calls, c.tool = "get_split_averages"
  PROVE  c.last \in Nat
BY DEF Calls, ChatToolsAssumption

\* Only an answer that read the games could break the property, and none does.
LEMMA SplitsStep ==
  ASSUME GamePagesAssumption, ChatToolsAssumption, Inv, SplitsPartition,
         [ToolsNext]_toolVars
  PROVE  SplitsPartition'
<1> USE DEF Inv, PagesInv
<1>1. CASE UNCHANGED chat
  BY <1>1 DEF SplitsPartition, Returned
<1>2. CASE chat'.pc # "result"
  BY <1>2 DEF SplitsPartition, Returned
<1>3. CASE ReadGames
  <2> USE DEF ToolsInv
  <2>1. Step("read") /\ chat.pc = "read" /\ chat.call \in Calls
    BY <1>3 DEF ReadGames, Step, CallOk, ChatTypeOK
  <2>2. PICK q \in Played :
          \/ /\ chat.call.tool = "get_season_summary"
             /\ Return(GetSeasonSummary(q), {})
          \/ /\ chat.call.tool = "find_games"
             /\ Return(FindGames(q, chat.call.search),
                       RowIds(FindGames(q, chat.call.search).games))
          \/ /\ chat.call.tool = "get_split_averages"
             /\ Return(GetSplitAverages(q, chat.call), {})
    BY <1>3 DEF ReadGames
  <2> DEFINE S == Own(chat.season)
  <2>3. S \in SUBSET Games /\ q \in SetToSeqs(S)
    BY <2>1, PlayedFacts
  <2>4. \A i, j \in DOMAIN q : i < j => Date[q[i]] >= Date[q[j]]
    BY DEF Played, Results
  <2> HIDE DEF S
  <2>5. CASE chat.call.tool = "get_season_summary" /\ Return(GetSeasonSummary(q), {})
    <3>1. chat'.out = GetSeasonSummary(q) /\ chat'.call = chat.call
      BY <2>1, <2>5, ReturnFacts
    <3> QED
      BY <2>3, <2>5, <3>1, RecordFacts DEF SplitsPartition, Returned
  <2>6. CASE /\ chat.call.tool = "find_games"
             /\ Return(FindGames(q, chat.call.search),
                       RowIds(FindGames(q, chat.call.search).games))
    <3>1. chat'.call = chat.call
      BY <2>1, <2>6, ReturnFacts
    <3> QED
      BY <2>6, <3>1 DEF SplitsPartition, Returned
  <2>7. CASE chat.call.tool = "get_split_averages" /\ Return(GetSplitAverages(q, chat.call), {})
    <3>1. chat'.out = GetSplitAverages(q, chat.call) /\ chat'.call = chat.call
      BY <2>1, <2>7, ReturnFacts
    <3>2. chat.call.last \in Nat
      BY <2>1, <2>7, CallLast
    <3>3. SplitAnswer(chat'.out)
      BY <2>3, <2>4, <3>1, <3>2, SplitFacts
    <3> QED
      BY <2>7, <3>1, <3>3 DEF SplitsPartition, Returned, SplitAnswer
  <2> QED
    BY <2>2, <2>5, <2>6, <2>7
<1>4. CASE CountSeasons \/ GetGameHighs
  <2>1. chat'.call = chat.call /\ chat.call.tool \in {"list_seasons", "get_game"}
    <3>1. /\ chat.pc = "highs" => chat.call.tool = "get_game"
          /\ chat.pc = "count" => chat.call.tool = "list_seasons"
      BY DEF ToolsInv, CallOk, OutOk
    <3>2. "call" \in DOMAIN chat
      BY DEF ToolsInv, CallOk, ChatFields
    <3> QED
      BY <1>4, <3>1, <3>2 DEF CountSeasons, GetGameHighs, Return, Step
  <2> QED
    BY <2>1 DEF SplitsPartition, Returned
<1>5. CASE (\E c \in Calls : Call(c)) \/ Follow
  <2>1. chat'.pc # "result"
    <3>1. PICK c : Start(c)
      BY <1>5 DEF Call, Follow
    <3>2. DOMAIN chat = ChatFields
      BY DEF ToolsInv, CallOk
    <3> QED
      BY <3>1, <3>2 DEF Start, ChatFields
  <2> QED
    BY <1>2, <2>1
<1>6. CASE Resolve \/ TeamSeasons \/ GetGameTool
  <2>1. chat'.pc # "result"
    <3>1. DOMAIN chat = ChatFields
      BY DEF ToolsInv, CallOk
    <3> QED
      BY <1>6, <3>1 DEF Resolve, TeamSeasons, GetGameTool, ChatFields
  <2> QED
    BY <1>2, <2>1
<1> QED
  BY <1>1, <1>3, <1>4, <1>5, <1>6 DEF ToolsNext, ChatNext, toolVars

-----------------------------------------------------------------------------
(* The theorems.                                                           *)

\* The invariant holds throughout, whatever is logged, closed, asked or called.
THEOREM Invariance == ToolsSpec => []Inv
<1>1. ToolsInit => Inv
  BY PagesInit, ToolsStart, GamePagesAssumption
  DEF ToolsInit, Inv, PagesInv
<1>2. Inv /\ [ToolsNext]_toolVars => Inv'
  BY InvStep, GamePagesAssumption, ChatToolsAssumption
<1> QED
  BY <1>1, <1>2, PTL DEF ToolsSpec

\* The variables of the pages and of the conversation keep their types.
THEOREM TypeCorrect == ToolsSpec => []ChatTypeOK
<1>1. Inv => ChatTypeOK
  BY DEF Inv, ToolsInv, CallOk
<1> QED
  BY <1>1, Invariance, PTL

\* list_my_games, last_game, get_game and the five tools: whatever ids, dates and
\* seasons are asked for, nothing of another player is ever shown or told.
THEOREM NothingOfOthers == ToolsSpec => []NobodyElses
<1>1. Inv => OwnGames
  BY PagesHonest, GamePagesAssumption DEF Inv
<1>2. ASSUME Inv PROVE ToolsScoped
  <2>1. ASSUME "seen" \in DOMAIN chat.out
        PROVE  /\ chat.pc = "result" /\ chat.call \in Calls
               /\ chat.call.tool \notin {"list_seasons", "get_game"}
    <3>1. chat.pc \in {"highs", "result"}
      BY <1>2, <2>1, NothingFacts DEF Inv, ToolsInv, OutOk
    <3>2. chat.call \in Calls
      BY <1>2, <3>1 DEF Inv, ToolsInv, CallOk, ChatTypeOK
    <3> QED
      BY <1>2, <2>1, <3>1, <3>2 DEF Inv, ToolsInv, OutOk
  <2>2. ASSUME "seen" \in DOMAIN chat.out
        PROVE  LET asked == chat.call.season
               IN chat.out.seen \subseteq Own(IF asked \in Seasons THEN asked ELSE All)
    <3>1. chat.pc = "result" /\ chat.call \in Calls /\ chat.out.seen \subseteq Own(chat.season)
      BY <1>2, <2>1, <2>2 DEF Inv, ToolsInv, ToldOk
    <3>2. Own(chat.season) \subseteq Own(All)
      BY DEF Own
    <3>3. CASE chat.call.season \in Seasons
      <4>1. NeedsSeason(chat.call)
        <5>1. /\ chat.call.tool \in {"list_seasons", "get_season_summary", "find_games",
                                     "get_game", "get_split_averages", "unknown"}
              /\ chat.call.tool \notin {"list_seasons", "get_game", "unknown"}
          BY <1>2, <2>1, <2>2, <3>1, CallFacts, GamePagesAssumption, ChatToolsAssumption
          DEF Inv, ToolsInv, CallOk
        <5> QED
          BY <3>3, <5>1, ChatToolsAssumption DEF NeedsSeason, ChatToolsAssumption
      <4>2. chat.season = chat.call.season
        BY <1>2, <3>1, <3>3, <4>1, GamePagesAssumption
        DEF Inv, ToolsInv, CallOk, GamePagesAssumption
      <4> QED
        BY <3>1, <3>3, <4>2
    <3>4. CASE chat.call.season \notin Seasons
      BY <3>1, <3>2, <3>4
    <3> QED
      BY <3>3, <3>4
  <2>3. ASSUME "game" \in DOMAIN chat.out PROVE chat.out.game \in Own(All)
    <3>1. chat.pc \in {"highs", "result"}
      BY <1>2, <2>3, NothingFacts DEF Inv, ToolsInv, OutOk
    <3>2. chat.call \in Calls
      BY <1>2, <3>1 DEF Inv, ToolsInv, CallOk, ChatTypeOK
    <3>3. chat.call.tool \in {"list_seasons", "get_season_summary", "find_games",
                              "get_game", "get_split_averages", "unknown"}
      BY <3>2, CallFacts, GamePagesAssumption, ChatToolsAssumption
    <3>4. chat.call.tool = "get_game"
      BY <1>2, <2>3, <3>1, <3>3 DEF Inv, ToolsInv, OutOk, CallOk
    <3> QED
      BY <1>2, <3>1, <3>4 DEF Inv, ToolsInv, ToldOk
  <2>4. ASSUME chat.pc = "result", NeedsSeason(chat.call) PROVE chat.call.season # Foreign
    BY <1>2, <2>4, ChatToolsAssumption DEF Inv, ToolsInv, CallOk, ChatToolsAssumption
  <2> QED
    BY <1>2, <2>2, <2>3, <2>4 DEF Inv, ToolsInv, ToldOk, ToolsScoped
<1>3. Inv => NobodyElses
  BY <1>1, <1>2 DEF NobodyElses
<1> QED
  BY <1>3, Invariance, PTL

\* list_my_games, last_game: of a list read page by page, while older and newer games
\* are logged, no game is skipped that was there from the start and is alone on its
\* day; when nothing was logged, it has as many games of each day as there are, newest
\* first; and it is of one season if none ends or begins between its pages.
THEOREM ListsAreHonest == ToolsSpec => []ListHonest
<1>1. Inv => ListHonest
  BY PagesHonest, GamePagesAssumption DEF Inv
<1> QED
  BY <1>1, Invariance, PTL

\* What one tool says of a game or a season the next one confirms: ids resolve,
\* counts agree with the games there are, and season highs hold.
THEOREM ToolsConfirm == ToolsSpec => []ToolsAgree
<1>1. ASSUME Inv PROVE IdsResolve
  <2> SUFFICES ASSUME "id" \in DOMAIN chat.call, chat.call.id \in chat.told
               PROVE  /\ chat.pc # "error"
                      /\ chat.out # Nothing => chat.out.game = chat.call.id
    BY DEF IdsResolve
  <2>1. chat.call \in Calls
    BY <1>1, NothingFacts DEF Inv, ToolsInv, CallOk
  <2>2. chat.call.tool = "get_game"
    BY <2>1, CallFacts, GamePagesAssumption, ChatToolsAssumption
  <2> QED
    BY <1>1, <2>2 DEF Inv, ToolsInv, OutOk, ToldOk
<1>2. Inv => ToolsAgree
  BY <1>1 DEF Inv, ToolsInv, ToolsAgree
<1> QED
  BY <1>2, Invariance, PTL

\* find_games: a search that was cut short says so, and leaves out nothing that
\* belongs before what it shows.
THEOREM SearchesAreHonest == ToolsSpec => []SearchHonest
<1>1. Inv => SearchHonest
  BY DEF Inv, ToolsInv
<1> QED
  BY <1>1, Invariance, PTL

\* get_split_averages, get_season_summary: the most recent games are each put into
\* one group, whose averages have the overall one between them, and a season's
\* record counts each of its games once.
THEOREM SplitsAddUp == ToolsSpec => []SplitsPartition
<1>1. ToolsInit => SplitsPartition
  BY DEF ToolsInit, ChatInit, SplitsPartition, Returned
<1>2. Inv /\ SplitsPartition /\ [ToolsNext]_toolVars => SplitsPartition'
  BY SplitsStep, GamePagesAssumption, ChatToolsAssumption
<1> QED
  BY <1>1, <1>2, Invariance, PTL DEF ToolsSpec
=============================================================================
