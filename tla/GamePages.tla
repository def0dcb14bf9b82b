----------------------------- MODULE GamePages -----------------------------
(***************************************************************************)
(* The games a player is shown (routes/games.py): a list read page by      *)
(* page, the last game, and one game by its id. Every page is a request of *)
(* its own, which sorts the player's lines anew, so lines logged and       *)
(* seasons closed between two pages show in what the client has put        *)
(* together at the end. A page without a season resolves the current one   *)
(* with one statement and reads its games with the next.                   *)
(*                                                                         *)
(* Lines are ordered by date only; the database returns those of one day   *)
(* in any order. Games of a client are ids of lines, as in the responses;  *)
(* a date goes with its id, whose lines may be logged in any order.        *)
(***************************************************************************)
EXTENDS Integers, FiniteSets, SequencesExt

CONSTANTS
  Players,
  Seasons,
  Games,      \* ids of stat lines: bounds how many are logged
  Date,       \* of each line, a number
  Limits,     \* page sizes a client asks for
  Current,    \* no seasonId in the request
  NoLine      \* the id is not in use

ASSUME GamePagesAssumption ==
  /\ IsFiniteSet(Games)
  /\ Date \in [Games -> Nat]
  /\ Limits \subseteq Nat \ {0}
  /\ Current \notin Seasons
  /\ NoLine \notin [player : Players, season : Seasons]

VARIABLES
  lines,   \* the stored lines
  open,    \* seasons without an end date: nothing makes it only one
  client   \* one client: what it asks for and what it was shown so far

vars == <<lines, open, client>>

Line == [player : Players, season : Seasons]

TypeOK ==
  /\ lines \in [Games -> Line \cup {NoLine}]
  /\ open \subseteq Seasons
  /\ client \in [pc : {"idle", "page", "read", "done", "404"},
                 what : {"list", "last", "game"}, player : Players,
                 asked : Seasons \cup {Current}, season : Seasons \cup {Current},
                 limit : Limits, offset : Nat, shown : Seq(Games),
                 total : Nat, began : SUBSET Games, steady : BOOLEAN]

Stored == {g \in Games : lines[g] # NoLine}
Of(p, s) == {g \in Stored : lines[g].player = p /\ lines[g].season = s}

Init ==
  /\ lines = [g \in Games |-> NoLine]
  /\ open \in {{s} : s \in Seasons}
  /\ \E p \in Players, l \in Limits :
       client = [pc |-> "idle", what |-> "list", player |-> p, asked |-> Current,
                 season |-> Current, limit |-> l, offset |-> 0, shown |-> <<>>,
                 total |-> 0, began |-> {}, steady |-> TRUE]

-----------------------------------------------------------------------------
(* Outside the repository: a loader, who may log an older game after a     *)
(* newer one, and whoever closes and opens seasons (the client's record     *)
(* keeps whether that happened since it began).                             *)

Log(g, l) ==
  /\ lines[g] = NoLine
  /\ lines' = [lines EXCEPT ![g] = l]
  /\ UNCHANGED <<open, client>>

Unsettle == client' = [client EXCEPT !.steady = @ /\ client.pc = "idle"]

Close(s) ==
  /\ s \in open
  /\ open' = open \ {s}
  /\ Unsettle
  /\ UNCHANGED lines

Open(s) ==
  /\ s \notin open
  /\ open' = open \cup {s}
  /\ Unsettle
  /\ UNCHANGED lines

-----------------------------------------------------------------------------
(* player_performances: newest first, any order within a day.              *)

Results(p, s) ==
  {q \in SetToSeqs(Of(p, s)) :
     \A i, j \in DOMAIN q : i < j => Date[q[i]] >= Date[q[j]]}

\* Mutant: an index off by one.
SliceSkips(q, offset, limit) ==
  SubSeq(q, offset + 2, IF offset + limit < Len(q) THEN offset + limit ELSE Len(q))

\* season_games[offset : offset + limit]
Slice(q, offset, limit) ==
  SubSeq(q, offset + 1, IF offset + limit < Len(q) THEN offset + limit ELSE Len(q))

\* The client starts to page through its games, or asks for the last one.
Ask(p, what, asked, limit) ==
  /\ client.pc = "idle"
  /\ client' = [client EXCEPT !.pc = "page", !.what = what, !.player = p,
                  !.asked = asked, !.limit = limit, !.began = Stored]
  /\ UNCHANGED <<lines, open>>

\* Mutant: no season is not an error.
ResolveSeasonUnchecked ==
  /\ client.pc = "page"
  /\ client' = [client EXCEPT !.pc = "read",
       !.season = IF client.asked # Current THEN client.asked
                  ELSE IF open = {} THEN "null" ELSE CHOOSE s \in open : TRUE]
  /\ UNCHANGED <<lines, open>>

\* _current_season_id, unless the request names a season. A client does not go
\* on from a 404.
ResolveSeason ==
  /\ client.pc = "page"
  /\ \/ /\ client.asked # Current
        /\ client' = [client EXCEPT !.pc = "read", !.season = client.asked]
     \/ /\ client.asked = Current
        /\ \E s \in open : client' = [client EXCEPT !.pc = "read", !.season = s]
     \/ /\ client.asked = Current
        /\ open = {}
        /\ client' = [client EXCEPT !.pc = "404"]
  /\ UNCHANGED <<lines, open>>

\* list_my_games; the client asks for the next page while there is one.
ReadPage ==
  /\ client.pc = "read"
  /\ client.what = "list"
  /\ \E q \in Results(client.player, client.season) :
       client' = [client EXCEPT
         !.pc = IF client.offset + client.limit < Len(q) THEN "page" ELSE "done",
         !.offset = @ + client.limit,
         !.shown = @ \o Slice(q, client.offset, client.limit),
         !.total = Len(q)]
  /\ UNCHANGED <<lines, open>>

\* last_game: the first of the list, or nothing.
ReadLast ==
  /\ client.pc = "read"
  /\ client.what = "last"
  /\ \E q \in Results(client.player, client.season) :
       client' = [client EXCEPT !.pc = "done", !.shown = Slice(q, 0, 1)]
  /\ UNCHANGED <<lines, open>>

\* get_game: 404 for an unknown id and for a line of somebody else.
GetGame(p, g) ==
  /\ client.pc = "idle"
  /\ client' = IF g \in Stored /\ lines[g].player = p
               THEN [client EXCEPT !.pc = "done", !.what = "game", !.player = p,
                       !.began = Stored, !.shown = <<g>>]
               ELSE [client EXCEPT !.pc = "404", !.what = "game", !.player = p]
  /\ UNCHANGED <<lines, open>>

Environment ==
  \/ \E g \in Games, l \in Line : Log(g, l)
  \/ \E s \in Seasons : Close(s) \/ Open(s)

ClientNext ==
  \/ \E p \in Players, what \in {"list", "last"}, s \in Seasons \cup {Current},
        limit \in Limits : Ask(p, what, s, limit)
  \/ \E p \in Players, g \in Games : GetGame(p, g)
  \/ ResolveSeason \/ ReadPage \/ ReadLast

Next == Environment \/ ClientNext

Spec == Init /\ [][Next]_vars

-----------------------------------------------------------------------------
(* Properties. What a client that names its season may rely on.            *)

Shown == ToSet(client.shown)
Named == client.pc \in {"page", "read", "done"} /\ client.asked # Current
Listed == Named /\ client.what = "list" /\ client.pc = "done"
Asked == Of(client.player, client.asked)

\* No line of the season was logged since the client began.
Quiet == Asked \subseteq client.began

\* The lines of the day of g, and whether g is the only one: the order within a
\* day may change from one page to the next, so that without any load the same
\* line of a day may end one page and begin the next, and another be on none.
SameDay(g) == {h \in Asked : Date[h] = Date[g]}
Alone(g) == SameDay(g) = {g}

\* A list without a season is of one season, and of the current one, unless a
\* season ended or began between two of its pages.
OneSeasonList ==
  /\ client.what = "list" /\ client.asked = Current
  /\ client.steady /\ Cardinality(open) = 1
  => \A g \in Shown : lines[g].season \in open

\* Whatever is logged or closed meanwhile, nobody is shown a line of another
\* player, or of another season than the one asked for.
OwnGames ==
  \A g \in Shown :
    /\ lines[g].player = client.player
    /\ Named => lines[g].season = client.asked

\* Lines logged between two pages, also of older games, push the others only
\* towards later pages: a line that was there at the start is shown, if the
\* player has no other line of its day.
NothingSkipped ==
  Listed => \A g \in Asked \cap client.began : Alone(g) => g \in Shown

\* Without a load in between the pages are as long as the total says, and have as
\* many lines of a day as there are: of a day with one, that line, once. Of a day
\* with several they may have one twice and another not at all.
PagesMakeList ==
  Listed /\ Quiet =>
    /\ Len(client.shown) = client.total
    /\ \A g \in Asked :
         Cardinality({i \in DOMAIN client.shown : Date[client.shown[i]] = Date[g]})
           = Cardinality(SameDay(g))

\* Without a load in between the dates never rise from one page to the next,
\* and the last game is one of the latest day.
NewestFirst ==
  Named /\ Quiet =>
    /\ \A i, j \in DOMAIN client.shown :
         i < j => Date[client.shown[i]] >= Date[client.shown[j]]
    /\ client.what = "last" /\ client.pc = "done" =>
         \A g \in Asked : \E h \in Shown : Date[h] >= Date[g]

\* A list is what its pages make it (list_my_games, last_game). Whatever is logged
\* between them, no line is skipped that is alone on its day; if nothing is, the
\* pages have of each day as many lines as there are, newest first. A list of the
\* current season is of one season if none ends or begins between its pages. Not
\* claimed: which lines of a day with several are shown, and of what season the
\* pages are when the current one changes.
ListHonest == OneSeasonList /\ NothingSkipped /\ PagesMakeList /\ NewestFirst
=============================================================================
