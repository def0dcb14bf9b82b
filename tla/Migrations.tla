----------------------------- MODULE Migrations -----------------------------
(***************************************************************************)
(* The schema's revisions (alembic/versions 0001 to 0005) and what they do *)
(* to the stored stat lines: in three steps the players' lines move from   *)
(* one wide games table, where every player's row repeats the facts of its *)
(* game, to game_performances rows that point at one games row.            *)
(*                                                                         *)
(* A database is its revision, its shape and its rows. Shape keeps what    *)
(* tells the revisions apart: the name of the field goal columns, what the *)
(* relation named "games" is, whether the copied game facts (on            *)
(* game_performances, and coach_notes.game_id) are required, nullable or   *)
(* gone, and the same of the links that replace them (game_id and          *)
(* coach_notes.performance_id). env.py runs all pending revisions in one   *)
(* transaction, and a loader of some release may write between two runs.   *)
(***************************************************************************)
EXTENDS Naturals

CONSTANTS
  Games,     \* (season, date, opponent)
  Lines,     \* stat lines: game, player, and which of the player's in the game
  Facts,     \* home_away, result and the two scores of a game
  None       \* NULL, or no row

VARIABLES
  rev,     \* alembic_version
  shape,   \* the columns and relations the revisions change
  game,    \* the rows of the games table, once there is one
  line,    \* the stat lines
  told     \* history: what each line was loaded with, and by which releases' code

vars == <<rev, shape, game, line, told>>

Head == 5
Revisions == 1 .. Head

Shape == [fg : {"fg", "fg2"},
          games : {"lines", "view", "table"},
          copies : {"required", "nullable", "gone"},
          links : {"absent", "nullable", "required"}]

\* One stat line: its copy of the facts, whether game_id is set, and which
\* columns of its coach note point at it, none if it has no note.
Line == [copy : Facts \cup {None}, linked : BOOLEAN,
         note : SUBSET {"game_id", "performance_id"}]

\* The history of a line: the facts and whether a note came with it, and how
\* the code that loaded it reads lines.
Loaded == [facts : Facts, note : BOOLEAN, by : {"copies", "links"}]

\* NULL is neither a value nor a row.
ASSUME MigrationsAssumption ==
  /\ None \notin Facts \cup Line \cup Loaded
  /\ \A l \in Lines : l[1] \in Games

TypeOK ==
  /\ rev \in Revisions
  /\ shape \in Shape
  /\ game \in [Games -> Facts \cup {None}]
  /\ line \in [Lines -> Line \cup {None}]
  /\ told \in [Lines -> Loaded \cup {None}]

InitialShape == [fg |-> "fg", games |-> "lines", copies |-> "required",
                 links |-> "absent"]

Init ==
  /\ rev = 1
  /\ shape = InitialShape
  /\ game = [g \in Games |-> None]
  /\ line = [l \in Lines |-> None]
  /\ told = [l \in Lines |-> None]

-----------------------------------------------------------------------------
(* The revisions, each as what it requires and what it makes of a database *)
(* d = [shape, game, line].                                                *)

Stored(d) == {l \in Lines : d.line[l] # None}
EachLine(d, F(_, _)) ==
  [l \in Lines |-> IF d.line[l] = None THEN None ELSE F(l, d.line[l])]

\* Mutant: a misspelt column.
RenameFgMisspelt(d) == [d EXCEPT !.shape.fg = "fg_2"]

RenameFg(d) == [d EXCEPT !.shape.fg = "fg2"]
RenameFgBack(d) == [d EXCEPT !.shape.fg = "fg"]

KeepView(d) == [d EXCEPT !.shape.games = "view"]
DropView(d) == [d EXCEPT !.shape.games = "lines"]

\* Mutant: the rows are trusted to agree.
NoFactsCheck(d) == TRUE

\* _check_game_facts_agree.
FactsAgree(d) ==
  \A l, m \in Stored(d) :
    l[1] = m[1] => d.line[l].copy = d.line[m].copy

SameKey(l, m) == l[1] = m[1] /\ l[2] = m[2]

\* Mutant: the constraint is not created.
OnePerPlayerUnchecked(d) == TRUE

\* uq_game_performances_game_player, once every line is linked.
OnePerPlayer(d) == \A l, m \in Stored(d) : SameKey(l, m) => l = m

\* Mutant: the destructive change comes with the release that needs it.
CreateGamesDropCopies(d) ==
  [shape |-> [d.shape EXCEPT !.games = "table", !.copies = "gone",
                             !.links = "required"],
   game  |-> [g \in Games |->
                IF \E l \in Stored(d) : l[1] = g
                THEN d.line[CHOOSE l \in Stored(d) : l[1] = g].copy
                ELSE None],
   line  |-> EachLine(d, LAMBDA l, x :
               [copy |-> None, linked |-> TRUE,
                note |-> IF x.note = {} THEN {} ELSE {"performance_id"}])]

\* One games row for every game of some line; every line and note linked.
CreateGames(d) ==
  [shape |-> [d.shape EXCEPT !.games = "table", !.copies = "nullable",
                             !.links = "nullable"],
   game  |-> [g \in Games |->
                IF \E l \in Stored(d) : l[1] = g
                THEN d.line[CHOOSE l \in Stored(d) : l[1] = g].copy
                ELSE None],
   line  |-> EachLine(d, LAMBDA l, x :
               [x EXCEPT !.linked = TRUE,
                         !.note = IF x.note = {} THEN {}
                                  ELSE {"game_id", "performance_id"}])]

\* The way back copies facts and notes from where only the new columns are.
DropGames(d) ==
  [shape |-> [d.shape EXCEPT !.games = "view", !.copies = "required",
                             !.links = "absent"],
   game  |-> [g \in Games |-> None],
   line  |-> EachLine(d, LAMBDA l, x :
               [copy   |-> IF x.linked THEN d.game[l[1]] ELSE x.copy,
                linked |-> FALSE,
                note   |-> IF x.note = {} THEN {} ELSE {"game_id"}])]

\* SET NOT NULL on both links.
AllLinked(d) ==
  \A l \in Stored(d) :
    d.line[l].linked /\ (d.line[l].note # {} => "performance_id" \in d.line[l].note)

DropCopies(d) ==
  [d EXCEPT !.shape.copies = "gone", !.shape.links = "required",
            !.line = EachLine(d, LAMBDA l, x :
                       [x EXCEPT !.copy = None, !.note = x.note \ {"game_id"}])]

\* Mutant: the columns come back empty.
AddCopiesEmpty(d) ==
  [d EXCEPT !.shape.copies = "nullable", !.shape.links = "nullable",
            !.line = EachLine(d, LAMBDA l, x :
                       [x EXCEPT !.note = IF x.note = {} THEN {} ELSE x.note \cup {"game_id"}])]

AddCopies(d) ==
  [d EXCEPT !.shape.copies = "nullable", !.shape.links = "nullable",
            !.line = EachLine(d, LAMBDA l, x :
                       [x EXCEPT !.copy = d.game[l[1]],
                                 !.note = IF x.note = {} THEN {} ELSE x.note \cup {"game_id"}])]

CanUpgrade(d, r) ==
  CASE r = 4 -> FactsAgree(d) /\ OnePerPlayer(d)
    [] r = 5 -> AllLinked(d)
    [] OTHER -> TRUE

Upgraded(d, r) ==
  CASE r = 2 -> RenameFg(d)
    [] r = 3 -> KeepView(d)
    [] r = 4 -> CreateGames(d)
    [] r = 5 -> DropCopies(d)

Downgraded(d, r) ==
  CASE r = 2 -> RenameFgBack(d)
    [] r = 3 -> DropView(d)
    [] r = 4 -> DropGames(d)
    [] r = 5 -> AddCopies(d)

\* The database a release's head makes of an empty one.
Empty == [shape |-> InitialShape, game |-> [g \in Games |-> None],
          line |-> [l \in Lines |-> None]]
Fresh[r \in Revisions] == IF r = 1 THEN Empty ELSE Upgraded(Fresh[r - 1], r)

-----------------------------------------------------------------------------
Database == [shape |-> shape, game |-> game, line |-> line]
Becomes(d) == shape' = d.shape /\ game' = d.game /\ line' = d.line

\* alembic upgrade to a release's head: all revisions in between or none.
Upgrade(to) ==
  LET Reached[r \in rev .. to] ==
        IF r = rev THEN Database ELSE Upgraded(Reached[r - 1], r)
  IN  /\ to > rev
      /\ \A r \in (rev + 1) .. to : CanUpgrade(Reached[r - 1], r)
      /\ rev' = to
      /\ Becomes(Reached[to])
      /\ UNCHANGED told

\* alembic downgrade, by hand, one revision at a time.
Downgrade ==
  /\ rev > 1
  /\ rev' = rev - 1
  /\ Becomes(Downgraded(Database, rev))
  /\ UNCHANGED told

\* What the code of release r needs of the schema, r being the commit that
\* added revision r. The models of the repository are those of releases 4 and
\* 5; the earlier ones are known from what the revisions do for them.
Works(r, s) ==
  /\ r = 1 => s.fg = "fg"
  /\ r >= 2 => s.fg = "fg2"
  /\ r <= 2 => s.games \in {"lines", "view"}
  /\ r = 3 => s.games # "lines"
  /\ r <= 3 => s.copies # "gone"
  /\ r >= 4 => s.links # "absent" /\ s.copies # "required"

\* What the code of a release joins a line to its game by.
Reads(r) == IF r <= 3 THEN "copies" ELSE "links"
Shown(how, l) == IF how = "copies" THEN line[l].copy # None ELSE line[l].linked

\* The loader of release r stores a new line, and the coach's note on it. Up
\* to release 3 it repeats the game's facts on the line, and may store a player's
\* line twice; since, the line points at the game, which is created first and
\* whose facts must agree, and no other line of the player may point at it.
Load(r, l, f, noted) ==
  /\ Works(r, shape)
  /\ line[l] = None
  /\ IF r <= 3
     THEN /\ line' = [line EXCEPT ![l] =
                        [copy |-> f, linked |-> FALSE,
                         note |-> IF noted THEN {"game_id"} ELSE {}]]
          /\ UNCHANGED game
     ELSE /\ game[l[1]] \in {None, f}
          /\ ~\E m \in Lines : SameKey(l, m) /\ line[m] # None /\ line[m].linked
          /\ game' = [game EXCEPT ![l[1]] = f]
          /\ line' = [line EXCEPT ![l] =
                        [copy |-> None, linked |-> TRUE,
                         note |-> IF noted THEN {"performance_id"} ELSE {}]]
  /\ told' = [told EXCEPT ![l] = [facts |-> f, note |-> noted, by |-> Reads(r)]]
  /\ UNCHANGED <<rev, shape>>

Next ==
  \/ \E to \in Revisions : Upgrade(to)
  \/ Downgrade
  \/ \E r \in Revisions, l \in Lines, f \in Facts, noted \in BOOLEAN :
       Load(r, l, f, noted)

Spec == Init /\ [][Next]_vars

-----------------------------------------------------------------------------
(* Properties.                                                             *)

LinksUnique(d) ==
  \A l, m \in Stored(d) : SameKey(l, m) /\ d.line[l].linked /\ d.line[m].linked => l = m

\* Up and down in any order, with lines loaded by any release that the schema
\* of the moment lets work: every line can still be told the facts, and every
\* note the line, it was loaded with.
FactsOf(l) == IF line[l].linked THEN game[l[1]] ELSE line[l].copy
NoFactsLost ==
  \A l \in Lines :
    /\ line[l] = None <=> told[l] = None
    /\ line[l] # None => /\ FactsOf(l) = told[l].facts
                         /\ (line[l].note # {}) = told[l].note

\* Rows keep the constraints the schema states, whoever wrote them: a required
\* column is set, a dropped one holds nothing, and a game has one line of a player
\* that points at it.
ColumnsHold ==
  /\ LinksUnique(Database)
  /\ \A l \in Lines : line[l] # None =>
       /\ shape.copies = "required" => line[l].copy # None
       /\ shape.copies = "gone" => line[l].copy = None /\ "game_id" \notin line[l].note
       /\ shape.links = "required" => line[l].linked
       /\ shape.links = "absent" => ~line[l].linked

\* Neither a fact nor a constraint is lost on any way up and down.
NothingLost == NoFactsLost /\ ColumnsHold

\* A release shows every line that was loaded by it, or by one that reads lines
\* the same way, whenever it works, through all revisions since: only a line
\* loaded on the other side of revision 4 may be missing from its lists, for an
\* older release the lines of a newer one, and the other way round.
OwnLinesShown ==
  \A l \in Lines : line[l] # None =>
    \A r \in Revisions : Reads(r) = told[l].by /\ Works(r, shape) => Shown(Reads(r), l)

\* A downgrade restores the shape its revision had on the way up, so that a
\* release finds the schema it was written for whatever the history.
DowngradeRestores == shape = Fresh[rev].shape

\* README.md: "Every migration must therefore leave the previous release
\* working". From revision 3 on it does; revision 2 renames columns in place.
OneBehindWorks == rev >= 3 => Works(rev - 1, shape)

\* The schema is at every moment one that the releases around it were written for.
ShapesFit == DowngradeRestores /\ OneBehindWorks
=============================================================================
