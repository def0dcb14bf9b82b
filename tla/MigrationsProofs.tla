-------------------------- MODULE MigrationsProofs --------------------------
(***************************************************************************)
(* Proofs about Migrations, for every set of games, lines and facts. The *)
(* revisions are operators on a database d, so the invariant is one too:   *)
(* each revision takes a sound database of one revision to a sound one of  *)
(* the next, and an upgrade is at most four such steps.                    *)
(***************************************************************************)
EXTENDS Migrations, TLAPS

-----------------------------------------------------------------------------
(* The inductive invariant.                                                *)

\* s is the shape of revision r, worked out.
ShapeIs(s, r) ==
  /\ s \in Shape
  /\ s.fg = IF r = 1 THEN "fg" ELSE "fg2"
  /\ s.games = IF r <= 2 THEN "lines" ELSE IF r = 3 THEN "view" ELSE "table"
  /\ s.copies = IF r <= 3 THEN "required" ELSE IF r = 4 THEN "nullable" ELSE "gone"
  /\ s.links = IF r <= 3 THEN "absent" ELSE IF r = 4 THEN "nullable" ELSE "required"

Databases == [shape : Shape, game : [Games -> Facts \cup {None}],
              line : [Lines -> Line \cup {None}]]

\* Line x of a database at revision r, whose game's row is g, keeps what it was
\* loaded with, t: where the copy is, it is right; where the link is, the row it
\* leads to is right, and the note is linked too; and one of them is there, in
\* revision 4 the one that the code that loaded it reads.
LineSound(x, g, t, r) ==
  /\ x.copy \in {None, t.facts}
  /\ x.linked => g = t.facts
  /\ x.copy # None \/ x.linked
  /\ x.note # {} <=> t.note
  /\ x.linked /\ x.note # {} => "performance_id" \in x.note
  /\ r <= 3 => x.copy # None /\ ~x.linked
  /\ r = 4 => (t.by = "copies" => x.copy # None) /\ (t.by = "links" => x.linked)
  /\ r = 5 => x.copy = None /\ x.linked /\ "game_id" \notin x.note

LinesSound(d, r) ==
  \A l \in Lines :
    /\ d.line[l] = None <=> told[l] = None
    /\ d.line[l] # None => LineSound(d.line[l], d.game[l[1]], told[l], r)

Told == told \in [Lines -> Loaded \cup {None}]

\* The unique constraint on the links is kept, too.
Sound(d, r) ==
  d \in Databases /\ ShapeIs(d.shape, r) /\ LinesSound(d, r) /\ LinksUnique(d)

Inv == TypeOK /\ Sound(Database, rev)

-----------------------------------------------------------------------------
(* Types: no row is NULL.                                                  *)

\* A stored line and what it was loaded with are not NULL, and have their fields.
LEMMA Rows ==
  /\ \A x \in Line : x # None /\ x.copy \in Facts \cup {None} /\ x.linked \in BOOLEAN
                       /\ x.note \in SUBSET {"game_id", "performance_id"}
                       /\ x = [copy |-> x.copy, linked |-> x.linked, note |-> x.note]
  /\ \A t \in Loaded : t # None /\ t.facts \in Facts /\ t.facts # None /\ t.note \in BOOLEAN
                       /\ t.by \in {"copies", "links"}
  /\ \A l \in Lines : l[1] \in Games
BY MigrationsAssumption DEF Line, Loaded

\* A revision has one shape.
LEMMA ShapeUnique ==
  ASSUME NEW s, NEW t, NEW r, ShapeIs(s, r), ShapeIs(t, r)
  PROVE  s = t
<1>1. \A u \in Shape : u = [fg |-> u.fg, games |-> u.games, copies |-> u.copies,
                            links |-> u.links]
  BY DEF Shape
<1> QED
  BY <1>1 DEF ShapeIs

-----------------------------------------------------------------------------
(* What each revision makes of the three parts of a database.              *)

SameRows(e, d) == e \in Databases /\ e.game = d.game /\ e.line = d.line

Typed(e) == e.game \in [Games -> Facts \cup {None}] /\ e.line \in [Lines -> Line \cup {None}]

\* A database with another shape has the same rows.
LEMMA NewShape ==
  ASSUME NEW d \in Databases, NEW s \in Shape
  PROVE  /\ [d EXCEPT !.shape = s] \in Databases
         /\ [d EXCEPT !.shape = s].shape = s
         /\ [d EXCEPT !.shape = s].game = d.game
         /\ [d EXCEPT !.shape = s].line = d.line
BY DEF Databases

\* The first two revisions change nothing but the shape.
LEMMA ShapeOnly ==
  ASSUME NEW d \in Databases
  PROVE  /\ SameRows(RenameFg(d), d) /\ SameRows(RenameFgBack(d), d)
         /\ SameRows(KeepView(d), d) /\ SameRows(DropView(d), d)
         /\ ShapeIs(d.shape, 1) => ShapeIs(RenameFg(d).shape, 2)
         /\ ShapeIs(d.shape, 2) => ShapeIs(RenameFgBack(d).shape, 1)
         /\ ShapeIs(d.shape, 2) => ShapeIs(KeepView(d).shape, 3)
         /\ ShapeIs(d.shape, 3) => ShapeIs(DropView(d).shape, 2)
<1> DEFINE s1 == [d.shape EXCEPT !.fg = "fg2"]
           s2 == [d.shape EXCEPT !.fg = "fg"]
           s3 == [d.shape EXCEPT !.games = "view"]
           s4 == [d.shape EXCEPT !.games = "lines"]
<1>1. d.shape \in Shape
  BY DEF Databases
<1>2. /\ s1 \in Shape /\ s1.fg = "fg2" /\ s1.games = d.shape.games
      /\ s1.copies = d.shape.copies /\ s1.links = d.shape.links
  BY <1>1 DEF Shape
<1>3. /\ s2 \in Shape /\ s2.fg = "fg" /\ s2.games = d.shape.games
      /\ s2.copies = d.shape.copies /\ s2.links = d.shape.links
  BY <1>1 DEF Shape
<1>4. /\ s3 \in Shape /\ s3.games = "view" /\ s3.fg = d.shape.fg
      /\ s3.copies = d.shape.copies /\ s3.links = d.shape.links
  BY <1>1 DEF Shape
<1>5. /\ s4 \in Shape /\ s4.games = "lines" /\ s4.fg = d.shape.fg
      /\ s4.copies = d.shape.copies /\ s4.links = d.shape.links
  BY <1>1 DEF Shape
<1>6. /\ RenameFg(d) = [d EXCEPT !.shape = s1] /\ RenameFgBack(d) = [d EXCEPT !.shape = s2]
      /\ KeepView(d) = [d EXCEPT !.shape = s3] /\ DropView(d) = [d EXCEPT !.shape = s4]
  BY DEF RenameFg, RenameFgBack, KeepView, DropView
<1> HIDE DEF s1, s2, s3, s4
<1>7. /\ SameRows(RenameFg(d), d) /\ SameRows(RenameFgBack(d), d)
      /\ SameRows(KeepView(d), d) /\ SameRows(DropView(d), d)
  BY <1>2, <1>3, <1>4, <1>5, <1>6, NewShape DEF SameRows
<1>8. /\ RenameFg(d).shape = s1 /\ RenameFgBack(d).shape = s2
      /\ KeepView(d).shape = s3 /\ DropView(d).shape = s4
  BY <1>2, <1>3, <1>4, <1>5, <1>6, NewShape
<1>9. ShapeIs(d.shape, 1) => ShapeIs(s1, 2)
  BY <1>2 DEF ShapeIs
<1>10. ShapeIs(d.shape, 2) => ShapeIs(s2, 1)
  BY <1>3 DEF ShapeIs
<1>11. ShapeIs(d.shape, 2) => ShapeIs(s3, 3)
  BY <1>4 DEF ShapeIs
<1>12. ShapeIs(d.shape, 3) => ShapeIs(s4, 2)
  BY <1>5 DEF ShapeIs
<1> QED
  BY <1>7, <1>8, <1>9, <1>10, <1>11, <1>12

\* The facts of game g after CreateGames.
FirstCopy(d, g) ==
  IF \E l \in Stored(d) : l[1] = g THEN d.line[CHOOSE l \in Stored(d) : l[1] = g].copy ELSE None

\* 0004, upgrade: a game's row is taken from the first of its lines.
LEMMA CreateGamesParts ==
  ASSUME NEW d \in Databases
  PROVE  /\ ShapeIs(d.shape, 3) => ShapeIs(CreateGames(d).shape, 4)
         /\ CreateGames(d).game = [g \in Games |-> FirstCopy(d, g)]
         /\ CreateGames(d).line = [l \in Lines |-> IF d.line[l] = None THEN None ELSE
              [d.line[l] EXCEPT !.linked = TRUE,
                 !.note = IF d.line[l].note = {} THEN {} ELSE {"game_id", "performance_id"}]]
         /\ Typed(CreateGames(d)) => CreateGames(d) \in Databases
<1> DEFINE s == [d.shape EXCEPT !.games = "table", !.copies = "nullable", !.links = "nullable"]
<1>1. /\ s \in Shape /\ s.fg = d.shape.fg /\ s.games = "table"
      /\ s.copies = "nullable" /\ s.links = "nullable"
  BY DEF Databases, Shape
<1>2. CreateGames(d).shape = s
  BY DEF CreateGames
<1>3. ShapeIs(d.shape, 3) => ShapeIs(s, 4)
  <2> HIDE DEF s
  <2> QED
    BY <1>1 DEF ShapeIs
<1>4. CreateGames(d).game = [g \in Games |-> FirstCopy(d, g)]
  BY DEF CreateGames, FirstCopy
<1>5. CreateGames(d).line = [l \in Lines |-> IF d.line[l] = None THEN None ELSE
              [d.line[l] EXCEPT !.linked = TRUE,
                 !.note = IF d.line[l].note = {} THEN {} ELSE {"game_id", "performance_id"}]]
  BY DEF CreateGames, EachLine
<1>6. Typed(CreateGames(d)) => CreateGames(d) \in Databases
  BY <1>1, <1>2 DEF Typed, Databases, CreateGames
<1> QED
 BY <1>2, <1>3, <1>4, <1>5, <1>6

\* 0004, downgrade: a linked line gets its copy from its game's row.
LEMMA DropGamesParts ==
  ASSUME NEW d \in Databases
  PROVE  /\ ShapeIs(d.shape, 4) => ShapeIs(DropGames(d).shape, 3)
         /\ DropGames(d).game = [g \in Games |-> None]
         /\ DropGames(d).line = [l \in Lines |-> IF d.line[l] = None THEN None ELSE
              [copy   |-> IF d.line[l].linked THEN d.game[l[1]] ELSE d.line[l].copy,
               linked |-> FALSE,
               note   |-> IF d.line[l].note = {} THEN {} ELSE {"game_id"}]]
         /\ Typed(DropGames(d)) => DropGames(d) \in Databases
<1> DEFINE s == [d.shape EXCEPT !.games = "view", !.copies = "required", !.links = "absent"]
<1>1. /\ s \in Shape /\ s.fg = d.shape.fg /\ s.games = "view"
      /\ s.copies = "required" /\ s.links = "absent"
  BY DEF Databases, Shape
<1>2. DropGames(d).shape = s /\ DropGames(d).game = [g \in Games |-> None]
  BY DEF DropGames
<1>3. ShapeIs(d.shape, 4) => ShapeIs(s, 3)
  <2> HIDE DEF s
  <2> QED
    BY <1>1 DEF ShapeIs
<1>4. DropGames(d).line = [l \in Lines |-> IF d.line[l] = None THEN None ELSE
              [copy   |-> IF d.line[l].linked THEN d.game[l[1]] ELSE d.line[l].copy,
               linked |-> FALSE,
               note   |-> IF d.line[l].note = {} THEN {} ELSE {"game_id"}]]
  BY DEF DropGames, EachLine
<1>5. Typed(DropGames(d)) => DropGames(d) \in Databases
  BY <1>1, <1>2 DEF Typed, Databases, DropGames
<1> QED
 BY <1>2, <1>3, <1>4, <1>5

\* 0005, upgrade.
LEMMA DropCopiesParts ==
  ASSUME NEW d \in Databases
  PROVE  /\ ShapeIs(d.shape, 4) => ShapeIs(DropCopies(d).shape, 5)
         /\ DropCopies(d).game = d.game
         /\ DropCopies(d).line = [l \in Lines |-> IF d.line[l] = None THEN None ELSE
              [d.line[l] EXCEPT !.copy = None, !.note = d.line[l].note \ {"game_id"}]]
         /\ Typed(DropCopies(d)) => DropCopies(d) \in Databases
<1> DEFINE s == [d.shape EXCEPT !.copies = "gone", !.links = "required"]
           e == EachLine(d, LAMBDA l, x :
                  [x EXCEPT !.copy = None, !.note = x.note \ {"game_id"}])
<1>1. /\ s \in Shape /\ s.fg = d.shape.fg /\ s.games = d.shape.games
      /\ s.copies = "gone" /\ s.links = "required"
  BY DEF Databases, Shape
<1>2. e = [l \in Lines |-> IF d.line[l] = None THEN None ELSE
              [d.line[l] EXCEPT !.copy = None, !.note = d.line[l].note \ {"game_id"}]]
  BY DEF EachLine
<1>3. DropCopies(d) = [d EXCEPT !.shape.copies = "gone", !.shape.links = "required", !.line = e]
  BY DEF DropCopies
<1> HIDE DEF e
<1>4. DropCopies(d).game = d.game /\ DropCopies(d).line = e /\ DropCopies(d).shape = s
  BY <1>3 DEF Databases
<1>5. ShapeIs(d.shape, 4) => ShapeIs(s, 5)
  <2> HIDE DEF s
  <2> QED
    BY <1>1 DEF ShapeIs
<1>6. Typed(DropCopies(d)) => DropCopies(d) \in Databases
  BY <1>1, <1>3, <1>4 DEF Typed, Databases, DropCopies
<1> QED
 BY <1>2, <1>4, <1>5, <1>6

\* 0005, downgrade: the copy is that of the game's row.
LEMMA AddCopiesParts ==
  ASSUME NEW d \in Databases
  PROVE  /\ ShapeIs(d.shape, 5) => ShapeIs(AddCopies(d).shape, 4)
         /\ AddCopies(d).game = d.game
         /\ AddCopies(d).line = [l \in Lines |-> IF d.line[l] = None THEN None ELSE
              [d.line[l] EXCEPT !.copy = d.game[l[1]],
                 !.note = IF d.line[l].note = {} THEN {} ELSE d.line[l].note \cup {"game_id"}]]
         /\ Typed(AddCopies(d)) => AddCopies(d) \in Databases
<1> DEFINE s == [d.shape EXCEPT !.copies = "nullable", !.links = "nullable"]
           e == EachLine(d, LAMBDA l, x :
                  [x EXCEPT !.copy = d.game[l[1]],
                            !.note = IF x.note = {} THEN {} ELSE x.note \cup {"game_id"}])
<1>1. /\ s \in Shape /\ s.fg = d.shape.fg /\ s.games = d.shape.games
      /\ s.copies = "nullable" /\ s.links = "nullable"
  BY DEF Databases, Shape
<1>2. e = [l \in Lines |-> IF d.line[l] = None THEN None ELSE
              [d.line[l] EXCEPT !.copy = d.game[l[1]],
                 !.note = IF d.line[l].note = {} THEN {} ELSE d.line[l].note \cup {"game_id"}]]
  BY DEF EachLine
<1>3. AddCopies(d) = [d EXCEPT !.shape.copies = "nullable", !.shape.links = "nullable",
                               !.line = e]
  BY DEF AddCopies
<1> HIDE DEF e
<1>4. AddCopies(d).game = d.game /\ AddCopies(d).line = e /\ AddCopies(d).shape = s
  BY <1>3 DEF Databases
<1>5. ShapeIs(d.shape, 5) => ShapeIs(s, 4)
  <2> HIDE DEF s
  <2> QED
    BY <1>1 DEF ShapeIs
<1>6. Typed(AddCopies(d)) => AddCopies(d) \in Databases
  BY <1>1, <1>3, <1>4 DEF Typed, Databases, AddCopies
<1> QED
 BY <1>2, <1>4, <1>5, <1>6

-----------------------------------------------------------------------------
(* Every revision keeps a database sound, both ways.                       *)

\* A revision that treats every line by itself.
LEMMA LineByLine ==
  ASSUME NEW d, NEW e, NEW q, NEW r, LinesSound(d, q),
         \A l \in Lines : e.line[l] = None <=> d.line[l] = None,
         \A l \in Lines : d.line[l] # None /\ LineSound(d.line[l], d.game[l[1]], told[l], q)
           => LineSound(e.line[l], e.game[l[1]], told[l], r)
  PROVE  LinesSound(e, r)
BY DEF LinesSound

\* A revision that links no other line keeps the links unique.
LEMMA LinksKept ==
  ASSUME NEW d, NEW e, LinksUnique(d),
         \A l \in Lines : e.line[l] # None => d.line[l] # None,
         \A l \in Lines : e.line[l] # None /\ e.line[l].linked => d.line[l].linked
  PROVE  LinksUnique(e)
BY DEF LinksUnique, Stored

\* The rows of a database have their types.
LEMMA RowTypes ==
  ASSUME NEW d \in Databases, NEW l \in Lines, d.line[l] # None
  PROVE  d.line[l] \in Line /\ d.game[l[1]] \in Facts \cup {None}
BY Rows DEF Databases

Notes == SUBSET {"game_id", "performance_id"}

\* What each revision does to one line: x becomes y, its game's row g becomes h.
LEMMA LineCreateGames ==
  ASSUME NEW x \in Line, NEW y \in Line, NEW g, NEW h, NEW t \in Loaded, LineSound(x, g, t, 3),
         y.copy = x.copy, y.linked = TRUE, h = t.facts,
         y.note = IF x.note = {} THEN {} ELSE {"game_id", "performance_id"}
  PROVE  LineSound(y, h, t, 4)
BY Rows DEF LineSound

\* 0004, downgrade, on one line.
LEMMA LineDropGames ==
  ASSUME NEW x \in Line, NEW y \in Line, NEW g, NEW h, NEW t \in Loaded, LineSound(x, g, t, 4),
         y.copy = IF x.linked THEN g ELSE x.copy, y.linked = FALSE,
         y.note = IF x.note = {} THEN {} ELSE {"game_id"}
  PROVE  LineSound(y, h, t, 3)
<1>1. y.copy = t.facts /\ t.facts # None
  BY Rows DEF LineSound
<1> QED
  BY <1>1 DEF LineSound

\* 0005, upgrade, on one line: AllLinked makes sure that nothing else holds it.
LEMMA LineDropCopies ==
  ASSUME NEW x \in Line, NEW y \in Line, NEW g, NEW t \in Loaded, LineSound(x, g, t, 4),
         x.linked, x.note # {} => "performance_id" \in x.note,
         y.copy = None, y.linked = x.linked, y.note = x.note \ {"game_id"}
  PROVE  LineSound(y, g, t, 5)
<1>1. y.note # {} <=> x.note # {}
  OBVIOUS
<1> QED
  BY <1>1 DEF LineSound

\* 0005, downgrade, on one line.
LEMMA LineAddCopies ==
  ASSUME NEW x \in Line, NEW y \in Line, NEW g, NEW t \in Loaded, LineSound(x, g, t, 5),
         y.copy = g, y.linked = x.linked,
         y.note = IF x.note = {} THEN {} ELSE x.note \cup {"game_id"}
  PROVE  LineSound(y, g, t, 4)
<1>1. y.note # {} <=> x.note # {}
  OBVIOUS
<1>2. t.facts # None /\ y.copy = t.facts
  BY Rows DEF LineSound
<1> QED
  BY <1>1, <1>2 DEF LineSound

\* 0004, upgrade: FactsAgree makes the first copy everybody's.
LEMMA CreateGamesSound ==
  ASSUME Told, NEW d, Sound(d, 3), FactsAgree(d), OnePerPlayer(d)
  PROVE  Sound(CreateGames(d), 4)
<1> DEFINE e == CreateGames(d)
<1>1. d \in Databases /\ LinesSound(d, 3)
  BY DEF Sound
<1>2. /\ ShapeIs(e.shape, 4)
      /\ e.game = [g \in Games |-> FirstCopy(d, g)]
      /\ e.line = [l \in Lines |-> IF d.line[l] = None THEN None ELSE
           [d.line[l] EXCEPT !.linked = TRUE,
              !.note = IF d.line[l].note = {} THEN {} ELSE {"game_id", "performance_id"}]]
      /\ Typed(e) => e \in Databases
  BY <1>1, CreateGamesParts DEF Sound
<1> HIDE DEF e
<1>3. \A l \in Stored(d) : /\ l \in Lines /\ d.line[l] # None /\ d.line[l] \in Line
                           /\ LineSound(d.line[l], d.game[l[1]], told[l], 3)
  BY <1>1, RowTypes DEF Stored, LinesSound
<1>4. \A g \in Games : FirstCopy(d, g) \in Facts \cup {None}
  BY <1>3, Rows DEF FirstCopy
<1>5. ASSUME NEW l \in Lines, d.line[l] # None
      PROVE  /\ e.line[l] \in Line /\ e.line[l].copy = d.line[l].copy
             /\ e.line[l].linked = TRUE
             /\ e.line[l].note = IF d.line[l].note = {} THEN {} ELSE {"game_id", "performance_id"}
  <2> DEFINE n == IF d.line[l].note = {} THEN {} ELSE {"game_id", "performance_id"}
  <2>1. d.line[l] \in Line /\ n \in Notes
    BY <1>1, <1>5, RowTypes DEF Notes
  <2> DEFINE x == d.line[l]
             y == e.line[l]
  <2>2. x \in Line /\ y = [x EXCEPT !.linked = TRUE, !.note = n]
    BY <1>2, <1>5, <2>1
  <2>3. y \in Line /\ y.copy = x.copy /\ y.linked = TRUE /\ y.note = n
    <3> HIDE DEF x, y, n
    <3> QED
      BY <2>1, <2>2 DEF Line, Notes
  <2> QED
    BY <2>3 DEF n
<1>6. Typed(e)
  <2>1. e.game \in [Games -> Facts \cup {None}]
    BY <1>2, <1>4
  <2>2. e.line \in [Lines -> Line \cup {None}]
    <3>1. e.line = [l \in Lines |-> e.line[l]]
      BY ONLY <1>2
    <3>2. \A l \in Lines : d.line[l] = None => e.line[l] = None
      BY <1>2
    <3>3. \A l \in Lines : e.line[l] \in Line \cup {None}
      BY ONLY <1>5, <3>2
    <3> QED
      BY ONLY <3>1, <3>3
  <2> QED
    BY <2>1, <2>2 DEF Typed
<1>7. ASSUME NEW l \in Lines, d.line[l] # None
      PROVE  LineSound(e.line[l], e.game[l[1]], told[l], 4)
  <2>1. told[l] \in Loaded /\ LineSound(d.line[l], d.game[l[1]], told[l], 3)
    BY <1>1, <1>7 DEF LinesSound, Told
  <2>2. d.line[l].copy = told[l].facts /\ l[1] \in Games
    BY <2>1, Rows DEF LineSound
  <2>3. e.game[l[1]] = told[l].facts
    <3>1. l \in Stored(d)
      BY <1>7 DEF Stored
    <3> DEFINE m == CHOOSE m \in Stored(d) : m[1] = l[1]
    <3>2. m \in Stored(d) /\ m[1] = l[1]
      BY <3>1
    <3>3. FirstCopy(d, l[1]) = d.line[m].copy
      BY <3>1 DEF FirstCopy
    <3> HIDE DEF m
    <3>4. d.line[m].copy = d.line[l].copy
      BY <3>1, <3>2 DEF FactsAgree
    <3> QED
      BY <1>2, <2>2, <3>3, <3>4
  <2>4. d.line[l] \in Line
    BY <1>1, <1>7, RowTypes
  <2> QED
    BY <1>5, <1>7, <2>1, <2>3, <2>4, LineCreateGames
<1>8. \A l \in Lines : e.line[l] = None <=> d.line[l] = None
  BY <1>2, <1>5, Rows
<1>9. LinesSound(e, 4)
  BY <1>1, <1>7, <1>8, LineByLine
<1>10. LinksUnique(e)
  BY <1>8 DEF LinksUnique, OnePerPlayer, Stored
<1> QED
  BY <1>2, <1>6, <1>9, <1>10 DEF Sound, e

\* 0004, downgrade.
LEMMA DropGamesSound ==
  ASSUME Told, NEW d, Sound(d, 4)
  PROVE  Sound(DropGames(d), 3)
<1> DEFINE e == DropGames(d)
<1>1. d \in Databases /\ LinesSound(d, 4)
  BY DEF Sound
<1>2. /\ ShapeIs(e.shape, 3)
      /\ e.game = [g \in Games |-> None]
      /\ e.line = [l \in Lines |-> IF d.line[l] = None THEN None ELSE
           [copy   |-> IF d.line[l].linked THEN d.game[l[1]] ELSE d.line[l].copy,
            linked |-> FALSE,
            note   |-> IF d.line[l].note = {} THEN {} ELSE {"game_id"}]]
      /\ Typed(e) => e \in Databases
  BY <1>1, DropGamesParts DEF Sound
<1> HIDE DEF e
<1>3. ASSUME NEW l \in Lines, d.line[l] # None
      PROVE  /\ e.line[l] \in Line /\ e.line[l].linked = FALSE
             /\ e.line[l].copy = IF d.line[l].linked THEN d.game[l[1]] ELSE d.line[l].copy
             /\ e.line[l].note = IF d.line[l].note = {} THEN {} ELSE {"game_id"}
  <2> DEFINE c == IF d.line[l].linked THEN d.game[l[1]] ELSE d.line[l].copy
             n == IF d.line[l].note = {} THEN {} ELSE {"game_id"}
  <2>1. d.line[l] \in Line /\ c \in Facts \cup {None} /\ n \in Notes
    BY <1>1, <1>3, RowTypes, Rows DEF Notes
  <2> DEFINE y == e.line[l]
  <2>2. y = [copy |-> c, linked |-> FALSE, note |-> n]
    BY <1>2, <1>3
  <2>3. y \in Line /\ y.copy = c /\ y.linked = FALSE /\ y.note = n
    <3> HIDE DEF y, c, n
    <3> QED
      BY <2>1, <2>2 DEF Line, Notes
  <2> QED
    BY <2>3 DEF c, n
<1>4. Typed(e)
  BY <1>2, <1>3 DEF Typed
<1>5. ASSUME NEW l \in Lines, d.line[l] # None
      PROVE  LineSound(e.line[l], e.game[l[1]], told[l], 3)
  <2>1. told[l] \in Loaded /\ LineSound(d.line[l], d.game[l[1]], told[l], 4)
    BY <1>1, <1>5 DEF LinesSound, Told
  <2>2. d.line[l] \in Line
    BY <1>1, <1>5, RowTypes
  <2> QED
    BY <1>3, <1>5, <2>1, <2>2, LineDropGames
<1>6. \A l \in Lines : e.line[l] = None <=> d.line[l] = None
  BY <1>2, <1>3, Rows
<1>7. LinesSound(e, 3)
  BY <1>1, <1>5, <1>6, LineByLine
<1>8. LinksUnique(e)
  BY <1>3, <1>6 DEF LinksUnique, Stored
<1> QED
  BY <1>2, <1>4, <1>7, <1>8 DEF Sound, e

\* 0005, upgrade.
LEMMA DropCopiesSound ==
  ASSUME Told, NEW d, Sound(d, 4), AllLinked(d)
  PROVE  Sound(DropCopies(d), 5)
<1> DEFINE e == DropCopies(d)
<1>1. d \in Databases /\ LinesSound(d, 4)
  BY DEF Sound
<1>2. /\ ShapeIs(e.shape, 5) /\ e.game = d.game
      /\ e.line = [l \in Lines |-> IF d.line[l] = None THEN None ELSE
           [d.line[l] EXCEPT !.copy = None, !.note = d.line[l].note \ {"game_id"}]]
      /\ Typed(e) => e \in Databases
  BY <1>1, DropCopiesParts DEF Sound
<1> HIDE DEF e
<1>3. ASSUME NEW l \in Lines, d.line[l] # None
      PROVE  /\ e.line[l] \in Line /\ e.line[l].copy = None
             /\ e.line[l].linked = d.line[l].linked
             /\ e.line[l].note = d.line[l].note \ {"game_id"}
  <2> DEFINE n == d.line[l].note \ {"game_id"}
  <2>1. d.line[l] \in Line /\ n \in Notes
    BY <1>1, <1>3, RowTypes, Rows DEF Notes
  <2> DEFINE x == d.line[l]
             y == e.line[l]
  <2>2. x \in Line /\ y = [x EXCEPT !.copy = None, !.note = n]
    BY <1>2, <1>3, <2>1
  <2>3. y \in Line /\ y.copy = None /\ y.linked = x.linked /\ y.note = n
    <3> HIDE DEF x, y, n
    <3> QED
      BY <2>1, <2>2 DEF Line, Notes
  <2> QED
    BY <2>3 DEF n
<1>4. Typed(e)
  BY <1>1, <1>2, <1>3 DEF Typed, Databases
<1>5. ASSUME NEW l \in Lines, d.line[l] # None
      PROVE  LineSound(e.line[l], e.game[l[1]], told[l], 5)
  <2>1. told[l] \in Loaded /\ LineSound(d.line[l], d.game[l[1]], told[l], 4)
    BY <1>1, <1>5 DEF LinesSound, Told
  <2>2. d.line[l].linked /\ (d.line[l].note # {} => "performance_id" \in d.line[l].note)
    BY <1>5 DEF AllLinked, Stored
  <2>3. d.line[l] \in Line
    BY <1>1, <1>5, RowTypes
  <2>4. LineSound(e.line[l], d.game[l[1]], told[l], 5)
    BY <1>3, <1>5, <2>1, <2>2, <2>3, LineDropCopies
  <2> QED
    BY <1>2, <2>4
<1>6. \A l \in Lines : e.line[l] = None <=> d.line[l] = None
  BY <1>2, <1>3, Rows
<1>7. LinesSound(e, 5)
  BY <1>1, <1>5, <1>6, LineByLine
<1>8. LinksUnique(e)
  <2>1. LinksUnique(d)
    BY DEF Sound
  <2>2. \A l \in Lines : e.line[l] # None /\ e.line[l].linked => d.line[l].linked
    BY <1>3, <1>6
  <2> QED
    BY <1>6, <2>1, <2>2, LinksKept
<1> QED
  BY <1>2, <1>4, <1>7, <1>8 DEF Sound, e

\* 0005, downgrade.
LEMMA AddCopiesSound ==
  ASSUME Told, NEW d, Sound(d, 5)
  PROVE  Sound(AddCopies(d), 4)
<1> DEFINE e == AddCopies(d)
<1>1. d \in Databases /\ LinesSound(d, 5)
  BY DEF Sound
<1>2. /\ ShapeIs(e.shape, 4) /\ e.game = d.game
      /\ e.line = [l \in Lines |-> IF d.line[l] = None THEN None ELSE
           [d.line[l] EXCEPT !.copy = d.game[l[1]],
              !.note = IF d.line[l].note = {} THEN {} ELSE d.line[l].note \cup {"game_id"}]]
      /\ Typed(e) => e \in Databases
  BY <1>1, AddCopiesParts DEF Sound
<1> HIDE DEF e
<1>3. ASSUME NEW l \in Lines, d.line[l] # None
      PROVE  /\ e.line[l] \in Line /\ e.line[l].copy = d.game[l[1]]
             /\ e.line[l].linked = d.line[l].linked
             /\ e.line[l].note = IF d.line[l].note = {} THEN {}
                                 ELSE d.line[l].note \cup {"game_id"}
  <2> DEFINE c == d.game[l[1]]
             n == IF d.line[l].note = {} THEN {} ELSE d.line[l].note \cup {"game_id"}
  <2>1. d.line[l] \in Line /\ c \in Facts \cup {None} /\ n \in Notes
    BY <1>1, <1>3, RowTypes, Rows DEF Notes
  <2> DEFINE x == d.line[l]
             y == e.line[l]
  <2>2. x \in Line /\ y = [x EXCEPT !.copy = c, !.note = n]
    BY <1>2, <1>3, <2>1
  <2>3. y \in Line /\ y.copy = c /\ y.linked = x.linked /\ y.note = n
    <3> HIDE DEF x, y, c, n
    <3> QED
      BY <2>1, <2>2 DEF Line, Notes
  <2> QED
    BY <2>3 DEF c, n
<1>4. Typed(e)
  BY <1>1, <1>2, <1>3 DEF Typed, Databases
<1>5. ASSUME NEW l \in Lines, d.line[l] # None
      PROVE  LineSound(e.line[l], e.game[l[1]], told[l], 4)
  <2>1. told[l] \in Loaded /\ LineSound(d.line[l], d.game[l[1]], told[l], 5)
    BY <1>1, <1>5 DEF LinesSound, Told
  <2>2. d.line[l] \in Line
    BY <1>1, <1>5, RowTypes
  <2>3. LineSound(e.line[l], d.game[l[1]], told[l], 4)
    BY <1>3, <1>5, <2>1, <2>2, LineAddCopies
  <2> QED
    BY <1>2, <2>3
<1>6. \A l \in Lines : e.line[l] = None <=> d.line[l] = None
  BY <1>2, <1>3, Rows
<1>7. LinesSound(e, 4)
  BY <1>1, <1>5, <1>6, LineByLine
<1>8. LinksUnique(e)
  <2>1. LinksUnique(d)
    BY DEF Sound
  <2>2. \A l \in Lines : e.line[l] # None /\ e.line[l].linked => d.line[l].linked
    BY <1>3, <1>6
  <2> QED
    BY <1>6, <2>1, <2>2, LinksKept
<1> QED
  BY <1>2, <1>4, <1>7, <1>8 DEF Sound, e

\* 0002 and 0003 change no line, either way.
LEMMA RenamesSound ==
  ASSUME NEW d
  PROVE  /\ Sound(d, 1) => Sound(RenameFg(d), 2)
         /\ Sound(d, 2) => Sound(RenameFgBack(d), 1) /\ Sound(KeepView(d), 3)
         /\ Sound(d, 3) => Sound(DropView(d), 2)
<1>1. ASSUME NEW e, NEW q \in 1 .. 3, NEW r \in 1 .. 3, SameRows(e, d), LinesSound(d, q)
      PROVE  LinesSound(e, r)
  BY <1>1 DEF SameRows, LinesSound, LineSound
<1>2. ASSUME NEW e, SameRows(e, d), LinksUnique(d) PROVE LinksUnique(e)
  BY <1>2, LinksKept DEF SameRows
<1> QED
  BY <1>1, <1>2, ShapeOnly DEF Sound, SameRows

\* Every revision's upgrade keeps a database sound.
LEMMA UpgradedSound ==
  ASSUME Told, NEW r \in 2 .. Head, NEW d, Sound(d, r - 1), CanUpgrade(d, r)
  PROVE  Sound(Upgraded(d, r), r)
<1>1. r = 2 \/ r = 3 \/ r = 4 \/ r = 5
  BY DEF Head
<1>2. CASE r = 2 \/ r = 3
  BY <1>2, RenamesSound DEF Upgraded
<1>3. CASE r = 4
  BY <1>3, CreateGamesSound DEF Upgraded, CanUpgrade
<1>4. CASE r = 5
  BY <1>4, DropCopiesSound DEF Upgraded, CanUpgrade
<1> QED
  BY <1>1, <1>2, <1>3, <1>4

\* So does every downgrade.
LEMMA DowngradedSound ==
  ASSUME Told, NEW r \in 2 .. Head, NEW d, Sound(d, r)
  PROVE  Sound(Downgraded(d, r), r - 1)
<1>1. r = 2 \/ r = 3 \/ r = 4 \/ r = 5
  BY DEF Head
<1>2. CASE r = 2 \/ r = 3
  BY <1>2, RenamesSound DEF Downgraded
<1>3. CASE r = 4
  BY <1>3, DropGamesSound DEF Downgraded
<1>4. CASE r = 5
  BY <1>4, AddCopiesSound DEF Downgraded
<1> QED
  BY <1>1, <1>2, <1>3, <1>4

-----------------------------------------------------------------------------
(* The actions.                                                            *)

\* What an upgrade passes through exists: R is the database at each revision
\* on the way. (A recursive function is a CHOOSE, so this needs a witness.)
LEMMA UpgradePath ==
  ASSUME rev \in Revisions, NEW to \in Revisions, Upgrade(to)
  PROVE  \E R :
           /\ R = [r \in rev .. to |-> IF r = rev THEN Database ELSE Upgraded(R[r - 1], r)]
           /\ \A r \in (rev + 1) .. to : CanUpgrade(R[r - 1], r)
           /\ to > rev /\ rev' = to /\ Becomes(R[to]) /\ UNCHANGED told
<1> DEFINE Path(R) ==
             R = [r \in rev .. to |-> IF r = rev THEN Database ELSE Upgraded(R[r - 1], r)]
           d1 == Upgraded(Database, rev + 1)
           d2 == Upgraded(d1, rev + 2)
           d3 == Upgraded(d2, rev + 3)
           d4 == Upgraded(d3, rev + 4)
           f == [r \in rev .. to |-> IF r = rev THEN Database ELSE IF r = rev + 1 THEN d1 ELSE
                                    IF r = rev + 2 THEN d2 ELSE IF r = rev + 3 THEN d3 ELSE d4]
           Reached == CHOOSE R : Path(R)
<1>1. Path(f)
  <2>1. \A r \in rev .. to : r = rev \/ r = rev + 1 \/ r = rev + 2 \/ r = rev + 3 \/ r = rev + 4
    BY DEF Revisions, Head
  <2>2. d1 = Upgraded(Database, rev + 1) /\ d2 = Upgraded(d1, rev + 2)
          /\ d3 = Upgraded(d2, rev + 3) /\ d4 = Upgraded(d3, rev + 4)
    OBVIOUS
  <2> HIDE DEF d1, d2, d3, d4
  <2>3. \A r \in rev .. to : f[r] = IF r = rev THEN Database ELSE Upgraded(f[r - 1], r)
    BY <2>1, <2>2 DEF Revisions, Head
  <2> HIDE DEF f
  <2>4. [r \in rev .. to |-> f[r]] = [r \in rev .. to |-> IF r = rev THEN Database ELSE Upgraded(f[r - 1], r)]
    BY <2>3
  <2>5. f = [r \in rev .. to |-> f[r]]
    BY DEF f
  <2> QED
    BY <2>4, <2>5
<1> HIDE DEF f
<1>2. Path(Reached)
  BY <1>1
<1>3. /\ \A r \in (rev + 1) .. to : CanUpgrade(Reached[r - 1], r)
      /\ to > rev /\ rev' = to /\ Becomes(Reached[to]) /\ UNCHANGED told
  BY DEF Upgrade
<1> HIDE DEF Reached
<1> QED
  BY <1>2, <1>3

\* Becoming a sound database.
LEMMA BecomesSound ==
  ASSUME Told, NEW d, NEW r \in Revisions, Sound(d, r), Becomes(d), rev' = r, UNCHANGED told
  PROVE  Inv'
<1>1. /\ d \in Databases /\ d.shape \in Shape /\ d.game \in [Games -> Facts \cup {None}]
      /\ d.line \in [Lines -> Line \cup {None}] /\ d = [shape |-> d.shape, game |-> d.game,
                                                        line |-> d.line]
  BY DEF Sound, Databases
<1>2. Database' = d
  BY <1>1 DEF Becomes, Database
<1>3. Sound(Database, rev)'
  BY <1>1, <1>2 DEF Sound, LinesSound, LinksUnique, Stored
<1>4. TypeOK'
  BY <1>1 DEF Becomes, TypeOK, Told
<1> QED
  BY <1>3, <1>4 DEF Inv

\* An upgrade through several revisions, one after the other.
LEMMA UpgradeStep ==
  ASSUME Inv, NEW to \in Revisions, Upgrade(to)
  PROVE  Inv'
<1>1. rev \in Revisions /\ Told /\ Sound(Database, rev) /\ rev \in 1 .. 5 /\ to \in 1 .. 5
  BY DEF Inv, TypeOK, Told, Revisions, Head
<1>2. PICK R :
        /\ R = [r \in rev .. to |-> IF r = rev THEN Database ELSE Upgraded(R[r - 1], r)]
        /\ \A r \in (rev + 1) .. to : CanUpgrade(R[r - 1], r)
        /\ to > rev /\ rev' = to /\ Becomes(R[to]) /\ UNCHANGED told
  BY <1>1, UpgradePath
<1>3. Sound(R[rev], rev)
  BY <1>1, <1>2
<1>4. ASSUME NEW r \in (rev + 1) .. to, Sound(R[r - 1], r - 1) PROVE Sound(R[r], r)
  <2>1. r \in 2 .. Head /\ r \in rev .. to /\ r # rev
    BY <1>1 DEF Head
  <2>2. R[r] = Upgraded(R[r - 1], r)
    BY <1>2, <2>1
  <2>3. CanUpgrade(R[r - 1], r)
    BY <1>2
  <2> QED
    BY <1>1, <1>4, <2>1, <2>2, <2>3, UpgradedSound
<1>5. rev + 1 <= to => Sound(R[rev + 1], rev + 1)
  BY <1>1, <1>3, <1>4
<1>6. rev + 2 <= to => Sound(R[rev + 2], rev + 2)
  BY <1>1, <1>4, <1>5
<1>7. rev + 3 <= to => Sound(R[rev + 3], rev + 3)
  BY <1>1, <1>4, <1>6
<1>8. rev + 4 <= to => Sound(R[rev + 4], rev + 4)
  BY <1>1, <1>4, <1>7
<1>9. to = rev + 1 \/ to = rev + 2 \/ to = rev + 3 \/ to = rev + 4
  BY <1>1, <1>2
<1>10. Sound(R[to], to)
  BY <1>1, <1>5, <1>6, <1>7, <1>8, <1>9
<1> QED
  BY <1>1, <1>2, <1>10, BecomesSound

\* A downgrade is of one revision.
LEMMA DowngradeStep ==
  ASSUME Inv, Downgrade
  PROVE  Inv'
<1>1. rev \in 2 .. Head /\ rev - 1 \in Revisions /\ Told /\ Sound(Database, rev)
  BY DEF Inv, TypeOK, Told, Revisions, Head, Downgrade
<1>2. Sound(Downgraded(Database, rev), rev - 1)
  BY <1>1, DowngradedSound
<1> QED
  BY <1>1, <1>2, BecomesSound DEF Downgrade

\* A loader writes lines that are sound at the revision it meets: release 3 and
\* before need the copies, later ones need the links.
LEMMA LoadStep ==
  ASSUME Inv, NEW r \in Revisions, NEW l \in Lines, NEW f \in Facts, NEW noted \in BOOLEAN,
         Load(r, l, f, noted)
  PROVE  Inv'
<1> DEFINE x == IF r <= 3 THEN [copy |-> f, linked |-> FALSE,
                                note |-> IF noted THEN {"game_id"} ELSE {}]
                ELSE [copy |-> None, linked |-> TRUE,
                      note |-> IF noted THEN {"performance_id"} ELSE {}]
           t == [facts |-> f, note |-> noted, by |-> Reads(r)]
<1>1. /\ TypeOK /\ ShapeIs(shape, rev) /\ LinesSound(Database, rev) /\ rev \in 1 .. 5
      /\ LinksUnique(Database) /\ r \in 1 .. 5
  BY DEF Inv, Sound, Database, TypeOK, Revisions, Head
<1>2. x \in Line /\ x # None /\ t \in Loaded /\ t # None /\ f # None /\ l[1] \in Games
  <2>1. x \in Line /\ t \in Loaded
    BY DEF Line, Loaded, Reads
  <2> QED
    BY <2>1, Rows, MigrationsAssumption
<1>3. /\ Works(r, shape) /\ line[l] = None /\ line' = [line EXCEPT ![l] = x]
      /\ told' = [told EXCEPT ![l] = t] /\ UNCHANGED <<rev, shape>>
  BY DEF Load
<1>4. /\ r <= 3 => game' = game
      /\ r > 3 => /\ game[l[1]] \in {None, f} /\ game' = [game EXCEPT ![l[1]] = f]
                  /\ ~\E m \in Lines : SameKey(l, m) /\ line[m] # None /\ line[m].linked
  BY <1>1 DEF Load
<1>5. /\ r <= 3 => x.copy = f /\ ~x.linked /\ t.by = "copies"
      /\ r > 3 => x.copy = None /\ x.linked /\ t.by = "links"
      /\ x.note # {} <=> noted
      /\ r > 3 => "game_id" \notin x.note /\ (noted => "performance_id" \in x.note)
      /\ t.facts = f /\ t.note = noted
  BY <1>1 DEF Reads
<1> HIDE DEF x, t
<1>6. TypeOK'
  BY <1>1, <1>2, <1>3, <1>4 DEF TypeOK
<1>7. /\ r <= 3 => rev # 5
      /\ r > 3 => rev \in {4, 5}
  BY <1>1, <1>3 DEF Works, ShapeIs
<1>8. LineSound(x, game'[l[1]], t, rev)
  BY <1>1, <1>2, <1>4, <1>5, <1>7 DEF LineSound, TypeOK
<1>9. ASSUME NEW m \in Lines, m # l
      PROVE  /\ line'[m] = line[m] /\ told'[m] = told[m]
             /\ line[m] = None <=> told[m] = None
             /\ line[m] # None => LineSound(line[m], game'[m[1]], told[m], rev)
  <2>1. /\ line'[m] = line[m] /\ told'[m] = told[m] /\ m[1] \in Games
    BY <1>1, <1>3, <1>9, Rows DEF TypeOK
  <2>2. /\ line[m] = None <=> told[m] = None
        /\ line[m] # None => LineSound(line[m], game[m[1]], told[m], rev)
    BY <1>1 DEF LinesSound, Database
  <2>3. CASE game'[m[1]] = game[m[1]]
    BY <2>1, <2>2, <2>3
  <2>4. CASE game'[m[1]] # game[m[1]]
    <3>1. r > 3 /\ m[1] = l[1] /\ game[m[1]] = None
      BY <1>1, <1>2, <1>4, <2>1, <2>4 DEF TypeOK
    <3>2. line[m] # None => told[m] \in Loaded /\ told[m].facts # None
      BY <1>1, <2>2, Rows DEF TypeOK
    <3>3. line[m] # None => ~line[m].linked
      BY <2>2, <3>1, <3>2 DEF LineSound
    <3> QED
      BY <2>1, <2>2, <3>3 DEF LineSound
  <2> QED
    BY <2>3, <2>4
<1>10. LinesSound(Database, rev)'
  <2>1. line'[l] = x /\ told'[l] = t
    BY <1>1, <1>3 DEF TypeOK
  <2> QED
    BY <1>2, <1>3, <1>8, <1>9, <2>1 DEF LinesSound, Database
<1>11. LinksUnique(Database)'
  <2>1. line'[l] = x /\ \A m \in Lines : m # l => line'[m] = line[m]
    BY <1>1, <1>3, <1>9 DEF TypeOK
  <2> SUFFICES ASSUME NEW m \in Lines, NEW n \in Lines, line'[m] # None, line'[n] # None,
                      SameKey(m, n), line'[m].linked, line'[n].linked
               PROVE  m = n
    BY DEF LinksUnique, Stored, Database
  <2>2. CASE m = l /\ n # l
    BY <1>1, <1>4, <1>5, <2>1, <2>2 DEF SameKey
  <2>3. CASE m # l /\ n = l
    BY <1>1, <1>4, <1>5, <2>1, <2>3 DEF SameKey
  <2>4. CASE m # l /\ n # l
    BY <1>1, <2>1, <2>4 DEF LinksUnique, Stored, Database
  <2> QED
    BY <2>2, <2>3, <2>4
<1> QED
  <2>1. Database' \in Databases
    BY <1>6 DEF TypeOK, Database, Databases
  <2>2. ShapeIs(shape, rev)'
    BY <1>1, <1>3 DEF ShapeIs
  <2> QED
    BY <1>6, <1>10, <1>11, <2>1, <2>2 DEF Inv, Sound, Database

-----------------------------------------------------------------------------
\* The initial revision, without lines.
LEMMA InvInit == Init => Inv
<1> SUFFICES ASSUME Init PROVE Inv
  OBVIOUS
<1>1. TypeOK
  BY DEF Init, TypeOK, Revisions, Head, InitialShape, Shape
<1>2. ShapeIs(shape, rev)
  BY DEF Init, InitialShape, ShapeIs, Shape
<1>3. LinesSound(Database, rev)
  BY DEF Init, LinesSound, Database
<1>4. Database \in Databases
  BY <1>1 DEF TypeOK, Database, Databases
<1>5. LinksUnique(Database)
  BY DEF Init, LinksUnique, Stored, Database
<1> QED
  BY <1>1, <1>2, <1>3, <1>4, <1>5 DEF Inv, Sound, Database

\* Every state is a sound database of its revision.
THEOREM Invariance == Spec => []Inv
<1>1. Inv /\ [Next]_vars => Inv'
  <2> SUFFICES ASSUME Inv, [Next]_vars PROVE Inv'
    OBVIOUS
  <2>1. CASE UNCHANGED vars
    BY <2>1 DEF Inv, TypeOK, Sound, LinesSound, LinksUnique, Stored, Database, vars
  <2> QED
    BY <2>1, UpgradeStep, DowngradeStep, LoadStep DEF Next
<1> QED
  BY <1>1, InvInit, PTL DEF Spec

-----------------------------------------------------------------------------
(* The properties.                                                         *)

\* The database each release makes of an empty one has its revision's shape.
Blank(d, r) == d \in Databases /\ ShapeIs(d.shape, r) /\ \A l \in Lines : d.line[l] = None

\* An upgrade of an empty database gives the shape of its revision.
LEMMA UpgradedBlank ==
  ASSUME NEW r \in 2 .. Head, NEW d, Blank(d, r - 1)
  PROVE  Blank(Upgraded(d, r), r)
<1> DEFINE e == Upgraded(d, r)
<1>1. r = 2 \/ r = 3 \/ r = 4 \/ r = 5
  BY DEF Head
<1>2. CASE r = 2 \/ r = 3
  BY <1>2, ShapeOnly DEF Upgraded, Blank, SameRows
<1>3. CASE r = 4
  <2>1. e = CreateGames(d)
    BY <1>3 DEF Upgraded
  <2>2. d \in Databases /\ ShapeIs(d.shape, 3) /\ \A l \in Lines : d.line[l] = None
    BY <1>3 DEF Blank
  <2> HIDE DEF e
  <2>3. \A g \in Games : FirstCopy(d, g) = None
    BY <2>2 DEF FirstCopy, Stored
  <2>4. /\ ShapeIs(e.shape, 4) /\ e.game = [g \in Games |-> FirstCopy(d, g)]
        /\ Typed(e) => e \in Databases
    BY <2>1, <2>2, CreateGamesParts
  <2>5. e.line = [l \in Lines |-> None]
    BY <2>1, <2>2, CreateGamesParts
  <2> QED
    BY <1>3, <2>3, <2>4, <2>5 DEF Blank, Typed, e
<1>4. CASE r = 5
  <2>1. e = DropCopies(d)
    BY <1>4 DEF Upgraded
  <2>2. /\ d \in Databases /\ ShapeIs(d.shape, 4) /\ \A l \in Lines : d.line[l] = None
        /\ d.game \in [Games -> Facts \cup {None}]
    BY <1>4 DEF Blank, Databases
  <2> HIDE DEF e
  <2>3. ShapeIs(e.shape, 5) /\ e.game = d.game /\ (Typed(e) => e \in Databases)
    BY <2>1, <2>2, DropCopiesParts
  <2>4. e.line = [l \in Lines |-> None]
    BY <2>1, <2>2, DropCopiesParts
  <2> QED
    BY <1>4, <2>2, <2>3, <2>4 DEF Blank, Typed, e
<1> QED
  BY <1>1, <1>2, <1>3, <1>4

\* The shapes on the way up are those worked out above.
LEMMA FreshShape == \A r \in Revisions : ShapeIs(Fresh[r].shape, r)
<1> DEFINE F1 == Empty
           F2 == Upgraded(F1, 2)
           F3 == Upgraded(F2, 3)
           F4 == Upgraded(F3, 4)
           F5 == Upgraded(F4, 5)
           f == [r \in Revisions |-> IF r = 1 THEN F1 ELSE IF r = 2 THEN F2 ELSE
                                     IF r = 3 THEN F3 ELSE IF r = 4 THEN F4 ELSE F5]
<1>1. f = [r \in Revisions |-> IF r = 1 THEN Empty ELSE Upgraded(f[r - 1], r)]
  <2>1. \A r \in Revisions : r = 1 \/ r = 2 \/ r = 3 \/ r = 4 \/ r = 5
    BY DEF Revisions, Head
  <2> HIDE DEF F1, F2, F3, F4, F5
  <2>2. f[1] = F1 /\ f[2] = F2 /\ f[3] = F3 /\ f[4] = F4 /\ f[5] = F5
    BY DEF Revisions, Head
  <2>3. /\ F1 = Empty /\ F2 = Upgraded(f[1], 2) /\ F3 = Upgraded(f[2], 3)
        /\ F4 = Upgraded(f[3], 4) /\ F5 = Upgraded(f[4], 5)
    BY <2>2 DEF F1, F2, F3, F4, F5
  <2> HIDE DEF f
  <2>4. \A r \in Revisions : f[r] = IF r = 1 THEN Empty ELSE Upgraded(f[r - 1], r)
    BY <2>1, <2>2, <2>3
  <2> QED
    BY <2>4 DEF f
<1> HIDE DEF f
<1>2. Fresh = [r \in Revisions |-> IF r = 1 THEN Empty ELSE Upgraded(Fresh[r - 1], r)]
  BY <1>1 DEF Fresh
<1>3. Blank(Empty, 1)
  BY DEF Empty, Blank, Databases, InitialShape, ShapeIs, Shape
<1>4. Blank(Fresh[1], 1)
  BY <1>2, <1>3 DEF Revisions, Head
<1>5. ASSUME NEW r \in 2 .. Head, Blank(Fresh[r - 1], r - 1) PROVE Blank(Fresh[r], r)
  <2>1. Fresh[r] = Upgraded(Fresh[r - 1], r)
    BY <1>2 DEF Revisions, Head
  <2> QED
    BY <1>5, <2>1, UpgradedBlank
<1>6. Blank(Fresh[2], 2)
  BY <1>4, <1>5 DEF Head
<1>7. Blank(Fresh[3], 3)
  BY <1>5, <1>6 DEF Head
<1>8. Blank(Fresh[4], 4)
  BY <1>5, <1>7 DEF Head
<1>9. Blank(Fresh[5], 5)
  BY <1>5, <1>8 DEF Head
<1> QED
  BY <1>4, <1>6, <1>7, <1>8, <1>9 DEF Blank, Revisions, Head

\* The variables keep their types.
THEOREM TypeCorrect == Spec => []TypeOK
<1>1. Inv => TypeOK
  BY DEF Inv
<1> QED
  BY <1>1, Invariance, PTL

\* On every way up and down, with lines loaded in between by any release that
\* works, no line loses a fact or its note, and no row breaks a constraint of
\* the schema (alembic/versions 0001 to 0005).
THEOREM NothingIsLost == Spec => []NothingLost
<1>1. Inv => NothingLost
  <2> SUFFICES ASSUME Inv PROVE NothingLost
    OBVIOUS
  <2>0. /\ TypeOK /\ rev \in 1 .. 5 /\ ShapeIs(shape, rev) /\ LinksUnique(Database)
        /\ \A l \in Lines : /\ line[l] = None <=> told[l] = None
                            /\ line[l] # None => LineSound(line[l], game[l[1]], told[l], rev)
    BY DEF Inv, TypeOK, Sound, LinesSound, Database, Revisions, Head
  <2>1. NoFactsLost
    <3> SUFFICES ASSUME NEW l \in Lines, line[l] # None
                 PROVE  FactsOf(l) = told[l].facts /\ (line[l].note # {}) = told[l].note
      BY <2>0 DEF NoFactsLost
    <3>1. told[l] \in Loaded /\ line[l] \in Line
      BY <2>0 DEF TypeOK
    <3> QED
      BY <2>0, <3>1, Rows DEF LineSound, FactsOf
  <2>2. ColumnsHold
    BY <2>0 DEF ColumnsHold, LineSound, ShapeIs
  <2> QED
    BY <2>1, <2>2 DEF NothingLost
<1> QED
  BY <1>1, Invariance, PTL

\* A release that works shows every line loaded by a release that reads lines
\* the way it does, through all revisions since.
THEOREM LinesStayShown == Spec => []OwnLinesShown
<1>1. Inv => OwnLinesShown
  <2> SUFFICES ASSUME Inv, NEW l \in Lines, line[l] # None, NEW r \in Revisions,
                      Reads(r) = told[l].by, Works(r, shape)
               PROVE  Shown(Reads(r), l)
    BY DEF OwnLinesShown
  <2>1. /\ rev \in 1 .. 5 /\ r \in 1 .. 5 /\ ShapeIs(shape, rev)
        /\ LineSound(line[l], game[l[1]], told[l], rev)
    BY DEF Inv, TypeOK, Sound, LinesSound, Database, Revisions, Head
  <2>2. CASE r <= 3
    BY <2>1, <2>2 DEF Reads, Shown, LineSound, Works, ShapeIs
  <2>3. CASE r > 3
    BY <2>1, <2>3 DEF Reads, Shown, LineSound, Works, ShapeIs
  <2> QED
    BY <2>1, <2>2, <2>3
<1> QED
  BY <1>1, Invariance, PTL

\* The schema of a revision does not depend on the way it was reached, and from
\* revision 3 on it leaves the release before working (README.md).
THEOREM ShapesAlwaysFit == Spec => []ShapesFit
<1>1. Inv => ShapesFit
  <2> SUFFICES ASSUME Inv PROVE ShapesFit
    OBVIOUS
  <2>1. rev \in Revisions /\ rev \in 1 .. 5 /\ ShapeIs(shape, rev)
    BY DEF Inv, TypeOK, Sound, Database, Revisions, Head
  <2>2. DowngradeRestores
    BY <2>1, FreshShape, ShapeUnique DEF DowngradeRestores
  <2>3. OneBehindWorks
    BY <2>1 DEF OneBehindWorks, Works, ShapeIs
  <2> QED
    BY <2>2, <2>3 DEF ShapesFit
<1> QED
  BY <1>1, Invariance, PTL
=============================================================================
