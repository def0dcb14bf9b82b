---------------------------- MODULE SeasonImport ----------------------------
(***************************************************************************)
(* How a season gets into the database: scripts/scrape_stats.py writes the *)
(* team's pages of the league's site into a file, and scripts/seed.py      *)
(* wipes the database, commits, and loads the file in a second             *)
(* transaction. Only the seed script reads the file, so it is no state of  *)
(* the model: a seed loads what some scrape of the site has written.       *)
(*                                                                         *)
(* The thirteen counts of a row are one number, Missing where a cell of    *)
(* the page is empty. A player's id is the seed run that made it and the   *)
(* name: uuid4 never gives one twice.                                      *)
(***************************************************************************)
EXTENDS Integers, FiniteSets, SequencesExt

CONSTANTS
  Sites,       \* what the site may publish: sequences of matches
  Ours,        \* spellings with TEAM_NAME_FRAGMENT in them
  SeedUsers,   \* the player_name of each email
  Missing,     \* "": no result, or an empty cell
  MaxSeeds     \* bound: runs of the seed script

\* Sides: the first of a score is the home team's. The team's own is m.side.
Us(match) == IF match.side = 1 THEN match.home ELSE match.away
Them(match) == IF match.side = 1 THEN match.away ELSE match.home

\* The league's site: the team plays other teams, each at most once a day, and
\* no other has the fragment in its name. It has one table on the page of a match,
\* with the fragment in the caption when it is in the team's name in the match's
\* title; that name may be misspelled. Every row has the name of a player.
Publishable(matches) ==
  /\ matches \in Seq(Range(matches))
  /\ \A m \in Range(matches) :
       /\ m.side \in {1, 2}
       /\ Them(m) \notin Ours
       /\ m.score = Missing \/ m.score \in Nat \X Nat
       /\ m.page \in Seq(Range(m.page))
       /\ \A t, u \in Range(m.page) : t.side = u.side => t = u
       /\ \A t \in Range(m.page) : t.caption \in Ours <=> t.side = m.side /\ Us(m) \in Ours
       /\ \A t \in Range(m.page) :
            /\ t.rows \in Seq(Range(t.rows))
            /\ \A r \in Range(t.rows) :
                 r.player \in [name : {r.player.name}, loose : BOOLEAN, nfd : BOOLEAN]
  /\ \A i, j \in DOMAIN matches :
       i # j /\ matches[i].date = matches[j].date => Them(matches[i]) # Them(matches[j])

ASSUME SeasonImportAssumption ==
  /\ MaxSeeds \in Nat
  /\ \A matches \in Sites : Publishable(matches)

VARIABLES
  site,    \* the pages of the matches, in the order of the team's page
  db,      \* what the seed script fills
  seed,    \* where the script is
  seeds    \* its runs so far

importVars == <<site, db, seed, seeds>>

NoRows == [x \in {} |-> x]
Empty == [players |-> NoRows, users |-> NoRows, games |-> NoRows, lines |-> NoRows]

-----------------------------------------------------------------------------
(* scripts/scrape_stats.py                                                 *)

\* parse_player_row: the totals have no link to a player.
ParsePlayerRow(row) == IF row.linked THEN <<row>> ELSE <<>>

\* Mutant: the last row taken for the totals.
PlayerRowsFront(rows) == Front(rows)

PlayerRows(rows) == FlattenSeq([i \in DOMAIN rows |-> ParsePlayerRow(rows[i])])

\* Mutant: without a table under the team's name, the first one.
TeamRowsAny(page) ==
  LET ours == {i \in DOMAIN page : page[i].caption \in Ours}
  IN  IF page = <<>> THEN <<>>
      ELSE PlayerRows(page[IF ours = {} THEN 1 ELSE Min(ours)].rows)

\* get_team_player_stats: the first table under the team's name.
TeamRows(page) ==
  LET ours == {i \in DOMAIN page : page[i].caption \in Ours}
  IN  IF ours = {} THEN <<>> ELSE PlayerRows(page[Min(ours)].rows)

Recorded(match) ==
  LET rows == TeamRows(match.page)
  IN  [i \in DOMAIN rows |->
         [date |-> match.date, home |-> match.home, away |-> match.away,
          score |-> match.score, player |-> rows[i].player, stat |-> rows[i].stat]]

\* The rows of the matches whose pages could be fetched.
Scraped(fetched) ==
  FlattenSeq([i \in DOMAIN site |->
                IF i \in fetched THEN Recorded(site[i]) ELSE <<>>])

\* What main() leaves in laspi_bc_stats.csv. It may die while it writes, which
\* it does at the end: the file stops after or within a row.
Files ==
  LET written == {Scraped(fetched) : fetched \in SUBSET DOMAIN site}
      Cut(rows, n) == {SubSeq(rows, 1, n - 1),
                       SubSeq(rows, 1, n - 1) \o <<[rows[n] EXCEPT !.stat = Missing]>>}
  IN  written \cup UNION {UNION {Cut(w, n) : n \in DOMAIN w} : w \in written}

-----------------------------------------------------------------------------
(* scripts/seed.py                                                         *)

\* Spaces around the comma, and the Unicode form.
Normalize(name) == [name EXCEPT !.loose = FALSE, !.nfd = FALSE]

\* Mutant: the score is not turned round for a game away.
ParseMatchHomeFirst(row) ==
  LET home == row.home \in Ours
  IN  [opponent |-> IF home THEN row.away ELSE row.home, home |-> home,
       team |-> row.score[1], other |-> row.score[2], won |-> row.score[1] > row.score[2]]

\* The match as the team sees it; a draw is a loss.
ParseMatch(row) ==
  LET home  == row.home \in Ours
      team  == row.score[IF home THEN 1 ELSE 2]
      other == row.score[IF home THEN 2 ELSE 1]
  IN  [opponent |-> IF home THEN row.away ELSE row.home, home |-> home,
       team |-> team, other |-> other, won |-> team > other]

Key(row) == <<row.date, ParseMatch(row).opponent>>
Id(row) == <<seeds, Normalize(row.player)>>
LineOf(row) == <<Key(row), Id(row)>>
Norms(names) == {Normalize(n) : n \in names}

\* Mutant: no guard for users without a player.
LoadsUnmatched(rows) ==
  /\ \A i \in DOMAIN rows : rows[i].score # Missing /\ rows[i].stat # Missing
  /\ \A i, j \in DOMAIN rows : i # j =>
       /\ Key(rows[i]) = Key(rows[j]) => ParseMatch(rows[i]) = ParseMatch(rows[j])
       /\ LineOf(rows[i]) # LineOf(rows[j])

\* Nothing raises: int() of every cell, the facts of a game, its unique line
\* of a player, and a player for each user.
Loads(rows) ==
  /\ \A i \in DOMAIN rows : rows[i].score # Missing /\ rows[i].stat # Missing
  /\ \A i, j \in DOMAIN rows : i # j =>
       /\ Key(rows[i]) = Key(rows[j]) => ParseMatch(rows[i]) = ParseMatch(rows[j])
       /\ LineOf(rows[i]) # LineOf(rows[j])
  /\ Norms(Range(SeedUsers)) \subseteq Norms({r.player : r \in Range(rows)})

NewPlayer(norm) ==
  [jersey |-> 0, position |-> "Guard", onboarded |-> norm \in Norms(Range(SeedUsers))]

Loaded(rows) ==
  [players |-> [id \in {Id(r) : r \in Range(rows)} |-> NewPlayer(id[2])],
   users   |-> [e \in DOMAIN SeedUsers |-> <<seeds, Normalize(SeedUsers[e])>>],
   games   |-> [k \in {Key(r) : r \in Range(rows)} |->
                  ParseMatch(CHOOSE r \in Range(rows) : Key(r) = k)],
   lines   |-> [l \in {LineOf(r) : r \in Range(rows)} |->
                  (CHOOSE r \in Range(rows) : LineOf(r) = l).stat]]

\* Mutant: the accounts are kept.
SeedWipeSeason ==
  /\ seed = "idle"
  /\ seeds < MaxSeeds
  /\ seed' = "wiped"
  /\ seeds' = seeds + 1
  /\ db' = [db EXCEPT !.games = NoRows, !.lines = NoRows]
  /\ UNCHANGED site

\* Everything is deleted, and that is committed; the single DELETEs and who may
\* make one fail are ArchetypeCache's. The file was read before: which one it is
\* shows when it is loaded.
SeedWipe ==
  /\ seed = "idle"
  /\ seeds < MaxSeeds
  /\ seed' = "wiped"
  /\ seeds' = seeds + 1
  /\ db' = Empty
  /\ UNCHANGED site

SeedLoad ==
  /\ seed = "wiped"
  /\ \E file \in Files :
       /\ Loads(file)
       /\ db' = Loaded(file)
  /\ seed' = "idle"
  /\ UNCHANGED <<site, seeds>>

\* A row that raises, a user without a player, or the script is killed.
SeedExits ==
  /\ seed = "wiped"
  /\ seed' = "idle"
  /\ UNCHANGED <<site, db, seeds>>

ImportInit ==
  /\ site \in Sites
  /\ db = Empty
  /\ seed = "idle"
  /\ seeds = 0

-----------------------------------------------------------------------------
(* Properties                                                              *)

Plays(match, key) == match.date = key[1] /\ key[2] = Them(match)

\* A game is stored as the site published it, whichever side the team really
\* played on and however its name was spelled: its own points first, and won
\* exactly when they are more. A line is that of a player in the team's table on
\* the game's page. A match whose title misspells the team is left out, for the
\* scraper does not find its table, and is never taken for one played away
\* (get_team_player_stats, _parse_match, get_or_create_game).
SeasonTrue ==
  /\ \A k \in DOMAIN db.games : \E i \in DOMAIN site :
       LET g == db.games[k] m == site[i]
       IN  /\ Plays(m, k)
           /\ g.home <=> m.side = 1
           /\ g.team = m.score[m.side] /\ g.other = m.score[3 - m.side]
           /\ g.won <=> g.team > g.other
  /\ \A l \in DOMAIN db.lines : \E i \in DOMAIN site :
       /\ Plays(site[i], l[1])
       /\ \E t \in Range(site[i].page) : t.side = site[i].side /\
            \E r \in Range(t.rows) : Normalize(r.player) = l[2][2] /\ r.stat = db.lines[l]

\* Of the games that are loaded, every one but the last of the site's order has
\* all of the team's players on its page: a page that could not be fetched costs
\* its whole game (the try block of main). Nothing is claimed of the last one
\* loaded: a scraper that died while it wrote leaves it with part of its players,
\* and the seed script loads it so.
OnlyLastCut ==
  \A i, j \in DOMAIN site : i < j =>
    \A k, l \in DOMAIN db.games : Plays(site[i], k) /\ Plays(site[j], l) =>
      \A t \in Range(site[i].page) : t.side = site[i].side =>
        \A r \in Range(t.rows) : r.linked =>
          \E x \in DOMAIN db.lines : x[1] = k /\ x[2][2] = Normalize(r.player)

\* A seed that fails leaves the empty database of its wipe, never players whom
\* nobody can log in as; one that succeeds gives every user a player of its own
\* run, the one of its name, who has played, and everybody their id in the lines.
AllOrNothing ==
  \/ db = Empty
  \/ /\ DOMAIN db.users = DOMAIN SeedUsers
     /\ \A e \in DOMAIN db.users :
          /\ db.users[e] \in DOMAIN db.players
          /\ \E l \in DOMAIN db.lines : l[2] = db.users[e]
     /\ \A p, q \in DOMAIN db.players :
          p # q => p[2].name # q[2].name

\* What is in the database is what the site published of some of its matches,
\* only the last of which may lack players, with everybody who may log in, or
\* there is nothing.
SeasonHonest == SeasonTrue /\ OnlyLastCut /\ AllOrNothing
=============================================================================
