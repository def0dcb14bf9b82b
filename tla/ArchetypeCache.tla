--------------------------- MODULE ArchetypeCache ---------------------------
(***************************************************************************)
(* GET /api/me/archetype (routes/archetype.py, services/archetype.py): the *)
(* player's archetype is computed on first demand from the team's stat     *)
(* lines and stored as the one row for the player and season; afterwards   *)
(* the stored row is the answer. The handler is a chain of statements at   *)
(* READ COMMITTED, with a call of the language model in the middle, so     *)
(* requests interleave with each other, with a loader that logs games, and *)
(* with scripts/seed.py, which wipes the database in one transaction,      *)
(* table by table, and loads it in the next. The INSERT and the wipe lock  *)
(* the same parent rows in opposite orders.                                *)
(*                                                                         *)
(* One team and its active season. A player's stat lines are abstracted to *)
(* their number, which identifies them: lines are only ever added. What is *)
(* computed is abstracted to its basis, the number of lines seen of every  *)
(* teammate, and the request that computed it (the explanation is the      *)
(* model's, and differs from one request to the next).                     *)
(***************************************************************************)
EXTENDS Naturals, FiniteSets

CONSTANTS
  Players,    \* the team, under new ids after every seed
  Requests,   \* the GETs
  MinGames,   \* MIN_GAMES_FOR_ARCHETYPE
  MaxGames,   \* bound: stat lines of a player
  MaxSeeds,   \* bound: runs of the seed script that wipe
  NoRow       \* no archetype is stored

ASSUME ArchetypeCacheAssumption ==
  /\ MinGames \in Nat \ {0}
  /\ MaxGames \in Nat
  /\ MaxSeeds \in Nat
  /\ NoRow \notin [basis : [Players -> Nat], author : Requests, epoch : Nat]

VARIABLES
  epoch,   \* wipes so far: player and season ids belong to one epoch
  loaded,  \* the epoch's players are in the database
  games,   \* committed stat lines of each player
  rows,    \* the archetype rows, at most one per player
  seed,    \* the seed script: the last statement it is through with, the rows
           \* its first DELETE saw, the players it has deleted so far
  req      \* the requests

vars == <<epoch, loaded, games, rows, seed, req>>

Basis == [Players -> Nat]
Row == [basis : Basis, author : Requests, epoch : Nat]
Reply == [code : {"none", "404", "conflict", "500"}]
         \cup [code : {"200"}, row : Row]

NoReply == [code |-> "none"]
NoGames == [p \in Players |-> 0]
NoSeed == [at |-> "idle", doomed |-> {}, gone |-> {}]

TypeOK ==
  /\ epoch \in Nat
  /\ loaded \in BOOLEAN
  /\ games \in Basis
  /\ rows \in [Players -> Row \cup {NoRow}]
  /\ seed \in [at : {"idle", "rows", "seasons", "teams", "wiped"},
               doomed : SUBSET Players, gone : SUBSET Players]
  /\ req \in [Requests ->
       [pc : {"idle", "count", "lookup", "read", "explain", "insert", "team",
              "player", "season", "commit", "refresh", "done"},
        who : Players, epoch : Nat, began : Basis, todo : SUBSET Players,
        seen : Basis, reply : Reply]]

Init ==
  /\ epoch = 0
  /\ loaded = TRUE
  /\ games = NoGames
  /\ rows = [p \in Players |-> NoRow]
  /\ seed = NoSeed
  /\ \E anyone \in Players :
       req = [r \in Requests |->
                [pc |-> "idle", who |-> anyone, epoch |-> 0, began |-> NoGames,
                 todo |-> {}, seen |-> NoGames, reply |-> NoReply]]

-----------------------------------------------------------------------------
(* What a statement of request r sees: committed rows under r's ids.       *)

Alive(r) == loaded /\ req[r].epoch = epoch
LinesSeen(r, p) == IF Alive(r) THEN games[p] ELSE 0
RowSeen(r) == IF Alive(r) THEN rows[req[r].who] ELSE NoRow

\* The handler returns or raises; its locals are gone.
Answer(r, reply) ==
  req' = [req EXCEPT ![r] = [@ EXCEPT !.pc = "done", !.reply = reply,
                                      !.todo = {}, !.seen = NoGames]]

Ok(row) == [code |-> "200", row |-> row]
Error(code) == [code |-> code]

\* get_current_player found the token's player; the team's season is read with
\* the next statement.
Ask(r, p) ==
  /\ req[r].pc = "idle"
  /\ loaded
  /\ req' = [req EXCEPT ![r] = [@ EXCEPT !.pc = "count", !.who = p, !.epoch = epoch,
                                         !.began = games]]
  /\ UNCHANGED <<epoch, loaded, games, rows, seed>>

\* Fewer lines than MinGames, or no season any more: 404.
Count(r) ==
  /\ req[r].pc = "count"
  /\ IF LinesSeen(r, req[r].who) < MinGames
     THEN Answer(r, Error("404"))
     ELSE req' = [req EXCEPT ![r].pc = "lookup"]
  /\ UNCHANGED <<epoch, loaded, games, rows, seed>>

\* The stored row is the answer; otherwise _team_averages lists the team.
Lookup(r) ==
  /\ req[r].pc = "lookup"
  /\ IF RowSeen(r) # NoRow
     THEN Answer(r, Ok(RowSeen(r)))
     ELSE req' = [req EXCEPT ![r] =
                    [@ EXCEPT !.pc = "read", !.seen = NoGames,
                              !.todo = IF Alive(r) THEN Players ELSE {}]]
  /\ UNCHANGED <<epoch, loaded, games, rows, seed>>

\* Mutant: averages memoised in the process and taken from another request.
ReadTeammateMemo(r, p) ==
  /\ req[r].pc = "read"
  /\ p \in req[r].todo
  /\ \E s \in Requests :
       /\ s = r \/ req[s].pc \in {"explain", "insert"}
       /\ req' = [req EXCEPT ![r] =
                    [@ EXCEPT !.todo = req[r].todo \ {p},
                              !.seen[p] = IF s = r THEN LinesSeen(r, p)
                                          ELSE req[s].seen[p]]]
  /\ UNCHANGED <<epoch, loaded, games, rows, seed>>

\* One query per teammate, in no fixed order.
ReadTeammate(r, p) ==
  /\ req[r].pc = "read"
  /\ p \in req[r].todo
  /\ req' = [req EXCEPT ![r] =
                [@ EXCEPT !.todo = req[r].todo \ {p},
                          !.seen = [req[r].seen EXCEPT ![p] = LinesSeen(r, p)]]]
  /\ UNCHANGED <<epoch, loaded, games, rows, seed>>

\* compute_archetype: a target without lines is a ValueError.
Compute(r) ==
  /\ req[r].pc = "read"
  /\ req[r].todo = {}
  /\ IF req[r].seen[req[r].who] = 0
     THEN Answer(r, Error("500"))
     ELSE req' = [req EXCEPT ![r].pc = "explain"]
  /\ UNCHANGED <<epoch, loaded, games, rows, seed>>

\* generate_archetype_explanation: the external model answers, or the call
\* raises and nothing is stored.
Explain(r) ==
  /\ req[r].pc = "explain"
  /\ \/ req' = [req EXCEPT ![r].pc = "insert"]
     \/ Answer(r, Error("500"))
  /\ UNCHANGED <<epoch, loaded, games, rows, seed>>

-----------------------------------------------------------------------------
(* add and commit: one INSERT. Its index entry comes first: it waits for   *)
(* whoever may still delete, or commit, a row with the same player and     *)
(* season, and holds nothing meanwhile. Then the foreign keys are checked, *)
(* in the order of their columns: each check locks its parent FOR KEY      *)
(* SHARE until the transaction ends, and so waits, with the locks of the   *)
(* earlier ones, for a seed that has deleted the parent. A violation is an *)
(* IntegrityError, hence a 500.                                            *)

Same(r, s) == req[r].who = req[s].who /\ req[r].epoch = req[s].epoch
Inserted(r) == req[r].pc \in {"team", "player", "season", "commit"}
HoldsTeam(r) == req[r].pc \in {"player", "season", "commit"}
HoldsPlayer(r) == req[r].pc \in {"season", "commit"}
HoldsSeason(r) == req[r].pc = "commit"

KeyInDoubt(r) ==
  \/ Alive(r) /\ req[r].who \in seed.doomed
  \/ \E s \in Requests \ {r} : Inserted(s) /\ Same(r, s)

ParentInDoubt(r) ==
  /\ Alive(r)
  /\ \/ req[r].pc = "team" /\ seed.at = "teams"
     \/ req[r].pc = "player" /\ req[r].who \in seed.gone
     \/ req[r].pc = "season" /\ seed.at \in {"seasons", "teams"}

NextCheck == [team |-> "player", player |-> "season", season |-> "commit"]

\* Mutant: no unique key on player and season.
InsertNoUniqueKey(r) ==
  /\ req[r].pc = "insert"
  /\ req' = [req EXCEPT ![r].pc = "team"]
  /\ UNCHANGED <<epoch, loaded, games, rows, seed>>

InsertRow(r) ==
  /\ req[r].pc = "insert"
  /\ ~KeyInDoubt(r)
  /\ IF RowSeen(r) # NoRow
     THEN Answer(r, Error("conflict"))
     ELSE req' = [req EXCEPT ![r].pc = "team"]
  /\ UNCHANGED <<epoch, loaded, games, rows, seed>>

\* Mutant: no foreign keys.
CheckNothing(r) ==
  /\ req[r].pc \in DOMAIN NextCheck
  /\ req' = [req EXCEPT ![r].pc = NextCheck[req[r].pc]]
  /\ UNCHANGED <<epoch, loaded, games, rows, seed>>

CheckParent(r) ==
  /\ req[r].pc \in DOMAIN NextCheck
  /\ ~ParentInDoubt(r)
  /\ IF Alive(r)
     THEN req' = [req EXCEPT ![r].pc = NextCheck[req[r].pc]]
     ELSE Answer(r, Error("500"))
  /\ UNCHANGED <<epoch, loaded, games, rows, seed>>

\* Mutant: the season of the row is not set.
NewRowNoSeason(r) == [basis |-> req[r].seen, author |-> r]

NewRow(r) == [basis |-> req[r].seen, author |-> r, epoch |-> req[r].epoch]

CommitRow(r) ==
  /\ req[r].pc = "commit"
  /\ rows' = [rows EXCEPT ![req[r].who] = NewRow(r)]
  /\ req' = [req EXCEPT ![r].pc = "refresh"]
  /\ UNCHANGED <<epoch, loaded, games, seed>>

\* Mutant: the row is polled for until it is there.
RefreshPolls(r) ==
  /\ req[r].pc = "refresh"
  /\ RowSeen(r) # NoRow
  /\ Answer(r, Ok(RowSeen(r)))
  /\ UNCHANGED <<epoch, loaded, games, rows, seed>>

\* refresh reads the row back; a wipe in between makes it fail.
Refresh(r) ==
  /\ req[r].pc = "refresh"
  /\ Answer(r, IF RowSeen(r) # NoRow THEN Ok(RowSeen(r)) ELSE Error("500"))
  /\ UNCHANGED <<epoch, loaded, games, rows, seed>>

-----------------------------------------------------------------------------
(* A loader, which is not in the repository, adds a player's line; the     *)
(* environment does not run one during a seed.                             *)

LogGame(p) ==
  /\ loaded
  /\ seed.at = "idle"
  /\ games[p] < MaxGames
  /\ games' = [games EXCEPT ![p] = @ + 1]
  /\ UNCHANGED <<epoch, loaded, rows, seed, req>>

-----------------------------------------------------------------------------
(* scripts/seed.py. _wipe deletes table by table: archetypes, seasons,     *)
(* players one row after the other, teams, and the tables between, whose   *)
(* rows no INSERT of an archetype touches. A DELETE waits for the locks on *)
(* its rows, and all is uncommitted until SeedCommitWipe.                  *)

Stored == {p \in Players : rows[p] # NoRow}

\* Mutant: the first DELETE is committed on its own.
SeedDeleteRowsCommits ==
  /\ seed.at = "idle"
  /\ epoch < MaxSeeds
  /\ seed' = [NoSeed EXCEPT !.at = "rows", !.doomed = Stored]
  /\ rows' = [p \in Players |-> NoRow]
  /\ UNCHANGED <<epoch, loaded, games, req>>

SeedDeleteRows ==
  /\ seed.at = "idle"
  /\ epoch < MaxSeeds
  /\ seed' = [NoSeed EXCEPT !.at = "rows", !.doomed = Stored]
  /\ UNCHANGED <<epoch, loaded, games, rows, req>>

\* The seasons' DELETE fails on a row committed after the first DELETE: the
\* script ends with an IntegrityError and everything is rolled back. From here
\* on no row can be committed, so the later DELETEs meet none.
SeedDeleteSeasons ==
  /\ seed.at = "rows"
  /\ ~\E r \in Requests : HoldsSeason(r)
  /\ seed' = IF Stored \subseteq seed.doomed THEN [seed EXCEPT !.at = "seasons"]
             ELSE NoSeed
  /\ UNCHANGED <<epoch, loaded, games, rows, req>>

SeedDeletePlayer(p) ==
  /\ seed.at = "seasons"
  /\ p \notin seed.gone
  /\ ~\E r \in Requests : HoldsPlayer(r) /\ req[r].who = p
  /\ seed' = [seed EXCEPT !.gone = seed.gone \cup {p}]
  /\ UNCHANGED <<epoch, loaded, games, rows, req>>

SeedDeleteTeams ==
  /\ seed.at = "seasons"
  /\ seed.gone = Players
  /\ ~\E r \in Requests : HoldsTeam(r)
  /\ seed' = [seed EXCEPT !.at = "teams"]
  /\ UNCHANGED <<epoch, loaded, games, rows, req>>

SeedCommitWipe ==
  /\ seed.at = "teams"
  /\ epoch' = epoch + 1
  /\ loaded' = FALSE
  /\ games' = NoGames
  /\ rows' = [p \in Players |-> NoRow]
  /\ seed' = [NoSeed EXCEPT !.at = "wiped"]
  /\ UNCHANGED req

\* The second transaction: players, season and stat lines appear at once.
SeedLoad ==
  /\ seed.at = "wiped"
  /\ loaded' = TRUE
  /\ games' \in [Players -> 0 .. MaxGames]
  /\ seed' = NoSeed
  /\ UNCHANGED <<epoch, rows, req>>

\* A row of the file does not parse, game facts disagree, a seed user has no
\* player, the database fails or the script is killed: the open transaction is
\* rolled back, and a wiped database stays as it is.
SeedDies ==
  /\ seed.at # "idle"
  /\ seed' = NoSeed
  /\ UNCHANGED <<epoch, loaded, games, rows, req>>

-----------------------------------------------------------------------------
(* Request and script wait for one another: the request holds what the     *)
(* wipe's next DELETE needs, and its check waits for a row the wipe has    *)
(* deleted. PostgreSQL aborts either of them (deadlock_timeout).           *)

SeedWaitsFor(r) ==
  /\ seed.at = "seasons"
  /\ \/ HoldsPlayer(r) /\ req[r].who \notin seed.gone
     \/ HoldsTeam(r) /\ seed.gone = Players

\* Mutant: the two wait on.
DeadlockUndetected(r) == FALSE /\ UNCHANGED vars

Deadlock(r) ==
  /\ ParentInDoubt(r)
  /\ SeedWaitsFor(r)
  /\ \/ Answer(r, Error("500")) /\ UNCHANGED seed
     \/ seed' = NoSeed /\ UNCHANGED req
  /\ UNCHANGED <<epoch, loaded, games, rows>>

-----------------------------------------------------------------------------
Handle(r) ==
  \/ Count(r) \/ Lookup(r)
  \/ \E p \in Players : ReadTeammate(r, p)
  \/ Compute(r) \/ Explain(r)
  \/ InsertRow(r) \/ CheckParent(r) \/ CommitRow(r)
  \/ Refresh(r)

Seed ==
  \/ SeedDeleteSeasons
  \/ \E p \in Players : SeedDeletePlayer(p)
  \/ SeedDeleteTeams \/ SeedCommitWipe \/ SeedLoad

Next ==
  \/ \E r \in Requests, p \in Players : Ask(r, p)
  \/ \E r \in Requests : Handle(r) \/ Deadlock(r)
  \/ \E p \in Players : LogGame(p)
  \/ SeedDeleteRows
  \/ Seed
  \/ SeedDies

Spec == Init /\ [][Next]_vars

\* A handler that is started runs on, and a lock it waits for is given to it
\* before a later run of the script can take it (the queue of the lock); a
\* started script runs on until it ends or dies; a cycle of waits is detected.
FairSpec ==
  /\ Spec
  /\ \A r \in Requests : SF_vars(Handle(r))
  /\ WF_vars(Seed)
  /\ WF_vars(\E r \in Requests : Deadlock(r))

-----------------------------------------------------------------------------
(* Properties.                                                             *)

Answered(r) == req[r].reply.code = "200"

\* However requests race, all successful answers about one player show the
\* same archetype: the loser of the race never shows its own computation.
AnswersAgree ==
  \A r, s \in Requests :
    Answered(r) /\ Answered(s) /\ Same(r, s)
      => req[r].reply.row = req[s].reply.row

\* A row, although computed from reads of different moments, rests on at least
\* MinGames lines of its player and on no line that was not committed.
RowsGrounded ==
  \A p \in Players : rows[p] # NoRow =>
    /\ rows[p].basis[p] >= MinGames
    /\ \A q \in Players : rows[p].basis[q] <= games[q]

\* An answer that was computed by the request itself is at least as recent as
\* the moment the request arrived.
OwnAnswerRecent ==
  \A r \in Requests :
    Answered(r) /\ req[r].reply.row.author = r
      => \A q \in Players : req[r].reply.row.basis[q] >= req[r].began[q]

\* What an archetype was computed from: committed lines, enough of them, and all
\* there were when the request came (compute_archetype and its reads).
BasisSound == RowsGrounded /\ OwnAnswerRecent

\* No row outlives its player: rows are of the current epoch, and an empty
\* database has none, in spite of requests that commit during a wipe.
NoOrphans ==
  \A p \in Players : rows[p] # NoRow => loaded /\ rows[p].epoch = epoch

\* A request that lost the race gets a 500, and a retry succeeds: the winner's
\* row is there, unless a seed has replaced the player since.
ConflictHasWinner ==
  \A r \in Requests :
    req[r].reply.code = "conflict" /\ req[r].epoch = epoch
      => rows[req[r].who] # NoRow

\* Every request is answered and every wipe ends, one way or another, although
\* the INSERT's checks (team, player, season) and the wipe's DELETEs (seasons,
\* players, teams) wait for each other's locks.
EveryoneEnds ==
  /\ \A r \in Requests : req[r].pc = "count" ~> req[r].pc = "done"
  /\ seed.at = "rows" ~> seed.at \in {"idle", "wiped"}

\* BACKEND.md: "Regenerate when a new game is logged for this player/season":
\* a request made after a game of the player was logged accounts for it.
GameRegenerates ==
  \A r \in Requests :
    Answered(r) => req[r].reply.row.basis[req[r].who] >= req[r].began[req[r].who]
=============================================================================
