------------------------------- MODULE Deploy -------------------------------
(***************************************************************************)
(* The deploy pipeline (.github/workflows/deploy.yml): it gates a commit   *)
(* on CI, records the live images, builds, migrates the database, updates  *)
(* the two Lambda functions one after the other, probes both and, when a   *)
(* step from the update on failed, restores the recorded images.           *)
(*                                                                         *)
(* It runs against three things it does not control: the functions, whose  *)
(* updates are asynchronous; the migration task, which runs on when the    *)
(* run is cancelled; and the people who push, cancel a run, load stat      *)
(* lines or downgrade the schema by hand. The database is Migrations'.     *)
(***************************************************************************)
EXTENDS Naturals

CONSTANTS
  Games, Lines, Facts, None,
  First,       \* the release deployed at the start
  MaxPushes    \* bound: pushes to main

VARIABLES
  rev, shape, game, line, told,   \* the database
  main,      \* the release at the head of main
  pushes,    \* pushes so far
  pending,   \* the one run the concurrency group lets wait
  run,       \* the run in progress, or the last one
  fn,        \* the functions
  tasks      \* migration tasks that have not stopped, by release

dbVars == <<rev, shape, game, line, told>>
vars == <<dbVars, main, pushes, pending, run, fn, tasks>>

Db == INSTANCE Migrations

ASSUME DeployAssumption ==
  /\ First \in 1 .. 5
  /\ MaxPushes \in Nat
  /\ None \notin Facts \cup Db!Line \cup Db!Loaded
  /\ \A l \in Lines : l[1] \in Games

Functions == {"api", "chat"}

\* An image is its release's and may be unfit for some function, which then
\* does not answer "ok".
Image == [rel : Db!Revisions, bad : SUBSET Functions]

Steps == {"gate", "record", "build", "migrate", "migrating", "update api",
          "update chat", "wait", "health", "rollback api", "rollback chat",
          "rollback wait"}
UpdateStep == [api |-> "update api", chat |-> "update chat"]
RollbackStep == [api |-> "rollback api", chat |-> "rollback chat"]
Ends == {"success", "failed", "cancelled", "rolled back", "rollback failed",
         "conflict"}

TypeOK ==
  /\ Db!TypeOK
  /\ main \in Db!Revisions
  /\ pushes \in Nat
  /\ pending \in Image \cup {None}
  /\ run \in [at : Steps \cup Ends, image : Image, live : [Functions -> Image]]
  /\ fn \in [Functions -> [serving : Image, target : Image,
                           status : {"ready", "updating", "failed"}]]
  /\ tasks \subseteq Db!Revisions

Init ==
  LET image == [rel |-> First, bad |-> {}] IN
  /\ rev = First
  /\ shape = Db!Fresh[First].shape
  /\ game = [g \in Games |-> None]
  /\ line = [l \in Lines |-> None]
  /\ told = [l \in Lines |-> None]
  /\ main = First
  /\ pushes = 0
  /\ pending = None
  /\ run = [at |-> "success", image |-> image, live |-> [f \in Functions |-> image]]
  /\ fn = [f \in Functions |->
             [serving |-> image, target |-> image, status |-> "ready"]]
  /\ tasks = {}

InProgress == run.at \in Steps
At(step) == run.at = step
GoTo(step) == run' = [run EXCEPT !.at = step]

-----------------------------------------------------------------------------
(* The steps before anything live changes: a failure just ends the run.    *)

\* A commit, perhaps a revert, reaches main: its run replaces a pending one.
Push(image) ==
  /\ pushes < MaxPushes
  /\ image.rel \in {main - 1, main, main + 1}
  /\ pushes' = pushes + 1
  /\ main' = image.rel
  /\ pending' = image
  /\ UNCHANGED <<dbVars, run, fn, tasks>>

\* cancel-in-progress is false: a run starts when the one before has ended.
StartRun ==
  /\ ~InProgress
  /\ pending # None
  /\ run' = [run EXCEPT !.at = "gate", !.image = pending]
  /\ pending' = None
  /\ UNCHANGED <<dbVars, main, pushes, fn, tasks>>

\* CI, the configuration check and the logins.
Gate ==
  /\ At("gate")
  /\ GoTo("record") \/ GoTo("failed")
  /\ UNCHANGED <<dbVars, main, pushes, pending, fn, tasks>>

\* Mutant: the query finds nothing and the step goes on.
RecordNothing ==
  /\ At("record")
  /\ run' = [run EXCEPT !.at = "build", !.live = [f \in Functions |-> None]]
  /\ UNCHANGED <<dbVars, main, pushes, pending, fn, tasks>>

\* Where a rollback goes back to: what each function was last told to run.
Record ==
  /\ At("record")
  /\ \/ run' = [run EXCEPT !.at = "build",
                           !.live = [f \in Functions |-> fn[f].target]]
     \/ GoTo("failed")
  /\ UNCHANGED <<dbVars, main, pushes, pending, fn, tasks>>

Build ==
  /\ At("build")
  /\ GoTo("migrate") \/ GoTo("failed")
  /\ UNCHANGED <<dbVars, main, pushes, pending, fn, tasks>>

\* Mutant: the task is started and not waited for.
StartMigrationNoWait ==
  /\ At("migrate")
  /\ tasks' = tasks \cup {run.image.rel}
  /\ GoTo("update api")
  /\ UNCHANGED <<dbVars, main, pushes, pending, fn>>

StartMigration ==
  /\ At("migrate")
  /\ \/ tasks' = tasks \cup {run.image.rel} /\ GoTo("migrating")
     \/ UNCHANGED tasks /\ GoTo("failed")
  /\ UNCHANGED <<dbVars, main, pushes, pending, fn>>

\* The exit code is reported to the run that waits for it, if it still does.
Reports(r, ok) ==
  IF At("migrating") /\ run.image.rel = r
  THEN GoTo(IF ok THEN "update api" ELSE "failed")
  ELSE UNCHANGED run

\* alembic upgrade head, in one transaction. A schema of a later release has a
\* revision this image does not know: the task fails.
MigrationEnds(r) ==
  /\ r \in tasks
  /\ tasks' = tasks \ {r}
  /\ \/ rev = r /\ UNCHANGED dbVars /\ Reports(r, TRUE)
     \/ Db!Upgrade(r) /\ Reports(r, TRUE)
     \/ UNCHANGED dbVars /\ Reports(r, FALSE)
  /\ UNCHANGED <<main, pushes, pending, fn>>

\* aws ecs wait tasks-stopped gives up.
MigrationWaitTimesOut ==
  /\ At("migrating")
  /\ GoTo("failed")
  /\ UNCHANGED <<dbVars, main, pushes, pending, fn, tasks>>

-----------------------------------------------------------------------------
(* The update. From here on a failure leads to the rollback.               *)

\* update-function-code is refused while the function is still updating.
Accepts(f) == fn[f].status # "updating"
SetCode(f, image) ==
  fn' = [fn EXCEPT ![f].target = image, ![f].status = "updating"]

Update(f, then) ==
  /\ At(UpdateStep[f])
  /\ \/ Accepts(f) /\ SetCode(f, run.image) /\ GoTo(then)
     \/ UNCHANGED fn /\ GoTo("rollback api")
  /\ UNCHANGED <<dbVars, main, pushes, pending, tasks>>

\* Lambda makes the update effective, or rejects the image.
Settle(f) ==
  /\ fn[f].status = "updating"
  /\ \/ fn' = [fn EXCEPT ![f].serving = fn[f].target, ![f].status = "ready"]
     \/ fn' = [fn EXCEPT ![f].target = fn[f].serving, ![f].status = "failed"]
  /\ UNCHANGED <<dbVars, main, pushes, pending, run, tasks>>

Settled == \A f \in Functions : fn[f].status = "ready"

\* Mutant: the wait has no limit.
WaitForever ==
  /\ At("wait")
  /\ Settled
  /\ GoTo("health")
  /\ UNCHANGED <<dbVars, main, pushes, pending, fn, tasks>>

\* aws lambda wait function-updated: fails on a rejected image or gives up.
Wait ==
  /\ At("wait")
  /\ \/ Settled /\ GoTo("health")
     \/ GoTo("rollback api")
  /\ UNCHANGED <<dbVars, main, pushes, pending, fn, tasks>>

\* Mutant: only the API is probed.
HealthyApiOnly == "api" \notin fn["api"].serving.bad

Healthy == \A f \in Functions : f \notin fn[f].serving.bad

\* A fit image may fail its five probes too: the database is paused.
HealthCheck ==
  /\ At("health")
  /\ \/ Healthy /\ GoTo("success")
     \/ GoTo("rollback api")
  /\ UNCHANGED <<dbVars, main, pushes, pending, fn, tasks>>

-----------------------------------------------------------------------------
(* failure() && steps.deploy.outcome != 'skipped'.                         *)

\* Mutant: the functions are swapped, both restored to the API's image.
RollbackToApiImage(f, then) ==
  /\ At(RollbackStep[f])
  /\ \/ Accepts(f) /\ SetCode(f, run.live["api"]) /\ GoTo(then)
     \/ ~Accepts(f) /\ UNCHANGED fn /\ GoTo("conflict")
     \/ UNCHANGED fn /\ GoTo("rollback failed")
  /\ UNCHANGED <<dbVars, main, pushes, pending, tasks>>

\* The shell stops at the first command that fails.
Rollback(f, then) ==
  /\ At(RollbackStep[f])
  /\ \/ Accepts(f) /\ SetCode(f, run.live[f]) /\ GoTo(then)
     \/ ~Accepts(f) /\ UNCHANGED fn /\ GoTo("conflict")
     \/ UNCHANGED fn /\ GoTo("rollback failed")
  /\ UNCHANGED <<dbVars, main, pushes, pending, tasks>>

RollbackWait ==
  /\ At("rollback wait")
  /\ \/ Settled /\ GoTo("rolled back")
     \/ GoTo("rollback failed")
  /\ UNCHANGED <<dbVars, main, pushes, pending, fn, tasks>>

-----------------------------------------------------------------------------
(* People.                                                                 *)

\* failure() is false of a cancelled run: nothing is rolled back.
Cancel ==
  /\ InProgress
  /\ GoTo("cancelled")
  /\ UNCHANGED <<dbVars, main, pushes, pending, fn, tasks>>

\* The live release's loader.
Load ==
  /\ \E l \in Lines, f \in Facts : Db!Load(fn["api"].serving.rel, l, f, FALSE)
  /\ UNCHANGED <<main, pushes, pending, run, fn, tasks>>

\* "confirm it is compatible with the restored code": after a failed deploy the
\* schema is taken back, not further than the code that is live.
HandDowngrade ==
  /\ ~InProgress /\ tasks = {}
  /\ \A f \in Functions : fn[f].status # "updating" /\ fn[f].serving.rel < rev
  /\ Db!Downgrade
  /\ UNCHANGED <<main, pushes, pending, run, fn, tasks>>

-----------------------------------------------------------------------------
Pipeline ==
  \/ Gate \/ Record \/ Build \/ StartMigration \/ MigrationWaitTimesOut
  \/ Update("api", "update chat") \/ Update("chat", "wait")
  \/ Wait \/ HealthCheck
  \/ Rollback("api", "rollback chat") \/ Rollback("chat", "rollback wait")
  \/ RollbackWait

Next ==
  \/ \E image \in Image : Push(image)
  \/ StartRun
  \/ Pipeline
  \/ \E r \in tasks : MigrationEnds(r)
  \/ \E f \in Functions : Settle(f)
  \/ Cancel
  \/ Load
  \/ HandDowngrade

Spec == Init /\ [][Next]_vars

\* The runner takes the run's steps; nothing is owed by anybody else.
FairSpec == Spec /\ WF_vars(Pipeline)

-----------------------------------------------------------------------------
(* Properties.                                                             *)

\* A run that succeeds leaves both functions on its image, and the image fit
\* for both: the health check was not answered by the image before.
SuccessServes ==
  run.at = "success" =>
    \A f \in Functions : fn[f].serving = run.image /\ f \notin run.image.bad

\* A rollback that reports success restored each function to what it ran when
\* the run recorded it, also after an earlier cancelled run left them apart.
RolledBackTogether ==
  run.at = "rolled back" => \A f \in Functions : fn[f].serving = run.live[f]

\* A function meets a schema its code cannot work with only when the schema is
\* two or more revisions ahead of it: never in the middle of a deploy that
\* goes one release further, nor after it was rolled back or cancelled.
ServesOneBehind ==
  \A f \in Functions :
    LET r == fn[f].serving.rel IN
    /\ r <= rev
    /\ rev <= r + 1 => Db!Works(r, shape)

\* Every run ends.
RunsEnd == InProgress ~> ~InProgress

\* "Restores the images recorded above": a rollback none of whose calls failed
\* for a reason outside the pipeline ends with the recorded images.
RollbackRestores ==
  run.at \in {"rolled back", "conflict"} =>
    \A f \in Functions : fn[f].serving = run.live[f]

\* README.md: a rollback is a recovery, since every migration leaves the
\* previous release working.
RollbackRecovers ==
  run.at = "rolled back" =>
    \A f \in Functions : Db!Works(fn[f].serving.rel, shape)
=============================================================================
