---------------------------- MODULE DeployProofs ----------------------------
(***************************************************************************)
(* Proofs about Deploy, for every set of games, lines and facts, every   *)
(* first release and every number of pushes. What the migrations do to the *)
(* database is MigrationsProofs'.                                          *)
(***************************************************************************)
EXTENDS Deploy, TLAPS

DbProofs == INSTANCE MigrationsProofs

-----------------------------------------------------------------------------
(* Db and DbProofs are two instances of the same definitions.              *)

\* Both have the same types and the same notion of a release that works.
LEMMA SameData ==
  /\ Db!Revisions = DbProofs!Revisions
  /\ Db!TypeOK <=> DbProofs!TypeOK
  /\ \A r, s : Db!Works(r, s) <=> DbProofs!Works(r, s)
BY DEF Db!Revisions, Db!Head, Db!TypeOK, Db!Shape, Db!Line, Db!Loaded, Db!Works,
       DbProofs!Revisions, DbProofs!Head, DbProofs!TypeOK, DbProofs!Shape,
       DbProofs!Line, DbProofs!Loaded, DbProofs!Works

\* Both have the same steps.
LEMMA SameActions ==
  /\ \A to : Db!Upgrade(to) <=> DbProofs!Upgrade(to)
  /\ Db!Downgrade <=> DbProofs!Downgrade
  /\ \A r, l, f, noted : Db!Load(r, l, f, noted) <=> DbProofs!Load(r, l, f, noted)
<1>1. ASSUME NEW to PROVE Db!Upgrade(to) <=> DbProofs!Upgrade(to)
  BY DEF Db!Upgrade, Db!Database, Db!Becomes, Db!CanUpgrade, Db!Upgraded, Db!FactsAgree,
         Db!AllLinked, Db!Stored, Db!EachLine, Db!RenameFg, Db!KeepView, Db!CreateGames,
         Db!DropCopies, Db!OnePerPlayer, Db!SameKey, DbProofs!Upgrade, DbProofs!Database, DbProofs!Becomes,
         DbProofs!CanUpgrade, DbProofs!Upgraded, DbProofs!FactsAgree,
         DbProofs!AllLinked, DbProofs!Stored, DbProofs!EachLine, DbProofs!RenameFg,
         DbProofs!KeepView, DbProofs!CreateGames, DbProofs!DropCopies,
         DbProofs!OnePerPlayer, DbProofs!SameKey
<1>2. Db!Downgrade <=> DbProofs!Downgrade
  BY DEF Db!Downgrade, Db!Database, Db!Becomes, Db!Downgraded, Db!RenameFgBack,
         Db!DropView, Db!DropGames, Db!AddCopies, Db!EachLine,
         DbProofs!Downgrade, DbProofs!Database, DbProofs!Becomes, DbProofs!Downgraded,
         DbProofs!RenameFgBack, DbProofs!DropView, DbProofs!DropGames,
         DbProofs!AddCopies, DbProofs!EachLine
<1>3. ASSUME NEW r, NEW l, NEW f, NEW noted
      PROVE  Db!Load(r, l, f, noted) <=> DbProofs!Load(r, l, f, noted)
  BY DEF Db!Load, Db!Works, Db!Reads, Db!SameKey, DbProofs!Load, DbProofs!Works,
         DbProofs!Reads, DbProofs!SameKey
<1> QED
  BY <1>1, <1>2, <1>3

-----------------------------------------------------------------------------
(* What Deploy needs to know of its database.                              *)

DbInv == DbProofs!Inv

\* MigrationsProofs' assumption.
LEMMA NoNull ==
  /\ None \notin Facts \cup DbProofs!Line \cup DbProofs!Loaded
  /\ \A l \in Lines : l[1] \in Games
BY DeployAssumption DEF Db!Line, Db!Loaded, DbProofs!Line, DbProofs!Loaded

\* A sound database has a type and a revision.
LEMMA DbRevision == DbInv => Db!TypeOK /\ rev \in 1 .. 5
BY SameData DEF DbInv, DbProofs!Inv, DbProofs!TypeOK, DbProofs!Revisions, DbProofs!Head

\* What MigrationsProofs says of an upgrade,
LEMMA DbUpgrade ==
  ASSUME DbInv, NEW to \in 1 .. 5, Db!Upgrade(to)
  PROVE  DbInv' /\ rev' = to /\ to > rev
<1>1. DbProofs!Upgrade(to) /\ to \in DbProofs!Revisions
  BY SameActions DEF DbProofs!Revisions, DbProofs!Head
<1>2. DbInv'
  BY <1>1, NoNull, DbProofs!UpgradeStep DEF DbInv
<1>3. rev' = to /\ to > rev
  BY <1>1 DEF DbProofs!Upgrade
<1> QED
  BY <1>2, <1>3

\* a downgrade,
LEMMA DbDowngrade ==
  ASSUME DbInv, Db!Downgrade
  PROVE  DbInv' /\ rev' = rev - 1
<1>1. DbProofs!Downgrade
  BY SameActions
<1>2. DbInv'
  BY <1>1, NoNull, DbProofs!DowngradeStep DEF DbInv
<1> QED
  BY <1>1, <1>2 DEF DbProofs!Downgrade

\* a load,
LEMMA DbLoad ==
  ASSUME DbInv, NEW r \in 1 .. 5, NEW l \in Lines, NEW f \in Facts, Db!Load(r, l, f, FALSE)
  PROVE  DbInv' /\ rev' = rev
<1>1. DbProofs!Load(r, l, f, FALSE) /\ r \in DbProofs!Revisions
  BY SameActions, SameData DEF DbProofs!Revisions, DbProofs!Head
<1>2. DbInv'
  BY <1>1, NoNull, DbProofs!LoadStep DEF DbInv
<1> QED
  BY <1>1, <1>2 DEF DbProofs!Load

\* and a step that does not touch the database.
LEMMA DbUnchanged == DbInv /\ UNCHANGED dbVars => DbInv' /\ rev' = rev
BY DEF dbVars, DbInv, DbProofs!Inv, DbProofs!TypeOK, DbProofs!Sound, DbProofs!LinesSound,
       DbProofs!LinksUnique, DbProofs!Stored, DbProofs!Database

\* From release 2 on, the schema suits its own release and the one before.
LEMMA DbWorks ==
  ASSUME DbInv, NEW r \in 2 .. 5, r <= rev, rev <= r + 1
  PROVE  Db!Works(r, shape)
<1>1. rev \in 1 .. 5 /\ DbProofs!ShapeIs(shape, rev)
  BY DbRevision DEF DbInv, DbProofs!Inv, DbProofs!Sound, DbProofs!Database
<1>2. rev = r \/ rev = r + 1
  BY <1>1
<1> QED
  BY <1>1, <1>2 DEF Db!Works, DbProofs!ShapeIs

-----------------------------------------------------------------------------
(* The inductive invariant.                                                *)

\* A function that is not updating serves what it was last told to, or was
\* left at what it served.
StatusInv == \A f \in Functions : fn[f].status # "updating" => fn[f].serving = fn[f].target

\* Function f was told to run the image, and Lambda may have rejected it.
Asked(f, image) == fn[f].target = image \/ fn[f].status = "failed"

\* How far the run in progress has got with the functions.
ProgressInv ==
  /\ At("update chat") => Asked("api", run.image)
  /\ At("wait") => \A f \in Functions : Asked(f, run.image)
  /\ run.at \in {"health", "success"} =>
       \A f \in Functions : fn[f].status = "ready" /\ fn[f].target = run.image
  /\ At("success") => \A f \in Functions : f \notin run.image.bad
  /\ At("rollback chat") => Asked("api", run.live["api"])
  /\ At("rollback wait") => \A f \in Functions : Asked(f, run.live[f])
  /\ At("rolled back") =>
       \A f \in Functions : fn[f].status = "ready" /\ fn[f].target = run.live[f]

\* An image that may go live needs no later schema than the stored one, and is
\* not older than the first release.
Fits(image) == First <= image.rel /\ image.rel <= rev

ReleaseInv ==
  /\ First <= rev
  /\ \A f \in Functions : Fits(fn[f].serving) /\ Fits(fn[f].target)
  /\ run.at \in Steps \ {"gate", "record"} => \A f \in Functions : Fits(run.live[f])
  /\ run.at \in {"update api", "update chat", "wait", "health"} => Fits(run.image)

Inv == DbInv /\ TypeOK /\ StatusInv /\ ProgressInv /\ ReleaseInv

-----------------------------------------------------------------------------
(* Lemmas about the helpers of the actions.                                *)

RunSet == [at : Steps \cup Ends, image : Image, live : [Functions -> Image]]
FnSet == [Functions -> [serving : Image, target : Image,
                        status : {"ready", "updating", "failed"}]]

\* A run that goes to a step keeps its image and what it recorded.
LEMMA GoToFacts ==
  ASSUME run \in RunSet, NEW step \in Steps \cup Ends, GoTo(step)
  PROVE  run' \in RunSet /\ run'.at = step /\ run'.image = run.image /\ run'.live = run.live
BY DEF RunSet, GoTo

\* update-function-code changes what one function is told to run.
LEMMA SetCodeFacts ==
  ASSUME fn \in FnSet, NEW f \in Functions, NEW image \in Image, SetCode(f, image)
  PROVE  /\ fn' \in FnSet
         /\ fn'[f].target = image /\ fn'[f].serving = fn[f].serving
         /\ fn'[f].status = "updating"
         /\ \A g \in Functions \ {f} : fn'[g] = fn[g]
<1> DEFINE h == [fn EXCEPT ![f].target = image]
<1>1. /\ h \in FnSet /\ h[f].target = image /\ h[f].serving = fn[f].serving
      /\ \A g \in Functions \ {f} : h[g] = fn[g]
  BY DEF FnSet
<1>2. fn' = [h EXCEPT ![f].status = "updating"]
  BY DEF SetCode
<1> HIDE DEF h
<1> QED
  BY <1>1, <1>2 DEF FnSet

\* Releases are numbered by the revisions.
LEMMA Names ==
  /\ Db!Revisions = 1 .. 5
  /\ RunSet = [at : Steps \cup Ends, image : Image, live : [Functions -> Image]]
  /\ \A image \in Image : image.rel \in 1 .. 5
BY DeployAssumption DEF Db!Revisions, Db!Head, RunSet, Image

-----------------------------------------------------------------------------
(* The initial state.                                                      *)

\* The database starts as an empty one at the first release's revision.
LEMMA InitDb == Init => DbInv
<1> SUFFICES ASSUME Init PROVE DbInv
  OBVIOUS
<1>1. First \in DbProofs!Revisions
  BY DeployAssumption DEF DbProofs!Revisions, DbProofs!Head
<1>2. Db!Fresh = DbProofs!Fresh
  BY DEF Db!Fresh, DbProofs!Fresh, Db!Empty, DbProofs!Empty, Db!Revisions, DbProofs!Revisions,
         Db!Head, DbProofs!Head, Db!Upgraded, DbProofs!Upgraded,
         Db!EachLine, Db!RenameFg, Db!KeepView, Db!CreateGames, Db!DropCopies,
         DbProofs!EachLine, DbProofs!RenameFg, DbProofs!KeepView, DbProofs!CreateGames,
         DbProofs!DropCopies, Db!Stored, DbProofs!Stored, Db!InitialShape, DbProofs!InitialShape
<1>3. rev = First /\ shape = DbProofs!Fresh[First].shape
  BY <1>2 DEF Init
<1>4. DbProofs!ShapeIs(shape, rev) /\ shape \in DbProofs!Shape
  BY <1>1, <1>3, NoNull, DbProofs!FreshShape DEF DbProofs!ShapeIs
<1>5. /\ game = [g \in Games |-> None]
      /\ line = [l \in Lines |-> None]
      /\ told = [l \in Lines |-> None]
  BY SameData DEF Init
<1>6. DbProofs!TypeOK
  BY <1>1, <1>3, <1>4, <1>5 DEF DbProofs!TypeOK
<1>7. DbProofs!Sound(DbProofs!Database, rev)
  BY <1>4, <1>5 DEF DbProofs!Sound, DbProofs!Database, DbProofs!Databases,
                     DbProofs!LinesSound, DbProofs!LinksUnique, DbProofs!Stored
<1> QED
  BY <1>6, <1>7 DEF DbInv, DbProofs!Inv

\* Before any push both functions serve the first release.
LEMMA InitInv == Init => Inv
<1> SUFFICES ASSUME Init PROVE Inv
  OBVIOUS
<1> DEFINE image == [rel |-> First, bad |-> {}]
<1>1. DbInv /\ Db!TypeOK /\ rev = First /\ First \in 1 .. 5
  BY InitDb, DbRevision, DeployAssumption DEF Init
<1>2. image \in Image
  BY <1>1, Names DEF Image
<1>3. /\ run = [at |-> "success", image |-> image, live |-> [f \in Functions |-> image]]
      /\ fn = [f \in Functions |->
                 [serving |-> image, target |-> image, status |-> "ready"]]
      /\ main = First /\ pushes = 0 /\ pending = None /\ tasks = {}
  BY DEF Init
<1>4. image.rel = First /\ image.bad = {}
  OBVIOUS
<1> HIDE DEF image
<1>5. TypeOK
  BY <1>1, <1>2, <1>3, Names DEF TypeOK, Ends
<1>6. StatusInv
  BY <1>3 DEF StatusInv
<1>7. ProgressInv
  BY <1>3, <1>4 DEF ProgressInv, At
<1>8. ReleaseInv
  BY <1>1, <1>3, <1>4 DEF ReleaseInv, Fits, Steps
<1> QED
  BY <1>1, <1>5, <1>6, <1>7, <1>8 DEF Inv

-----------------------------------------------------------------------------
(* The steps that change nothing but where the run is.                     *)

\* A step of the run alone leaves database and functions sound,
LEMMA RunMoves ==
  ASSUME Inv, run' \in RunSet, UNCHANGED <<dbVars, main, pushes, pending, fn>>,
         tasks' \subseteq 1 .. 5
  PROVE  DbInv' /\ TypeOK' /\ StatusInv' /\ rev' = rev /\ fn' = fn
<1>1. DbInv' /\ rev' = rev /\ Db!TypeOK'
  BY DbUnchanged, DbRevision DEF Inv, DbInv, dbVars, Db!TypeOK
<1>2. TypeOK'
  BY <1>1, Names DEF Inv, TypeOK
<1>3. StatusInv'
  BY DEF Inv, StatusInv
<1> QED
  BY <1>1, <1>2, <1>3

\* so does one that only goes on,
LEMMA GoesTo ==
  ASSUME Inv, NEW step \in Steps \cup Ends, GoTo(step),
         UNCHANGED <<dbVars, main, pushes, pending, fn>>, tasks' \subseteq 1 .. 5
  PROVE  /\ DbInv' /\ TypeOK' /\ StatusInv' /\ rev' = rev /\ fn' = fn
         /\ run'.at = step /\ run'.image = run.image /\ run'.live = run.live
<1>1. run \in RunSet
  BY Names DEF Inv, TypeOK
<1> QED
  BY <1>1, GoToFacts, RunMoves

\* Nothing is claimed of a run that has ended without a success.
LEMMA GivesUp ==
  ASSUME Inv, NEW step \in {"failed", "cancelled", "rollback failed", "conflict"}, GoTo(step),
         UNCHANGED <<dbVars, main, pushes, pending, fn>>, tasks' \subseteq 1 .. 5
  PROVE  Inv'
<1>1. step \in Steps \cup Ends
  BY DEF Ends
<1>2. /\ DbInv' /\ TypeOK' /\ StatusInv' /\ rev' = rev /\ fn' = fn
      /\ run'.at = step
  BY <1>1, GoesTo
<1>3. ProgressInv'
  BY <1>2 DEF ProgressInv, At
<1>4. ReleaseInv'
  BY <1>2 DEF Inv, ReleaseInv, Fits, Steps
<1> QED
  BY <1>2, <1>3, <1>4 DEF Inv

\* Nor of one that starts to roll back or has only built, but that the recorded
\* images may go live.
LEMMA GoesOn ==
  ASSUME Inv, run.at \in Steps \ {"gate", "record"},
         NEW step \in {"migrate", "migrating", "rollback api"}, GoTo(step),
         UNCHANGED <<dbVars, main, pushes, pending, fn>>, tasks' \subseteq 1 .. 5
  PROVE  Inv'
<1>1. step \in Steps \cup Ends
  BY DEF Steps
<1>2. /\ DbInv' /\ TypeOK' /\ StatusInv' /\ rev' = rev /\ fn' = fn
      /\ run'.at = step /\ run'.live = run.live
  BY <1>1, GoesTo
<1>3. ProgressInv'
  BY <1>2 DEF ProgressInv, At
<1>4. ReleaseInv'
  BY <1>2 DEF Inv, ReleaseInv, Fits
<1> QED
  BY <1>2, <1>3, <1>4 DEF Inv

\* Tasks are for revisions.
LEMMA TasksKept == Inv => tasks \subseteq 1 .. 5
BY Names DEF Inv, TypeOK

\* The gate lets the run on or ends it.
LEMMA GateStep == ASSUME Inv, Gate PROVE Inv'
<1>1. CASE GoTo("failed")
  BY <1>1, GivesUp, TasksKept DEF Gate
<1>2. CASE GoTo("record")
  <2>1. "record" \in Steps \cup Ends
    BY DEF Steps
  <2>2. /\ DbInv' /\ TypeOK' /\ StatusInv' /\ rev' = rev /\ fn' = fn
        /\ run'.at = "record"
    BY <1>2, <2>1, GoesTo, TasksKept DEF Gate
  <2>3. ProgressInv'
    BY <2>2 DEF ProgressInv, At
  <2>4. ReleaseInv'
    BY <2>2 DEF Inv, ReleaseInv, Fits
  <2> QED
    BY <2>2, <2>3, <2>4 DEF Inv
<1> QED
  BY <1>1, <1>2 DEF Gate

\* What a function was last told to run may go live again.
LEMMA RecordStep == ASSUME Inv, Record PROVE Inv'
<1>1. CASE GoTo("failed")
  BY <1>1, GivesUp, TasksKept DEF Record
<1>2. CASE run' = [run EXCEPT !.at = "build", !.live = [f \in Functions |-> fn[f].target]]
  <2>1. fn \in FnSet /\ run \in RunSet
    BY Names DEF Inv, TypeOK, FnSet
  <2>2. [f \in Functions |-> fn[f].target] \in [Functions -> Image]
    BY <2>1 DEF FnSet
  <2>3. run' \in RunSet /\ run'.at = "build" /\ run'.live = [f \in Functions |-> fn[f].target]
    BY <1>2, <2>1, <2>2 DEF RunSet, Steps
  <2>4. DbInv' /\ TypeOK' /\ StatusInv' /\ rev' = rev /\ fn' = fn
    BY <2>3, RunMoves, TasksKept DEF Record
  <2>5. ProgressInv'
    BY <2>3 DEF ProgressInv, At
  <2>6. ReleaseInv'
    BY <2>3, <2>4 DEF Inv, ReleaseInv, Fits
  <2> QED
    BY <2>4, <2>5, <2>6 DEF Inv
<1> QED
  BY <1>1, <1>2 DEF Record

\* A build ends or fails.
LEMMA BuildStep == ASSUME Inv, Build PROVE Inv'
<1>1. run.at \in Steps \ {"gate", "record"}
  BY DEF Build, At, Steps
<1> QED
  BY <1>1, GivesUp, GoesOn, TasksKept DEF Build

\* A task is started for the image's revision.
LEMMA StartMigrationStep == ASSUME Inv, StartMigration PROVE Inv'
<1>1. run.at \in Steps \ {"gate", "record"}
  BY DEF StartMigration, At, Steps
<1>2. run.image.rel \in 1 .. 5
  BY Names DEF Inv, TypeOK
<1> QED
  BY <1>1, <1>2, GivesUp, GoesOn, TasksKept DEF StartMigration

\* The wait for a task gives up, and the task goes on.
LEMMA MigrationWaitTimesOutStep == ASSUME Inv, MigrationWaitTimesOut PROVE Inv'
BY GivesUp, TasksKept DEF MigrationWaitTimesOut

\* A cancelled run leaves everything where it is.
LEMMA CancelStep == ASSUME Inv, Cancel PROVE Inv'
BY GivesUp, TasksKept DEF Cancel

\* The waits and the health check, which read the functions.
LEMMA WaitStep == ASSUME Inv, Wait PROVE Inv'
<1>1. run.at = "wait" /\ run.at \in Steps \ {"gate", "record"}
  BY DEF Wait, At, Steps
<1>2. CASE Settled /\ GoTo("health")
  <2>1. "health" \in Steps \cup Ends
    BY DEF Steps
  <2>2. /\ DbInv' /\ TypeOK' /\ StatusInv' /\ rev' = rev /\ fn' = fn
        /\ run'.at = "health" /\ run'.image = run.image /\ run'.live = run.live
    BY <1>2, <2>1, GoesTo, TasksKept DEF Wait
  <2>3. ProgressInv'
    BY <1>1, <1>2, <2>2 DEF Inv, ProgressInv, At, Asked, Settled
  <2>4. ReleaseInv'
    BY <1>1, <2>2 DEF Inv, ReleaseInv, Fits
  <2> QED
    BY <2>2, <2>3, <2>4 DEF Inv
<1> QED
  BY <1>1, <1>2, GoesOn, TasksKept DEF Wait

\* Only an image that answers on both functions is a success.
LEMMA HealthCheckStep == ASSUME Inv, HealthCheck PROVE Inv'
<1>1. run.at = "health" /\ run.at \in Steps \ {"gate", "record"}
  BY DEF HealthCheck, At, Steps
<1>2. CASE Healthy /\ GoTo("success")
  <2>1. "success" \in Steps \cup Ends
    BY DEF Ends
  <2>2. /\ DbInv' /\ TypeOK' /\ StatusInv' /\ rev' = rev /\ fn' = fn
        /\ run'.at = "success" /\ run'.image = run.image
    BY <1>2, <2>1, GoesTo, TasksKept DEF HealthCheck
  <2>3. \A f \in Functions : fn[f].status = "ready" /\ fn[f].target = run.image
                               /\ f \notin run.image.bad
    BY <1>1, <1>2 DEF Inv, ProgressInv, StatusInv, Healthy
  <2>4. ProgressInv'
    BY <2>2, <2>3 DEF ProgressInv, At
  <2>5. ReleaseInv'
    BY <2>2 DEF Inv, ReleaseInv, Fits, Steps
  <2> QED
    BY <2>2, <2>4, <2>5 DEF Inv
<1> QED
  BY <1>1, <1>2, GoesOn, TasksKept DEF HealthCheck

\* A rollback ends when both functions have settled.
LEMMA RollbackWaitStep == ASSUME Inv, RollbackWait PROVE Inv'
<1>1. run.at = "rollback wait"
  BY DEF RollbackWait, At
<1>2. CASE Settled /\ GoTo("rolled back")
  <2>1. "rolled back" \in Steps \cup Ends
    BY DEF Ends
  <2>2. /\ DbInv' /\ TypeOK' /\ StatusInv' /\ rev' = rev /\ fn' = fn
        /\ run'.at = "rolled back" /\ run'.live = run.live
    BY <1>2, <2>1, GoesTo, TasksKept DEF RollbackWait
  <2>3. ProgressInv'
    BY <1>1, <1>2, <2>2 DEF Inv, ProgressInv, At, Asked, Settled
  <2>4. ReleaseInv'
    BY <2>2 DEF Inv, ReleaseInv, Fits, Steps
  <2> QED
    BY <2>2, <2>3, <2>4 DEF Inv
<1> QED
  BY <1>2, GivesUp, TasksKept DEF RollbackWait

-----------------------------------------------------------------------------
(* The steps before the migration that change the queue.                   *)

\* A push replaces the run that waits.
LEMMA PushStep == ASSUME Inv, NEW image \in Image, Push(image) PROVE Inv'
<1>1. DbInv' /\ rev' = rev /\ Db!TypeOK'
  BY DbUnchanged, DbRevision DEF Push, Inv, DbInv, dbVars, Db!TypeOK
<1>2. TypeOK'
  BY <1>1, Names DEF Inv, TypeOK, Push
<1>3. run' = run /\ fn' = fn
  BY DEF Push
<1>4. StatusInv' /\ ProgressInv' /\ ReleaseInv'
  BY <1>1, <1>3 DEF Inv, StatusInv, ProgressInv, ReleaseInv, At, Asked, Fits
<1> QED
  BY <1>1, <1>2, <1>4 DEF Inv

\* The run that waited begins, when the one before has ended.
LEMMA StartRunStep == ASSUME Inv, StartRun PROVE Inv'
<1>1. run \in RunSet /\ pending \in Image
  BY Names DEF Inv, TypeOK, StartRun
<1>2. run' \in RunSet /\ run'.at = "gate"
  BY <1>1 DEF StartRun, RunSet, Steps
<1>3. DbInv' /\ rev' = rev /\ Db!TypeOK'
  BY DbUnchanged, DbRevision DEF StartRun, Inv, DbInv, dbVars, Db!TypeOK
<1>4. TypeOK'
  BY <1>2, <1>3, Names DEF Inv, TypeOK, StartRun
<1>5. StatusInv' /\ fn' = fn
  BY DEF Inv, StatusInv, StartRun
<1>6. ProgressInv'
  BY <1>2 DEF ProgressInv, At
<1>7. ReleaseInv'
  BY <1>2, <1>3, <1>5 DEF Inv, ReleaseInv, Fits
<1> QED
  BY <1>3, <1>4, <1>5, <1>6, <1>7 DEF Inv

-----------------------------------------------------------------------------
(* The migration.                                                          *)

\* The schema only gets later, and the run that hears of it goes on with an
\* image that has just been migrated to.
LEMMA MigrationEndsStep == ASSUME Inv, NEW r \in tasks, MigrationEnds(r) PROVE Inv'
<1>1. /\ r \in 1 .. 5 /\ run \in RunSet /\ rev \in 1 .. 5
      /\ tasks' \subseteq tasks /\ UNCHANGED <<main, pushes, pending, fn>>
  BY TasksKept, Names, DbRevision DEF Inv, TypeOK, MigrationEnds
<1> DEFINE Passed == Reports(r, TRUE)
           Failed == Reports(r, FALSE)
<1>0. \/ rev = r /\ UNCHANGED dbVars /\ Passed
      \/ Db!Upgrade(r) /\ Passed
      \/ UNCHANGED dbVars /\ Failed
  BY DEF MigrationEnds
<1>9. ASSUME At("migrating"), run.image.rel = r
      PROVE  (Passed <=> GoTo("update api")) /\ (Failed <=> GoTo("failed"))
  BY <1>9, Zenon DEF Reports, GoTo
<1>10. ASSUME ~(At("migrating") /\ run.image.rel = r)
       PROVE  (Passed <=> UNCHANGED run) /\ (Failed <=> UNCHANGED run)
  BY <1>10, Zenon DEF Reports
<1> HIDE DEF Passed, Failed
<1>2. /\ DbInv' /\ rev' \in 1 .. 5 /\ rev' >= rev
      /\ (Passed /\ rev' = r) \/ Failed
  <2>1. CASE rev = r /\ UNCHANGED dbVars /\ Passed
    <3>1. DbInv' /\ rev' = rev
      BY <2>1, DbUnchanged DEF Inv
    <3> QED
      BY <1>1, <2>1, <3>1
  <2>2. CASE Db!Upgrade(r) /\ Passed
    <3>1. DbInv' /\ rev' = r /\ r > rev
      BY <1>1, <2>2, DbUpgrade DEF Inv
    <3> QED
      BY <1>1, <2>2, <3>1
  <2>3. CASE UNCHANGED dbVars /\ Failed
    <3>1. DbInv' /\ rev' = rev
      BY <2>3, DbUnchanged DEF Inv
    <3> QED
      BY <1>1, <2>3, <3>1
  <2> QED
    BY <1>0, <2>1, <2>2, <2>3
<1>3. \A image : Fits(image) /\ image \in Image => Fits(image)'
  <2> SUFFICES ASSUME NEW image, Fits(image), image \in Image PROVE Fits(image)'
    OBVIOUS
  <2> QED
    BY <1>1, <1>2, Names, DeployAssumption DEF Fits
<1>4. /\ run' \in RunSet /\ run'.image = run.image /\ run'.live = run.live
      /\ \/ run' = run
         \/ run.at = "migrating" /\ run'.at = "failed"
         \/ run.at = "migrating" /\ run'.at = "update api" /\ run.image.rel = rev'
  <2>1. CASE UNCHANGED run
    BY <1>1, <2>1
  <2>2. CASE At("migrating") /\ run.image.rel = r /\ rev' = r /\ GoTo("update api")
    <3>1. "update api" \in Steps \cup Ends
      BY DEF Steps
    <3> QED
      BY <1>1, <2>2, <3>1, GoToFacts DEF At
  <2>3. CASE At("migrating") /\ GoTo("failed")
    <3>1. "failed" \in Steps \cup Ends
      BY DEF Ends
    <3> QED
      BY <1>1, <2>3, <3>1, GoToFacts DEF At
  <2> QED
    BY <1>2, <1>9, <1>10, <2>1, <2>2, <2>3
<1>5. TypeOK'
  <2>1. Db!TypeOK'
    BY <1>2, SameData DEF DbInv, DbProofs!Inv, DbProofs!TypeOK, Db!TypeOK, DbProofs!Revisions,
       DbProofs!Head, Db!Revisions, Db!Head, Db!Shape, DbProofs!Shape, Db!Line, DbProofs!Line,
       Db!Loaded, DbProofs!Loaded
  <2> QED
    BY <1>1, <1>4, <2>1, Names DEF Inv, TypeOK
<1>6. StatusInv'
  BY <1>1 DEF Inv, StatusInv
<1>7. ProgressInv'
  BY <1>1, <1>4 DEF Inv, ProgressInv, At, Asked
<1>8. ReleaseInv'
  <2>1. First <= rev' /\ First <= rev
    <3>1. First \in 1 .. 5 /\ First <= rev
      BY DeployAssumption DEF Inv, ReleaseInv
    <3> QED
      BY <1>1, <1>2, <3>1
  <2>2. fn \in FnSet
    BY DEF Inv, TypeOK, FnSet
  <2>3. \A f \in Functions : Fits(fn[f].serving)' /\ Fits(fn[f].target)'
    BY <1>1, <1>3, <2>2 DEF Inv, ReleaseInv, Fits, FnSet
  <2>4. run'.at \in Steps \ {"gate", "record"} => \A f \in Functions : Fits(run.live[f])'
    BY <1>1, <1>3, <1>4 DEF Inv, ReleaseInv, Fits, RunSet, Steps
  <2>5. run'.at \in {"update api", "update chat", "wait", "health"} => Fits(run.image)'
    <3>1. run.image \in Image /\ First <= First /\ rev' <= rev'
      BY <1>1, <1>2, DeployAssumption DEF RunSet
    <3>2. CASE run' = run
      BY <1>3, <3>1, <3>2 DEF Inv, ReleaseInv, Fits
    <3>3. CASE run'.at = "update api" /\ run.image.rel = rev'
      BY <1>4, <2>1, <3>1, <3>3 DEF Fits
    <3> QED
      BY <1>4, <3>2, <3>3
  <2> QED
    BY <1>4, <2>1, <2>3, <2>4, <2>5 DEF ReleaseInv, Fits
<1> QED
  BY <1>2, <1>5, <1>6, <1>7, <1>8 DEF Inv

-----------------------------------------------------------------------------
(* The functions.                                                          *)

\* An image that may go live is set.
LEMMA CodeSet ==
  ASSUME Inv, NEW f \in Functions, NEW image \in Image, Fits(image), SetCode(f, image),
         NEW step \in Steps \cup Ends, GoTo(step),
         UNCHANGED <<dbVars, main, pushes, pending, tasks>>
  PROVE  /\ DbInv' /\ TypeOK' /\ StatusInv' /\ rev' = rev
         /\ run'.at = step /\ run'.image = run.image /\ run'.live = run.live
         /\ fn'[f].target = image /\ fn'[f].status = "updating"
         /\ \A g \in Functions \ {f} : fn'[g] = fn[g]
         /\ \A g \in Functions : Fits(fn[g].serving)' /\ Fits(fn[g].target)'
<1>1. fn \in FnSet /\ run \in RunSet
  BY Names DEF Inv, TypeOK, FnSet
<1>2. /\ fn' \in FnSet
      /\ fn'[f].target = image /\ fn'[f].serving = fn[f].serving
      /\ fn'[f].status = "updating"
      /\ \A g \in Functions \ {f} : fn'[g] = fn[g]
  BY <1>1, SetCodeFacts
<1>3. run' \in RunSet /\ run'.at = step /\ run'.image = run.image /\ run'.live = run.live
  BY <1>1, GoToFacts
<1>4. DbInv' /\ rev' = rev /\ Db!TypeOK'
  BY DbUnchanged, DbRevision DEF Inv, DbInv, dbVars, Db!TypeOK
<1>5. TypeOK'
  BY <1>2, <1>3, <1>4, Names DEF Inv, TypeOK, FnSet
<1>6. StatusInv'
  BY <1>2 DEF Inv, StatusInv
<1>7. \A g \in Functions : Fits(fn[g].serving)' /\ Fits(fn[g].target)'
  BY <1>2, <1>4 DEF Inv, ReleaseInv, Fits
<1> QED
  BY <1>2, <1>3, <1>4, <1>5, <1>6, <1>7

\* The first function is updated, or refuses.
LEMMA UpdateApiStep == ASSUME Inv, Update("api", "update chat") PROVE Inv'
<1>1. run.at = "update api" /\ run.at \in Steps \ {"gate", "record"}
  BY DEF Update, At, UpdateStep, Steps
<1>2. CASE SetCode("api", run.image) /\ GoTo("update chat")
  <2>1. /\ "update chat" \in Steps \cup Ends /\ "api" \in Functions
        /\ run.image \in Image /\ Fits(run.image)
    BY <1>1 DEF Steps, Functions, Inv, ReleaseInv, TypeOK
  <2>2. /\ DbInv' /\ TypeOK' /\ StatusInv' /\ rev' = rev
        /\ run'.at = "update chat" /\ run'.image = run.image /\ run'.live = run.live
        /\ fn'["api"].target = run.image
        /\ \A g \in Functions : Fits(fn[g].serving)' /\ Fits(fn[g].target)'
    BY <1>2, <2>1, CodeSet DEF Update
  <2>3. ProgressInv'
    BY <2>2 DEF ProgressInv, At, Asked
  <2>4. ReleaseInv'
    BY <1>1, <2>1, <2>2 DEF Inv, ReleaseInv, Fits
  <2> QED
    BY <2>2, <2>3, <2>4 DEF Inv
<1>3. CASE UNCHANGED fn /\ GoTo("rollback api")
  BY <1>1, <1>3, GoesOn, TasksKept DEF Update
<1> QED
  BY <1>2, <1>3 DEF Update

\* So is the second.
LEMMA UpdateChatStep == ASSUME Inv, Update("chat", "wait") PROVE Inv'
<1>1. run.at = "update chat" /\ run.at \in Steps \ {"gate", "record"}
  BY DEF Update, At, UpdateStep, Steps
<1>2. CASE SetCode("chat", run.image) /\ GoTo("wait")
  <2>1. /\ "wait" \in Steps \cup Ends /\ "chat" \in Functions
        /\ run.image \in Image /\ Fits(run.image) /\ Asked("api", run.image)
    BY <1>1 DEF Steps, Functions, Inv, ReleaseInv, ProgressInv, At, TypeOK
  <2>2. /\ DbInv' /\ TypeOK' /\ StatusInv' /\ rev' = rev
        /\ run'.at = "wait" /\ run'.image = run.image /\ run'.live = run.live
        /\ fn'["chat"].target = run.image
        /\ \A g \in Functions \ {"chat"} : fn'[g] = fn[g]
        /\ \A g \in Functions : Fits(fn[g].serving)' /\ Fits(fn[g].target)'
    BY <1>2, <2>1, CodeSet DEF Update
  <2>3. ProgressInv'
    BY <2>1, <2>2 DEF ProgressInv, At, Asked, Functions
  <2>4. ReleaseInv'
    BY <1>1, <2>1, <2>2 DEF Inv, ReleaseInv, Fits
  <2> QED
    BY <2>2, <2>3, <2>4 DEF Inv
<1>3. CASE UNCHANGED fn /\ GoTo("rollback api")
  BY <1>1, <1>3, GoesOn, TasksKept DEF Update
<1> QED
  BY <1>2, <1>3 DEF Update

\* The first function is taken back, or refuses.
LEMMA RollbackApiStep == ASSUME Inv, Rollback("api", "rollback chat") PROVE Inv'
<1>1. run.at = "rollback api" /\ run.at \in Steps \ {"gate", "record"}
  BY DEF Rollback, At, RollbackStep, Steps
<1>2. CASE SetCode("api", run.live["api"]) /\ GoTo("rollback chat")
  <2>1. /\ "rollback chat" \in Steps \cup Ends /\ "api" \in Functions
        /\ run.live["api"] \in Image /\ Fits(run.live["api"])
    BY <1>1 DEF Steps, Functions, Inv, ReleaseInv, TypeOK
  <2>2. /\ DbInv' /\ TypeOK' /\ StatusInv' /\ rev' = rev
        /\ run'.at = "rollback chat" /\ run'.live = run.live
        /\ fn'["api"].target = run.live["api"]
        /\ \A g \in Functions : Fits(fn[g].serving)' /\ Fits(fn[g].target)'
    BY <1>2, <2>1, CodeSet DEF Rollback
  <2>3. ProgressInv'
    BY <2>2 DEF ProgressInv, At, Asked
  <2>4. ReleaseInv'
    BY <1>1, <2>1, <2>2 DEF Inv, ReleaseInv, Fits
  <2> QED
    BY <2>2, <2>3, <2>4 DEF Inv
<1> QED
  BY <1>2, GivesUp, TasksKept DEF Rollback

\* So is the second.
LEMMA RollbackChatStep == ASSUME Inv, Rollback("chat", "rollback wait") PROVE Inv'
<1>1. run.at = "rollback chat" /\ run.at \in Steps \ {"gate", "record"}
  BY DEF Rollback, At, RollbackStep, Steps
<1>2. CASE SetCode("chat", run.live["chat"]) /\ GoTo("rollback wait")
  <2>1. /\ "rollback wait" \in Steps \cup Ends /\ "chat" \in Functions
        /\ run.live["chat"] \in Image /\ Fits(run.live["chat"])
        /\ Asked("api", run.live["api"])
    BY <1>1 DEF Steps, Functions, Inv, ReleaseInv, ProgressInv, At, TypeOK
  <2>2. /\ DbInv' /\ TypeOK' /\ StatusInv' /\ rev' = rev
        /\ run'.at = "rollback wait" /\ run'.live = run.live
        /\ fn'["chat"].target = run.live["chat"]
        /\ \A g \in Functions \ {"chat"} : fn'[g] = fn[g]
        /\ \A g \in Functions : Fits(fn[g].serving)' /\ Fits(fn[g].target)'
    BY <1>2, <2>1, CodeSet DEF Rollback
  <2>3. ProgressInv'
    BY <2>1, <2>2 DEF ProgressInv, At, Asked, Functions
  <2>4. ReleaseInv'
    BY <1>1, <2>1, <2>2 DEF Inv, ReleaseInv, Fits
  <2> QED
    BY <2>2, <2>3, <2>4 DEF Inv
<1> QED
  BY <1>2, GivesUp, TasksKept DEF Rollback

\* An update that settles serves what it was told to, or leaves the function failed.
LEMMA SettleFacts ==
  ASSUME fn \in FnSet, NEW f \in Functions, Settle(f)
  PROVE  /\ fn' \in FnSet
         /\ \A g \in Functions \ {f} : fn'[g] = fn[g]
         /\ fn'[f].serving = fn'[f].target
         /\ fn'[f].serving \in {fn[f].serving, fn[f].target}
         /\ fn'[f].status \in {"ready", "failed"}
         /\ fn'[f].status = "failed" \/ fn'[f].target = fn[f].target
<1>1. CASE fn' = [fn EXCEPT ![f].serving = fn[f].target, ![f].status = "ready"]
  <2> DEFINE h == [fn EXCEPT ![f].serving = fn[f].target]
  <2>1. /\ h \in FnSet /\ h[f].serving = fn[f].target /\ h[f].target = fn[f].target
        /\ \A g \in Functions \ {f} : h[g] = fn[g]
    BY DEF FnSet
  <2>2. fn' = [h EXCEPT ![f].status = "ready"]
    BY <1>1
  <2> HIDE DEF h
  <2> QED
    BY <2>1, <2>2 DEF FnSet
<1>2. CASE fn' = [fn EXCEPT ![f].target = fn[f].serving, ![f].status = "failed"]
  <2> DEFINE h == [fn EXCEPT ![f].target = fn[f].serving]
  <2>1. /\ h \in FnSet /\ h[f].serving = fn[f].serving /\ h[f].target = fn[f].serving
        /\ \A g \in Functions \ {f} : h[g] = fn[g]
    BY DEF FnSet
  <2>2. fn' = [h EXCEPT ![f].status = "failed"]
    BY <1>2
  <2> HIDE DEF h
  <2> QED
    BY <2>1, <2>2 DEF FnSet
<1> QED
  BY <1>1, <1>2 DEF Settle

\* Lambda settles an update in its own time.
LEMMA SettleStep == ASSUME Inv, NEW f \in Functions, Settle(f) PROVE Inv'
<1>1. fn \in FnSet /\ fn[f].status = "updating"
  BY DEF Inv, TypeOK, FnSet, Settle
<1>2. /\ fn' \in FnSet
      /\ \A g \in Functions \ {f} : fn'[g] = fn[g]
      /\ fn'[f].serving = fn'[f].target
      /\ fn'[f].serving \in {fn[f].serving, fn[f].target}
      /\ fn'[f].status = "failed" \/ fn'[f].target = fn[f].target
  BY <1>1, SettleFacts
<1>3. DbInv' /\ rev' = rev /\ Db!TypeOK' /\ run' = run
  BY DbUnchanged, DbRevision DEF Settle, Inv, DbInv, dbVars, Db!TypeOK
<1>4. TypeOK'
  BY <1>2, <1>3, Names DEF Inv, TypeOK, FnSet, Settle
<1>5. StatusInv'
  BY <1>2 DEF Inv, StatusInv
<1>6. \A g \in Functions : \/ fn'[g].status = "failed"
                             \/ (fn'[g].target = fn[g].target /\ fn[g].status # "failed")
                             \/ fn'[g] = fn[g]
  BY <1>1, <1>2
<1>7. ~(run.at \in {"health", "success", "rolled back"})
  BY <1>1 DEF Inv, ProgressInv, At
<1>8. ProgressInv'
  <2>1. At("update chat")' => Asked("api", run.image)'
    BY <1>3, <1>6 DEF Inv, ProgressInv, At, Asked, Functions
  <2>2. At("wait")' => \A g \in Functions : Asked(g, run.image)'
    BY <1>3, <1>6 DEF Inv, ProgressInv, At, Asked
  <2>3. At("rollback chat")' => Asked("api", run.live["api"])'
    BY <1>3, <1>6 DEF Inv, ProgressInv, At, Asked, Functions
  <2>4. At("rollback wait")' => \A g \in Functions : Asked(g, run.live[g])'
    BY <1>3, <1>6 DEF Inv, ProgressInv, At, Asked
  <2> QED
    BY <1>3, <1>7, <2>1, <2>2, <2>3, <2>4 DEF ProgressInv, At, Asked
<1>9. ReleaseInv'
  BY <1>2, <1>3 DEF Inv, ReleaseInv, Fits
<1> QED
  BY <1>3, <1>4, <1>5, <1>8, <1>9 DEF Inv

-----------------------------------------------------------------------------
(* People and the database.                                                *)

\* A change of the database alone leaves the run and the functions as they are.
LEMMA DbChanges ==
  ASSUME Inv, DbInv', UNCHANGED <<main, pushes, pending, run, fn, tasks>>
  PROVE  Db!TypeOK' /\ TypeOK' /\ StatusInv' /\ ProgressInv'
<1>1. Db!TypeOK'
  BY SameData DEF DbInv, DbProofs!Inv, DbProofs!TypeOK, Db!TypeOK, DbProofs!Revisions,
     DbProofs!Head, Db!Revisions, Db!Head, Db!Shape, DbProofs!Shape, Db!Line, DbProofs!Line,
     Db!Loaded, DbProofs!Loaded
<1>2. TypeOK'
  BY <1>1 DEF Inv, TypeOK
<1>3. StatusInv' /\ ProgressInv'
  BY DEF Inv, StatusInv, ProgressInv, At, Asked
<1> QED
  BY <1>1, <1>2, <1>3

\* A stat line is loaded by a live release.
LEMMA LoadStep == ASSUME Inv, Load PROVE Inv'
<1>1. fn["api"].serving.rel \in 1 .. 5
  BY Names DEF Inv, TypeOK, Functions
<1>2. DbInv' /\ rev' = rev
  BY <1>1, DbLoad DEF Inv, Load
<1>3. TypeOK' /\ StatusInv' /\ ProgressInv'
  BY <1>2, DbChanges DEF Load
<1>4. ReleaseInv'
  BY <1>2 DEF Inv, ReleaseInv, Fits, Load
<1> QED
  BY <1>2, <1>3, <1>4 DEF Inv

\* The operator's precaution is what keeps the live code's schema.
LEMMA HandDowngradeStep == ASSUME Inv, HandDowngrade PROVE Inv'
<1>1. DbInv' /\ rev' = rev - 1 /\ rev \in 1 .. 5
  BY DbDowngrade, DbRevision DEF Inv, HandDowngrade
<1>2. TypeOK' /\ StatusInv' /\ ProgressInv'
  BY <1>1, DbChanges DEF HandDowngrade
<1>3. ReleaseInv'
  <2>1. /\ run' = run /\ fn' = fn /\ run.at \notin Steps
        /\ First \in 1 .. 5 /\ fn \in FnSet
    BY DeployAssumption DEF HandDowngrade, InProgress, Inv, TypeOK, FnSet
  <2>2. ASSUME NEW f \in Functions
        PROVE  /\ fn[f].target = fn[f].serving /\ First <= fn[f].serving.rel
               /\ fn[f].serving.rel < rev /\ fn[f].serving.rel \in 1 .. 5
    BY <2>1, Names DEF HandDowngrade, Inv, StatusInv, ReleaseInv, Fits, FnSet
  <2>3. \A f \in Functions : Fits(fn[f].serving)' /\ Fits(fn[f].target)'
    BY <1>1, <2>1, <2>2 DEF Fits
  <2>4. First <= rev'
    BY <1>1, <2>1, <2>2 DEF Functions
  <2>5. ~(run'.at \in Steps) /\ ~(run'.at \in {"update api", "update chat", "wait", "health"})
    BY <2>1 DEF Steps
  <2> QED
    BY <2>3, <2>4, <2>5 DEF ReleaseInv, Fits
<1> QED
  BY <1>1, <1>2, <1>3 DEF Inv

-----------------------------------------------------------------------------
\* Every state has a sound database, functions that serve what the run made
\* them, and no image ahead of the schema.
THEOREM Invariance == Spec => []Inv
<1>1. Inv /\ [Next]_vars => Inv'
  <2> SUFFICES ASSUME Inv, [Next]_vars PROVE Inv'
    OBVIOUS
  <2>1. CASE UNCHANGED vars
    <3>1. DbInv' /\ rev' = rev
      BY <2>1, DbUnchanged DEF Inv, vars
    <3>2. TypeOK' /\ StatusInv' /\ ProgressInv'
      BY <2>1, <3>1, DbChanges DEF vars
    <3>3. ReleaseInv'
      BY <2>1, <3>1 DEF Inv, ReleaseInv, Fits, vars
    <3> QED
      BY <3>1, <3>2, <3>3 DEF Inv
  <2>2. CASE Pipeline
    BY <2>2, GateStep, RecordStep, BuildStep, StartMigrationStep, MigrationWaitTimesOutStep,
       UpdateApiStep, UpdateChatStep, WaitStep, HealthCheckStep, RollbackApiStep,
       RollbackChatStep, RollbackWaitStep DEF Pipeline
  <2> QED
    BY <2>1, <2>2, PushStep, StartRunStep, MigrationEndsStep, SettleStep, CancelStep,
       LoadStep, HandDowngradeStep DEF Next
<1> QED
  BY <1>1, InitInv, PTL DEF Spec

\* Every state has its type (deploy.yml).
THEOREM TypeCorrect == Spec => []TypeOK
<1>1. Inv => TypeOK
  BY DEF Inv
<1> QED
  BY <1>1, Invariance, PTL

\* A run that succeeds leaves both functions on its image, fit for both.
THEOREM SuccessIsServed == Spec => []SuccessServes
<1>1. Inv => SuccessServes
  BY DEF Inv, StatusInv, ProgressInv, At, SuccessServes
<1> QED
  BY <1>1, Invariance, PTL

\* A rollback that reports success restored what each function ran.
THEOREM RollbackIsWhole == Spec => []RolledBackTogether
<1>1. Inv => RolledBackTogether
  BY DEF Inv, StatusInv, ProgressInv, At, RolledBackTogether
<1> QED
  BY <1>1, Invariance, PTL

\* No function is ahead of the schema, and it works with every schema up to one
\* revision ahead of it. The pipeline must not have started from release 1: the
\* second revision renames a column that release still uses.
THEOREM PreviousReleaseWorks ==
  ASSUME First >= 2
  PROVE  Spec => []ServesOneBehind
<1>1. Inv => ServesOneBehind
  <2> SUFFICES ASSUME Inv, NEW f \in Functions
               PROVE  /\ fn[f].serving.rel <= rev
                      /\ rev <= fn[f].serving.rel + 1 => Db!Works(fn[f].serving.rel, shape)
    BY DEF ServesOneBehind
  <2>1. fn[f].serving.rel \in 1 .. 5 /\ First <= fn[f].serving.rel /\ fn[f].serving.rel <= rev
    BY Names DEF Inv, TypeOK, ReleaseInv, Fits
  <2>2. fn[f].serving.rel \in 2 .. 5
    BY <2>1, DeployAssumption
  <2> QED
    BY <2>1, <2>2, DbWorks DEF Inv
<1> QED
  BY <1>1, Invariance, PTL
=============================================================================
