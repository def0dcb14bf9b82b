------------------------ MODULE ArchetypeCacheProofs ------------------------
(***************************************************************************)
(* Proofs about ArchetypeCache, for every team, any number of requests and *)
(* any bounds: the safety properties of the run archetype_cache.           *)
(***************************************************************************)
EXTENDS ArchetypeCache, TLAPS

-----------------------------------------------------------------------------
(* The inductive invariant, by the part of the state it speaks of.         *)

\* Ids never come back to life: a request's ids are of the current epoch or
\* older, and of an older one as long as the database is empty.
EpochsInv ==
  /\ \A r \in Requests : req[r].epoch <= epoch /\ (~loaded => req[r].epoch < epoch)
  /\ seed.at = "wiped" => ~loaded

Computed == {"explain", "insert", "team", "player", "season", "commit"}

\* What a handler holds between its statements, as long as its ids are alive.
Work(r) ==
  /\ req[r].pc \in Computed => req[r].todo = {}
  /\ Alive(r) /\ req[r].pc # "idle" => \A q \in Players : req[r].began[q] <= games[q]
  /\ Alive(r) /\ req[r].pc \in {"lookup", "read"} => games[req[r].who] >= MinGames
  /\ Alive(r) /\ req[r].pc \in Computed \cup {"read"} =>
       \A q \in Players \ req[r].todo :
         /\ req[r].began[q] <= req[r].seen[q] /\ req[r].seen[q] <= games[q]
         /\ q = req[r].who => req[r].seen[q] >= MinGames

WorkInv == \A r \in Requests : Work(r)

\* The locks of an INSERT: no team is deleted under it, so its ids stay alive,
\* and its row is the only one of its player and season.
Locked(r) ==
  /\ HoldsTeam(r) => Alive(r) /\ seed.at # "teams"
  /\ Inserted(r) /\ Alive(r) => rows[req[r].who] = NoRow
  /\ \A s \in Requests : Inserted(r) /\ Inserted(s) /\ Same(r, s) => r = s

LocksInv == \A r \in Requests : Locked(r)

\* A stored row was computed by a request that has asked, and from lines at
\* least as recent as its question.
AuthorsInv ==
  \A p \in Players : rows[p] # NoRow =>
    /\ req[rows[p].author].pc # "idle"
    /\ \A q \in Players : req[rows[p].author].began[q] <= rows[p].basis[q]

\* An answer is given once, and in its epoch it is the row that is stored.
Replied(r) ==
  /\ req[r].reply.code # "none" => req[r].pc = "done"
  /\ Answered(r) /\ req[r].epoch = epoch => rows[req[r].who] = req[r].reply.row

RepliesInv == \A r \in Requests : Replied(r)

Inv ==
  /\ TypeOK /\ EpochsInv /\ WorkInv /\ LocksInv /\ AuthorsInv /\ RepliesInv
  /\ NoOrphans /\ RowsGrounded /\ OwnAnswerRecent /\ AnswersAgree
  /\ ConflictHasWinner

Request ==
  [pc : {"idle", "count", "lookup", "read", "explain", "insert", "team", "player",
         "season", "commit", "refresh", "done"},
   who : Players, epoch : Nat, began : Basis, todo : SUBSET Players,
   seen : Basis, reply : Reply]

\* A request is a record with these fields, and its reply one of two kinds.
LEMMA RequestType ==
  ASSUME TypeOK, NEW r \in Requests
  PROVE  /\ req \in [Requests -> Request]
         /\ req[r] \in Request
         /\ Answered(r) => req[r].reply.row \in Row
BY DEF TypeOK, Request, Reply, Answered

\* What an answer leaves of the requests.
LEMMA AnswerStep ==
  ASSUME TypeOK, NEW r \in Requests, NEW reply \in Reply, Answer(r, reply)
  PROVE  /\ req' \in [Requests -> Request]
         /\ \A s \in Requests \ {r} : req'[s] = req[s]
         /\ req'[r].who = req[r].who /\ req'[r].epoch = req[r].epoch
         /\ req'[r].began = req[r].began
         /\ req'[r].pc = "done" /\ req'[r].reply = reply /\ req'[r].todo = {}
<1>1. req \in [Requests -> Request]
  BY RequestType
<1>2. NoGames \in Basis
  BY DEF NoGames, Basis
<1>3. [req[r] EXCEPT !.pc = "done", !.reply = reply, !.todo = {}, !.seen = NoGames] \in Request
  BY <1>1, <1>2 DEF Request
<1> QED
  BY <1>1, <1>3 DEF Answer, Request

\* The handler of r changes neither the other requests nor whom r asks about,
\* and only its INSERT changes the database.
Frame(r) ==
  /\ req' \in [Requests -> Request]
  /\ \A s \in Requests \ {r} : req'[s] = req[s]
  /\ req'[r].who = req[r].who /\ req'[r].epoch = req[r].epoch
  /\ req'[r].began = req[r].began
  /\ UNCHANGED <<epoch, loaded, games, seed>>

\* One step of the handler, by the position it starts from.
HandleStep(r) ==
  \/ /\ req'[r].pc = "done" /\ req'[r].reply \in {Error("404"), Error("500")}
     /\ UNCHANGED rows
  \/ /\ req[r].pc = "count" /\ req'[r].pc = "lookup" /\ LinesSeen(r, req[r].who) >= MinGames
     /\ req'[r].reply = req[r].reply /\ UNCHANGED rows
  \/ /\ req[r].pc \in {"lookup", "refresh"} /\ RowSeen(r) # NoRow
     /\ req'[r].pc = "done" /\ req'[r].reply = Ok(RowSeen(r)) /\ UNCHANGED rows
  \/ /\ req[r].pc = "lookup" /\ req'[r].pc = "read"
     /\ Alive(r) => req'[r].todo = Players
     /\ req'[r].reply = req[r].reply /\ UNCHANGED rows
  \/ /\ req[r].pc = "read" /\ req'[r].pc = "read"
     /\ \E p \in req[r].todo :
          /\ req'[r].todo = req[r].todo \ {p}
          /\ req'[r].seen = [req[r].seen EXCEPT ![p] = LinesSeen(r, p)]
     /\ req'[r].reply = req[r].reply /\ UNCHANGED rows
  \/ /\ req[r].pc \in {"read", "explain"} /\ req'[r].pc \in {"explain", "insert"}
     /\ req[r].pc = "read" => req[r].todo = {}
     /\ req'[r].todo = req[r].todo /\ req'[r].seen = req[r].seen
     /\ req'[r].reply = req[r].reply /\ UNCHANGED rows
  \/ /\ req[r].pc = "insert" /\ RowSeen(r) # NoRow
     /\ req'[r].pc = "done" /\ req'[r].reply = Error("conflict") /\ UNCHANGED rows
  \/ /\ req[r].pc = "insert" /\ req'[r].pc = "team" /\ RowSeen(r) = NoRow
     /\ \A s \in Requests \ {r} : ~(Inserted(s) /\ Same(r, s))
     /\ req'[r].todo = req[r].todo /\ req'[r].seen = req[r].seen
     /\ req'[r].reply = req[r].reply /\ UNCHANGED rows
  \/ /\ req[r].pc \in {"team", "player", "season"} /\ Alive(r)
     /\ req[r].pc = "team" => seed.at # "teams"
     /\ req'[r].pc \in {"player", "season", "commit"}
     /\ req'[r].todo = req[r].todo /\ req'[r].seen = req[r].seen
     /\ req'[r].reply = req[r].reply /\ UNCHANGED rows
  \/ /\ req[r].pc = "commit"
     /\ rows' = [rows EXCEPT ![req[r].who] = NewRow(r)]
     /\ req'[r].pc = "refresh" /\ req'[r].reply = req[r].reply

\* A deadlock that aborts the request, and not the script.
Aborted(r) == Deadlock(r) /\ UNCHANGED seed

\* Every statement of the handler is one of these steps, and so is its abortion.
LEMMA HandleSteps ==
  ASSUME TypeOK, NEW r \in Requests, Handle(r) \/ (Aborted(r) /\ req' # req)
  PROVE  Frame(r) /\ HandleStep(r) /\ req[r].pc # "idle" /\ req'[r].pc # "idle"
<1>0. req \in [Requests -> Request] /\ req[r] \in Request
  BY RequestType
<1>1. ASSUME NEW x \in {"404", "500", "conflict"}, Answer(r, Error(x)),
             UNCHANGED <<epoch, loaded, games, seed>>
      PROVE  Frame(r) /\ req'[r].pc = "done" /\ req'[r].reply = Error(x)
  <2>1. Error(x) \in Reply
    BY DEF Error, Reply
  <2> QED
    BY <1>1, <2>1, AnswerStep DEF Frame
<1>2. ASSUME RowSeen(r) # NoRow, Answer(r, Ok(RowSeen(r))),
             UNCHANGED <<epoch, loaded, games, seed>>
      PROVE  Frame(r) /\ req'[r].pc = "done" /\ req'[r].reply = Ok(RowSeen(r))
  <2>1. req[r].who \in Players
    BY <1>0 DEF Request
  <2>2. RowSeen(r) \in Row
    BY <1>2, <2>1 DEF RowSeen, TypeOK
  <2>3. Ok(RowSeen(r)) \in Reply
    BY <2>2 DEF Ok, Reply
  <2> QED
    BY <1>2, <2>3, AnswerStep DEF Frame
<1>3. ASSUME NEW x \in Computed \cup {"lookup", "refresh"},
             req' = [req EXCEPT ![r].pc = x], UNCHANGED <<epoch, loaded, games, seed>>
      PROVE  /\ Frame(r) /\ req'[r].pc = x /\ req'[r].reply = req[r].reply
             /\ req'[r].todo = req[r].todo /\ req'[r].seen = req[r].seen
  BY <1>0, <1>3 DEF Frame, Request, Computed
<1>4. CASE Count(r)
  <2>1. CASE LinesSeen(r, req[r].who) < MinGames
    BY <1>1, <1>4, <2>1 DEF Count, HandleStep
  <2>2. CASE ~(LinesSeen(r, req[r].who) < MinGames)
    <3>1. LinesSeen(r, req[r].who) \in Nat /\ MinGames \in Nat
      BY <1>0, ArchetypeCacheAssumption DEF LinesSeen, TypeOK, Basis, Request
    <3> QED
      BY <1>3, <1>4, <2>2, <3>1 DEF Count, HandleStep
  <2> QED
    BY <2>1, <2>2
<1>5. CASE Lookup(r)
  <2>1. CASE RowSeen(r) # NoRow
    BY <1>2, <1>5, <2>1 DEF Lookup, HandleStep
  <2>2. CASE RowSeen(r) = NoRow
    <3> DEFINE new == [req[r] EXCEPT !.pc = "read", !.seen = NoGames,
                                     !.todo = IF Alive(r) THEN Players ELSE {}]
    <3>1. req' = [req EXCEPT ![r] = new] /\ UNCHANGED <<epoch, loaded, games, rows, seed>>
      BY <1>5, <2>2 DEF Lookup
    <3>2. NoGames \in Basis
      BY DEF NoGames, Basis
    <3>3. /\ new \in Request /\ new.pc = "read" /\ new.who = req[r].who
          /\ new.epoch = req[r].epoch /\ new.began = req[r].began
          /\ new.todo = (IF Alive(r) THEN Players ELSE {}) /\ new.reply = req[r].reply
      BY <1>0, <3>2 DEF Request
    <3>4. req' \in [Requests -> Request] /\ req'[r] = new
      BY <1>0, <3>1, <3>3
    <3> QED
      BY <1>0, <1>5, <3>1, <3>3, <3>4 DEF Lookup, Frame, HandleStep
  <2> QED
    BY <2>1, <2>2
<1>6. ASSUME NEW p \in Players, ReadTeammate(r, p)
      PROVE  Frame(r) /\ HandleStep(r) /\ req[r].pc # "idle" /\ req'[r].pc # "idle"
  <2> DEFINE new == [req[r] EXCEPT !.todo = req[r].todo \ {p},
                                   !.seen = [req[r].seen EXCEPT ![p] = LinesSeen(r, p)]]
  <2>1. req' = [req EXCEPT ![r] = new] /\ UNCHANGED <<epoch, loaded, games, rows, seed>>
    BY <1>6 DEF ReadTeammate
  <2>2. LinesSeen(r, p) \in Nat
    BY DEF LinesSeen, TypeOK, Basis
  <2>3. [req[r].seen EXCEPT ![p] = LinesSeen(r, p)] \in Basis
    BY <1>0, <2>2 DEF Request, Basis
  <2>4. /\ new \in Request /\ new.pc = req[r].pc /\ new.who = req[r].who
        /\ new.epoch = req[r].epoch /\ new.began = req[r].began
        /\ new.todo = req[r].todo \ {p} /\ new.reply = req[r].reply
        /\ new.seen = [req[r].seen EXCEPT ![p] = LinesSeen(r, p)]
    BY <1>0, <2>3 DEF Request
  <2>5. req' \in [Requests -> Request] /\ req'[r] = new
    BY <1>0, <2>1, <2>4
  <2> QED
    BY <1>0, <1>6, <2>1, <2>4, <2>5 DEF ReadTeammate, Frame, HandleStep
<1>7. CASE Compute(r)
  BY <1>1, <1>3, <1>7 DEF Compute, HandleStep, Computed
<1>8. CASE Explain(r)
  BY <1>1, <1>3, <1>8 DEF Explain, HandleStep, Computed
<1>9. CASE InsertRow(r)
  <2>1. \A s \in Requests \ {r} : ~(Inserted(s) /\ Same(r, s))
    BY <1>9 DEF InsertRow, KeyInDoubt
  <2> QED
    BY <1>1, <1>3, <1>9, <2>1 DEF InsertRow, HandleStep, Computed
<1>10. CASE CheckParent(r)
  <2>1. CASE ~Alive(r)
    BY <1>1, <1>10, <2>1 DEF CheckParent, HandleStep, NextCheck
  <2>2. CASE Alive(r)
    <3>1. req[r].pc \in {"team", "player", "season"}
      BY <1>10 DEF CheckParent, NextCheck
    <3>2. NextCheck[req[r].pc] \in {"player", "season", "commit"}
      BY <3>1 DEF NextCheck
    <3>3. req[r].pc = "team" => seed.at # "teams"
      BY <1>10, <2>2 DEF CheckParent, ParentInDoubt
    <3> QED
      BY <1>3, <1>10, <2>2, <3>1, <3>2, <3>3 DEF CheckParent, HandleStep, Computed
  <2> QED
    BY <2>1, <2>2
<1>11. CASE CommitRow(r)
  BY <1>3, <1>11 DEF CommitRow, HandleStep, Computed
<1>12. CASE Refresh(r)
  BY <1>1, <1>2, <1>12 DEF Refresh, HandleStep
<1>13. CASE Aborted(r) /\ req' # req
  BY <1>1, <1>13 DEF Aborted, Deadlock, ParentInDoubt, HandleStep
<1> QED
  BY <1>4, <1>5, <1>6, <1>7, <1>8, <1>9, <1>10, <1>11, <1>12, <1>13 DEF Handle

-----------------------------------------------------------------------------
(* Every step of a handler keeps the invariant.                            *)

\* Each statement of the handler keeps the invariant, and so does its abortion.
LEMMA HandleInv ==
  ASSUME Inv, NEW r \in Requests, Handle(r) \/ (Aborted(r) /\ req' # req)
  PROVE  Inv'
<1> USE ArchetypeCacheAssumption
<1>0. /\ TypeOK /\ EpochsInv /\ WorkInv /\ LocksInv /\ AuthorsInv /\ RepliesInv
      /\ NoOrphans /\ RowsGrounded
  BY DEF Inv
<1>1. Frame(r) /\ HandleStep(r) /\ req[r].pc # "idle" /\ req'[r].pc # "idle"
  BY <1>0, HandleSteps
<1>2. /\ req \in [Requests -> Request] /\ req[r] \in Request /\ req'[r] \in Request
      /\ req' \in [Requests -> Request]
      /\ \A s \in Requests : /\ req'[s].who = req[s].who
                             /\ req'[s].epoch = req[s].epoch
                             /\ req'[s].began = req[s].began
      /\ \A s \in Requests : Alive(s)' <=> Alive(s)
      /\ UNCHANGED <<epoch, loaded, games, seed>>
  BY <1>0, <1>1, RequestType DEF Frame, Alive
<1>3. CASE req[r].pc = "commit"
           /\ rows' = [rows EXCEPT ![req[r].who] = NewRow(r)]
           /\ req'[r].pc = "refresh" /\ req'[r].reply = req[r].reply
  <2> DEFINE w == req[r].who
  <2>0. Alive(r) /\ rows[w] = NoRow
    BY <1>0, <1>3 DEF LocksInv, Locked, HoldsTeam, Inserted
  <2>1. w \in Players /\ NewRow(r) \in Row /\ NewRow(r) # NoRow
    BY <1>2 DEF Request, NewRow, Row, Basis
  <2>2. /\ rows' \in [Players -> Row \cup {NoRow}]
        /\ rows'[w] = NewRow(r) /\ rows[w] = NoRow
        /\ \A p \in Players \ {w} : rows'[p] = rows[p]
    BY <1>0, <1>3, <2>0, <2>1 DEF TypeOK
  <2>3. TypeOK'
    BY <1>0, <1>2, <2>2 DEF TypeOK, Request
  <2>4. EpochsInv'
    BY <1>0, <1>2 DEF EpochsInv
  <2>5. WorkInv'
    BY <1>0, <1>1, <1>2, <1>3 DEF WorkInv, Work, Frame, Computed
  <2>6. /\ \A q \in Players : /\ req[r].began[q] <= req[r].seen[q]
                              /\ req[r].seen[q] <= games[q]
        /\ req[r].seen[w] >= MinGames
    BY <1>0, <1>3, <2>0, <2>1 DEF WorkInv, Work, Computed
  <2>7. NewRow(r).author = r /\ NewRow(r).basis = req[r].seen /\ NewRow(r).epoch = epoch
    BY <2>0 DEF NewRow, Alive
  <2>8. AuthorsInv'
    BY <1>0, <1>1, <1>2, <2>2, <2>6, <2>7 DEF AuthorsInv, TypeOK, Row, Frame
  <2>9. RepliesInv'
    <3> SUFFICES ASSUME NEW s \in Requests PROVE Replied(s)'
      BY DEF RepliesInv
    <3>1. CASE s = r
      BY <1>0, <1>3, <3>1 DEF RepliesInv, Replied, Answered
    <3>2. CASE s # r
      <4>1. req'[s] = req[s] /\ req[s] \in Request
        BY <1>1, <1>2, <3>2 DEF Frame
      <4>2. Answered(s) /\ req[s].epoch = epoch => req[s].who # w
        BY <1>0, <2>2, RequestType, ArchetypeCacheAssumption
        DEF RepliesInv, Replied, Row, Basis
      <4> QED
        BY <1>0, <1>2, <2>2, <4>1, <4>2 DEF RepliesInv, Replied, Answered, Request
    <3> QED
      BY <3>1, <3>2
  <2>10. NoOrphans'
    BY <1>0, <1>2, <2>0, <2>2, <2>7 DEF NoOrphans, Alive
  <2>11. RowsGrounded'
    BY <1>0, <1>2, <2>2, <2>6, <2>7 DEF RowsGrounded
  <2>12. (OwnAnswerRecent /\ AnswersAgree /\ ConflictHasWinner)'
    BY <1>0, <1>1, <1>2, <1>3, <2>1, <2>2
    DEF Inv, OwnAnswerRecent, AnswersAgree, ConflictHasWinner, Answered, Same, Frame
  <2>13. LocksInv'
    <3> SUFFICES ASSUME NEW s \in Requests PROVE Locked(s)'
      BY DEF LocksInv
    <3>1. CASE s = r
      BY <1>3, <3>1 DEF Locked, HoldsTeam, Inserted
    <3>2. CASE s # r
      <4>1. req'[s] = req[s] /\ Locked(s)
        BY <1>0, <1>1, <3>2 DEF Frame, LocksInv
      <4>2. Inserted(s) /\ Alive(s) => req[s].who # w
        BY <1>0, <1>3, <2>0, <3>2 DEF LocksInv, Locked, Inserted, Same, Alive
      <4>3. Inserted(s) /\ Alive(s) => rows'[req[s].who] = NoRow
        BY <1>2, <2>2, <4>1, <4>2 DEF Locked, Request
      <4>4. \A t \in Requests : Inserted(t)' => t # r /\ Inserted(t)
        BY <1>1, <1>3 DEF Frame, Inserted
      <4> QED
        BY <1>2, <3>2, <4>1, <4>3, <4>4 DEF Locked, HoldsTeam, Inserted, Same
    <3> QED
      BY <3>1, <3>2
  <2> QED
    BY <2>3, <2>4, <2>5, <2>8, <2>9, <2>10, <2>11, <2>12, <2>13 DEF Inv
<1>4. CASE UNCHANGED rows
  <2>1. TypeOK'
    BY <1>0, <1>2, <1>4 DEF TypeOK, Request
  <2>2. EpochsInv'
    BY <1>0, <1>2 DEF EpochsInv
  <2>3. WorkInv'
    <3> SUFFICES ASSUME NEW s \in Requests PROVE Work(s)'
      BY DEF WorkInv
    <3>1. CASE s # r
      BY <1>0, <1>1, <1>2, <3>1 DEF WorkInv, Work, Frame
    <3>2. CASE s = r
      <4> USE <1>0, <1>1, <1>2, <3>2 DEF WorkInv, Work, Computed
      <4>1. CASE req[r].pc = "count" /\ req'[r].pc = "lookup"
                 /\ LinesSeen(r, req[r].who) >= MinGames
        BY <4>1 DEF LinesSeen
      <4>2. CASE req[r].pc = "lookup" /\ req'[r].pc = "read"
                 /\ (Alive(r) => req'[r].todo = Players)
        BY <4>2
      <4>3. ASSUME req[r].pc = "read", req'[r].pc = "read", NEW p \in req[r].todo,
                   req'[r].todo = req[r].todo \ {p},
                   req'[r].seen = [req[r].seen EXCEPT ![p] = LinesSeen(r, p)]
            PROVE  Work(s)'
        <5>1. Alive(r) => LinesSeen(r, p) = games[p] /\ games[p] \in Nat
                          /\ req[r].began[p] <= games[p]
                          /\ games[req[r].who] >= MinGames
          BY <4>3 DEF LinesSeen, Basis, TypeOK
        <5>2. req'[r].seen[p] = LinesSeen(r, p)
              /\ \A q \in Players \ {p} : req'[r].seen[q] = req[r].seen[q]
          BY <4>3 DEF Request, Basis
        <5>3. ASSUME Alive(r), NEW q \in Players \ req'[r].todo
              PROVE  /\ req[r].began[q] <= req'[r].seen[q] /\ req'[r].seen[q] <= games[q]
                     /\ q = req[r].who => req'[r].seen[q] >= MinGames
          <6>1. CASE q = p
            BY <5>1, <5>2, <5>3, <6>1
          <6>2. CASE q # p
            BY <4>3, <5>2, <5>3, <6>2
          <6> QED
            BY <6>1, <6>2
        <5> QED
          BY <4>3, <5>1, <5>3
      <4>4. CASE req[r].pc \in {"read", "explain"} /\ req'[r].pc \in {"explain", "insert"}
                 /\ (req[r].pc = "read" => req[r].todo = {})
                 /\ req'[r].todo = req[r].todo /\ req'[r].seen = req[r].seen
        BY <4>4
      <4>5. CASE req'[r].pc \in {"done", "refresh"}
        BY <4>5
      <4>6. CASE req[r].pc \in Computed /\ req'[r].pc \in Computed
                 /\ req'[r].todo = req[r].todo /\ req'[r].seen = req[r].seen
        BY <4>6
      <4> QED
        BY <1>3, <4>1, <4>2, <4>3, <4>4, <4>5, <4>6 DEF HandleStep
    <3> QED
      BY <3>1, <3>2
  <2>4. AuthorsInv'
    BY <1>0, <1>1, <1>2, <1>4 DEF AuthorsInv, TypeOK, Row, Frame
  <2>5. RepliesInv'
    <3> SUFFICES ASSUME NEW s \in Requests PROVE Replied(s)'
      BY DEF RepliesInv
    <3>1. CASE s # r
      BY <1>0, <1>1, <1>2, <1>4, <3>1 DEF RepliesInv, Replied, Answered, Frame
    <3>2. CASE s = r /\ req'[r].reply = req[r].reply /\ req[r].pc # "done"
      BY <1>0, <1>2, <1>4, <3>2 DEF RepliesInv, Replied, Answered
    <3>3. CASE s = r /\ req'[r].pc = "done" /\ req'[r].reply.code # "200"
      BY <3>3 DEF Replied, Answered
    <3>4. CASE s = r /\ req'[r].pc = "done" /\ RowSeen(r) # NoRow
               /\ req'[r].reply = Ok(RowSeen(r))
      BY <1>2, <1>4, <3>4 DEF Replied, RowSeen, Ok
    <3> QED
      BY <1>1, <1>3, <3>1, <3>2, <3>3, <3>4 DEF HandleStep, Error
  <2>6. NoOrphans' /\ RowsGrounded'
    BY <1>0, <1>2, <1>4 DEF NoOrphans, RowsGrounded
  <2>7. ASSUME NEW s \in Requests, Answered(s)'
        PROVE  \/ Answered(s) /\ req'[s].reply = req[s].reply
               \/ s = r /\ Alive(r) /\ rows[req[r].who] # NoRow
                  /\ req'[r].reply.row = rows[req[r].who]
    <3>1. CASE s # r
      BY <1>1, <2>7, <3>1 DEF Frame, Answered
    <3>2. CASE s = r
      BY <1>1, <1>3, <1>4, <2>7, <3>2 DEF HandleStep, Answered, Error, Ok, RowSeen
    <3> QED
      BY <3>1, <3>2
  <2>8. OwnAnswerRecent'
    <3> SUFFICES ASSUME NEW s \in Requests, Answered(s)', req'[s].reply.row.author = s
                 PROVE  \A q \in Players : req'[s].reply.row.basis[q] >= req'[s].began[q]
      BY DEF OwnAnswerRecent
    <3>1. CASE Answered(s) /\ req'[s].reply = req[s].reply
      BY <1>2, <3>1 DEF Inv, OwnAnswerRecent
    <3>2. CASE s = r /\ rows[req[r].who] # NoRow /\ req'[r].reply.row = rows[req[r].who]
      <4>1. rows[req[r].who] \in Row /\ req[r].who \in Players
        BY <1>0, <1>2, <3>2 DEF TypeOK, Request
      <4>2. \A q \in Players : req[r].began[q] <= rows[req[r].who].basis[q]
        BY <1>0, <3>2, <4>1 DEF AuthorsInv
      <4> QED
        BY <1>2, <3>2, <4>1, <4>2 DEF Row, Basis, Request
    <3> QED
      BY <2>7, <3>1, <3>2
  <2>9. AnswersAgree'
    <3> SUFFICES ASSUME NEW s \in Requests, NEW t \in Requests,
                        Answered(s)', Answered(t)', Same(s, t)'
                 PROVE  req'[s].reply.row = req'[t].reply.row
      BY DEF AnswersAgree
    <3>1. CASE req[s].epoch = epoch
      BY <1>2, <2>5, <3>1 DEF RepliesInv, Replied, Same
    <3>2. CASE req[s].epoch # epoch
      BY <1>2, <2>7, <3>2 DEF Inv, AnswersAgree, Same, Alive
    <3> QED
      BY <3>1, <3>2
  <2>10. ConflictHasWinner'
    <3> SUFFICES ASSUME NEW s \in Requests, req'[s].reply.code = "conflict",
                        req'[s].epoch = epoch'
                 PROVE  rows'[req'[s].who] # NoRow
      BY DEF ConflictHasWinner
    <3>1. CASE req'[s].reply = req[s].reply
      BY <1>2, <1>4, <3>1 DEF Inv, ConflictHasWinner
    <3>2. CASE s = r /\ RowSeen(r) # NoRow
      BY <1>2, <1>4, <3>2 DEF RowSeen
    <3> QED
      BY <1>1, <3>1, <3>2 DEF HandleStep, Frame, Error, Ok
  <2>11. LocksInv'
    <3> SUFFICES ASSUME NEW s \in Requests PROVE Locked(s)'
      BY DEF LocksInv
    <3>1. ASSUME NEW t \in Requests
          PROVE  /\ Inserted(t)' => Inserted(t) \/ (t = r /\ req[r].pc = "insert")
                 /\ HoldsTeam(t)' =>
                      HoldsTeam(t) \/ (t = r /\ Alive(r) /\ seed.at # "teams")
      BY <1>1, <1>3, <1>4 DEF Frame, HandleStep, Inserted, HoldsTeam
    <3>2. req[r].pc = "insert" /\ Inserted(r)' =>
            /\ RowSeen(r) = NoRow
            /\ \A t \in Requests \ {r} : ~(Inserted(t) /\ Same(r, t))
      BY <1>1, <1>3, <1>4 DEF HandleStep, Inserted
    <3>3. HoldsTeam(s)' => Alive(s)' /\ seed'.at # "teams"
      BY <1>0, <1>2, <3>1 DEF LocksInv, Locked
    <3>4. Inserted(s)' /\ Alive(s)' => rows'[req'[s].who] = NoRow
      BY <1>0, <1>2, <1>4, <3>1, <3>2 DEF LocksInv, Locked, RowSeen
    <3>5. ASSUME NEW t \in Requests, Inserted(s)', Inserted(t)', Same(s, t)'
          PROVE  s = t
      <4>1. Same(s, t) /\ Same(t, s)
        BY <1>2, <3>5 DEF Same
      <4> QED
        BY <1>0, <3>1, <3>2, <3>5, <4>1 DEF LocksInv, Locked
    <3> QED
      BY <3>3, <3>4, <3>5 DEF Locked
  <2> QED
    BY <2>1, <2>2, <2>3, <2>4, <2>5, <2>6, <2>7, <2>8, <2>9, <2>10, <2>11 DEF Inv
<1> QED
  BY <1>1, <1>3, <1>4 DEF HandleStep

-----------------------------------------------------------------------------
(* The steps of everybody else.                                            *)

\* A new request holds nothing but its ids and the lines it was asked over.
LEMMA AskInv ==
  ASSUME Inv, NEW r \in Requests, NEW p \in Players, Ask(r, p)
  PROVE  Inv'
<1> DEFINE new == [req[r] EXCEPT !.pc = "count", !.who = p, !.epoch = epoch, !.began = games]
<1>0. /\ TypeOK /\ EpochsInv /\ WorkInv /\ LocksInv /\ AuthorsInv /\ RepliesInv
      /\ req \in [Requests -> Request] /\ req[r] \in Request
  BY RequestType DEF Inv
<1>1. /\ req[r].pc = "idle" /\ loaded /\ req' = [req EXCEPT ![r] = new]
      /\ UNCHANGED <<epoch, loaded, games, rows, seed>>
  BY DEF Ask
<1>2. /\ new \in Request /\ new.pc = "count" /\ new.epoch = epoch /\ new.began = games
      /\ new.reply = req[r].reply
  BY <1>0 DEF Request, TypeOK
<1>3. /\ req' \in [Requests -> Request] /\ req'[r] = new
      /\ \A s \in Requests \ {r} : req'[s] = req[s] /\ (Alive(s)' <=> Alive(s))
  BY <1>0, <1>1, <1>2 DEF Alive
<1>4. req'[r].reply.code = "none" /\ req'[r].reply = req[r].reply
  BY <1>0, <1>1, <1>2, <1>3 DEF RepliesInv, Replied
<1>5. TypeOK'
  BY <1>0, <1>1, <1>3 DEF TypeOK, Request
<1>6. EpochsInv'
  BY <1>0, <1>1, <1>2, <1>3 DEF EpochsInv, TypeOK
<1>7. WorkInv'
  <2>1. \A s \in Requests \ {r} : Work(s)'
    BY <1>0, <1>1, <1>3 DEF WorkInv, Work
  <2>2. Work(r)'
    BY <1>0, <1>1, <1>2, <1>3 DEF Work, TypeOK, Basis, Computed
  <2> QED
    BY <2>1, <2>2 DEF WorkInv
<1>8. AuthorsInv'
  BY <1>0, <1>1, <1>3 DEF AuthorsInv, TypeOK, Row
<1>9. RepliesInv'
  BY <1>0, <1>1, <1>3, <1>4 DEF RepliesInv, Replied, Answered
<1>10. \A s \in Requests : Answered(s)' => s # r /\ Answered(s) /\ req'[s] = req[s]
  BY <1>3, <1>4 DEF Answered
<1>11. (NoOrphans /\ RowsGrounded)'
  BY <1>1 DEF Inv, NoOrphans, RowsGrounded
<1>12. (OwnAnswerRecent /\ AnswersAgree)'
  BY <1>10 DEF Inv, OwnAnswerRecent, AnswersAgree, Same
<1>13. ConflictHasWinner'
  BY <1>1, <1>3, <1>4 DEF Inv, ConflictHasWinner
<1>14. LocksInv'
  <2>1. \A s \in Requests : Inserted(s)' => s # r /\ Inserted(s)
    BY <1>2, <1>3 DEF Inserted
  <2>2. \A s \in Requests : HoldsTeam(s)' => s # r /\ HoldsTeam(s)
    BY <1>2, <1>3 DEF HoldsTeam
  <2> QED
    BY <1>0, <1>1, <1>3, <2>1, <2>2 DEF LocksInv, Locked, Same
<1> QED
  BY <1>5, <1>6, <1>7, <1>8, <1>9, <1>11, <1>12, <1>13, <1>14 DEF Inv

\* Lines are only added.
LEMMA LogGameInv ==
  ASSUME Inv, NEW p \in Players, LogGame(p)
  PROVE  Inv'
<1>0. TypeOK /\ WorkInv
  BY DEF Inv
<1>1. /\ games' \in Basis /\ \A q \in Players : games[q] \in Nat /\ games[q] <= games'[q]
      /\ UNCHANGED <<epoch, loaded, rows, seed, req>>
  BY <1>0 DEF LogGame, TypeOK, Basis
<1>2. TypeOK' /\ (EpochsInv /\ LocksInv /\ AuthorsInv /\ RepliesInv)'
  BY <1>1 DEF Inv, TypeOK, EpochsInv, AuthorsInv, RepliesInv, Replied, Answered,
              LocksInv, Locked, HoldsTeam, Inserted, Same, Alive
<1>3. WorkInv'
  <2> SUFFICES ASSUME NEW s \in Requests PROVE Work(s)'
    BY DEF WorkInv
  <2>1. Work(s) /\ (Alive(s)' <=> Alive(s)) /\ req[s] \in Request
    BY <1>0, <1>1, RequestType DEF WorkInv, Alive
  <2> QED
    BY <1>1, <2>1, ArchetypeCacheAssumption DEF Work, Request, Basis
<1>4. RowsGrounded'
  BY <1>0, <1>1 DEF Inv, RowsGrounded, TypeOK, Row, Basis
<1>5. (NoOrphans /\ OwnAnswerRecent /\ AnswersAgree /\ ConflictHasWinner)'
  BY <1>1 DEF Inv, NoOrphans, OwnAnswerRecent, AnswersAgree, ConflictHasWinner, Answered,
              Same
<1> QED
  BY <1>2, <1>3, <1>4, <1>5 DEF Inv

\* The seed script's first transaction before its commit, its death, and a
\* deadlock that aborts it, change nothing that others see.
LEMMA SeedUnseenInv ==
  ASSUME Inv,
         \/ SeedDeleteRows \/ SeedDeleteSeasons \/ SeedDeleteTeams \/ SeedDies
         \/ \E p \in Players : SeedDeletePlayer(p)
         \/ \E r \in Requests : Deadlock(r) /\ req' = req
  PROVE  Inv'
<1>1. /\ UNCHANGED <<epoch, loaded, games, rows, req>>
      /\ seed' \in [at : {"idle", "rows", "seasons", "teams", "wiped"},
                   doomed : SUBSET Players, gone : SUBSET Players]
      /\ seed'.at = "teams" => \A r \in Requests : ~HoldsTeam(r)
      /\ seed'.at # "wiped" \/ seed' = seed
  <2>1. /\ NoSeed \in [at : {"idle"}, doomed : SUBSET Players, gone : SUBSET Players]
        /\ seed \in [at : {"idle", "rows", "seasons", "teams", "wiped"},
                     doomed : SUBSET Players, gone : SUBSET Players]
    BY DEF Inv, TypeOK, NoSeed
  <2>2. CASE SeedDeleteRows
    BY <2>1, <2>2 DEF SeedDeleteRows, NoSeed, Stored
  <2>3. CASE SeedDeleteSeasons
    BY <2>1, <2>3 DEF SeedDeleteSeasons
  <2>4. CASE SeedDeleteTeams
    BY <2>1, <2>4 DEF SeedDeleteTeams
  <2>5. CASE SeedDies
    BY <2>1, <2>5 DEF SeedDies
  <2>6. CASE \E p \in Players : SeedDeletePlayer(p)
    BY <2>1, <2>6 DEF SeedDeletePlayer
  <2>7. CASE \E r \in Requests : Deadlock(r) /\ req' = req
    BY <2>1, <2>7 DEF Deadlock, SeedWaitsFor
  <2> QED
    BY <2>2, <2>3, <2>4, <2>5, <2>6, <2>7
<1>2. LocksInv'
  BY <1>1 DEF Inv, LocksInv, Locked, HoldsTeam, Inserted, Same, Alive
<1> QED
  BY <1>1, <1>2
  DEF Inv, TypeOK, EpochsInv, WorkInv, Work, Alive, AuthorsInv, RepliesInv, Replied,
      NoOrphans, RowsGrounded, OwnAnswerRecent, AnswersAgree, ConflictHasWinner,
      Answered, Same

\* The wipe: every id becomes one of an older epoch.
LEMMA SeedCommitWipeInv ==
  ASSUME Inv, SeedCommitWipe
  PROVE  Inv'
<1>1. /\ epoch' = epoch + 1 /\ loaded' = FALSE /\ games' = NoGames
      /\ rows' = [p \in Players |-> NoRow] /\ seed' = [NoSeed EXCEPT !.at = "wiped"]
      /\ req' = req
  BY DEF SeedCommitWipe
<1>2. TypeOK'
  <2>1. epoch' \in Nat /\ games' \in Basis
    BY <1>1 DEF Inv, TypeOK, NoGames, Basis
  <2>2. /\ rows' \in [Players -> Row \cup {NoRow}]
        /\ seed' \in [at : {"idle", "rows", "seasons", "teams", "wiped"},
                     doomed : SUBSET Players, gone : SUBSET Players]
    BY <1>1 DEF NoSeed
  <2> QED
    BY <1>1, <2>1, <2>2 DEF Inv, TypeOK
<1>3. \A r \in Requests : req'[r].epoch < epoch' /\ ~Alive(r)'
  BY <1>1, RequestType DEF Inv, EpochsInv, TypeOK, Request, Alive
<1>4. EpochsInv'
  BY <1>1, <1>2, <1>3, RequestType DEF EpochsInv, TypeOK
<1>5. WorkInv'
  BY <1>1, <1>3 DEF Inv, WorkInv, Work
<1>6. (RepliesInv /\ ConflictHasWinner)'
  BY <1>1, <1>3, <1>2 DEF Inv, RepliesInv, Replied, ConflictHasWinner, TypeOK, Answered
<1>7. (AuthorsInv /\ NoOrphans /\ RowsGrounded /\ OwnAnswerRecent /\ AnswersAgree)'
  BY <1>1 DEF Inv, AuthorsInv, NoOrphans, RowsGrounded, OwnAnswerRecent, AnswersAgree,
              Answered, Same
<1>8. LocksInv'
  <2>1. seed.at = "teams" /\ \A r \in Requests : ~HoldsTeam(r)
    BY DEF Inv, LocksInv, Locked, SeedCommitWipe
  <2> QED
    BY <1>1, <1>3, <2>1 DEF Inv, LocksInv, Locked, HoldsTeam, Inserted, Same
<1> QED
  BY <1>2, <1>4, <1>5, <1>6, <1>7, <1>8 DEF Inv

\* The load: nobody has an id of the new players yet.
LEMMA SeedLoadInv ==
  ASSUME Inv, SeedLoad
  PROVE  Inv'
<1>1. /\ seed.at = "wiped" /\ loaded' = TRUE /\ games' \in [Players -> 0 .. MaxGames]
      /\ seed' = NoSeed /\ UNCHANGED <<epoch, rows, req>>
  BY DEF SeedLoad
<1>2. ~loaded /\ \A r \in Requests : req[r].epoch < epoch /\ ~Alive(r)'
  BY <1>1, RequestType DEF Inv, EpochsInv, TypeOK, Request, Alive
<1>3. \A p \in Players : rows[p] = NoRow
  BY <1>2 DEF Inv, NoOrphans
<1>4. TypeOK'
  BY <1>1, ArchetypeCacheAssumption DEF Inv, TypeOK, Basis, NoSeed
<1>5. EpochsInv'
  BY <1>1 DEF Inv, EpochsInv, NoSeed
<1>6. WorkInv'
  BY <1>1, <1>2 DEF Inv, WorkInv, Work
<1>7. LocksInv'
  <2>1. \A r \in Requests : ~HoldsTeam(r)
    BY <1>2 DEF Inv, LocksInv, Locked, Alive
  <2> QED
    BY <1>1, <1>2, <2>1 DEF Inv, LocksInv, Locked, HoldsTeam, Inserted, Same
<1> QED
  BY <1>1, <1>3, <1>4, <1>5, <1>6, <1>7
  DEF Inv, AuthorsInv, RepliesInv, Replied, NoOrphans, RowsGrounded, OwnAnswerRecent,
      AnswersAgree, ConflictHasWinner, Answered, Same

-----------------------------------------------------------------------------
\* No request has come and no archetype is stored.
LEMMA InitInv == Init => Inv
<1> SUFFICES ASSUME Init PROVE Inv
  OBVIOUS
<1>1. \A r \in Requests :
        /\ req[r].pc = "idle" /\ req[r].epoch = 0 /\ req[r].reply = NoReply
        /\ req[r] \in Request
  BY DEF Init, Request, Basis, NoGames, NoReply, Reply
<1>2. TypeOK
  BY DEF Init, TypeOK, Basis, NoGames, NoReply, Reply, NoSeed
<1>3. EpochsInv /\ WorkInv /\ LocksInv /\ RepliesInv /\ AuthorsInv
  BY <1>1 DEF Init, EpochsInv, WorkInv, Work, RepliesInv, Replied, AuthorsInv, Answered,
              NoReply, NoSeed, Computed, LocksInv, Locked, HoldsTeam, Inserted
<1> QED
  BY <1>1, <1>2, <1>3
  DEF Init, Inv, NoOrphans, RowsGrounded, OwnAnswerRecent, AnswersAgree,
      ConflictHasWinner, Answered, NoReply

\* Inv is an invariant: the handler's statements, the loader's and the seed
\* script's steps keep it.
THEOREM Invariance == Spec => []Inv
<1>1. Inv /\ [Next]_vars => Inv'
  <2> SUFFICES ASSUME Inv, [Next]_vars PROVE Inv'
    OBVIOUS
  <2>1. CASE UNCHANGED vars
    BY <2>1
    DEF vars, Inv, TypeOK, EpochsInv, WorkInv, Work, Alive, LocksInv, Locked, HoldsTeam,
        Inserted, AuthorsInv, RepliesInv, Replied, NoOrphans, RowsGrounded, OwnAnswerRecent, AnswersAgree,
        ConflictHasWinner, Answered, Same
  <2>2. ASSUME NEW r \in Requests, Deadlock(r)
        PROVE  Inv'
    <3>1. CASE req' = req
      BY <2>2, <3>1, SeedUnseenInv
    <3>2. CASE req' # req
      BY <2>2, <3>2, HandleInv DEF Aborted, Deadlock
    <3> QED
      BY <3>1, <3>2
  <2> QED
    BY <2>1, <2>2, HandleInv, AskInv, LogGameInv, SeedUnseenInv, SeedCommitWipeInv,
       SeedLoadInv
    DEF Next, Seed
<1> QED
  BY InitInv, <1>1, PTL DEF Spec

\* Types (TypeOK).
THEOREM TypeCorrect == Spec => []TypeOK
BY Invariance, PTL DEF Inv

\* However many requests race, they show one archetype per player and season
\* (get_archetype: the loser of the race never shows its own).
THEOREM OneAnswer == Spec => []AnswersAgree
BY Invariance, PTL DEF Inv

\* An archetype rests on enough lines, on committed ones only, and on all there
\* were when its request came (compute_archetype).
THEOREM SoundBasis == Spec => []BasisSound
<1>1. Inv => BasisSound
  BY DEF Inv, BasisSound
<1> QED
  BY Invariance, <1>1, PTL

\* No row outlives its player, also when requests commit during a wipe (seed.py).
THEOREM OrphanFree == Spec => []NoOrphans
BY Invariance, PTL DEF Inv

\* Whoever lost the race finds the winner's row (get_archetype's INSERT).
THEOREM WinnerStored == Spec => []ConflictHasWinner
BY Invariance, PTL DEF Inv
=============================================================================
