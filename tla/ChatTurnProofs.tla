--------------------------- MODULE ChatTurnProofs ---------------------------
(***************************************************************************)
(* Proofs about ChatTurn, for every MaxToolRounds, MaxParallel and         *)
(* MaxChunks.                                                              *)
(***************************************************************************)
EXTENDS ChatTurn, FiniteSetTheorems, TLAPS

-----------------------------------------------------------------------------
(* The inductive invariant, by the part of the state it speaks of.         *)

\* The round's results answer a prefix of its ids.
ResultsInv ==
  /\ Len(results) <= Len(uses)
  /\ \A i \in 1 .. Len(results) : results[i] = uses[i]
  /\ failed \subseteq {results[i] : i \in 1 .. Len(results)}
  /\ pc \in {"tools", "awaiting"} => uses # << >>
  /\ pc = "awaiting" => Len(results) < Len(uses)

\* How many calls of the model were made, and how the last one ended.
CallsInv ==
  /\ pc \in {"route", "start", "fallback"} => trace.rounds = 0
  /\ pc = "fallback" => ~config.apiKey
  /\ pc \in {"call", "tools", "awaiting"} => trace.rounds <= MaxToolRounds
  /\ Answered

\* The session while the generator can still use it.
SessionInv ==
  /\ pc \in (InTurn \ {"awaiting"}) \cup {"route"} => thread = "none"
  /\ pc = "awaiting" => thread # "none"
  /\ pc \in {"start", "fallback", "call", "stream", "separated", "tools"}
       => txn # "aborted"
  /\ pc = "awaiting" /\ thread # "raised" => txn # "aborted"

Inv == TypeOK /\ ResultsInv /\ CallsInv /\ SessionInv /\ ConvoWellFormed

EventSet == [kind : EventKinds, round : Nat]
MessageSet == [role : {"assistant", "user"}, ids : Seq(ToolId),
               errors : SUBSET ToolId]

\* What Emit appends is an event.
LEMMA EmitType ==
  ASSUME TypeOK, NEW k \in EventKinds, Emit(k)
  PROVE  out' \in Seq(EventSet)
BY DEF TypeOK, Emit, Event, EventSet, Summary

\* Appending the two messages of a round keeps the conversation's type.
LEMMA RoundType ==
  ASSUME TypeOK,
         convo' = convo \o <<Assistant(uses), User(results, failed)>>
  PROVE  convo' \in Seq(MessageSet)
<1>1. Assistant(uses) \in MessageSet /\ User(results, failed) \in MessageSet
  BY DEF TypeOK, Assistant, User, MessageSet
<1>2. <<Assistant(uses), User(results, failed)>> \in Seq(MessageSet)
  BY <1>1
<1>3. convo \in Seq(MessageSet)
  BY DEF TypeOK, MessageSet
<1> QED
  BY <1>2, <1>3

\* The ids of a request for n tools form a sequence.
LEMMA UsesType ==
  ASSUME TypeOK, NEW n \in 1 .. MaxParallel
  PROVE  /\ [i \in 1 .. n |-> <<trace.rounds, i>>] \in Seq(ToolId)
         /\ Len([i \in 1 .. n |-> <<trace.rounds, i>>]) = n
<1>1. n \in Nat
  BY ChatTurnAssumption
<1>2. \A i \in 1 .. n : <<trace.rounds, i>> \in ToolId
  BY <1>1 DEF TypeOK, Summary, ToolId
<1> QED
  BY <1>1, <1>2

\* Every step keeps the types; that there is an id to answer is ResultsInv's.
LEMMA TypeStep == TypeOK /\ ResultsInv /\ [Next]_vars => TypeOK'
<1> SUFFICES ASSUME TypeOK, ResultsInv, [Next]_vars PROVE TypeOK'
  OBVIOUS
<1> USE ChatTurnAssumption
<1>1. CASE Unauthorized
  BY <1>1 DEF TypeOK, Unauthorized, Pcs, InTurn, loopVars, traceVars
<1>2. CASE StatementError
  BY <1>2 DEF TypeOK, StatementError, Pcs, InTurn, loopVars, traceVars
<1>3. CASE Accept
  BY <1>3 DEF TypeOK, Accept, ContextRead, Pcs, InTurn, loopVars, traceVars
<1>4. CASE StartTurn
  <2>1. out' \in Seq(EventSet)
    BY <1>4, EmitType DEF StartTurn, EventKinds, TypeOK, EventSet
  <2> QED
    BY <1>4, <2>1 DEF TypeOK, StartTurn, EventSet, Pcs, InTurn, loopVars, dbVars
<1>5. CASE FallbackWord
  <2>1. out' \in Seq(EventSet)
    BY <1>5, EmitType DEF FallbackWord, EventKinds
  <2> QED
    BY <1>5, <2>1 DEF TypeOK, FallbackWord, EventSet, dbVars, traceVars
<1>6. CASE FallbackEnd
  BY <1>6 DEF TypeOK, FallbackEnd, Pcs, InTurn, loopVars, dbVars, traceVars
<1>7. CASE StartCall
  <2>1. trace' \in Summary
    <3>1. trace.rounds + 1 \in Nat /\ trace \in Summary
      BY DEF TypeOK, Summary
    <3> QED
      BY <1>7, <3>1 DEF StartCall, Summary
  <2>2. spans' \in SUBSET {"root", "generation"}
    BY <1>7 DEF TypeOK, StartCall, StartGeneration
  <2> QED
    BY <1>7, <2>1, <2>2 DEF TypeOK, StartCall, Pcs, InTurn, dbVars
<1>8. CASE Separate
  <2>1. out' \in Seq(EventSet)
    BY <1>8, EmitType DEF Separate, EventKinds
  <2> QED
    BY <1>8, <2>1 DEF TypeOK, Separate, EventSet, Pcs, InTurn, dbVars, traceVars
<1>9. CASE TextChunk
  <2>1. out' \in Seq(EventSet)
    BY <1>9, EmitType DEF TextChunk, EventKinds
  <2>2. chunks' \in Nat /\ pc' \in Pcs
    BY <1>9 DEF TypeOK, TextChunk, Pcs, InTurn
  <2> QED
    BY <1>9, <2>1, <2>2 DEF TypeOK, TextChunk, EventSet, dbVars, traceVars
<1>10. ASSUME NEW stop \in {"end_turn", "max_tokens"}, Answer(stop) PROVE TypeOK'
  BY <1>10 DEF TypeOK, Answer, EndGeneration, Summary, StopReasons, Pcs, InTurn,
               loopVars, dbVars
<1>11. ASSUME NEW n \in 1 .. MaxParallel, AskForTools(n) PROVE TypeOK'
  <2>1. out' \in Seq(EventSet)
    BY <1>11, EmitType DEF AskForTools, EventKinds
  <2>2. uses' \in Seq(ToolId)
    BY <1>11, UsesType DEF AskForTools
  <2>3. trace' \in Summary /\ spans' \in SUBSET {"root", "generation"}
    BY <1>11 DEF TypeOK, AskForTools, EndGeneration, Summary, StopReasons
  <2> QED
    BY <1>11, <2>1, <2>2, <2>3
    DEF TypeOK, AskForTools, EventSet, Pcs, InTurn, dbVars
<1>12. CASE CallFails
  BY <1>12 DEF TypeOK, CallFails, EndGeneration, Pcs, InTurn, loopVars, dbVars
<1>13. CASE RunTool
  BY <1>13 DEF TypeOK, RunTool, Pcs, InTurn, loopVars, traceVars
<1>14. ASSUME NEW o \in {"ok", "refused", "raised"}, ToolReturns(o) PROVE TypeOK'
  BY <1>14 DEF TypeOK, ToolReturns, loopVars, traceVars
<1>15. ASSUME NEW isError \in BOOLEAN, Record(isError), pc = "awaiting",
              txn' \in {"none", "open", "aborted"}
       PROVE  TypeOK'
  <2>1. Len(results) + 1 \in 1 .. Len(uses)
    BY <1>15 DEF TypeOK, ResultsInv
  <2>2. uses[Len(results) + 1] \in ToolId
    BY <2>1 DEF TypeOK
  <2>3. results' \in Seq(ToolId) /\ failed' \in SUBSET ToolId
    BY <1>15, <2>2 DEF TypeOK, Record
  <2>4. trace' \in Summary
    <3>1. /\ trace \in Summary
          /\ trace.calls + 1 \in Nat
          /\ trace.errors + (IF isError THEN 1 ELSE 0) \in Nat
      BY DEF TypeOK, Summary
    <3> QED
      BY <1>15, <3>1 DEF Record, TraceTool, Summary
  <2> QED
    BY <1>15, <2>3, <2>4 DEF TypeOK, Record, Pcs, InTurn
<1>16. CASE TakeResult
  BY <1>15, <1>16 DEF TakeResult, TypeOK
<1>17. CASE RecoverTool
  BY <1>15, <1>17 DEF RecoverTool
<1>18. CASE RollbackFails
  BY <1>18 DEF TypeOK, RollbackFails, Pcs, InTurn, loopVars, traceVars
<1>19. CASE NextRound
  <2>1. convo' \in Seq(MessageSet)
    BY <1>19, RoundType DEF NextRound
  <2> QED
    BY <1>19, <2>1 DEF TypeOK, NextRound, MessageSet, Pcs, InTurn, dbVars, traceVars
<1>20. CASE Apologise
  <2>1. out' \in Seq(EventSet)
    BY <1>20, EmitType DEF Apologise, EventKinds
  <2>2. trace' \in Summary
    BY <1>20 DEF TypeOK, Apologise, Summary
  <2> QED
    BY <1>20, <2>1, <2>2 DEF TypeOK, Apologise, EventSet, Pcs, InTurn, loopVars, dbVars
<1>21. CASE Finish
  <2>1. out' \in Seq(EventSet)
    BY <1>21, EmitType DEF Finish, EventKinds
  <2>2. log' \in Seq(Summary)
    BY <1>21 DEF TypeOK, Finish, LogSummary
  <2> QED
    BY <1>21, <2>1, <2>2 DEF TypeOK, Finish, EventSet, Pcs, InTurn, loopVars, dbVars
<1>22. CASE ExitTurn
  BY <1>22 DEF TypeOK, ExitTurn, BeginFlush, Pcs, loopVars, dbVars
<1>23. CASE FlushEnds
  BY <1>23 DEF TypeOK, FlushEnds, Pcs, loopVars, dbVars
<1>24. CASE CloseSession
  BY <1>24 DEF TypeOK, CloseSession, Pcs, loopVars, traceVars
<1>25. CASE Disconnect
  BY <1>25 DEF TypeOK, Disconnect, loopVars, dbVars, traceVars
<1>26. CASE CancelUnstarted
  BY <1>26 DEF TypeOK, CancelUnstarted, Pcs, loopVars, dbVars, traceVars
<1>27. CASE Cancel
  BY <1>27 DEF TypeOK, Cancel, BeginFlush, Pcs, loopVars, dbVars
<1>28. CASE CancelFlush
  BY <1>28 DEF TypeOK, CancelFlush, Pcs, loopVars, dbVars, traceVars
<1>29. CASE UNCHANGED vars
  BY <1>29 DEF TypeOK, vars, loopVars, dbVars, traceVars
<1> QED
  BY <1>1, <1>2, <1>3, <1>4, <1>5, <1>6, <1>7, <1>8, <1>9, <1>10, <1>11, <1>12,
     <1>13, <1>14, <1>16, <1>17, <1>18, <1>19, <1>20, <1>21, <1>22, <1>23, <1>24,
     <1>25, <1>26, <1>27, <1>28, <1>29
  DEF Next, Server, ModelCall, ToolCall

-----------------------------------------------------------------------------
\* Only the tool steps touch the round's ids and results.
LEMMA ResultsStep ==
  TypeOK /\ ResultsInv /\ [Next]_vars => ResultsInv'
<1> SUFFICES ASSUME TypeOK, ResultsInv, [Next]_vars PROVE ResultsInv'
  OBVIOUS
<1> USE ChatTurnAssumption
<1>1. ASSUME UNCHANGED <<uses, results, failed>>,
             pc' \in {"tools", "awaiting"} => pc' = pc
      PROVE  ResultsInv'
  BY <1>1 DEF ResultsInv
<1>2. ASSUME NEW n \in 1 .. MaxParallel, AskForTools(n) PROVE ResultsInv'
  <2>1. Len(uses') = n /\ uses' \in Seq(ToolId) /\ n \in Nat /\ n > 0
    BY <1>2, UsesType DEF AskForTools
  <2>2. results' = << >> /\ failed' = {} /\ pc' = "tools"
    BY <1>2 DEF AskForTools
  <2>3. uses' # << >>
    BY <2>1
  <2> QED
    BY <2>1, <2>2, <2>3 DEF ResultsInv
<1>3. CASE RunTool
  BY <1>3 DEF RunTool, ResultsInv, TypeOK, loopVars
<1>4. ASSUME NEW isError \in BOOLEAN, Record(isError), pc = "awaiting"
      PROVE  ResultsInv'
  <2> DEFINE k == Len(results) + 1
  <2>1. k \in 1 .. Len(uses) /\ Len(results) \in Nat
    BY <1>4 DEF TypeOK, ResultsInv
  <2>2. uses[k] \in ToolId
    BY <2>1 DEF TypeOK
  <2>3. /\ results' = Append(results, uses[k]) /\ uses' = uses /\ pc' = "tools"
        /\ failed' \subseteq failed \cup {uses[k]}
    BY <1>4 DEF Record
  <2>4. /\ Len(results') = k
        /\ \A i \in 1 .. Len(results) : results'[i] = results[i]
        /\ results'[k] = uses[k]
    BY <2>2, <2>3 DEF TypeOK
  <2>5. \A i \in 1 .. Len(results') : results'[i] = uses'[i]
    BY <2>1, <2>3, <2>4 DEF ResultsInv
  <2>6. failed' \subseteq {results'[i] : i \in 1 .. Len(results')}
    BY <2>1, <2>3, <2>4 DEF ResultsInv
  <2> QED
    BY <2>1, <2>3, <2>4, <2>5, <2>6 DEF ResultsInv
<1>5. CASE TakeResult
  BY <1>4, <1>5 DEF TakeResult
<1>6. CASE RecoverTool
  BY <1>4, <1>6 DEF RecoverTool
<1>7. CASE NextRound
  BY <1>7 DEF NextRound, ResultsInv
<1> QED
  <2>1. CASE Unauthorized \/ StatementError \/ Accept \/ StartTurn
             \/ FallbackWord \/ FallbackEnd \/ StartCall
    BY <1>1, <2>1 DEF Unauthorized, StatementError, Accept, StartTurn, FallbackWord,
                      FallbackEnd, StartCall, loopVars
  <2>2. CASE Separate \/ TextChunk \/ CallFails
             \/ \E stop \in {"end_turn", "max_tokens"} : Answer(stop)
    BY <1>1, <2>2 DEF Separate, TextChunk, CallFails, Answer, loopVars
  <2>3. CASE RollbackFails \/ \E o \in {"ok", "refused", "raised"} : ToolReturns(o)
    BY <1>1, <2>3 DEF RollbackFails, ToolReturns, loopVars
  <2>4. CASE Apologise \/ Finish \/ ExitTurn \/ FlushEnds \/ CloseSession
    BY <1>1, <2>4 DEF Apologise, Finish, ExitTurn, BeginFlush, FlushEnds,
                      CloseSession, loopVars
  <2>5. CASE CancelUnstarted \/ Cancel \/ CancelFlush \/ Disconnect \/ UNCHANGED vars
    BY <1>1, <2>5 DEF CancelUnstarted, Cancel, BeginFlush, CancelFlush, Disconnect,
                      vars, loopVars
  <2> QED
    BY <2>1, <2>2, <2>3, <2>4, <2>5, <1>2, <1>3, <1>5, <1>6, <1>7
    DEF Next, Server, ModelCall, ToolCall

\* The bound on the calls of the model, and that the last one is an answer.
LEMMA CallsStep ==
  TypeOK /\ CallsInv /\ [Next]_vars => CallsInv'
<1> SUFFICES ASSUME TypeOK, CallsInv, [Next]_vars PROVE CallsInv'
  OBVIOUS
<1> USE ChatTurnAssumption DEF CallsInv, Answered
<1>0. trace.rounds \in Nat /\ trace \in Summary
  BY DEF TypeOK, Summary
<1>1. ASSUME trace' = trace, config' = config,
             pc' \in {"route", "start", "fallback", "call", "tools", "awaiting",
                      "finish", "exit"} => pc' = pc
      PROVE  CallsInv'
  BY <1>1
<1>2. CASE Accept \/ StartTurn \/ FallbackEnd
  BY <1>0, <1>2 DEF Accept, StartTurn, FallbackEnd, traceVars
<1>3. CASE StartCall
  <2>1. trace'.rounds = trace.rounds + 1
    BY <1>0, <1>3 DEF StartCall, Summary
  <2> QED
    BY <1>0, <1>3, <2>1 DEF StartCall
<1>4. ASSUME NEW stop \in {"end_turn", "max_tokens"}, Answer(stop) PROVE CallsInv'
  <2>1. trace'.rounds = trace.rounds /\ trace'.stop = stop
    BY <1>0, <1>4 DEF Answer, Summary
  <2> QED
    BY <1>0, <1>4, <2>1 DEF Answer
<1>5. ASSUME NEW n \in 1 .. MaxParallel, AskForTools(n) PROVE CallsInv'
  <2>1. trace'.rounds = trace.rounds /\ trace.rounds <= MaxToolRounds
    BY <1>0, <1>5 DEF AskForTools, ToolsOffered, Summary
  <2> QED
    BY <1>0, <1>5, <2>1 DEF AskForTools
<1>6. CASE RunTool \/ NextRound
  BY <1>0, <1>6 DEF RunTool, NextRound, traceVars
<1>7. ASSUME NEW isError \in BOOLEAN, Record(isError), pc = "awaiting"
      PROVE  CallsInv'
  <2>1. trace'.rounds = trace.rounds
    BY <1>0, <1>7 DEF Record, TraceTool, Summary
  <2> QED
    BY <1>0, <1>7, <2>1 DEF Record
<1>8. CASE TakeResult \/ RecoverTool
  BY <1>7, <1>8 DEF TakeResult, RecoverTool
<1>9. CASE Apologise
  <2>1. trace'.rounds = trace.rounds /\ trace'.outcome = "error"
    BY <1>0, <1>9 DEF Apologise, Summary
  <2> QED
    BY <1>0, <1>9, <2>1 DEF Apologise
<1>10. CASE Finish
  BY <1>10 DEF Finish
<1> QED
  <2>1. CASE Unauthorized \/ StatementError \/ FallbackWord \/ Separate \/ TextChunk
    BY <1>1, <2>1 DEF Unauthorized, StatementError, FallbackWord, Separate,
                      TextChunk, traceVars
  <2>2. CASE CallFails \/ RollbackFails
             \/ \E o \in {"ok", "refused", "raised"} : ToolReturns(o)
    BY <1>1, <2>2 DEF CallFails, RollbackFails, ToolReturns, traceVars
  <2>3. CASE ExitTurn \/ FlushEnds \/ CloseSession
    BY <1>1, <2>3 DEF ExitTurn, BeginFlush, FlushEnds, CloseSession, traceVars
  <2>4. CASE CancelUnstarted \/ Cancel \/ CancelFlush \/ Disconnect \/ UNCHANGED vars
    BY <1>1, <2>4 DEF CancelUnstarted, Cancel, BeginFlush, CancelFlush, Disconnect,
                      vars, traceVars
  <2> QED
    BY <2>1, <2>2, <2>3, <2>4, <1>2, <1>3, <1>4, <1>5, <1>6, <1>8, <1>9, <1>10
    DEF Next, Server, ModelCall, ToolCall

\* A tool's failure is rolled back before the next tool can start.
LEMMA SessionStep ==
  TypeOK /\ SessionInv /\ [Next]_vars => SessionInv'
<1> SUFFICES ASSUME TypeOK, SessionInv, [Next]_vars PROVE SessionInv'
  OBVIOUS
<1> USE DEF SessionInv, InTurn
<1>1. CASE Unauthorized \/ StatementError \/ Accept
  BY <1>1 DEF Unauthorized, StatementError, Accept, ContextRead
<1>2. CASE StartTurn \/ FallbackWord \/ FallbackEnd
  BY <1>2 DEF StartTurn, FallbackWord, FallbackEnd, dbVars
<1>3. CASE StartCall \/ Separate \/ TextChunk \/ CallFails
  BY <1>3 DEF StartCall, Separate, TextChunk, CallFails, dbVars
<1>4. ASSUME NEW stop \in {"end_turn", "max_tokens"}, Answer(stop) PROVE SessionInv'
  BY <1>4 DEF Answer, dbVars
<1>5. ASSUME NEW n \in 1 .. MaxParallel, AskForTools(n) PROVE SessionInv'
  BY <1>5 DEF AskForTools, dbVars
<1>6. CASE RunTool
  BY <1>6 DEF RunTool
<1>7. ASSUME NEW o \in {"ok", "refused", "raised"}, ToolReturns(o) PROVE SessionInv'
  <2>1. pc' = pc /\ thread = "running" /\ thread' = o
    BY <1>7 DEF ToolReturns
  <2>2. o # "raised" /\ txn # "aborted" => txn' # "aborted"
    BY <1>7 DEF ToolReturns
  <2> QED
    BY <2>1, <2>2
<1>8. CASE TakeResult
  BY <1>8 DEF TakeResult, Record
<1>9. CASE RecoverTool
  BY <1>9 DEF RecoverTool, Record
<1>10. CASE RollbackFails
  BY <1>10 DEF RollbackFails
<1>11. CASE NextRound \/ Apologise \/ Finish
  BY <1>11 DEF NextRound, Apologise, Finish, dbVars
<1>12. CASE ExitTurn \/ FlushEnds \/ CloseSession
  BY <1>12 DEF ExitTurn, BeginFlush, FlushEnds, CloseSession, dbVars
<1>13. CASE CancelUnstarted \/ Cancel \/ CancelFlush \/ Disconnect \/ UNCHANGED vars
  BY <1>13 DEF CancelUnstarted, Cancel, BeginFlush, CancelFlush, Disconnect, vars,
              dbVars
<1> QED
  BY <1>1, <1>2, <1>3, <1>4, <1>5, <1>6, <1>7, <1>8, <1>9, <1>10, <1>11, <1>12, <1>13
  DEF Next, Server, ModelCall, ToolCall

\* When every id is answered, the results are the ids: NextRound appends a
\* message and its complete answer, and nothing else appends.
LEMMA ConvoStep ==
  TypeOK /\ ResultsInv /\ ConvoWellFormed /\ [Next]_vars => ConvoWellFormed'
<1> SUFFICES ASSUME TypeOK, ResultsInv, ConvoWellFormed, [Next]_vars
             PROVE  ConvoWellFormed'
  OBVIOUS
<1>1. ASSUME convo' = convo PROVE ConvoWellFormed'
  BY <1>1 DEF ConvoWellFormed
<1>2. CASE NextRound
  <2> DEFINE n == Len(convo)
             a == Assistant(uses)
             u == User(results, failed)
  <2>1. /\ convo' = convo \o <<a, u>> /\ uses # << >>
        /\ Len(results) = Len(uses)
    BY <1>2 DEF NextRound, ResultsInv
  <2>2. results = uses
    <3>1. results \in Seq(ToolId) /\ uses \in Seq(ToolId)
      BY DEF TypeOK
    <3>2. \A i \in 1 .. Len(results) : results[i] = uses[i]
      BY DEF ResultsInv
    <3> HIDE DEF a, u
    <3> QED
      BY <3>1, <3>2, <2>1
  <2>3. /\ a.role = "assistant" /\ a.ids = uses
        /\ u.role = "user" /\ u.ids = results /\ u.errors = failed
    BY DEF Assistant, User
  <2>4. failed \subseteq {results[i] : i \in DOMAIN results}
    BY DEF ResultsInv, TypeOK
  <2> HIDE DEF a, u
  <2>5. n \in Nat /\ n % 2 = 0 /\ DOMAIN convo = 1 .. n
    <3>1. convo \in Seq(MessageSet)
      BY DEF TypeOK, MessageSet
    <3>2. Len(convo) % 2 = 0
      BY DEF ConvoWellFormed
    <3> QED
      BY <3>1, <3>2
  <2>6. /\ Len(convo') = n + 2 /\ DOMAIN convo' = 1 .. n + 2
        /\ \A i \in 1 .. n : convo'[i] = convo[i]
        /\ convo'[n + 1] = a /\ convo'[n + 2] = u
    BY <2>1, <2>5 DEF TypeOK
  <2>7. (n + 2) % 2 = 0 /\ (n + 1) % 2 = 1
    BY <2>5
  <2>8. ASSUME NEW i \in 1 .. n + 2
        PROVE  IF i % 2 = 1
               THEN convo'[i].role = "assistant" /\ convo'[i].ids # << >>
               ELSE /\ convo'[i].role = "user"
                    /\ convo'[i].ids = convo'[i - 1].ids
                    /\ convo'[i].errors \subseteq
                         {convo'[i].ids[j] : j \in DOMAIN convo'[i].ids}
    <3>1. CASE i \in 1 .. n
      <4>1. CASE i % 2 = 1
        BY <3>1, <4>1, <2>5, <2>6 DEF ConvoWellFormed
      <4>2. CASE i % 2 # 1
        <5>1. i - 1 \in 1 .. n
          BY <3>1, <4>2, <2>5
        <5> QED
          BY <3>1, <4>2, <5>1, <2>5, <2>6 DEF ConvoWellFormed
      <4> QED
        BY <4>1, <4>2
    <3>2. CASE i = n + 1
      BY <3>2, <2>1, <2>3, <2>6, <2>7
    <3>3. CASE i = n + 2
      <4>1. i - 1 = n + 1 /\ i % 2 # 1
        BY <3>3, <2>5, <2>7
      <4> QED
        BY <3>3, <4>1, <2>2, <2>3, <2>4, <2>6
    <3> QED
      BY <3>1, <3>2, <3>3, <2>5
  <2> QED
    BY <2>6, <2>7, <2>8 DEF ConvoWellFormed
<1> QED
  <2>1. CASE Unauthorized \/ StatementError \/ Accept \/ StartTurn
             \/ FallbackWord \/ FallbackEnd \/ StartCall \/ Separate \/ TextChunk
    BY <1>1, <2>1 DEF Unauthorized, StatementError, Accept, StartTurn, FallbackWord,
                      FallbackEnd, StartCall, Separate, TextChunk, loopVars
  <2>2. CASE CallFails \/ (\E stop \in {"end_turn", "max_tokens"} : Answer(stop))
             \/ \E k \in 1 .. MaxParallel : AskForTools(k)
    BY <1>1, <2>2 DEF CallFails, Answer, AskForTools, loopVars
  <2>3. CASE RunTool \/ RollbackFails \/ TakeResult \/ RecoverTool
             \/ \E o \in {"ok", "refused", "raised"} : ToolReturns(o)
    BY <1>1, <2>3 DEF RunTool, RollbackFails, ToolReturns, TakeResult, RecoverTool,
                      Record, loopVars
  <2>4. CASE Apologise \/ Finish \/ ExitTurn \/ FlushEnds \/ CloseSession
    BY <1>1, <2>4 DEF Apologise, Finish, ExitTurn, BeginFlush, FlushEnds,
                      CloseSession, loopVars
  <2>5. CASE CancelUnstarted \/ Cancel \/ CancelFlush \/ Disconnect \/ UNCHANGED vars
    BY <1>1, <2>5 DEF CancelUnstarted, Cancel, BeginFlush, CancelFlush, Disconnect,
                      vars, loopVars
  <2> QED
    BY <2>1, <2>2, <2>3, <2>4, <2>5, <1>2 DEF Next, Server, ModelCall, ToolCall

-----------------------------------------------------------------------------
\* Nothing has been asked yet.
LEMMA InvInit == Init => Inv
<1> SUFFICES ASSUME Init PROVE Inv
  OBVIOUS
<1>1. trace \in Summary
  BY DEF Init, Summary, StopReasons
<1>2. /\ out \in Seq(EventSet) /\ convo \in Seq(MessageSet) /\ log \in Seq(Summary)
      /\ uses \in Seq(ToolId) /\ results \in Seq(ToolId)
  BY DEF Init
<1>3. TypeOK
  BY <1>1, <1>2 DEF Init, TypeOK, Pcs, InTurn, EventSet, MessageSet
<1>4. ResultsInv
  BY <1>2 DEF Init, ResultsInv
<1>5. CallsInv
  BY ChatTurnAssumption DEF Init, CallsInv, Answered
<1>6. SessionInv
  BY DEF Init, SessionInv, InTurn
<1>7. ConvoWellFormed
  <2>1. Len(convo) = 0 /\ DOMAIN convo = {}
    BY DEF Init
  <2> QED
    BY <2>1 DEF ConvoWellFormed
<1> QED
  BY <1>3, <1>4, <1>5, <1>6, <1>7 DEF Inv

\* All parts are kept together.
LEMMA InvStep == Inv /\ [Next]_vars => Inv'
BY TypeStep, ResultsStep, CallsStep, SessionStep, ConvoStep DEF Inv

\* The inductive invariant holds in every reachable state.
THEOREM Invariance == Spec => []Inv
BY InvInit, InvStep, PTL DEF Spec

\* The variables keep their types.
THEOREM TypeCorrect == Spec => []TypeOK
<1>1. Inv => TypeOK
  BY DEF Inv
<1> QED
  BY <1>1, Invariance, PTL

\* Whatever tools fail, the conversation sent to the API pairs every request
\* for tools with one message that answers all its ids in order.
THEOREM ConvoCorrect == Spec => []ConvoWellFormed
<1>1. Inv => ConvoWellFormed
  BY DEF Inv
<1> QED
  BY <1>1, Invariance, PTL

\* No tool starts on a transaction that an earlier tool left aborted.
THEOREM TransactionFresh == Spec => []FreshTransaction
<1>1. Inv => FreshTransaction
  BY DEF Inv, SessionInv, FreshTransaction
<1> QED
  BY <1>1, Invariance, PTL

\* At most MaxToolRounds + 1 model calls, and the last one is an answer.
THEOREM TurnAnswered == Spec => []Answered
<1>1. Inv => Answered
  BY DEF Inv, CallsInv
<1> QED
  BY <1>1, Invariance, PTL

-----------------------------------------------------------------------------
(* What a turn leaves behind: the events it has sent implement ChatStream,  *)
(* its summary and its spans tell the truth, and its transaction is         *)
(* released.                                                                *)

Over == {"exit", "flushing", "closing", "closed"}

-----------------------------------------------------------------------------
(* The events sent so far.                                                 *)

SentIn(k, r) == \E i \in DOMAIN out : out[i] = Event(k, r)

\* What the events say about the position, and `first` and `emitted` about the
\* events: `first` means that this call has sent nothing, `emitted` that some
\* call has sent text.
StreamInv ==
  /\ \A i \in DOMAIN out : out[i].round <= trace.rounds
  /\ pc \in {"route", "start"} => out = << >>
  /\ Sent("apology") => pc \in {"finish"} \cup Over
  /\ pc \notin {"separated"} \cup Over => out = << >> \/ out[Len(out)].kind # "sep"
  /\ pc = "fallback" => \A i \in DOMAIN out : out[i].kind \in {"feedback", "text"}
  /\ pc \in {"call", "stream", "separated", "tools", "awaiting"} => config.apiKey
  /\ config.apiKey => (emitted <=> Sent("text"))
  /\ pc \in {"stream", "separated"} => ~SentIn("status", trace.rounds)
  /\ pc = "stream" /\ first => \A i \in DOMAIN out : out[i].round < trace.rounds
  /\ pc = "stream" /\ ~first => SentIn("text", trace.rounds)
  /\ pc = "separated" => SentIn("sep", trace.rounds)

-----------------------------------------------------------------------------
(* The spans and their export.                                             *)

SpansInv ==
  /\ pc \notin {"stream", "separated"} => "generation" \notin spans
  /\ flush # "no" => pc \in Over \ {"exit"} /\ spans = {} /\ (Sent("done") \/ ~connected)
  /\ pc = "exit" => Sent("done")
  /\ pc = "flushing" => flush = "running"
  /\ pc \in {"closing", "closed"} /\ connected /\ out # << >> /\ config.tracing
       => flush = "ended"

-----------------------------------------------------------------------------
(* The thread of a tool outlives its turn only if the client left.         *)

ThreadInv ==
  /\ thread # "none" => pc = "awaiting" \/ ~connected
  /\ pc = "closed" /\ txn # "none" => thread # "none"

-----------------------------------------------------------------------------
(* What the summary counts.                                                *)

\* The ids of a request for tools carry the number of its call, and those told
\* to the model that of an earlier one.
IdsInv ==
  /\ pc \in {"route", "start", "fallback", "call", "stream", "separated"}
       => uses = << >> /\ results = << >> /\ failed = {}
  /\ \A i \in DOMAIN uses : uses[i] = <<trace.rounds, i>>
  /\ \A m \in DOMAIN convo : \A id \in convo[m].errors :
       /\ id[1] <= trace.rounds
       /\ pc \in {"stream", "separated"} \/ uses # << >> => id[1] < trace.rounds

CountInv ==
  /\ trace.calls = Cardinality(ToldIds) + Len(results)
  /\ trace.errors = Cardinality(ToldErrors) + Cardinality(failed)
  /\ trace.outcome = "error" <=> Sent("apology")
  /\ log # << >> => pc \in Over /\ log = <<trace>>
  /\ IsFiniteSet(ToldIds) /\ IsFiniteSet(ToldErrors) /\ IsFiniteSet(failed)

TurnInv == StreamInv /\ SpansInv /\ ThreadInv /\ IdsInv /\ CountInv

-----------------------------------------------------------------------------
(* Lemmas about sending.                                                   *)

\* The events sent and the counters have their types.
LEMMA OutType ==
  ASSUME TypeOK
  PROVE  /\ Len(out) \in Nat /\ DOMAIN out = 1 .. Len(out)
         /\ out \in Seq(EventSet) /\ \A i \in DOMAIN out : out[i] \in EventSet
         /\ trace \in Summary /\ trace.rounds \in Nat
<1>1. out \in Seq(EventSet) /\ trace \in Summary
  BY DEF TypeOK, EventSet
<1>2. trace.rounds \in Nat
  BY <1>1 DEF Summary
<1> QED
  BY <1>1, <1>2

\* Emit adds its event and no other.
LEMMA EmitFacts ==
  ASSUME TypeOK, NEW k \in EventKinds, Emit(k)
  PROVE  /\ DOMAIN out' = 1 .. Len(out) + 1 /\ Len(out') = Len(out) + 1
         /\ \A i \in DOMAIN out : out'[i] = out[i]
         /\ out'[Len(out) + 1] = Event(k, trace.rounds)
         /\ out' # << >>
         /\ \A j : Sent(j)' <=> Sent(j) \/ j = k
         /\ \A j, r : (\E i \in DOMAIN out' : out'[i] = Event(j, r))
                        <=> SentIn(j, r) \/ (j = k /\ r = trace.rounds)
<1> DEFINE e == Event(k, trace.rounds)
           n == Len(out)
<1>1. n \in Nat /\ DOMAIN out = 1 .. n /\ out \in Seq(EventSet) /\ e \in EventSet
  BY OutType DEF Event, EventSet
<1>2. e.kind = k /\ e.round = trace.rounds
        /\ \A j, r : Event(j, r) = e <=> j = k /\ r = trace.rounds
  BY DEF Event
<1> HIDE DEF e
<1>3. out' = Append(out, e)
  BY DEF Emit, e
<1>4. /\ DOMAIN out' = 1 .. n + 1 /\ Len(out') = n + 1
      /\ \A i \in DOMAIN out : out'[i] = out[i]
      /\ out'[n + 1] = e
  BY <1>1, <1>3
<1>5. \A i \in DOMAIN out' : i \in DOMAIN out \/ i = n + 1
  BY <1>1, <1>4
<1>6. ASSUME NEW j PROVE Sent(j)' <=> Sent(j) \/ j = k
  BY <1>1, <1>2, <1>4, <1>5 DEF Sent
<1>7. ASSUME NEW j, NEW r
      PROVE  (\E i \in DOMAIN out' : out'[i] = Event(j, r))
               <=> SentIn(j, r) \/ (j = k /\ r = trace.rounds)
  BY <1>1, <1>2, <1>4, <1>5 DEF SentIn
<1>8. out' # << >>
  BY <1>4, <1>1
<1> QED
  BY <1>4, <1>6, <1>7, <1>8 DEF e

-----------------------------------------------------------------------------
(* StreamInv is invariant.                                                 *)

\* What the events, `first` and `emitted` say of each other is kept.
LEMMA StreamStep ==
  Inv /\ StreamInv /\ [Next]_vars => StreamInv'
<1> SUFFICES ASSUME Inv, StreamInv, [Next]_vars PROVE StreamInv'
  OBVIOUS
<1> USE DEF StreamInv, Over
<1>0. /\ TypeOK /\ CallsInv /\ Len(out) \in Nat /\ DOMAIN out = 1 .. Len(out)
      /\ \A i \in DOMAIN out : out[i] \in EventSet
      /\ trace \in Summary /\ trace.rounds \in Nat
  BY OutType DEF Inv
<1>1. ASSUME out' = out, trace'.rounds = trace.rounds, config' = config,
             emitted' = emitted, first' = first,
             pc' = pc \/ pc' \in {"tools", "awaiting", "failed", "finish"} \cup Over,
             pc' = pc \/ pc \notin {"separated"} \cup Over \/ pc' \in Over,
             pc' \in {"tools", "awaiting"} => pc' = pc \/ config.apiKey,
             Sent("apology") => pc' = pc \/ pc' \in {"finish"} \cup Over
      PROVE  StreamInv'
  BY <1>0, <1>1 DEF Sent, SentIn
<1>2. CASE Accept
  BY <1>2 DEF Accept, loopVars, traceVars, Sent, SentIn
<1>3. CASE StartTurn
  <2>1. /\ pc = "start" /\ out = << >> /\ trace' = trace
        /\ UNCHANGED <<config, first, emitted>>
        /\ pc' = (IF config.apiKey THEN "call" ELSE "fallback")
    BY <1>3 DEF StartTurn, loopVars
  <2>2. CASE UNCHANGED out
    BY <2>1, <2>2 DEF Sent, SentIn
  <2>3. CASE Emit("feedback")
    <3>1. /\ DOMAIN out' = 1 .. 1 /\ Len(out') = 1
          /\ out'[1].kind = "feedback" /\ out'[1].round = trace.rounds
      BY <1>0, <2>1, <2>3, EmitFacts DEF EventKinds, Event
    <3>2. ~Sent("text")' /\ ~Sent("apology")' /\ ~Sent("text")
      BY <2>1, <3>1 DEF Sent
    <3>3. \A i \in DOMAIN out' : i = 1
      BY <3>1
    <3> QED
      BY <1>0, <2>1, <3>1, <3>2, <3>3
  <2> QED
    BY <1>3, <2>2, <2>3 DEF StartTurn
<1>emit. ASSUME NEW k \in EventKinds, Emit(k), trace'.rounds = trace.rounds
       PROVE  /\ \A i \in DOMAIN out' : out'[i].round <= trace'.rounds
              /\ out'[Len(out')].kind = k
              /\ Sent("text")' <=> Sent("text") \/ k = "text"
              /\ Sent("apology")' <=> Sent("apology") \/ k = "apology"
              /\ \A j : SentIn(j, trace.rounds)' <=> SentIn(j, trace.rounds) \/ j = k
              /\ k = "text" /\ pc = "fallback" =>
                   \A i \in DOMAIN out' : out'[i].kind \in {"feedback", "text"}
  <2>1. /\ DOMAIN out' = 1 .. Len(out) + 1 /\ Len(out') = Len(out) + 1
        /\ \A i \in DOMAIN out : out'[i] = out[i]
        /\ out'[Len(out) + 1].kind = k /\ out'[Len(out) + 1].round = trace.rounds
    <3>1. /\ DOMAIN out' = 1 .. Len(out) + 1 /\ Len(out') = Len(out) + 1
          /\ \A i \in DOMAIN out : out'[i] = out[i]
          /\ out'[Len(out) + 1] = Event(k, trace.rounds)
      BY <1>0, <1>emit, EmitFacts
    <3>2. Event(k, trace.rounds).kind = k /\ Event(k, trace.rounds).round = trace.rounds
      BY DEF Event
    <3> QED
      BY <3>1, <3>2
  <2>2. \A i \in DOMAIN out' : i \in DOMAIN out \/ i = Len(out) + 1
    BY <1>0, <2>1
  <2>3. \A i \in DOMAIN out' : out'[i].round <= trace'.rounds
    BY <1>0, <1>emit, <2>1, <2>2
  <2>4. k = "text" /\ pc = "fallback" =>
          \A i \in DOMAIN out' : out'[i].kind \in {"feedback", "text"}
    BY <2>1, <2>2
  <2>5. Sent("text")' <=> Sent("text") \/ k = "text"
    BY <1>0, <1>emit, EmitFacts
  <2>6. Sent("apology")' <=> Sent("apology") \/ k = "apology"
    BY <1>0, <1>emit, EmitFacts
  <2>7. \A j : SentIn(j, trace.rounds)' <=> SentIn(j, trace.rounds) \/ j = k
    BY <1>0, <1>emit, EmitFacts DEF SentIn
  <2> QED
    BY <2>1, <2>3, <2>4, <2>5, <2>6, <2>7
<1>4. CASE FallbackWord
  <2>1. Emit("text") /\ UNCHANGED <<config, pc, first, emitted, trace>> /\ pc = "fallback"
    BY <1>4 DEF FallbackWord, traceVars
  <2>2. ~config.apiKey
    BY <1>0, <2>1 DEF CallsInv
  <2> QED
    BY <1>0, <1>emit, <2>1, <2>2 DEF EventKinds
<1>5. CASE StartCall
  <2>1. /\ pc = "call" /\ pc' = "stream" /\ first' = TRUE
        /\ UNCHANGED <<config, out, emitted>>
        /\ trace'.rounds = trace.rounds + 1
    BY <1>0, <1>5 DEF StartCall, Summary
  <2>2. \A i \in DOMAIN out : out[i].round \in Nat /\ out[i].round < trace'.rounds
    BY <1>0, <2>1 DEF EventSet
  <2>3. ~SentIn("status", trace.rounds)'
    BY <2>1, <2>2 DEF SentIn, Event
  <2> QED
    BY <1>0, <2>1, <2>2, <2>3 DEF Sent
<1>6. CASE Separate
  <2>1. /\ Emit("sep") /\ UNCHANGED <<config, emitted, trace>>
        /\ pc = "stream" /\ pc' = "separated"
    BY <1>6 DEF Separate, traceVars
  <2> QED
    BY <1>0, <1>emit, <2>1 DEF EventKinds
<1>7. CASE TextChunk
  <2>1. /\ Emit("text") /\ UNCHANGED <<config, trace>> /\ emitted' = TRUE /\ first' = FALSE
        /\ pc \in {"stream", "separated"} /\ pc' = "stream"
    BY <1>7 DEF TextChunk, traceVars
  <2> QED
    BY <1>0, <1>emit, <2>1 DEF EventKinds
<1>8. ASSUME NEW n \in 1 .. MaxParallel, AskForTools(n) PROVE StreamInv'
  <2>1. /\ Emit("status") /\ UNCHANGED <<config, emitted, first>>
        /\ pc = "stream" /\ pc' = "tools" /\ trace'.rounds = trace.rounds
    BY <1>0, <1>8 DEF AskForTools, Summary
  <2> QED
    BY <1>0, <1>emit, <2>1 DEF EventKinds
<1>9. CASE Apologise
  <2>1. /\ Emit("apology") /\ UNCHANGED <<config, emitted, first>>
        /\ pc = "failed" /\ pc' = "finish" /\ trace'.rounds = trace.rounds
    BY <1>0, <1>9 DEF Apologise, loopVars, Summary
  <2> QED
    BY <1>0, <1>emit, <2>1 DEF EventKinds
<1>10. CASE Finish
  <2>1. /\ Emit("done") /\ UNCHANGED <<config, emitted, first, trace>>
        /\ pc = "finish" /\ pc' = "exit"
    BY <1>10 DEF Finish, loopVars
  <2> QED
    BY <1>0, <1>emit, <2>1 DEF EventKinds
<1>11. CASE NextRound
  <2>1. /\ UNCHANGED <<config, out, emitted, first, trace>>
        /\ pc = "tools" /\ pc' \in {"call", "finish"}
    BY <1>11 DEF NextRound, traceVars
  <2> QED
    BY <2>1 DEF Sent, SentIn
<1> QED
  <2>1. CASE Unauthorized \/ StatementError \/ FallbackEnd
    BY <1>1, <2>1 DEF Unauthorized, StatementError, FallbackEnd, loopVars, traceVars
  <2>2. CASE CallFails \/ RollbackFails \/ RunTool
             \/ \E o \in {"ok", "refused", "raised"} : ToolReturns(o)
    BY <1>1, <2>2 DEF CallFails, RollbackFails, RunTool, ToolReturns, loopVars, traceVars
  <2>3. ASSUME NEW stop \in {"end_turn", "max_tokens"}, Answer(stop) PROVE StreamInv'
    <3>1. trace'.rounds = trace.rounds
      BY <1>0, <2>3 DEF Answer, Summary
    <3> QED
      BY <1>1, <2>3, <3>1 DEF Answer, loopVars
  <2>4. ASSUME NEW isError \in BOOLEAN, Record(isError), pc = "awaiting" PROVE StreamInv'
    <3>1. trace'.rounds = trace.rounds
      BY <1>0, <2>4 DEF Record, TraceTool, Summary
    <3> QED
      BY <1>1, <2>4, <3>1 DEF Record
  <2>5. CASE TakeResult \/ RecoverTool
    BY <2>4, <2>5 DEF TakeResult, RecoverTool
  <2>6. CASE ExitTurn \/ FlushEnds \/ CloseSession
    BY <1>1, <2>6 DEF ExitTurn, BeginFlush, FlushEnds, CloseSession, loopVars, traceVars
  <2>7. CASE CancelUnstarted \/ Cancel \/ CancelFlush \/ Disconnect \/ UNCHANGED vars
    BY <1>1, <2>7 DEF CancelUnstarted, Cancel, BeginFlush, CancelFlush, Disconnect,
                      vars, loopVars, traceVars
  <2> QED
    BY <2>1, <2>2, <2>3, <2>5, <2>6, <2>7, <1>2, <1>3, <1>4, <1>5, <1>6, <1>7, <1>8,
       <1>9, <1>10, <1>11
    DEF Next, Server, ModelCall, ToolCall

-----------------------------------------------------------------------------
(* The parts of TurnInv about spans, the thread and the ids.               *)

\* Spans end before they are exported, and the export follows [DONE].
LEMMA SpansStep ==
  Inv /\ StreamInv /\ SpansInv /\ [Next]_vars => SpansInv'
<1> SUFFICES ASSUME Inv, StreamInv, SpansInv, [Next]_vars PROVE SpansInv'
  OBVIOUS
<1> USE DEF SpansInv, Over
<1>0. /\ TypeOK /\ spans \in SUBSET {"root", "generation"}
      /\ pc \in Pcs /\ flush \in {"no", "running", "ended"} /\ connected \in BOOLEAN
  BY DEF Inv, TypeOK
<1>2. CASE Unauthorized \/ StatementError
  BY <1>0, <1>2 DEF StreamInv, Unauthorized, StatementError, traceVars
<1>3. CASE StartTurn
  BY <1>0, <1>3 DEF StartTurn
<1>4. CASE StartCall
  BY <1>0, <1>4 DEF StartCall, StartGeneration
<1>5. CASE CallFails
             \/ (\E n \in 1 .. MaxParallel : AskForTools(n))
             \/ \E stop \in {"end_turn", "max_tokens"} : Answer(stop)
  BY <1>0, <1>5 DEF AskForTools, CallFails, Answer, EndGeneration
<1>6. CASE Finish
  <2>1. Sent("done")'
    BY <1>0, <1>6, EmitFacts DEF Finish, EventKinds
  <2> QED
    BY <1>0, <1>6, <2>1 DEF Finish
<1>7. CASE ExitTurn
  <2>1. Sent("done")' /\ spans' = {}
    BY <1>0, <1>7 DEF ExitTurn, Sent
  <2> QED
    BY <1>0, <1>7, <2>1 DEF ExitTurn, BeginFlush
<1>8. CASE FlushEnds
  BY <1>0, <1>8 DEF FlushEnds, Sent
<1>9. CASE CloseSession
  BY <1>0, <1>9 DEF CloseSession, Sent, traceVars
<1>10. CASE Disconnect
  BY <1>0, <1>10 DEF Disconnect, Sent, traceVars
<1>11. CASE CancelUnstarted \/ CancelFlush
  <2>1. CASE CancelUnstarted
    BY <1>0, <2>1 DEF CancelUnstarted, Sent, traceVars
  <2>2. CASE CancelFlush
    BY <1>0, <2>2 DEF CancelFlush, Sent, traceVars
  <2> QED
    BY <1>11, <2>1, <2>2
<1>12. CASE Cancel
  BY <1>0, <1>12 DEF Cancel, BeginFlush, InTurn
<1>13. CASE Accept \/ FallbackEnd \/ RunTool \/ RollbackFails \/ NextRound
  BY <1>0, <1>13 DEF Accept, FallbackEnd, RunTool, RollbackFails, NextRound, Sent, traceVars
<1>14. CASE TakeResult \/ RecoverTool
  BY <1>0, <1>14 DEF TakeResult, RecoverTool, Record, Sent
<1>16. CASE (\E o \in {"ok", "refused", "raised"} : ToolReturns(o)) \/ UNCHANGED vars
  <2>1. UNCHANGED <<spans, flush, out, pc, connected, config>>
    BY <1>16 DEF ToolReturns, vars, traceVars
  <2> QED
    BY <2>1 DEF Sent
<1>15. CASE FallbackWord \/ Separate \/ TextChunk \/ Apologise
  BY <1>0, <1>15 DEF FallbackWord, Separate, TextChunk, Apologise, traceVars
<1> QED
  BY <1>2, <1>3, <1>4, <1>5, <1>6, <1>7, <1>8, <1>9, <1>10, <1>11, <1>12, <1>13, <1>14,
     <1>15, <1>16
  DEF Next, Server, ModelCall, ToolCall

\* Only a client who leaves lets a tool's thread outlive the turn.
LEMMA ThreadStep ==
  Inv /\ ThreadInv /\ [Next]_vars => ThreadInv'
<1> SUFFICES ASSUME Inv, ThreadInv, [Next]_vars PROVE ThreadInv'
  OBVIOUS
<1> USE DEF ThreadInv
<1>1. CASE Unauthorized \/ StatementError \/ Accept \/ StartTurn \/ FallbackWord
            \/ FallbackEnd
  BY <1>1 DEF Unauthorized, StatementError, Accept, StartTurn, FallbackWord, FallbackEnd,
              dbVars
<1>2. CASE ModelCall
  BY <1>2 DEF ModelCall, StartCall, Separate, TextChunk, Answer, AskForTools, CallFails,
              dbVars
<1>3. CASE RunTool \/ NextRound
  BY <1>3 DEF RunTool, NextRound, dbVars
<1>8. CASE TakeResult \/ RecoverTool \/ RollbackFails
  BY <1>8 DEF TakeResult, RecoverTool, Record, RollbackFails
<1>4. ASSUME NEW o \in {"ok", "refused", "raised"}, ToolReturns(o) PROVE ThreadInv'
  BY <1>4 DEF ToolReturns
<1>5. CASE Apologise \/ Finish \/ ExitTurn \/ FlushEnds
  BY <1>5 DEF Apologise, Finish, ExitTurn, BeginFlush, FlushEnds, dbVars
<1>6. CASE CloseSession
  BY <1>6 DEF CloseSession
<1>7. CASE CancelUnstarted \/ Cancel \/ CancelFlush \/ Disconnect \/ UNCHANGED vars
  BY <1>7 DEF CancelUnstarted, Cancel, BeginFlush, CancelFlush, Disconnect, vars, dbVars
<1> QED
  BY <1>1, <1>2, <1>3, <1>4, <1>5, <1>6, <1>7, <1>8 DEF Next, Server, ToolCall

\* Ids of different calls differ: they carry the number of their call.
LEMMA IdsStep ==
  Inv /\ IdsInv /\ [Next]_vars => IdsInv'
<1> SUFFICES ASSUME Inv, IdsInv, [Next]_vars PROVE IdsInv'
  OBVIOUS
<1> USE DEF IdsInv
<1>0. /\ TypeOK /\ ResultsInv /\ trace \in Summary /\ trace.rounds \in Nat
      /\ \A m \in DOMAIN convo : \A id \in convo[m].errors : id[1] \in Nat
  <2>1. convo \in Seq(MessageSet)
    BY DEF Inv, TypeOK, MessageSet
  <2>2. \A m \in DOMAIN convo : convo[m] \in MessageSet
    BY <2>1
  <2>3. \A m \in DOMAIN convo : convo[m].errors \in SUBSET ToolId
    BY <2>2 DEF MessageSet
  <2> QED
    BY <2>3, OutType DEF Inv, ToolId
<1>1. ASSUME UNCHANGED <<uses, results, failed, convo>>, trace'.rounds = trace.rounds,
             \/ pc' = pc \/ pc' \in {"finish", "failed", "tools", "awaiting"} \cup Over
             \/ pc' \in {"stream", "separated"} /\ pc \in {"stream", "separated"}
             \/ pc' \in {"start", "fallback", "call"} /\ pc \in {"route", "start"}
      PROVE  IdsInv'
  BY <1>1, <1>0 DEF Over
<1>2. CASE StartCall
  <2>1. /\ pc = "call" /\ pc' = "stream" /\ trace'.rounds = trace.rounds + 1
        /\ UNCHANGED <<uses, results, failed, convo>>
    BY <1>0, <1>2 DEF StartCall, Summary
  <2>2. uses' = << >> /\ DOMAIN uses' = {} /\ results' = << >> /\ failed' = {}
    BY <2>1
  <2>3. \A m \in DOMAIN convo' : \A id \in convo'[m].errors : id[1] < trace'.rounds
    BY <2>1, <1>0
  <2>4. \A m \in DOMAIN convo' : \A id \in convo'[m].errors : id[1] <= trace'.rounds
    BY <2>1, <1>0
  <2> QED
    BY <2>2, <2>3, <2>4
<1>3. ASSUME NEW n \in 1 .. MaxParallel, AskForTools(n) PROVE IdsInv'
  <2>1. /\ pc = "stream" /\ pc' = "tools" /\ trace'.rounds = trace.rounds
        /\ UNCHANGED convo /\ uses' = [i \in 1 .. n |-> <<trace.rounds, i>>]
    BY <1>0, <1>3 DEF AskForTools, Summary
  <2> QED
    BY <2>1, <1>0
<1>4. ASSUME NEW isError \in BOOLEAN, Record(isError), pc = "awaiting" PROVE IdsInv'
  <2>1. /\ pc' = "tools" /\ trace'.rounds = trace.rounds /\ UNCHANGED <<uses, convo>>
    BY <1>0, <1>4 DEF Record, TraceTool, Summary
  <2> QED
    BY <2>1, <1>0
<1>5. CASE NextRound
  <2> DEFINE a == Assistant(uses)
             u == User(results, failed)
             n == Len(convo)
  <2>1. /\ pc = "tools" /\ pc' \in {"call", "finish"} /\ trace' = trace
        /\ uses' = << >> /\ results' = << >> /\ failed' = {}
        /\ convo' = convo \o <<a, u>>
    BY <1>5 DEF NextRound, traceVars
  <2>2. a.errors = {} /\ u.errors = failed
    BY DEF Assistant, User
  <2>3. \A id \in failed : id[1] = trace.rounds
    BY <1>0 DEF ResultsInv, TypeOK
  <2> HIDE DEF a, u
  <2>4. /\ n \in Nat /\ DOMAIN convo = 1 .. n
        /\ DOMAIN convo' = 1 .. n + 2 /\ \A m \in 1 .. n : convo'[m] = convo[m]
        /\ convo'[n + 1] = a /\ convo'[n + 2] = u
    BY <1>0, <2>1 DEF TypeOK
  <2>5. ASSUME NEW m \in DOMAIN convo', NEW id \in convo'[m].errors
        PROVE  id[1] <= trace'.rounds
    <3>1. m \in 1 .. n \/ m = n + 1 \/ m = n + 2
      BY <2>4
    <3> QED
      BY <1>0, <2>1, <2>2, <2>3, <2>4, <2>5, <3>1
  <2> QED
    BY <2>1, <2>5
<1> QED
  <2>1. CASE Unauthorized \/ StatementError \/ Accept \/ StartTurn \/ FallbackWord
              \/ FallbackEnd
    BY <1>1, <2>1 DEF Unauthorized, StatementError, Accept, StartTurn, FallbackWord,
                      FallbackEnd, loopVars, traceVars, Over
  <2>2. CASE Separate \/ TextChunk \/ CallFails
    BY <1>1, <2>2 DEF Separate, TextChunk, CallFails, loopVars, traceVars, Over
  <2>3. ASSUME NEW stop \in {"end_turn", "max_tokens"}, Answer(stop) PROVE IdsInv'
    <3>1. trace'.rounds = trace.rounds
      BY <1>0, <2>3 DEF Answer, Summary
    <3> QED
      BY <1>1, <2>3, <3>1 DEF Answer, loopVars
  <2>4. CASE RunTool \/ RollbackFails
              \/ \E o \in {"ok", "refused", "raised"} : ToolReturns(o)
    BY <1>1, <2>4 DEF RunTool, RollbackFails, ToolReturns, loopVars, traceVars
  <2>5. CASE TakeResult \/ RecoverTool
    BY <1>4, <2>5 DEF TakeResult, RecoverTool
  <2>6. CASE Apologise
    <3>1. trace'.rounds = trace.rounds
      BY <1>0, <2>6 DEF Apologise, Summary
    <3> QED
      BY <1>1, <2>6, <3>1 DEF Apologise, loopVars
  <2>7. CASE Finish \/ ExitTurn \/ FlushEnds \/ CloseSession
    BY <1>1, <2>7 DEF Finish, ExitTurn, BeginFlush, FlushEnds, CloseSession, loopVars,
                      traceVars, Over
  <2>8. CASE CancelUnstarted \/ Cancel \/ CancelFlush \/ Disconnect \/ UNCHANGED vars
    BY <1>1, <2>8 DEF CancelUnstarted, Cancel, BeginFlush, CancelFlush, Disconnect, vars,
                      loopVars, traceVars, Over
  <2> QED
    BY <2>1, <2>2, <2>3, <2>4, <2>5, <2>6, <2>7, <2>8, <1>2, <1>3, <1>5
    DEF Next, Server, ModelCall, ToolCall

-----------------------------------------------------------------------------
(* The counters of the summary.                                            *)

\* What ToldIds and ToldErrors become when a round's two messages are added.
LEMMA ToldFacts ==
  ASSUME TypeOK, NextRound, Len(results) \in Nat
  PROVE  /\ ToldIds' = ToldIds \cup {<<Len(convo) + 2, j>> : j \in 1 .. Len(results)}
         /\ \A t \in ToldIds : t[1] # Len(convo) + 2
         /\ ToldErrors' = ToldErrors \cup failed
<1> DEFINE a == Assistant(uses)
           u == User(results, failed)
           n == Len(convo)
<1>1. a.role # "user" /\ a.errors = {} /\ u.role = "user" /\ u.ids = results
        /\ u.errors = failed /\ convo' = convo \o <<a, u>>
        /\ DOMAIN results = 1 .. Len(results)
  BY DEF Assistant, User, NextRound, TypeOK
<1> HIDE DEF a, u
<1>2. /\ n \in Nat /\ DOMAIN convo = 1 .. n
      /\ DOMAIN convo' = 1 .. n + 2 /\ \A m \in 1 .. n : convo'[m] = convo[m]
      /\ convo'[n + 1] = a /\ convo'[n + 2] = u
  BY <1>1 DEF TypeOK
<1>3. \A m : m \in 1 .. n + 2 <=> m \in 1 .. n \/ m = n + 1 \/ m = n + 2
  BY <1>2
<1>4. \A t : t \in ToldIds <=>
        \E m \in 1 .. n : convo[m].role = "user" /\ \E j \in DOMAIN convo[m].ids : t = <<m, j>>
  BY <1>2 DEF ToldIds
<1>5. \A t : t \in ToldIds' <=>
        \E m \in 1 .. n + 2 :
          convo'[m].role = "user" /\ \E j \in DOMAIN convo'[m].ids : t = <<m, j>>
  BY <1>2 DEF ToldIds
<1>6. \A t : t \in ToldIds' <=>
        t \in ToldIds \/ \E j \in 1 .. Len(results) : t = <<n + 2, j>>
  <2>1. /\ \A m \in 1 .. n : m \in 1 .. n + 2 /\ convo'[m] = convo[m]
        /\ n + 2 \in 1 .. n + 2 /\ convo'[n + 2].role = "user"
        /\ DOMAIN convo'[n + 2].ids = 1 .. Len(results)
        /\ convo'[n + 1].role # "user"
    BY <1>1, <1>2, <1>3
  <2>2. ASSUME NEW t \in ToldIds'
        PROVE  t \in ToldIds \/ \E j \in 1 .. Len(results) : t = <<n + 2, j>>
    <3>1. PICK m \in 1 .. n + 2 :
            convo'[m].role = "user" /\ \E j \in DOMAIN convo'[m].ids : t = <<m, j>>
      BY <1>5
    <3>2. m \in 1 .. n \/ m = n + 2
      BY <1>3, <2>1, <3>1
    <3> QED
      BY <1>4, <2>1, <3>1, <3>2
  <2>3. ASSUME NEW t \in ToldIds PROVE t \in ToldIds'
    BY <1>4, <1>5, <2>1
  <2>4. ASSUME NEW j \in 1 .. Len(results) PROVE <<n + 2, j>> \in ToldIds'
    BY <1>5, <2>1
  <2> QED
    BY <2>2, <2>3, <2>4
<1>7. ToldIds' = ToldIds \cup {<<n + 2, j>> : j \in 1 .. Len(results)}
  BY <1>6
<1>8. \A t \in ToldIds : t[1] # n + 2
  BY <1>2, <1>4
<1>9. ToldErrors' = ToldErrors \cup failed
  <2>1. \A e : e \in ToldErrors <=> \E m \in 1 .. n : e \in convo[m].errors
    BY <1>2 DEF ToldErrors
  <2>2. \A e : e \in ToldErrors' <=> \E m \in 1 .. n + 2 : e \in convo'[m].errors
    BY <1>2 DEF ToldErrors
  <2>3. \A e : e \in ToldErrors' <=> e \in ToldErrors \/ e \in failed
    BY <1>1, <1>2, <1>3, <2>1, <2>2
  <2> QED
    BY <2>3
<1> QED
  BY <1>7, <1>8, <1>9

\* The cardinality of pairs <<c, 1>>, ..., <<c, k>>.
LEMMA PairsCardinality ==
  ASSUME NEW c, NEW k \in Nat
  PROVE  /\ IsFiniteSet({<<c, j>> : j \in 1 .. k})
         /\ Cardinality({<<c, j>> : j \in 1 .. k}) = k
<1> DEFINE S == {<<c, j>> : j \in 1 .. k}
           f == [j \in 1 .. k |-> <<c, j>>]
<1>1. f \in Bijection(1 .. k, S)
  <2>1. f \in [1 .. k -> S]
    OBVIOUS
  <2>2. \A i, j \in 1 .. k : f[i] = f[j] => i = j
    OBVIOUS
  <2>3. \A s \in S : \E j \in 1 .. k : f[j] = s
    OBVIOUS
  <2> QED
    BY <2>1, <2>2, <2>3 DEF Bijection, Injection, Surjection, IsInjective
<1>2. ExistsBijection(1 .. k, S)
  BY <1>1 DEF ExistsBijection
<1>3. Cardinality(S) = k
  BY <1>2, FS_CountingElements
<1>4. IsFiniteSet(S)
  BY <1>2, FS_NatBijection
<1> QED
  BY <1>3, <1>4

\* The counters count what the model is told.
LEMMA CountStep ==
  Inv /\ StreamInv /\ IdsInv /\ CountInv /\ [Next]_vars => CountInv'
<1> SUFFICES ASSUME Inv, StreamInv, IdsInv, CountInv, [Next]_vars PROVE CountInv'
  OBVIOUS
<1>0. /\ TypeOK /\ ResultsInv /\ trace \in Summary
      /\ trace.rounds \in Nat /\ trace.calls \in Nat /\ trace.errors \in Nat
      /\ Len(results) \in Nat
      /\ Cardinality(ToldIds) \in Nat /\ Cardinality(ToldErrors) \in Nat
      /\ Cardinality(failed) \in Nat
  BY OutType, FS_CardinalityType DEF Inv, CountInv, TypeOK, Summary
<1>1. ASSUME UNCHANGED <<results, failed, convo, log>>,
             trace'.calls = trace.calls, trace'.errors = trace.errors,
             trace'.outcome = "error" <=> Sent("apology")',
             log = << >> \/ (pc' \in Over /\ trace' = trace)
      PROVE  CountInv'
  BY <1>1 DEF CountInv, ToldIds, ToldErrors
<1>2. /\ trace.outcome = "error" <=> Sent("apology")
      /\ log # << >> => pc \in Over /\ log = <<trace>>
  BY DEF CountInv
<1>3. ASSUME UNCHANGED <<results, failed, convo, log, trace, out>>,
             pc \notin Over \/ pc' \in Over
      PROVE  CountInv'
  <2>1. Sent("apology")' <=> Sent("apology")
    BY <1>3 DEF Sent
  <2> QED
    BY <1>1, <1>2, <1>3, <2>1
<1>4. ASSUME NEW k \in EventKinds \ {"apology"}, Emit(k), pc \notin Over,
             UNCHANGED <<results, failed, convo, log, trace>>
      PROVE  CountInv'
  <2>1. Sent("apology")' <=> Sent("apology")
    BY <1>0, <1>4, EmitFacts
  <2> QED
    BY <1>1, <1>2, <1>4, <2>1
<1>5. CASE StartTurn
  BY <1>3, <1>4, <1>5 DEF StartTurn, loopVars, Over, EventKinds
<1>6. CASE FallbackWord \/ Separate \/ TextChunk
  BY <1>4, <1>6 DEF FallbackWord, Separate, TextChunk, traceVars, Over, EventKinds
<1>7. CASE StartCall \/ \E stop \in {"end_turn", "max_tokens"} : Answer(stop)
  <2>1. /\ UNCHANGED <<results, failed, convo, out, log>> /\ pc \notin Over
        /\ \/ trace' = [trace EXCEPT !.rounds = @ + 1]
           \/ \E stop \in {"end_turn", "max_tokens"} : trace' = [trace EXCEPT !.stop = stop]
    BY <1>7 DEF StartCall, Answer, loopVars, Over
  <2>2. /\ trace'.calls = trace.calls /\ trace'.errors = trace.errors
        /\ trace'.outcome = trace.outcome
    BY <1>0, <2>1 DEF Summary
  <2>3. Sent("apology")' <=> Sent("apology")
    BY <2>1 DEF Sent
  <2>4. log = << >>
    BY <1>2, <2>1
  <2>5. trace'.outcome = "error" <=> Sent("apology")'
    BY <1>2, <2>2, <2>3
  <2> QED
    BY <2>1, <2>2, <2>4, <2>5 DEF CountInv, ToldIds, ToldErrors
<1>8. ASSUME NEW n \in 1 .. MaxParallel, AskForTools(n) PROVE CountInv'
  <2>1. /\ Emit("status") /\ UNCHANGED <<convo, log>> /\ pc \notin Over
        /\ trace' = [trace EXCEPT !.stop = "tool_use"]
        /\ results' = << >> /\ failed' = {} /\ pc = "stream"
    BY <1>8 DEF AskForTools, Over
  <2>2. /\ trace'.calls = trace.calls /\ trace'.errors = trace.errors
        /\ trace'.outcome = trace.outcome
    BY <1>0, <2>1 DEF Summary
  <2>3. Sent("apology")' <=> Sent("apology")
    BY <1>0, <2>1, EmitFacts DEF EventKinds
  <2>4. results = << >> /\ failed = {}
    BY <2>1 DEF IdsInv
  <2>5. log = << >>
    BY <1>2, <2>1
  <2>6. trace'.outcome = "error" <=> Sent("apology")'
    BY <1>2, <2>2, <2>3
  <2> QED
    BY <2>1, <2>2, <2>4, <2>5, <2>6 DEF CountInv, ToldIds, ToldErrors
<1>9. ASSUME NEW isError \in BOOLEAN, Record(isError), pc = "awaiting" PROVE CountInv'
  <2> DEFINE k == Len(results) + 1
  <2>1. k \in 1 .. Len(uses) /\ DOMAIN uses = 1 .. Len(uses)
    BY <1>0, <1>9 DEF ResultsInv, TypeOK
  <2>2. uses[k] \in ToolId /\ uses[k] = <<trace.rounds, k>>
    BY <1>0, <2>1 DEF IdsInv, TypeOK
  <2>3. uses[k] \notin failed
    <3>1. \A i \in 1 .. Len(results) : results[i] = <<trace.rounds, i>>
      BY <1>0, <2>1 DEF ResultsInv, IdsInv
    <3>2. \A i \in 1 .. Len(results) : results[i] # uses[k]
      BY <1>0, <2>2, <3>1
    <3> QED
      BY <1>0, <3>2 DEF ResultsInv
  <2>4. /\ results' = Append(results, uses[k]) /\ UNCHANGED <<convo, out, log>>
        /\ failed' = IF isError THEN failed \cup {uses[k]} ELSE failed
    BY <1>9 DEF Record
  <2>5. Len(results') = Len(results) + 1
    BY <1>0, <2>2, <2>4 DEF TypeOK
  <2>6. /\ trace'.calls = trace.calls + 1 /\ trace'.outcome = trace.outcome
        /\ trace'.errors = trace.errors + (IF isError THEN 1 ELSE 0)
    BY <1>0, <1>9 DEF Record, TraceTool, Summary
  <2>7. /\ IsFiniteSet(failed')
        /\ Cardinality(failed') = Cardinality(failed) + (IF isError THEN 1 ELSE 0)
    <3>1. CASE isError
      <4>1. IsFiniteSet(failed)
        BY DEF CountInv
      <4> HIDE DEF k
      <4>2. /\ IsFiniteSet(failed \cup {uses[k]})
            /\ Cardinality(failed \cup {uses[k]}) = Cardinality(failed) + 1
        BY <2>3, <4>1, FS_AddElement
      <4> QED
        BY <3>1, <2>4, <4>2
    <3>2. CASE ~isError
      BY <1>0, <3>2, <2>4 DEF CountInv
    <3> QED
      BY <3>1, <3>2
  <2>8. ToldIds' = ToldIds /\ ToldErrors' = ToldErrors
    BY <2>4 DEF ToldIds, ToldErrors
  <2>9. Sent("apology")' <=> Sent("apology")
    BY <2>4 DEF Sent
  <2>10. log = << >>
    BY <1>2, <1>9 DEF Over
  <2>11. /\ trace'.calls = Cardinality(ToldIds') + Len(results')
         /\ trace'.errors = Cardinality(ToldErrors') + Cardinality(failed')
    BY <1>0, <2>5, <2>6, <2>7, <2>8 DEF CountInv
  <2> QED
    BY <1>2, <2>4, <2>6, <2>7, <2>8, <2>9, <2>10, <2>11 DEF CountInv
<1>10. CASE TakeResult \/ RecoverTool
  BY <1>9, <1>10 DEF TakeResult, RecoverTool
<1>11. CASE NextRound
  <2> DEFINE R == {<<Len(convo) + 2, j>> : j \in 1 .. Len(results)}
  <2>1. /\ ToldIds' = ToldIds \cup R /\ ToldErrors' = ToldErrors \cup failed
        /\ \A t \in ToldIds : t[1] # Len(convo) + 2
    BY <1>0, <1>11, ToldFacts
  <2>2. IsFiniteSet(R) /\ Cardinality(R) = Len(results)
    BY <1>0, PairsCardinality
  <2>3. ToldIds \cap R = {}
    BY <2>1
  <2>4. ToldErrors \cap failed = {}
    <3>1. pc = "tools" /\ uses # << >>
      BY <1>0, <1>11 DEF NextRound, ResultsInv
    <3>2. \A id \in failed : id[1] = trace.rounds
      BY <1>0 DEF ResultsInv, IdsInv, TypeOK
    <3>3. \A id \in ToldErrors : id[1] < trace.rounds
      BY <3>1 DEF IdsInv, ToldErrors
    <3> QED
      BY <1>0, <3>2, <3>3
  <2> HIDE DEF R
  <2>5. IsFiniteSet(ToldIds) /\ IsFiniteSet(ToldErrors) /\ IsFiniteSet(failed)
    BY DEF CountInv
  <2>6. /\ IsFiniteSet(ToldIds')
        /\ Cardinality(ToldIds') = Cardinality(ToldIds) + Len(results)
    <3>1. Cardinality(ToldIds \cup R)
            = Cardinality(ToldIds) + Cardinality(R) - Cardinality(ToldIds \cap R)
      BY <2>2, <2>5, FS_Union
    <3>2. IsFiniteSet(ToldIds \cup R)
      BY <2>2, <2>5, FS_Union
    <3>3. Cardinality(ToldIds \cap R) = 0
      BY <2>3, FS_EmptySet
    <3> QED
      BY <1>0, <2>1, <2>2, <3>1, <3>2, <3>3
  <2>7. /\ IsFiniteSet(ToldErrors')
        /\ Cardinality(ToldErrors') = Cardinality(ToldErrors) + Cardinality(failed)
    <3>1. Cardinality(ToldErrors \cup failed)
            = Cardinality(ToldErrors) + Cardinality(failed) - Cardinality(ToldErrors \cap failed)
      BY <2>5, FS_Union
    <3>2. IsFiniteSet(ToldErrors \cup failed)
      BY <2>5, FS_Union
    <3>3. Cardinality(ToldErrors \cap failed) = 0
      BY <2>4, FS_EmptySet
    <3> QED
      BY <1>0, <2>1, <3>1, <3>2, <3>3
  <2>8. /\ results' = << >> /\ failed' = {} /\ UNCHANGED <<trace, log, out>>
        /\ pc \notin Over
    BY <1>11 DEF NextRound, traceVars, Over
  <2>9. Len(results') = 0 /\ Cardinality(failed') = 0 /\ IsFiniteSet(failed')
    BY <2>8, FS_EmptySet
  <2>10. Sent("apology")' <=> Sent("apology")
    BY <2>8 DEF Sent
  <2>11. /\ trace'.calls = Cardinality(ToldIds') + Len(results')
         /\ trace'.errors = Cardinality(ToldErrors') + Cardinality(failed')
    BY <1>0, <2>6, <2>7, <2>8, <2>9 DEF CountInv
  <2> QED
    BY <1>2, <2>6, <2>7, <2>8, <2>9, <2>10, <2>11 DEF CountInv
<1>12. CASE Apologise
  <2>1. /\ Emit("apology") /\ UNCHANGED <<results, failed, convo, log>>
        /\ trace' = [trace EXCEPT !.outcome = "error"] /\ pc \notin Over
    BY <1>12 DEF Apologise, loopVars, Over
  <2>2. /\ trace'.calls = trace.calls /\ trace'.errors = trace.errors
        /\ trace'.outcome = "error"
    BY <1>0, <2>1 DEF Summary
  <2>3. Sent("apology")'
    BY <1>0, <2>1, EmitFacts DEF EventKinds
  <2>4. log = << >>
    BY <1>2, <2>1
  <2> QED
    BY <2>1, <2>2, <2>3, <2>4 DEF CountInv, ToldIds, ToldErrors
<1>13. CASE Finish
  <2>1. /\ Emit("done") /\ UNCHANGED <<results, failed, convo, trace>>
        /\ log' = Append(log, trace) /\ pc \notin Over /\ pc' \in Over
    BY <1>13 DEF Finish, loopVars, LogSummary, Over
  <2>2. log' = <<trace'>>
    <3>1. log = << >>
      BY <1>2, <2>1
    <3> QED
      BY <1>0, <2>1, <3>1
  <2>3. Sent("apology")' <=> Sent("apology")
    BY <1>0, <2>1, EmitFacts DEF EventKinds
  <2> QED
    BY <2>1, <2>2, <2>3 DEF CountInv, ToldIds, ToldErrors
<1> QED
  <2>1. CASE Unauthorized \/ StatementError \/ Accept \/ FallbackEnd \/ CallFails
    BY <1>3, <2>1 DEF Unauthorized, StatementError, Accept, FallbackEnd, CallFails, loopVars,
                      traceVars, Over
  <2>2. CASE RunTool \/ RollbackFails
              \/ \E o \in {"ok", "refused", "raised"} : ToolReturns(o)
    BY <1>3, <2>2 DEF RunTool, RollbackFails, ToolReturns, loopVars, traceVars, Over
  <2>3. CASE ExitTurn \/ FlushEnds \/ CloseSession
    BY <1>3, <2>3 DEF ExitTurn, BeginFlush, FlushEnds, CloseSession, loopVars, traceVars, Over
  <2>4. CASE CancelUnstarted \/ Cancel \/ CancelFlush \/ Disconnect \/ UNCHANGED vars
    BY <1>3, <2>4 DEF CancelUnstarted, Cancel, BeginFlush, CancelFlush, Disconnect, vars,
                      loopVars, traceVars, Over
  <2> QED
    BY <2>1, <2>2, <2>3, <2>4, <1>5, <1>6, <1>7, <1>8, <1>10, <1>11, <1>12, <1>13
    DEF Next, Server, ModelCall, ToolCall

-----------------------------------------------------------------------------
\* Nothing is sent, counted or exported at first.
LEMMA TurnInit == Init => TurnInv
<1> SUFFICES ASSUME Init PROVE TurnInv
  OBVIOUS
<1>1. out = << >> /\ DOMAIN out = {} /\ DOMAIN uses = {} /\ DOMAIN convo = {}
  BY DEF Init
<1>2. ToldIds = {} /\ ToldErrors = {} /\ failed = {} /\ Len(results) = 0
  BY <1>1 DEF Init, ToldIds, ToldErrors
<1>3. Cardinality({}) = 0 /\ IsFiniteSet({})
  BY FS_EmptySet
<1>4. trace.calls = 0 /\ trace.errors = 0 /\ trace.outcome = "ok"
  BY DEF Init
<1>5. CountInv
  BY <1>1, <1>2, <1>3, <1>4 DEF Init, CountInv, Sent
<1>6. StreamInv
  BY <1>1 DEF Init, StreamInv, Sent, Over
<1>7. SpansInv /\ ThreadInv /\ IdsInv
  BY <1>1 DEF Init, SpansInv, ThreadInv, IdsInv, Over
<1> QED
  BY <1>5, <1>6, <1>7 DEF TurnInv

\* All parts are kept together.
LEMMA TurnStep == Inv /\ TurnInv /\ [Next]_vars => TurnInv'
BY StreamStep, SpansStep, ThreadStep, IdsStep, CountStep DEF TurnInv

\* Both halves of the inductive invariant hold in every reachable state.
THEOREM TurnInvariance == Spec => [](Inv /\ TurnInv)
<1>1. Init => Inv /\ TurnInv
  BY InvInit, TurnInit
<1>2. Inv /\ TurnInv /\ [Next]_vars => Inv' /\ TurnInv'
  BY InvStep, TurnStep
<1> QED
  BY <1>1, <1>2, PTL DEF Spec

\* The logged summary counts the tool calls and the errors the model was told,
\* and its outcome says whether the user got an apology; the spans are exported
\* whole, after the answer, before the invocation ends (TurnTrace.finish).
THEOREM TraceTruthful == Spec => []TraceHonest
<1>1. Inv /\ TurnInv => TraceHonest
  <2> SUFFICES ASSUME Inv, TurnInv PROVE TraceHonest
    OBVIOUS
  <2>1. LogTruthful
    <3>1. CountInv /\ log \in Seq(Summary)
      BY DEF Inv, TurnInv, TypeOK
    <3>2. CASE log = << >>
      BY <3>2 DEF LogTruthful
    <3>3. CASE log # << >>
      <4>1. log = <<trace>> /\ DOMAIN log = {1} /\ log[1] = trace
        BY <3>1, <3>3 DEF CountInv
      <4> QED
        BY <3>1, <4>1 DEF LogTruthful, CountInv
    <3> QED
      BY <3>2, <3>3
  <2>2. ExportOrdered
    BY DEF TurnInv, SpansInv, ExportOrdered
  <2> QED
    BY <2>1, <2>2 DEF TraceHonest
<1> QED
  BY <1>1, TurnInvariance, PTL

\* A transaction outlives the request only when the client left while a tool's
\* thread was running (get_db's finally against asyncio.to_thread).
THEOREM SessionReleased == Spec => []TransactionReleased
<1>1. TurnInv => TransactionReleased
  BY DEF TurnInv, ThreadInv, TransactionReleased
<1> QED
  BY <1>1, TurnInvariance, PTL

-----------------------------------------------------------------------------
(* The events implement ChatStream.                                        *)

\* ChatStream's words about the events are ChatTurn's.
LEMMA PromiseTerms ==
  /\ \A k, r : Promise!Event(k, r) = Event(k, r)
  /\ \A k : Promise!Sent(k) <=> Sent(k)
  /\ \A k, r : Promise!SentIn(k, r) <=> SentIn(k, r)
BY DEF Promise!Event, Event, Promise!Sent, Sent, Promise!SentIn, SentIn

\* Every step sends what ChatStream allows next, or nothing.
LEMMA PromiseStep ==
  Inv /\ StreamInv /\ [Next]_vars => [Promise!Next]_(Promise!streamVars)
<1> SUFFICES ASSUME Inv, StreamInv, [Next]_vars
             PROVE  Promise!Next \/ UNCHANGED Promise!streamVars
  OBVIOUS
<1> DEFINE r == trace.rounds
<1> USE DEF Over
<1>0. /\ TypeOK /\ DOMAIN out = 1 .. Len(out) /\ \A i \in DOMAIN out : out[i] \in EventSet
      /\ r \in 0 .. MaxToolRounds + 1
  BY OutType, ChatTurnAssumption DEF Inv, CallsInv, Answered
<1>1. ASSUME UNCHANGED out, pc \in Over => pc' \in Over
      PROVE  Promise!Next \/ UNCHANGED Promise!streamVars
  BY <1>1 DEF Promise!Next, Promise!HangUp, Promise!streamVars
<1>2. Promise!NothingAfter(r)
  BY DEF StreamInv, Promise!NothingAfter
<1>3. ASSUME NEW k, Emit(k) PROVE out' = Append(out, Promise!Event(k, r))
  BY <1>3, PromiseTerms DEF Emit
<1>4. ASSUME pc \notin Over \cup {"finish", "separated"} PROVE Promise!Speaking
  BY <1>4, PromiseTerms DEF StreamInv, Promise!Speaking
<1>5. CASE StartTurn
  <2>1. CASE UNCHANGED out
    BY <1>1, <1>5, <2>1 DEF StartTurn
  <2>2. CASE Emit("feedback")
    <3>1. pc = "start" /\ pc' \in {"call", "fallback"} /\ out = << >> /\ r = 0
      BY <1>5 DEF StartTurn, StreamInv, Inv, CallsInv
    <3>2. out' = <<Promise!Event("feedback", 0)>>
      BY <1>3, <2>2, <3>1
    <3>3. Promise!Feedback
      BY <1>4, <3>1, <3>2 DEF Promise!Feedback
    <3> QED
      BY <3>3 DEF Promise!Next
  <2> QED
    BY <1>5, <2>1, <2>2 DEF StartTurn
<1>6. CASE FallbackWord \/ TextChunk
  <2>1. /\ Emit("text") /\ pc \in {"fallback", "stream", "separated"}
        /\ pc' \in {"fallback", "stream"}
    BY <1>6 DEF FallbackWord, TextChunk
  <2>2. ~Sent("apology")
    BY <2>1 DEF StreamInv
  <2>3. ~SentIn("status", r) /\ (Sent("text") /\ ~SentIn("text", r) => SentIn("sep", r))
    <3>1. CASE pc = "fallback"
      <4>1. \A i \in DOMAIN out : out[i].kind \in {"feedback", "text"} /\ out[i].round = 0
        BY <1>0, <3>1 DEF StreamInv, Inv, CallsInv, EventSet
      <4>2. \A i \in DOMAIN out : out[i] = Event(out[i].kind, r)
        BY <1>0, <3>1, <4>1 DEF Inv, CallsInv, EventSet, Event
      <4>3. ~SentIn("status", r)
        BY <4>1 DEF SentIn, Event
      <4>4. Sent("text") => SentIn("text", r)
        BY <4>2 DEF Sent, SentIn
      <4> QED
        BY <4>3, <4>4
    <3>2. CASE pc = "separated"
      BY <3>2 DEF StreamInv
    <3>3. CASE pc = "stream"
      <4>1. ~(first /\ emitted)
        BY <1>6, <3>3 DEF FallbackWord, TextChunk
      <4> QED
        BY <3>3, <4>1 DEF StreamInv
    <3> QED
      BY <2>1, <3>1, <3>2, <3>3
  <2>4. Promise!Say(r)
    BY <1>2, <1>3, <2>1, <2>2, <2>3, PromiseTerms DEF Promise!Say
  <2> QED
    BY <1>0, <2>4 DEF Promise!Next
<1>7. CASE Separate
  <2>1. /\ Emit("sep") /\ pc = "stream" /\ pc' = "separated" /\ first /\ emitted
    BY <1>7 DEF Separate
  <2>2. Sent("text") /\ ~SentIn("status", r)
    BY <2>1 DEF StreamInv
  <2>3. ~SentIn("text", r)
    <3>1. \A i \in DOMAIN out : out[i].round < r /\ out[i].round \in Nat
      BY <1>0, <2>1 DEF StreamInv, EventSet
    <3> QED
      BY <1>0, <3>1 DEF SentIn, Event
  <2>4. Promise!Separate(r)
    BY <1>2, <1>3, <1>4, <2>1, <2>2, <2>3, PromiseTerms DEF Promise!Separate
  <2> QED
    BY <1>0, <2>4 DEF Promise!Next
<1>8. ASSUME NEW n \in 1 .. MaxParallel, AskForTools(n)
      PROVE  Promise!Next \/ UNCHANGED Promise!streamVars
  <2>1. Emit("status") /\ pc = "stream" /\ pc' = "tools"
    BY <1>8 DEF AskForTools
  <2>2. Promise!LookUp(r)
    BY <1>2, <1>3, <1>4, <2>1, PromiseTerms DEF Promise!LookUp, StreamInv
  <2> QED
    BY <1>0, <2>2 DEF Promise!Next
<1>9. CASE Apologise
  <2>1. Emit("apology") /\ pc = "failed" /\ pc' = "finish"
    BY <1>9 DEF Apologise
  <2>2. Promise!Apologise(r)
    BY <1>2, <1>3, <1>4, <2>1 DEF Promise!Apologise
  <2> QED
    BY <1>0, <2>2 DEF Promise!Next
<1>10. CASE Finish
  <2>1. Emit("done") /\ pc = "finish" /\ pc' = "exit"
    BY <1>10 DEF Finish
  <2>2. Promise!Done(r)
    BY <1>2, <1>3, <2>1 DEF Promise!Done, StreamInv
  <2> QED
    BY <1>0, <2>2 DEF Promise!Next
<1> QED
  <2>1. CASE Unauthorized \/ StatementError \/ Accept \/ FallbackEnd \/ StartCall
    BY <1>1, <2>1 DEF Unauthorized, StatementError, Accept, FallbackEnd, StartCall
  <2>2. CASE CallFails \/ \E stop \in {"end_turn", "max_tokens"} : Answer(stop)
    BY <1>1, <2>2 DEF CallFails, Answer
  <2>3. CASE RunTool \/ RollbackFails \/ TakeResult \/ RecoverTool \/ NextRound
    BY <1>1, <2>3 DEF RunTool, RollbackFails, TakeResult, RecoverTool, Record, NextRound
  <2>4. CASE \E o \in {"ok", "refused", "raised"} : ToolReturns(o)
    BY <1>1, <2>4 DEF ToolReturns
  <2>5. CASE ExitTurn \/ FlushEnds \/ CloseSession
    BY <1>1, <2>5 DEF ExitTurn, BeginFlush, FlushEnds, CloseSession
  <2>6. CASE CancelUnstarted \/ Cancel \/ CancelFlush \/ Disconnect \/ UNCHANGED vars
    BY <1>1, <2>6 DEF CancelUnstarted, Cancel, BeginFlush, CancelFlush, Disconnect, vars
  <2> QED
    BY <2>1, <2>2, <2>3, <2>4, <2>5, <2>6, <1>5, <1>6, <1>7, <1>8, <1>9, <1>10
    DEF Next, Server, ModelCall, ToolCall

\* A turn implements ChatStream: whatever the model, the tools, the database
\* and the client do, the browser sees the events in the promised order.
THEOREM StreamImplemented == Spec => StreamContract
<1>1. Init => Promise!Init
  BY DEF Init, Promise!Init
<1>2. Inv /\ TurnInv /\ [Next]_vars => [Promise!Next]_(Promise!streamVars)
  BY PromiseStep DEF TurnInv
<1> QED
  BY <1>1, <1>2, TurnInvariance, PTL DEF Spec, StreamContract, Promise!Spec
=============================================================================
