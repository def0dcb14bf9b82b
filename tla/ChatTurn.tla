------------------------------ MODULE ChatTurn ------------------------------
(***************************************************************************)
(* One chat turn of POST /api/chat, from the request to the closed         *)
(* database session: the agent loop (anthropic_client.py), the SSE         *)
(* generator and the tool runner (routes/chat.py), the turn's trace        *)
(* (observability.py) and the request's SQLAlchemy session (db/session.py).*)
(*                                                                         *)
(* Three actors interleave: the event-loop task that runs the generator,   *)
(* the worker thread a tool call runs in (asyncio.to_thread), and the      *)
(* client, who may disconnect at any moment. Steps are cut at the code's   *)
(* await and yield points. The model and its API are external: they may    *)
(* stream any text, ask for tools, stop, or fail at any point.             *)
(*                                                                         *)
(* Text is abstracted to chunks, a tool call to its id and outcome.        *)
(***************************************************************************)
EXTENDS Naturals, Sequences, FiniteSets

CONSTANTS
  MaxToolRounds,  \* MAX_TOOL_ROUNDS: calls of the model that may ask for tools
  MaxParallel,    \* bound: tool calls in one message of the model
  MaxChunks       \* bound: text chunks of one model call

ASSUME ChatTurnAssumption ==
  /\ MaxToolRounds \in Nat
  /\ MaxParallel \in Nat \ {0}
  /\ MaxChunks \in Nat

VARIABLES
  config,     \* which keys are set: [apiKey, tracing], fixed for the turn
  pc,         \* where the event-loop task is
  connected,  \* the client has not closed the connection
  out,        \* the events the generator has yielded
  first,      \* `first`: this call has streamed no text yet
  emitted,    \* `emitted_text`: some call has streamed text
  chunks,     \* text chunks of this call, for MaxChunks only
  convo,      \* the messages the loop appended to the conversation
  uses,       \* `tool_uses`: ids asked for by the current message
  results,    \* `results`: ids answered so far
  failed,     \* ids in results whose is_error is true
  thread,     \* the tool's worker thread
  txn,        \* the session's transaction
  trace,      \* the counters of TurnTrace
  spans,      \* Langfuse spans that were started and not ended
  flush,      \* the export at the end of chat_turn
  log         \* the summaries TurnTrace.finish has logged

loopVars == <<first, emitted, chunks, convo, uses, results, failed>>
dbVars == <<thread, txn>>
traceVars == <<trace, spans, flush, log>>
vars == <<config, pc, connected, out, loopVars, dbVars, traceVars>>

ToolId == Nat \X Nat
EventKinds == {"feedback", "text", "sep", "status", "apology", "done"}
StopReasons == {"none", "end_turn", "max_tokens", "tool_use"}
\* Inside the generator's body, where a cancellation lands in chat_turn.
InTurn == {"start", "fallback", "call", "stream", "separated", "tools",
           "awaiting", "failed", "finish", "exit"}
Pcs == InTurn \cup {"route", "flushing", "closing", "closed"}

Event(k, r) == [kind |-> k, round |-> r]
Assistant(us) == [role |-> "assistant", ids |-> us, errors |-> {}]
User(rs, es) == [role |-> "user", ids |-> rs, errors |-> es]

Summary == [rounds : Nat, calls : Nat, errors : Nat, stop : StopReasons,
            outcome : {"ok", "error"}]

TypeOK ==
  /\ config \in [apiKey : BOOLEAN, tracing : BOOLEAN]
  /\ pc \in Pcs
  /\ connected \in BOOLEAN
  /\ out \in Seq([kind : EventKinds, round : Nat])
  /\ first \in BOOLEAN /\ emitted \in BOOLEAN
  /\ chunks \in Nat
  /\ convo \in Seq([role : {"assistant", "user"}, ids : Seq(ToolId),
                    errors : SUBSET ToolId])
  /\ uses \in Seq(ToolId) /\ results \in Seq(ToolId)
  /\ failed \in SUBSET ToolId
  /\ thread \in {"none", "running", "ok", "refused", "raised"}
  /\ txn \in {"none", "open", "aborted"}
  /\ trace \in Summary
  /\ spans \in SUBSET {"root", "generation"}
  /\ flush \in {"no", "running", "ended"}
  /\ log \in Seq(Summary)

Init ==
  /\ config \in [apiKey : BOOLEAN, tracing : BOOLEAN]
  /\ pc = "route" /\ connected = TRUE /\ out = << >>
  /\ first = TRUE /\ emitted = FALSE /\ chunks = 0
  /\ convo = << >> /\ uses = << >> /\ results = << >> /\ failed = {}
  /\ thread = "none" /\ txn = "none"
  /\ trace = [rounds |-> 0, calls |-> 0, errors |-> 0, stop |-> "none",
              outcome |-> "ok"]
  /\ spans = {} /\ flush = "no" /\ log = << >>

Emit(k) == out' = Append(out, Event(k, trace.rounds))

-----------------------------------------------------------------------------
(* The route: the dependencies and build_chat_context use the session.     *)

\* No credentials, a bad token (both before any query) or no such player: 401.
Unauthorized ==
  /\ pc = "route"
  /\ pc' = "closing"
  /\ txn' \in {"none", "open"}
  /\ UNCHANGED <<config, connected, out, loopVars, thread, traceVars>>

\* A statement of the dependencies or of build_chat_context raises: 503 while
\* Aurora resumes, 500 otherwise, and no stream.
StatementError ==
  /\ pc = "route"
  /\ pc' = "closing"
  /\ txn' = "aborted"
  /\ UNCHANGED <<config, connected, out, loopVars, thread, traceVars>>

\* build_chat_context reads the season, the games and the archetype; what it
\* began is not committed before the stream starts.
ContextRead == txn' = "open"

Accept ==
  /\ pc = "route"
  /\ pc' = "start"
  /\ ContextRead
  /\ UNCHANGED <<config, connected, out, loopVars, thread, traceVars>>

\* chat_turn is entered and, with tracing on, the feedback token is sent.
StartTurn ==
  /\ pc = "start"
  /\ pc' = IF config.apiKey THEN "call" ELSE "fallback"
  /\ IF config.tracing
     THEN spans' = {"root"} /\ Emit("feedback")
     ELSE UNCHANGED <<spans, out>>
  /\ UNCHANGED <<config, connected, loopVars, dbVars, trace, flush, log>>

\* Without an API key a canned text is streamed word by word.
FallbackWord ==
  /\ pc = "fallback"
  /\ chunks < MaxChunks
  /\ chunks' = chunks + 1
  /\ Emit("text")
  /\ UNCHANGED <<config, pc, connected, first, emitted, convo, uses, results,
                 failed, dbVars, traceVars>>

FallbackEnd ==
  /\ pc = "fallback"
  /\ pc' = "finish"
  /\ UNCHANGED <<config, connected, out, loopVars, dbVars, traceVars>>

-----------------------------------------------------------------------------
(* The agent loop: one call of the model per iteration.                    *)

\* Mutant: tools stay on offer in the last call.
ToolsOfferedAlways == TRUE

\* tool_choice is "none" on the last call, and the API then never answers
\* with stop_reason tool_use.
ToolsOffered == trace.rounds <= MaxToolRounds

\* TurnTrace.generation: the call's span is ended however the call ends.
StartGeneration ==
  spans' = IF config.tracing THEN spans \cup {"generation"} ELSE spans
EndGeneration == spans' = spans \ {"generation"}

\* Mutant: `first` is not reset for a later call.
StartCallKeepsFirst ==
  /\ pc = "call"
  /\ pc' = "stream"
  /\ trace' = [trace EXCEPT !.rounds = @ + 1]
  /\ StartGeneration
  /\ chunks' = 0
  /\ UNCHANGED <<config, connected, out, first, emitted, convo, uses, results,
                 failed, dbVars, flush, log>>

\* The next call is made, with convo as its messages; round_no is the value
\* of trace.rounds before this step.
StartCall ==
  /\ pc = "call"
  /\ pc' = "stream"
  /\ trace' = [trace EXCEPT !.rounds = @ + 1]
  /\ StartGeneration
  /\ first' = TRUE /\ chunks' = 0
  /\ UNCHANGED <<config, connected, out, emitted, convo, uses, results, failed,
                 dbVars, flush, log>>

\* The first text of a call is separated from the text of earlier calls.
Separate ==
  /\ pc = "stream"
  /\ first /\ emitted
  /\ chunks < MaxChunks
  /\ pc' = "separated"
  /\ first' = FALSE
  /\ Emit("sep")
  /\ UNCHANGED <<config, connected, emitted, chunks, convo, uses, results,
                 failed, dbVars, traceVars>>

TextChunk ==
  /\ \/ pc = "separated"
     \/ pc = "stream" /\ ~(first /\ emitted)
  /\ chunks < MaxChunks
  /\ pc' = "stream"
  /\ chunks' = chunks + 1
  /\ first' = FALSE /\ emitted' = TRUE
  /\ Emit("text")
  /\ UNCHANGED <<config, connected, convo, uses, results, failed, dbVars,
                 traceVars>>

\* The final message ends the turn.
Answer(stop) ==
  /\ pc = "stream"
  /\ pc' = "finish"
  /\ trace' = [trace EXCEPT !.stop = stop]
  /\ EndGeneration
  /\ UNCHANGED <<config, connected, out, loopVars, dbVars, flush, log>>

\* The final message asks for n tools: their status line goes out first.
AskForTools(n) ==
  /\ pc = "stream"
  /\ ToolsOffered
  /\ pc' = "tools"
  /\ trace' = [trace EXCEPT !.stop = "tool_use"]
  /\ EndGeneration
  /\ uses' = [i \in 1 .. n |-> <<trace.rounds, i>>]
  /\ results' = << >> /\ failed' = {}
  /\ Emit("status")
  /\ UNCHANGED <<config, connected, first, emitted, chunks, convo, dbVars,
                 flush, log>>

\* The API refuses, the stream breaks, or a timeout fires.
CallFails ==
  /\ pc = "stream"
  /\ pc' = "failed"
  /\ EndGeneration
  /\ UNCHANGED <<config, connected, out, loopVars, dbVars, trace, flush, log>>

-----------------------------------------------------------------------------
(* The tools of one message, one after the other.                          *)

RunTool ==
  /\ pc = "tools"
  /\ Len(results) < Len(uses)
  /\ pc' = "awaiting"
  /\ thread' = "running"
  /\ UNCHANGED <<config, connected, out, loopVars, txn, traceVars>>

\* execute_tool in the worker thread: a result; a refusal (unknown tool, bad
\* arguments, ToolInputError) before or after a query; or an exception, of the
\* database (the transaction is aborted, as is one that used an aborted
\* transaction) or of the tool's own code. The thread cannot be cancelled: it
\* may run on after the turn is over and then begins a new transaction.
ToolReturns(outcome) ==
  /\ thread = "running"
  /\ thread' = outcome
  /\ CASE outcome = "ok" -> txn # "aborted" /\ txn' = "open"
       [] outcome = "refused" -> txn' \in IF txn = "aborted" THEN {txn}
                                          ELSE {txn, "open"}
       [] outcome = "raised" -> txn' \in IF txn = "aborted" THEN {txn}
                                         ELSE {"open", "aborted"}
  /\ UNCHANGED <<config, pc, connected, out, loopVars, traceVars>>

\* TurnTrace.tool; its span is started and ended at once.
TraceTool(isError) ==
  trace' = [trace EXCEPT !.calls = @ + 1,
                         !.errors = @ + (IF isError THEN 1 ELSE 0)]

\* The outcome is traced and joins the round's results.
Record(isError) ==
  LET id == uses[Len(results) + 1] IN
  /\ pc' = "tools"
  /\ thread' = "none"
  /\ results' = Append(results, id)
  /\ failed' = IF isError THEN failed \cup {id} ELSE failed
  /\ TraceTool(isError)
  /\ UNCHANGED <<config, connected, out, first, emitted, chunks, convo, uses,
                 spans, flush, log>>

TakeResult ==
  /\ pc = "awaiting"
  /\ thread \in {"ok", "refused"}
  /\ Record(thread = "refused")
  /\ UNCHANGED txn

\* Mutant: the failed transaction is not rolled back.
RecoverToolNoRollback ==
  /\ pc = "awaiting"
  /\ thread = "raised"
  /\ Record(TRUE)
  /\ UNCHANGED txn

\* _tool_runner's except branch: roll back, answer the model with an error.
RecoverTool ==
  /\ pc = "awaiting"
  /\ thread = "raised"
  /\ txn' = "none"
  /\ Record(TRUE)

\* The rollback itself raises: the exception leaves the loop.
RollbackFails ==
  /\ pc = "awaiting"
  /\ thread = "raised"
  /\ pc' = "failed"
  /\ thread' = "none"
  /\ UNCHANGED <<config, connected, out, loopVars, txn, traceVars>>

\* Mutant: one message per result.
NextRoundPerResult ==
  /\ pc = "tools"
  /\ Len(results) = Len(uses)
  /\ convo' = convo \o <<Assistant(uses)>>
                   \o [i \in DOMAIN results |-> User(<<results[i]>>, failed \cap {results[i]})]
  /\ uses' = << >> /\ results' = << >> /\ failed' = {}
  /\ pc' = IF trace.rounds <= MaxToolRounds THEN "call" ELSE "finish"
  /\ UNCHANGED <<config, connected, out, first, emitted, chunks, dbVars,
                 traceVars>>

\* Every tool is answered: the message and one message with all its results
\* are appended. The range of the loop is exhausted after MaxToolRounds + 1.
NextRound ==
  /\ pc = "tools"
  /\ Len(results) = Len(uses)
  /\ convo' = convo \o <<Assistant(uses), User(results, failed)>>
  /\ uses' = << >> /\ results' = << >> /\ failed' = {}
  /\ pc' = IF trace.rounds <= MaxToolRounds THEN "call" ELSE "finish"
  /\ UNCHANGED <<config, connected, out, first, emitted, chunks, dbVars,
                 traceVars>>

-----------------------------------------------------------------------------
(* The end of the turn.                                                    *)

\* Mutants: the outcome stays ok; a value the log's readers do not know; the
\* exception is raised again and drops the connection.
ApologiseOutcomeKept ==
  /\ pc = "failed"
  /\ pc' = "finish"
  /\ Emit("apology")
  /\ UNCHANGED <<config, connected, loopVars, dbVars, traceVars>>

ApologiseUnknownOutcome ==
  /\ pc = "failed"
  /\ pc' = "finish"
  /\ trace' = [trace EXCEPT !.outcome = "failed"]
  /\ Emit("apology")
  /\ UNCHANGED <<config, connected, loopVars, dbVars, spans, flush, log>>

ApologiseRaises ==
  /\ pc = "failed"
  /\ pc' = "closing"
  /\ Emit("apology")
  /\ UNCHANGED <<config, connected, loopVars, dbVars, traceVars>>

\* An exception after the 200: the stream still ends with a readable text.
Apologise ==
  /\ pc = "failed"
  /\ pc' = "finish"
  /\ trace' = [trace EXCEPT !.outcome = "error"]
  /\ Emit("apology")
  /\ UNCHANGED <<config, connected, loopVars, dbVars, spans, flush, log>>

\* TurnTrace.finish.
LogSummary == log' = Append(log, trace)

\* The summary is logged and, with no await in between, [DONE] is
\* yielded.
Finish ==
  /\ pc = "finish"
  /\ pc' = "exit"
  /\ LogSummary
  /\ Emit("done")
  /\ UNCHANGED <<config, connected, loopVars, dbVars, trace, spans, flush>>

\* chat_turn's finally: with tracing on, the export starts in a thread.
BeginFlush ==
  IF config.tracing
  THEN pc' = "flushing" /\ flush' = "running"
  ELSE pc' = "closing" /\ UNCHANGED flush

ExitTurn ==
  /\ pc = "exit"
  /\ spans' = spans \ {"root"}
  /\ BeginFlush
  /\ UNCHANGED <<config, connected, out, loopVars, dbVars, trace, log>>

FlushEnds ==
  /\ flush = "running"
  /\ flush' = "ended"
  /\ pc' = IF pc = "flushing" THEN "closing" ELSE pc
  /\ UNCHANGED <<config, connected, out, loopVars, dbVars, trace, spans, log>>

\* Mutant: the session is not closed.
CloseSessionForgotten ==
  /\ pc = "closing"
  /\ pc' = "closed"
  /\ UNCHANGED <<config, connected, out, loopVars, dbVars, traceVars>>

\* get_db's finally. A session closed while a thread still uses it may refuse
\* the state change and keep its transaction.
CloseSession ==
  /\ pc = "closing"
  /\ pc' = "closed"
  /\ txn' \in IF thread = "running" THEN {"none", txn} ELSE {"none"}
  /\ UNCHANGED <<config, connected, out, loopVars, thread, traceVars>>

-----------------------------------------------------------------------------
(* The client. Starlette cancels the task that streams to a client who is  *)
(* gone, at whatever await it is. Neither CancelledError nor GeneratorExit *)
(* is an Exception: of the code above only the finally blocks run.         *)

Disconnect ==
  /\ connected
  /\ pc \in InTurn \cup {"flushing"}
  /\ connected' = FALSE
  /\ UNCHANGED <<config, pc, out, loopVars, dbVars, traceVars>>

\* A generator that was never advanced has not entered chat_turn.
CancelUnstarted ==
  /\ ~connected
  /\ pc = "start"
  /\ pc' = "closing"
  /\ UNCHANGED <<config, connected, out, loopVars, dbVars, traceVars>>

\* The open spans are ended and the export starts; a tool's thread runs on.
Cancel ==
  /\ ~connected
  /\ pc \in InTurn \ {"start"}
  /\ spans' = {}
  /\ BeginFlush
  /\ UNCHANGED <<config, connected, out, loopVars, dbVars, trace, log>>

\* The task is cancelled again while it awaits the export.
CancelFlush ==
  /\ ~connected
  /\ pc = "flushing"
  /\ pc' = "closing"
  /\ UNCHANGED <<config, connected, out, loopVars, dbVars, traceVars>>

-----------------------------------------------------------------------------
ModelCall ==
  \/ StartCall
  \/ Separate \/ TextChunk
  \/ \E stop \in {"end_turn", "max_tokens"} : Answer(stop)
  \/ \E n \in 1 .. MaxParallel : AskForTools(n)
  \/ CallFails

ToolCall ==
  \/ RunTool
  \/ \E o \in {"ok", "refused", "raised"} : ToolReturns(o)
  \/ TakeResult
  \/ RecoverTool
  \/ RollbackFails
  \/ NextRound

Server ==
  \/ Unauthorized \/ StatementError \/ Accept \/ StartTurn
  \/ FallbackWord \/ FallbackEnd
  \/ ModelCall
  \/ ToolCall
  \/ Apologise \/ Finish \/ ExitTurn \/ FlushEnds \/ CloseSession
  \/ CancelUnstarted \/ Cancel \/ CancelFlush

Next == Server \/ Disconnect

Spec == Init /\ [][Next]_vars

\* The server's own steps are taken as long as one is possible: the SDK's
\* timeouts turn an API or a tool that never answers into a failure. The
\* client owes nothing.
FairSpec == Spec /\ WF_vars(Server)

-----------------------------------------------------------------------------
(* Properties.                                                             *)

Sent(k) == \E i \in DOMAIN out : out[i].kind = k

\* The SSE events of a turn keep the order ChatStream promises the browser:
\* feedback first, one blank line between the texts of two model calls, the
\* status line before its tools and after its text, at most one apology and
\* nothing but [DONE] after it.
Promise == INSTANCE ChatStream
             WITH Calls <- 0 .. MaxToolRounds + 1,
                  over <- pc \in {"exit", "flushing", "closing", "closed"}
StreamContract == Promise!Spec

\* The conversation sent to the API is one it accepts, whatever tools failed:
\* every message that asks for tools is followed by one message that answers
\* all its ids, in their order, and no other.
ConvoWellFormed ==
  /\ Len(convo) % 2 = 0
  /\ \A i \in DOMAIN convo :
       IF i % 2 = 1
       THEN convo[i].role = "assistant" /\ convo[i].ids # << >>
       ELSE /\ convo[i].role = "user"
            /\ convo[i].ids = convo[i - 1].ids
            /\ convo[i].errors \subseteq {convo[i].ids[j] : j \in DOMAIN convo[i].ids}

\* One failed query does not poison the next tool call: no tool starts on a
\* session whose transaction is aborted (_tool_runner's db.rollback).
FreshTransaction == pc = "tools" => txn # "aborted"

\* A turn ends after at most MaxToolRounds + 1 calls of the model, and a turn
\* that did not fail ends with an answer, never with a request for tools.
Answered ==
  /\ trace.rounds <= MaxToolRounds + 1
  /\ pc \in {"finish", "exit"} /\ config.apiKey /\ trace.outcome = "ok"
       => trace.stop \in {"end_turn", "max_tokens"}

\* The logged summary tells what happened: an apology was sent iff the outcome
\* is error, and the tool calls and tool errors are those the model was told.
ToldIds == UNION {{<<m, j>> : j \in DOMAIN convo[m].ids} :
                    m \in {i \in DOMAIN convo : convo[i].role = "user"}}
ToldErrors == UNION {convo[m].errors : m \in DOMAIN convo}
LogTruthful ==
  \A i \in DOMAIN log :
    /\ i = 1
    /\ log[i].outcome = "error" <=> Sent("apology")
    /\ log[i].calls = Cardinality(ToldIds) + Len(results)
    /\ log[i].errors = Cardinality(ToldErrors) + Cardinality(failed)

\* The export never delays an answer and loses nothing: it starts after [DONE]
\* (or after the client is gone), with every span of the turn ended, and has
\* ended before the invocation of a connected client does.
ExportOrdered ==
  /\ flush # "no" => spans = {} /\ (Sent("done") \/ ~connected)
  /\ pc = "closed" /\ connected /\ out # << >> /\ config.tracing => flush = "ended"

\* What is known of a turn afterwards is what happened: its summary tells the
\* truth, and its spans are exported whole, after the answer (TurnTrace.finish).
TraceHonest == LogTruthful /\ ExportOrdered

\* A transaction outlives the request only if the client left while a tool's
\* thread was running.
TransactionReleased ==
  pc = "closed" /\ txn # "none" => ~connected /\ thread # "none"

\* Every accepted turn ends, and a client who stays sees [DONE].
TurnEnds ==
  pc = "start" ~> pc = "closed" /\ (Sent("done") \/ ~connected)

\* README.md: "A one-line JSON summary per turn is always logged."
SummaryAlwaysLogged ==
  pc = "closed" /\ trace.rounds > 0 => log # << >>
=============================================================================
