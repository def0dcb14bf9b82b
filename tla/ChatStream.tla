----------------------------- MODULE ChatStream -----------------------------
(***************************************************************************)
(* What POST /api/chat promises the browser: the order of the server-sent  *)
(* events of one answer, whatever the model, the tools or the database do. *)
(* The events are those of routes/chat.py: a feedback token first if there *)
(* is one, then text and status lines, at most one apology, and [DONE].    *)
(* An event carries the number of the model call it belongs to, so that    *)
(* the promise can speak of paragraphs: text of a later call is separated  *)
(* from earlier text by exactly one blank line.                            *)
(***************************************************************************)
EXTENDS Naturals, Sequences

CONSTANT Calls  \* the numbers of a turn's model calls, and 0 for none

VARIABLES
  out,    \* the events sent so far, in order
  over    \* the stream has ended: [DONE] was sent, or the client hung up

streamVars == <<out, over>>

Event(k, r) == [kind |-> k, round |-> r]

Sent(k) == \E i \in DOMAIN out : out[i].kind = k
SentIn(k, r) == \E i \in DOMAIN out : out[i] = Event(k, r)
NothingAfter(r) == \A i \in DOMAIN out : out[i].round <= r

\* Something may be said: the stream is open, nothing was apologised for, and
\* a separator waits for no text.
Speaking ==
  /\ ~over
  /\ ~Sent("apology")
  /\ out = << >> \/ out[Len(out)].kind # "sep"

Init == out = << >> /\ over = FALSE

Feedback ==
  /\ Speaking
  /\ out = << >>
  /\ out' = <<Event("feedback", 0)>>
  /\ UNCHANGED over

\* A blank line, before the first text of call r if there was text before.
Separate(r) ==
  /\ Speaking
  /\ NothingAfter(r)
  /\ Sent("text") /\ ~SentIn("text", r) /\ ~SentIn("status", r)
  /\ out' = Append(out, Event("sep", r))
  /\ UNCHANGED over

\* A chunk of text of call r, which may no longer follow call r's status line.
Say(r) ==
  /\ ~over /\ ~Sent("apology")
  /\ NothingAfter(r)
  /\ ~SentIn("status", r)
  /\ Sent("text") /\ ~SentIn("text", r) => SentIn("sep", r)
  /\ out' = Append(out, Event("text", r))
  /\ UNCHANGED over

\* The status line shown while the tools that call r asked for are run.
LookUp(r) ==
  /\ Speaking
  /\ NothingAfter(r)
  /\ ~SentIn("status", r)
  /\ out' = Append(out, Event("status", r))
  /\ UNCHANGED over

Apologise(r) ==
  /\ Speaking
  /\ NothingAfter(r)
  /\ out' = Append(out, Event("apology", r))
  /\ UNCHANGED over

Done(r) ==
  /\ ~over
  /\ out = << >> \/ out[Len(out)].kind # "sep"
  /\ NothingAfter(r)
  /\ out' = Append(out, Event("done", r))
  /\ over' = TRUE

\* The stream stops where it is: the client closed the connection, or the
\* request was refused before anything was sent.
HangUp ==
  /\ ~over
  /\ over' = TRUE
  /\ UNCHANGED out

Next ==
  \/ Feedback
  \/ \E r \in Calls : Separate(r) \/ Say(r) \/ LookUp(r) \/ Apologise(r) \/ Done(r)
  \/ HangUp

Spec == Init /\ [][Next]_streamVars
=============================================================================
