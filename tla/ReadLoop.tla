------------------------------ MODULE ReadLoop ------------------------------
(***************************************************************************)
(* The connection test: the controller reads the invoker's cache buffer    *)
(* with one RDMA read a second (Controller::rdma_read_while), and the      *)
(* invoker writes its message into it once (Invoker::run).                 *)
(*                                                                         *)
(* The read is asynchronous and the loop does not wait for its completion: *)
(* it compares, prints and overwrites the local buffer while the read may  *)
(* not have begun, may be over, or may land between any two of these.  A   *)
(* read lands in one step: the messages are shorter than the 16 bytes      *)
(* operator new aligns the buffer to.  The connection may break: the reads *)
(* in flight then end in error, and nobody looks at the status of a        *)
(* completion.                                                             *)
(***************************************************************************)
EXTENDS Integers

CONSTANTS
  MAX_SEND_WR,     \* send queue capacity asked of the adapter (2048)
  num_wc,          \* completions a poll may return (20)
  INIT_MSG, END_MSG,     \* "PICKME", "END"
  Flushed,               \* "hyosangkim"
  Message,               \* "Mohammad Alian"
  Torn,                  \* part of INIT_MSG and part of Message
  None

ASSUME ReadAssumption ==
  /\ MAX_SEND_WR \in Nat \ {0} /\ num_wc \in Nat \ {0}
  /\ Flushed \notin {INIT_MSG, END_MSG, Message, Torn, None}

VARIABLES
  broken,             \* the connection broke, or the invoker's process ended
  cpc, stop, buf,     \* the controller's loop and its local buffer
  inflight,           \* reads posted and not yet landed
  unreaped,           \* reads landed and not polled
  fetched,            \* history: what the last read brought
  gap,                \* history: it landed between the "[read]" line and the strcpy
  lag,                \* history: the most reads in flight at the end of a sleep
  printed,            \* what the last "[read]" line showed
  shown,              \* history: fetched was printed already
  ipc, mem            \* the invoker's thread and its buffer

contVars == <<cpc, stop, buf, printed, shown, lag>>
wireVars == <<broken, inflight, unreaped, fetched, gap>>
invVars == <<ipc, mem>>
vars == <<contVars, wireVars, invVars>>

Least(a, b) == IF a <= b THEN a ELSE b

Greatest(a, b) == IF a <= b THEN b ELSE a

Init ==
  /\ broken = FALSE
  /\ cpc = "post" /\ stop = FALSE /\ buf = INIT_MSG
  /\ inflight = 0 /\ unreaped = 0
  /\ fetched = None /\ printed = None /\ shown = FALSE /\ gap = FALSE /\ lag = 0
  /\ ipc = "setup" /\ mem = INIT_MSG

-----------------------------------------------------------------------------
\* The controller's read thread.

\* A work request holds its place in the send queue until its completion is polled.
SendRoom == inflight + unreaped < MAX_SEND_WR

PostRead ==
  /\ cpc = "post" /\ SendRoom
  /\ inflight' = inflight + 1
  /\ cpc' = "compare"
  /\ UNCHANGED <<stop, buf, printed, shown, lag, broken, unreaped, fetched, gap, invVars>>

\* error("read failure").
PostFails ==
  /\ cpc = "post" /\ ~SendRoom
  /\ cpc' = "exit"
  /\ UNCHANGED <<stop, buf, printed, shown, lag, wireVars, invVars>>

Compare ==
  /\ cpc = "compare"
  /\ stop' = (stop \/ buf = END_MSG)
  /\ cpc' = "show"
  /\ UNCHANGED <<buf, printed, shown, lag, wireVars, invVars>>

\* Variant: the buffer is overwritten before the line.
ShowAfterFlush ==
  /\ cpc = "show"
  /\ buf' = Flushed
  /\ printed' = Flushed
  /\ cpc' = "flush"
  /\ UNCHANGED <<stop, shown, lag, wireVars, invVars>>

Show ==
  /\ cpc = "show"
  /\ printed' = buf
  /\ shown' = (shown \/ buf = fetched)
  /\ cpc' = "flush"
  /\ UNCHANGED <<stop, buf, lag, wireVars, invVars>>

\* Variant: the local buffer is not overwritten.
FlushOmitted ==
  /\ cpc = "flush"
  /\ cpc' = "poll"
  /\ UNCHANGED <<stop, buf, printed, shown, lag, wireVars, invVars>>

\* strcpy(buf, "hyosangkim").
Flush ==
  /\ cpc = "flush"
  /\ buf' = Flushed
  /\ cpc' = "poll"
  /\ UNCHANGED <<stop, printed, shown, lag, wireVars, invVars>>

\* Variant: completions are left in the queue.
PollOmitted ==
  /\ cpc = "poll"
  /\ cpc' = "sleep"
  /\ UNCHANGED <<stop, buf, printed, shown, lag, wireVars, invVars>>

\* One poll, whatever it returns; the completions are not looked at.
Poll ==
  /\ cpc = "poll"
  /\ unreaped' = unreaped - Least(unreaped, num_wc)
  /\ cpc' = "sleep"
  /\ UNCHANGED <<stop, buf, printed, shown, lag, broken, inflight, fetched, gap, invVars>>

\* Nothing but the second is waited for.
SleepOver ==
  /\ cpc = "sleep"
  /\ lag' = Greatest(lag, inflight)
  /\ cpc' = IF stop THEN "clean" ELSE "post"
  /\ UNCHANGED <<stop, buf, printed, shown, wireVars, invVars>>

-----------------------------------------------------------------------------
\* The next read lands, wherever the thread is (external).
Land ==
  /\ ~broken
  /\ inflight > 0 /\ cpc # "exit"
  /\ buf' = mem
  /\ fetched' = mem
  /\ gap' = (cpc = "flush")
  /\ shown' = FALSE
  /\ inflight' = inflight - 1
  /\ unreaped' = unreaped + 1
  /\ UNCHANGED <<cpc, stop, printed, lag, broken, invVars>>

\* The connection breaks (external).
LinkBreaks ==
  /\ ~broken
  /\ broken' = TRUE
  /\ UNCHANGED <<contVars, inflight, unreaped, fetched, gap, invVars>>

\* A read ends in error, the buffer untouched; its completion takes the same place in
\* the queue (external).
LandFails ==
  /\ broken
  /\ inflight > 0 /\ cpc # "exit"
  /\ inflight' = inflight - 1
  /\ unreaped' = unreaped + 1
  /\ UNCHANGED <<contVars, broken, fetched, gap, invVars>>

\* The invoker's strcpy after its set-up, which may still be going on when the
\* controller begins to read; a read may find part of it.
MessageBegin ==
  /\ ipc = "setup"
  /\ mem' = Torn
  /\ ipc' = "copying"
  /\ UNCHANGED <<contVars, wireVars>>

MessageEnd ==
  /\ ipc = "copying"
  /\ mem' = Message
  /\ ipc' = "idle"
  /\ UNCHANGED <<contVars, wireVars>>

-----------------------------------------------------------------------------
Controller == PostRead \/ PostFails \/ Compare \/ Show \/ Flush \/ Poll \/ SleepOver
Invoker == MessageBegin \/ MessageEnd

Network == Land \/ LandFails

Next == Controller \/ Network \/ LinkBreaks \/ Invoker

Spec == Init /\ [][Next]_vars

\* The threads run and reads end; the connection need not break.
FairSpec == Spec /\ WF_vars(Controller) /\ WF_vars(Network) /\ WF_vars(Invoker)

-----------------------------------------------------------------------------
\* Properties.

Content == {INIT_MSG, END_MSG, Flushed, Message, Torn}

\* Types of the state.
TypeOK ==
  /\ cpc \in {"post", "compare", "show", "flush", "poll", "sleep", "clean", "exit"}
  /\ broken \in BOOLEAN /\ stop \in BOOLEAN /\ shown \in BOOLEAN /\ gap \in BOOLEAN
  /\ buf \in Content /\ mem \in Content
  /\ printed \in Content \cup {None} /\ fetched \in Content \cup {None}
  /\ inflight \in 0 .. MAX_SEND_WR /\ unreaped \in 0 .. MAX_SEND_WR
  /\ lag \in 0 .. MAX_SEND_WR
  /\ ipc \in {"setup", "copying", "idle"}

\* What one read brought is shown by one "[read]" line at most: overwriting the buffer
\* after the line keeps an old read from passing for a new one, wherever in the loop
\* the read lands (controller.cpp:86-87).
ShownOnce == [][Show /\ shown => printed' # fetched]_vars

\* A read is refused, and the program ends with "read failure", only after a sleep of a
\* second ended with all but one place of the send queue full of unfinished reads: one
\* poll to one read keeps up with any lesser lag (controller.cpp:76-79, 91).
ReadsNeverRefused == cpc = "exit" => lag + 2 > MAX_SEND_WR

\* A read that brought the invoker's message is shown, unless it landed between a line and
\* the strcpy after it, although every line is printed before its own read's completion
\* is polled; and once the connection is broken the loop, which does not see it, shows
\* what it wrote itself and never again anything else (controller.cpp:81-94).
MessageSeen ==
  /\ (fetched = Message /\ ~shown /\ ~gap) ~> ((shown /\ printed = Message) \/ cpc = "exit")
  /\ <>[]~broken \/ <>[](printed = Flushed) \/ <>(cpc = "exit")
=============================================================================
