----------------------------- MODULE EventLife ------------------------------
(***************************************************************************)
(* The life of the write stream: EventStream with the queue pairs that are *)
(* not ready yet, a link that breaks, queue pairs in the error state, the  *)
(* completions in error that follow, and processes that end.               *)
(*                                                                         *)
(* It begins when the invoker has answered the controller: each side then  *)
(* brings its own queue pair up (modify_qp_to_rts) and neither waits for   *)
(* the other.  The invoker posts its receives after the mesh, so any       *)
(* number of steps later.  Invoker::run has three loops to choose from;    *)
(* the sleeping one (ev_check_write) is compiled in and the polling one    *)
(* (check_write) is commented out.  Both are modelled.                     *)
(*                                                                         *)
(* A step of EventStream is taken over with a guard; the steps it has no   *)
(* form of are written here.                                               *)
(***************************************************************************)
EXTENDS EventStream

CONSTANTS
  Consumers,      \* loops Invoker::run may start: "event", "poll"
  MaxFailures     \* bound: breaks, faults and ends of processes

ASSUME LifeAssumption ==
  /\ Consumers \subseteq {"event", "poll"} /\ Consumers # {}
  /\ MaxFailures \in Nat

VARIABLES
  consumer,       \* the loop Invoker::run started
  cqp, iqp,       \* queue pairs: "reset", "rts" or "err"
  link,           \* packets pass
  lost,           \* of the completions in acked, those in error
  cqErr,          \* receive completions in error, behind the good ones in cq
  wcErr,          \* those of the last poll, behind the good ones in wc
  failures

lifeVars == <<consumer, cqp, iqp, link, lost, cqErr, wcErr, failures>>
allVars == <<vars, lifeVars>>

LifeInit ==
  /\ Init
  /\ consumer \in Consumers
  /\ cqp = "reset" /\ iqp = "reset"
  /\ link = TRUE
  /\ lost = 0
  /\ cqErr = 0 /\ wcErr = 0
  /\ failures = 0

-----------------------------------------------------------------------------
\* Coming up.  INIT drops what arrives, as RESET does, and RTR receives, as RTS
\* does: the three calls are one step, at the second.

ContReady ==
  /\ cqp = "reset" /\ cpc # "gone"
  /\ cqp' = "rts"
  /\ UNCHANGED <<vars, consumer, iqp, link, lost, cqErr, wcErr, failures>>

InvReady ==
  /\ iqp = "reset" /\ ipc # "exit"
  /\ iqp' = "rts"
  /\ UNCHANGED <<vars, consumer, cqp, link, lost, cqErr, wcErr, failures>>

-----------------------------------------------------------------------------
\* The controller runs as before.  It polls completions and never looks at a
\* status, so nothing it does depends on the state of its queue pair.
ContRuns ==
  /\ cqp # "reset"
  /\ Controller
  /\ UNCHANGED lifeVars

-----------------------------------------------------------------------------
\* The connection (external).

\* Somebody answers at the other end.
Reachable == link /\ iqp = "rts" /\ ipc # "exit"

LifeDeliver ==
  /\ cqp = "rts" /\ Reachable
  /\ Deliver
  /\ UNCHANGED lifeVars

\* An acknowledgement on its way arrives even if the process behind it has ended.
LifeAcknowledge ==
  /\ cqp = "rts" /\ link
  /\ Acknowledge
  /\ UNCHANGED lifeVars

\* Nothing is acknowledged, and retry_cnt retries after timeout each were in vain.
\* A write may have been executed and only its acknowledgement be missing.
RetryExceeded ==
  /\ cqp = "rts" /\ cpc # "gone"
  /\ acked < Len(posted) /\ ~Reachable
  /\ cqp' = "err"
  /\ sq' = << >>
  /\ UNCHANGED <<controllerVars, delivered, acked, invokerVars,
                 consumer, iqp, link, lost, cqErr, wcErr, failures>>

\* In the error state every request completes in error, those posted later too.
FlushSends ==
  /\ cqp = "err" /\ acked < Len(posted)
  /\ acked' = Len(posted)
  /\ lost' = lost + (Len(posted) - acked)
  /\ sq' = << >>
  /\ UNCHANGED <<controllerVars, delivered, invokerVars,
                 consumer, cqp, iqp, link, cqErr, wcErr, failures>>

LifeTeardown == Teardown /\ UNCHANGED lifeVars

\* Receive completions in error are queued, and announced like any other.
Announce(n) ==
  /\ cqErr' = cqErr + n
  /\ events' = IF n > 0 /\ armed THEN events + 1 ELSE events
  /\ armed' = (armed /\ n = 0)

\* The invoker's queue pair enters the error state: every receive is flushed.  The
\* responder of a reliable connection notices neither a broken link nor the end of
\* the controller; it takes a fault of the adapter or of a remote access.
InvokerFault ==
  /\ failures < MaxFailures
  /\ iqp = "rts" /\ ipc # "exit"
  /\ iqp' = "err"
  /\ rq' = 0
  /\ Announce(rq)
  /\ failures' = failures + 1
  /\ UNCHANGED <<controllerVars, wireVars, ipc, filled, cq, wc, mem, printed,
                 consumer, cqp, link, lost, wcErr>>

LinkBreaks ==
  /\ failures < MaxFailures /\ link
  /\ link' = FALSE
  /\ failures' = failures + 1
  /\ UNCHANGED <<vars, consumer, cqp, iqp, lost, cqErr, wcErr>>

LinkHeals ==
  /\ ~link
  /\ link' = TRUE
  /\ UNCHANGED <<vars, consumer, cqp, iqp, lost, cqErr, wcErr, failures>>

\* A process is killed.
ControllerEnds ==
  /\ failures < MaxFailures /\ cpc # "gone"
  /\ cpc' = "gone"
  /\ sq' = << >>
  /\ failures' = failures + 1
  /\ UNCHANGED <<imm, cbuf, posted, reaped, delivered, acked, invokerVars,
                 consumer, cqp, iqp, link, lost, cqErr, wcErr>>

InvokerEnds ==
  /\ failures < MaxFailures /\ ipc # "exit"
  /\ ipc' = "exit"
  /\ failures' = failures + 1
  /\ UNCHANGED <<controllerVars, wireVars, filled, rq, cq, wc, armed, events, mem, printed,
                 consumer, cqp, iqp, link, lost, cqErr, wcErr>>

-----------------------------------------------------------------------------
\* The invoker.  Posting to a queue pair in the error state succeeds, and the
\* receive is flushed at once.

LifeFill ==
  /\ iqp = "rts"
  /\ FillRecv
  /\ UNCHANGED lifeVars

FillFlushed ==
  /\ iqp = "err"
  /\ ipc = "fill"
  /\ Announce(1)
  /\ filled' = filled + 1
  /\ ipc' = IF filled' = RECV_DEPTH THEN "get" ELSE "fill"
  /\ UNCHANGED <<controllerVars, wireVars, rq, cq, wc, mem, printed,
                 consumer, cqp, iqp, link, lost, wcErr, failures>>

\* The head of the loop: the sleeping loop waits for an event and arms the queue;
\* the polling loop polls.
LifeWait ==
  /\ consumer = "event"
  /\ GetEvent \/ Rearm
  /\ UNCHANGED lifeVars

PollAgain ==
  /\ consumer = "poll"
  /\ ipc = "get"
  /\ ipc' = "drain"
  /\ UNCHANGED <<controllerVars, wireVars, filled, rq, cq, wc, armed, events, mem, printed,
                 lifeVars>>

\* The completions of a poll are good ones only ...
LifeDrain ==
  /\ wcErr = 0
  /\ cqErr = 0 \/ Len(cq) >= NUM_WC
  /\ Drain
  /\ UNCHANGED lifeVars

\* ... or some in error come behind them.
DrainErrors ==
  LET n == Smaller(cqErr, NUM_WC - Len(cq)) IN
  /\ ipc = "drain" /\ wcErr = 0
  /\ cqErr > 0 /\ Len(cq) < NUM_WC
  /\ wc' = cq /\ cq' = << >>
  /\ wcErr' = n /\ cqErr' = cqErr - n
  /\ ipc' = IF cq = << >> THEN "drain" ELSE "read"
  /\ UNCHANGED <<controllerVars, wireVars, filled, rq, armed, events, mem, printed,
                 consumer, cqp, iqp, link, lost, failures>>

\* Variant: a status other than success is passed over.
WcIgnored ==
  /\ ipc = "drain" /\ wcErr > 0
  /\ wcErr' = 0
  /\ UNCHANGED <<vars, consumer, cqp, iqp, link, lost, cqErr, failures>>

\* error("WC failed"), at the first completion in error.
WcFailed ==
  /\ ipc = "drain" /\ wcErr > 0
  /\ ipc' = "exit"
  /\ UNCHANGED <<controllerVars, wireVars, filled, rq, cq, wc, armed, events, mem, printed,
                 lifeVars>>

LifeRead ==
  /\ consumer = "event"
  /\ ReadSlot \/ FlushSlot
  /\ UNCHANGED lifeVars

\* check_write finds the slot by the immediate itself, which it does not unpack.
PolledImm == ntohl(Head(wc))
PolledSlot == MSG_SIZE * PolledImm

PollRead ==
  /\ consumer = "poll"
  /\ ipc = "read"
  /\ printed' = Append(printed, [inv_id |-> 0, index |-> PolledImm, text |-> mem[PolledSlot]])
  /\ ipc' = "flush"
  /\ UNCHANGED <<controllerVars, wireVars, filled, rq, cq, wc, armed, events, mem, lifeVars>>

PollFlush ==
  /\ consumer = "poll"
  /\ ipc = "flush"
  /\ mem' = [mem EXCEPT ![PolledSlot] = Flushed]
  /\ ipc' = "repost"
  /\ UNCHANGED <<controllerVars, wireVars, filled, rq, cq, wc, armed, events, printed, lifeVars>>

LifeRepost ==
  /\ iqp = "rts"
  /\ Repost
  /\ UNCHANGED lifeVars

RepostFlushed ==
  /\ iqp = "err"
  /\ ipc = "repost"
  /\ Announce(1)
  /\ wc' = Tail(wc)
  /\ ipc' = IF wc' = << >> THEN "drain" ELSE "read"
  /\ UNCHANGED <<controllerVars, wireVars, filled, rq, cq, mem, printed,
                 consumer, cqp, iqp, link, lost, wcErr, failures>>

-----------------------------------------------------------------------------
InvRuns == \/ LifeFill \/ FillFlushed \/ LifeWait \/ PollAgain
           \/ LifeDrain \/ DrainErrors \/ WcFailed
           \/ LifeRead \/ PollRead \/ PollFlush \/ LifeRepost \/ RepostFlushed

LifeNext ==
  \/ ContReady \/ InvReady \/ ContRuns \/ InvRuns
  \/ LifeDeliver \/ LifeAcknowledge \/ RetryExceeded \/ FlushSends \/ LifeTeardown
  \/ InvokerFault \/ LinkBreaks \/ LinkHeals \/ ControllerEnds \/ InvokerEnds

LifeSpec == LifeInit /\ [][LifeNext]_allVars

\* The threads run, and the adapters do what they are asked for; nothing that fails
\* has to fail, and a broken link need not heal.
FairLife ==
  /\ LifeSpec
  /\ WF_allVars(ContReady) /\ WF_allVars(InvReady)
  /\ WF_allVars(ContRuns) /\ WF_allVars(InvRuns)
  /\ WF_allVars(LifeDeliver) /\ WF_allVars(LifeAcknowledge)
  /\ WF_allVars(RetryExceeded) /\ WF_allVars(FlushSends)

-----------------------------------------------------------------------------
\* Properties.

\* A receive posted is not lost in a failure: it is in the queue, consumed, flushed
\* or in the handler's hands, so that each of them is answered for when the queue
\* pair enters the error state (invoker.cpp:129-134, 159-181).
ReceivesAnswered == rq + Len(cq) + cqErr + wcErr + Len(wc) = filled

\* The invoker is told of its own queue pair's failure, even asleep and even if its
\* receives were all in hand, and stops with "WC failed" (invoker.cpp:137-162).
FailureNoticed == iqp = "err" ~> ipc = "exit"

\* The completion of the nth write was in error: the good ones come first.
FailedAtController(n) == acked - lost < n /\ n <= acked

\* No write is forgotten: it is reported by the invoker, or completes in error at
\* the controller, or one of the two has ended.  A first write that comes before the
\* invoker's queue pair is ready is no exception (invoker.cpp:273-294).  Once settled
\* a write stays so, and MaxWrites bounds them: the last state decides.
Settled(n) == \/ Len(printed) >= n \/ FailedAtController(n)
              \/ cpc = "gone" \/ ipc = "exit"
EveryWriteSettled == <>[](\A n \in DOMAIN posted : Settled(n))

\* What was written in the invoker's memory is reported, unless the invoker ends: not
\* the controller's end nor a broken link takes it away.
DeliveredIsReported == <>[](Len(printed) >= delivered \/ ipc = "exit")
=============================================================================
