----------------------------- MODULE EventStream ----------------------------
(***************************************************************************)
(* The event test: the controller writes into the invoker's buffer with    *)
(* RDMA writes that carry an immediate (Controller::rdma_write_while), and *)
(* the invoker sleeps on a completion channel and handles each one         *)
(* (Invoker::ev_check_write).                                              *)
(*                                                                         *)
(* Three parties take steps: the controller's write thread, the invoker's  *)
(* event thread, and the reliable connection between the two adapters,     *)
(* which is external and modelled from how the code uses it.  Nothing but  *)
(* the connection joins the two threads: no message goes back from the     *)
(* invoker, so the controller is paced by its sleep alone.                 *)
(***************************************************************************)
EXTENDS ImmCodec

CONSTANTS
  RECV_DEPTH,     \* receives posted before the loop (1000)
  MAX_RECV_WR,    \* receive queue capacity asked of the adapter (2048)
  MAX_SEND_WR,    \* send queue capacity asked of the adapter (2048)
  NUM_WC,         \* completions a poll may return (20)
  MaxWrites,      \* bound: writes the endless loop makes
  Stale, Torn, Flushed   \* buffer contents that are not one of the words

\* The words the switch knows; word k is named by its index.
Words == 0 .. 3

Content == SlotIndexes \cup {Stale, Torn, Flushed}

ASSUME StreamAssumption ==
  /\ RECV_DEPTH \in Nat \ {0}
  /\ MAX_RECV_WR \in Nat /\ RECV_DEPTH <= MAX_RECV_WR
  /\ MAX_SEND_WR \in Nat \ {0}
  /\ NUM_WC \in Nat \ {0}
  /\ MaxWrites \in Nat
  /\ SlotIndexes \subseteq Words
  /\ {Stale, Torn, Flushed} \cap SlotIndexes = {}

VARIABLES
  \* controller
  cpc,         \* where rdma_write_while is
  imm,         \* its loop variable
  cbuf,        \* its local cache buffer, the source of every write
  posted,      \* history: the slot index of every write posted
  reaped,      \* send completions polled, which is what frees send queue room
  \* connection
  sq,          \* writes posted and not yet executed at the invoker
  delivered,   \* writes executed at the invoker
  acked,       \* send completions raised at the controller
  \* invoker
  ipc,         \* where ev_check_write is
  filled,      \* receives posted by the initial loop
  rq,          \* receives posted and not consumed
  cq,          \* receive completions not polled: their immediates
  wc,          \* the completions of the last poll still to be handled
  armed,       \* the completion queue will raise an event
  events,      \* events waiting in the completion channel
  mem,         \* the invoker's cache buffer, by slot offset
  printed      \* what the handler printed: invoker id, index and message

controllerVars == <<cpc, imm, cbuf, posted, reaped>>
wireVars == <<sq, delivered, acked>>
invokerVars == <<ipc, filled, rq, cq, wc, armed, events, mem, printed>>
vars == <<controllerVars, wireVars, invokerVars>>

Offsets == {EventOffset(i, k) : i \in InvokerIds, k \in SlotIndexes}

Smaller(a, b) == IF a <= b THEN a ELSE b

Init ==
  /\ cpc = "copy"
  /\ imm = 0
  /\ cbuf = Stale
  /\ posted = << >>
  /\ reaped = 0
  /\ sq = << >>
  /\ delivered = 0
  /\ acked = 0
  /\ ipc = "fill"
  /\ filled = 0
  /\ rq = 0
  /\ cq = << >>
  /\ wc = << >>
  /\ armed = TRUE
  /\ events = 0
  /\ mem = [o \in Offsets |-> Stale]
  /\ printed = << >>

-----------------------------------------------------------------------------
\* The controller's write thread.

\* strcpy of the next word into the buffer the adapter reads from.  It is not
\* atomic: until CopyEnd the buffer holds part of one word and part of another.
CopyBegin ==
  /\ cpc = "copy"
  /\ Len(posted) < MaxWrites
  /\ cbuf' = IF imm \in Words THEN Torn ELSE cbuf
  /\ cpc' = "copying"
  /\ UNCHANGED <<imm, posted, reaped, wireVars, invokerVars>>

CopyEnd ==
  /\ cpc = "copying"
  /\ cbuf' = IF imm \in Words THEN imm ELSE cbuf
  /\ cpc' = "post"
  /\ UNCHANGED <<imm, posted, reaped, wireVars, invokerVars>>

SendRoom == Len(posted) - reaped < MAX_SEND_WR

\* The work request names the buffer, not its contents: the adapter reads the
\* contents when it sends.
PostWrite ==
  /\ cpc = "post"
  /\ SendRoom
  /\ sq' = Append(sq, [imm_data    |-> htonl(encode_imm(0, imm)),
                       remote_addr |-> WriteOffset(imm)])
  /\ posted' = Append(posted, imm)
  /\ cpc' = "poll"
  /\ UNCHANGED <<imm, cbuf, reaped, delivered, acked, invokerVars>>

\* ibv_post_send refuses when the send queue is full: error("write failure").
PostFails ==
  /\ cpc = "post"
  /\ ~SendRoom
  /\ cpc' = "exit"
  /\ UNCHANGED <<imm, cbuf, posted, reaped, wireVars, invokerVars>>

\* Variant: the index is never wrapped.
PollSendUnwrapped ==
  /\ cpc = "poll"
  /\ reaped' = reaped + Smaller(acked - reaped, NUM_WC)
  /\ imm' = imm + 1
  /\ cpc' = "sleep"
  /\ UNCHANGED <<cbuf, posted, wireVars, invokerVars>>

\* Variant: send completions are left in the queue.
PollSendOmitted ==
  /\ cpc = "poll"
  /\ imm' = (imm + 1) % NUM_BUF_SLOT
  /\ cpc' = "sleep"
  /\ UNCHANGED <<cbuf, posted, reaped, wireVars, invokerVars>>

\* One poll, whatever it returns; then the next index.
PollSend ==
  /\ cpc = "poll"
  /\ reaped' = reaped + Smaller(acked - reaped, NUM_WC)
  /\ imm' = (imm + 1) % NUM_BUF_SLOT
  /\ cpc' = "sleep"
  /\ UNCHANGED <<cbuf, posted, wireVars, invokerVars>>

\* sleep_for is the only pacing there is: it ends whatever has become of the write.
SleepOver ==
  /\ cpc = "sleep"
  /\ cpc' = "copy"
  /\ UNCHANGED <<imm, cbuf, posted, reaped, wireVars, invokerVars>>

-----------------------------------------------------------------------------
\* The reliable connection (external).

\* The next write is executed at the invoker: data, then receive, completion
\* and, when the queue is armed, one event.  Without a posted receive it waits
\* (rnr_retry 7: retry for ever).
Deliver ==
  /\ sq # << >>
  /\ rq > 0
  /\ mem' = [mem EXCEPT ![Head(sq).remote_addr] = cbuf]
  /\ rq' = rq - 1
  /\ cq' = Append(cq, Head(sq).imm_data)
  /\ events' = IF armed THEN events + 1 ELSE events
  /\ armed' = FALSE
  /\ sq' = Tail(sq)
  /\ delivered' = delivered + 1
  /\ UNCHANGED <<controllerVars, acked, ipc, filled, wc, printed>>

\* The acknowledgement comes back later and raises the send completion.
Acknowledge ==
  /\ acked < delivered
  /\ acked' = acked + 1
  /\ UNCHANGED <<controllerVars, sq, delivered, invokerVars>>

\* The controller's exit destroys its queue pair and what is still in it.
Teardown ==
  /\ cpc = "exit"
  /\ cpc' = "gone"
  /\ sq' = << >>
  /\ UNCHANGED <<imm, cbuf, posted, reaped, delivered, acked, invokerVars>>

-----------------------------------------------------------------------------
\* The invoker's event thread.

\* Variant: the loop runs once more (i <= 1000).
FillRecvOnceMore ==
  /\ ipc = "fill"
  /\ rq' = rq + 1
  /\ filled' = filled + 1
  /\ ipc' = IF filled' > RECV_DEPTH THEN "get" ELSE "fill"
  /\ UNCHANGED <<controllerVars, wireVars, cq, wc, armed, events, mem, printed>>

\* The first loop: one post_recv.
FillRecv ==
  /\ ipc = "fill"
  /\ rq' = rq + 1
  /\ filled' = filled + 1
  /\ ipc' = IF filled' = RECV_DEPTH THEN "get" ELSE "fill"
  /\ UNCHANGED <<controllerVars, wireVars, cq, wc, armed, events, mem, printed>>

\* Variant: the queue is not armed again after an event.
GetEventUnarmed ==
  /\ ipc = "get"
  /\ events > 0
  /\ events' = events - 1
  /\ ipc' = "drain"
  /\ UNCHANGED <<controllerVars, wireVars, filled, rq, cq, wc, armed, mem, printed>>

\* ibv_get_cq_event blocks until there is an event; it is acknowledged at once.
GetEvent ==
  /\ ipc = "get"
  /\ events > 0
  /\ events' = events - 1
  /\ ipc' = "arm"
  /\ UNCHANGED <<controllerVars, wireVars, filled, rq, cq, wc, armed, mem, printed>>

\* ibv_req_notify_cq, before the queue is drained.
Rearm ==
  /\ ipc = "arm"
  /\ armed' = TRUE
  /\ ipc' = "drain"
  /\ UNCHANGED <<controllerVars, wireVars, filled, rq, cq, wc, events, mem, printed>>

\* ibv_poll_cq: up to NUM_WC completions; none ends the inner loop.
Drain ==
  /\ ipc = "drain"
  /\ LET n == Smaller(Len(cq), NUM_WC)
     IN  /\ wc' = SubSeq(cq, 1, n)
         /\ cq' = SubSeq(cq, n + 1, Len(cq))
         /\ ipc' = IF n = 0 THEN "get" ELSE "read"
  /\ UNCHANGED <<controllerVars, wireVars, filled, rq, armed, events, mem, printed>>

\* The pair the handler decodes from the completion in hand, and its slot.
InHand == decode_imm(ntohl(Head(wc)))
SlotInHand == EventOffset(InHand[1], InHand[2])

ReadSlot ==
  /\ ipc = "read"
  /\ printed' = Append(printed, [inv_id |-> InHand[1], index |-> InHand[2],
                                 text |-> mem[SlotInHand]])
  /\ ipc' = "flush"
  /\ UNCHANGED <<controllerVars, wireVars, filled, rq, cq, wc, armed, events, mem>>

\* Variant: the whole buffer is flushed.
FlushAll ==
  /\ ipc = "flush"
  /\ mem' = [o \in Offsets |-> Flushed]
  /\ ipc' = "repost"
  /\ UNCHANGED <<controllerVars, wireVars, filled, rq, cq, wc, armed, events, printed>>

FlushSlot ==
  /\ ipc = "flush"
  /\ mem' = [mem EXCEPT ![SlotInHand] = Flushed]
  /\ ipc' = "repost"
  /\ UNCHANGED <<controllerVars, wireVars, filled, rq, cq, wc, armed, events, printed>>

\* Variant: only the first completion of a poll is handled.
RepostFirstOnly ==
  /\ ipc = "repost"
  /\ rq' = rq + 1
  /\ wc' = << >>
  /\ ipc' = "drain"
  /\ UNCHANGED <<controllerVars, wireVars, filled, cq, armed, events, mem, printed>>

\* Variant: the receive consumed is not posted again.
RepostForgotten ==
  /\ ipc = "repost"
  /\ wc' = Tail(wc)
  /\ ipc' = IF wc' = << >> THEN "drain" ELSE "read"
  /\ UNCHANGED <<controllerVars, wireVars, filled, rq, cq, armed, events, mem, printed>>

\* post_recv for the receive just consumed; on to the next completion.
Repost ==
  /\ ipc = "repost"
  /\ rq' = rq + 1
  /\ wc' = Tail(wc)
  /\ ipc' = IF wc' = << >> THEN "drain" ELSE "read"
  /\ UNCHANGED <<controllerVars, wireVars, filled, cq, armed, events, mem, printed>>

-----------------------------------------------------------------------------
Controller == CopyBegin \/ CopyEnd \/ PostWrite \/ PostFails \/ PollSend \/ SleepOver
Wire == Deliver \/ Acknowledge \/ Teardown
Invoker == FillRecv \/ GetEvent \/ Rearm \/ Drain \/ ReadSlot \/ FlushSlot \/ Repost

Next == Controller \/ Wire \/ Invoker

Spec == Init /\ [][Next]_vars

\* The threads are never stopped and the connection keeps trying.
FairSpec == /\ Spec
            /\ WF_vars(Controller)
            /\ WF_vars(Invoker)
            /\ WF_vars(Deliver)
            /\ WF_vars(Acknowledge)

-----------------------------------------------------------------------------
\* Properties.

Immediates == {htonl(encode_imm(0, k)) : k \in SlotIndexes}
Delivery == [imm_data : Immediates, remote_addr : {WriteOffset(k) : k \in SlotIndexes}]
Report == [inv_id : InvokerIds, index : SlotIndexes, text : Content]

\* Every variable of the two threads and of the connection has its type; the
\* loop variable of rdma_write_while stays a slot index (controller.cpp:144).
TypeOK ==
  /\ cpc \in {"copy", "copying", "post", "poll", "sleep", "exit", "gone"}
  /\ imm \in SlotIndexes
  /\ cbuf \in Content
  /\ posted \in Seq(SlotIndexes)
  /\ reaped \in Nat
  /\ sq \in Seq(Delivery)
  /\ delivered \in Nat
  /\ acked \in Nat
  /\ ipc \in {"fill", "get", "arm", "drain", "read", "flush", "repost"}
  /\ filled \in Nat
  /\ rq \in Nat
  /\ cq \in Seq(Immediates)
  /\ wc \in Seq(Immediates)
  /\ armed \in BOOLEAN
  /\ events \in Nat
  /\ mem \in [Offsets -> Content]
  /\ printed \in Seq(Report)

\* The event thread never blocks in ibv_get_cq_event over a completion nobody
\* will announce: re-arming before draining leaves no gap (invoker.cpp:137-200).
NoLostWakeup == ipc = "get" /\ cq # << >> => events > 0

\* A receive is posted, waiting as a completion, or in the handler's hands, and
\* never more than the initial loop posted: so neither queue ever overflows and
\* post_recv never meets a full one (invoker.cpp:129-134, 178-181).
ReceivesConserved ==
  /\ rq + Len(cq) + Len(wc) = filled
  /\ filled <= RECV_DEPTH
  /\ ipc \in {"fill", "repost"} => rq + Len(cq) < MAX_RECV_WR

\* The stream keeps the mailbox's promise: what is reported is what was posted,
\* once and in order, whatever the interleaving of the two threads.
Box == INSTANCE Mailbox
         WITH Index <- SlotIndexes,
              reported <- [n \in DOMAIN printed |-> printed[n].index]

ImplementsMailbox == Box!Spec

\* Every write is handled in the end: the event thread is woken for it and the
\* receive it needs is always posted again.  The controller's end may take with it
\* what it posted, but not what was delivered (invoker.cpp:143-178).
EveryWriteReported ==
  \A n \in 1 .. MaxWrites :
    /\ Len(posted) >= n ~> (Len(printed) >= n \/ cpc = "gone")
    /\ delivered >= n ~> Len(printed) >= n
=============================================================================
