---------------------------- MODULE EventPacing -----------------------------
(***************************************************************************)
(* The timing of the write stream.  The controller reuses its one buffer   *)
(* and the invoker's slots after a sleep of 1 ms, and nothing tells it     *)
(* whether that was enough.  EventStream lets the sleep end at any time;   *)
(* the history variables kept here beside it say which writes overlapped   *)
(* with another one, and how far the connection lagged behind the sleeps.  *)
(* They restrict nothing: every step of EventStream is a step here.        *)
(***************************************************************************)
EXTENDS EventStream

VARIABLES
  overlapped,    \* history: the writes whose word met another one's copy, write or flush
  lag            \* history: the most writes unacknowledged at the end of a sleep

pacingVars == <<overlapped, lag>>
pacedVars == <<vars, pacingVars>>

PacedInit == Init /\ overlapped = {} /\ lag = 0

\* Messages the invoker has dealt with: printed and, but for the one in hand, flushed.
Handled == Len(printed) - (IF ipc = "flush" THEN 1 ELSE 0)

\* Write n reaches the invoker before its word begins to be copied over: the next
\* strcpy is after the sleep.
InTime(n) == Len(posted) = n /\ cpc \in {"poll", "sleep", "copy"}

SameSlot(m, n) == posted[m] = posted[n]

\* What write n meets when it reaches the invoker: an earlier word in its slot that was
\* not read yet is lost; one that was read but not flushed will have n flushed with it.
Unread(n) == {m \in Len(printed) + 1 .. n - 1 : SameSlot(m, n)}
Unflushed(n) == {m \in Handled + 1 .. n - 1 : SameSlot(m, n)}

PacedDeliver ==
  LET n == delivered + 1 IN
  /\ Deliver
  /\ overlapped' = overlapped \cup Unread(n)
                              \cup {m \in {n} : ~InTime(n) \/ Unflushed(n) # {}}
  /\ UNCHANGED lag

PacedSleepOver ==
  /\ SleepOver
  /\ lag' = IF Len(posted) - acked > lag THEN Len(posted) - acked ELSE lag
  /\ UNCHANGED overlapped

PacedOther ==
  /\ \/ CopyBegin \/ CopyEnd \/ PostWrite \/ PostFails \/ PollSend
     \/ Acknowledge \/ Teardown
     \/ Invoker
  /\ UNCHANGED pacingVars

PacedNext == PacedDeliver \/ PacedSleepOver \/ PacedOther

PacedSpec == PacedInit /\ [][PacedNext]_pacedVars

\* The threads are never stopped and the connection keeps trying.
FairPacedSpec ==
  /\ PacedSpec
  /\ WF_vars(Controller)
  /\ WF_vars(Invoker)
  /\ WF_vars(Deliver)
  /\ WF_vars(Acknowledge)

-----------------------------------------------------------------------------
\* Properties.

\* An event shows another word than the one written for it, a word half copied, one
\* flushed or one left from before, only if the writes overlapped: this one reached the
\* invoker when its source was being copied over, or two writes to its slot met.
\* Nothing else the two threads do mixes words up (controller.cpp:115-146,
\* invoker.cpp:147-178).
OwnWord ==
  \A n \in DOMAIN printed :
    /\ printed[n].inv_id = 0
    /\ n \notin overlapped => printed[n].text = posted[n]

\* ibv_post_send is refused, and the controller stops with "write failure", only after a
\* sleep of 1 ms ended with all but one place of the send queue full of unacknowledged
\* writes: one poll per write keeps up with any lesser lag (controller.cpp:135-146).
WritesNeverRefused == cpc \in {"exit", "gone"} => lag + 2 > MAX_SEND_WR
=============================================================================
