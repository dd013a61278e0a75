----------------------------- MODULE EventStart -----------------------------
(***************************************************************************)
(* From the set-up to the stream.  The controller is done when it has      *)
(* visited the last invoker, and starts to write to invoker 0 at once;     *)
(* invoker 0 goes on to the mesh (InvokerMesh) and posts no receive before *)
(* it is through.  Until then every write waits in the send queue: a write *)
(* with immediate needs a receive, and rnr_retry 7 is for ever.            *)
(***************************************************************************)
EXTENDS InvokerMesh

CONSTANTS
  WRITES_PER_UNIT,   \* one a millisecond (controller.cpp:146), in the unit of time
  MAX_SEND_WR        \* send queue capacity asked of the adapter (2048)

ASSUME StartAssumption == WRITES_PER_UNIT \in Nat \ {0} /\ MAX_SEND_WR \in Nat

VARIABLES
  cstart,    \* when the controller is done with the last invoker
  cpc,       \* rdma_write_while: "write", or "exit" after error("write failure")
  unsent     \* writes posted that wait for a receive

startVars == <<cstart, cpc, unsent>>
allVars == <<vars, startVars>>

LastInvoker == total_invoker_num - 1

\* The controller leaves its loop when the last invoker enters the mesh.
StartInit ==
  /\ Init
  /\ cstart = wake[LastInvoker] - Delay(LastInvoker, 0)
  /\ cpc = "write"
  /\ unsent = 0

\* Invoker 0 has no receive posted, and is not known to have ended.
NotYetReceiving == pc[0] \notin {"done", "exit"}

\* The writes made from time s to time t.
WritesIn(s, t) == IF t <= cstart THEN 0 ELSE WRITES_PER_UNIT * (t - Max({s, cstart}))

\* Time passes for the controller as well.  The post that finds the send queue full is
\* the program's last.
StartElapse ==
  /\ Elapse
  /\ LET wanted == unsent + WritesIn(now, now')
     IN  IF cpc = "write" /\ NotYetReceiving
         THEN IF wanted <= MAX_SEND_WR
              THEN unsent' = wanted /\ UNCHANGED cpc
              ELSE unsent' = MAX_SEND_WR /\ cpc' = "exit"
         ELSE UNCHANGED <<cpc, unsent>>
  /\ UNCHANGED cstart

\* The receives are posted and the writes that waited are executed; or invoker 0 has
\* ended and they complete in error.
Unblocked ==
  /\ unsent > 0 /\ ~NotYetReceiving
  /\ unsent' = 0
  /\ UNCHANGED <<vars, cstart, cpc>>

StartInvoker(k) == Invoker(k) /\ UNCHANGED startVars
StartEnds(k) == Ends(k) /\ UNCHANGED startVars

StartNext == StartElapse \/ Unblocked \/ \E k \in Invokers : StartInvoker(k) \/ StartEnds(k)

StartSpec == StartInit /\ [][StartNext]_allVars

\* As in the mesh; and the adapters do their work.
FairStart == /\ StartSpec
             /\ WF_allVars(StartElapse) /\ WF_allVars(Unblocked)
             /\ \A k \in Invokers : WF_allVars(StartInvoker(k))

-----------------------------------------------------------------------------
\* Properties.

\* The longest the mesh takes: a turn for each in which every invoker could sleep once and
\* one more, and the sleeps before the writes, of one invoker after the other.
Window == total_invoker_num * ((total_invoker_num + 1) * per_inv_sleep_time)
          + total_invoker_num * ((total_invoker_num - 1) * write_sleep_time)

\* The window in which the controller writes and nobody receives is bounded: if no
\* invoker is killed, the mesh takes as long as its sleeps add up to, whatever the gaps
\* (invoker.cpp:306-329, 359).
WindowBounded ==
  killed = {} =>
    \A k \in Invokers :
      pc[k] # "done" =>
        now <= cstart + Window

\* error("write failure") (controller.cpp:137) does not happen while the program does
\* nothing but start: the send queue outlasts the window.
WritesOutlastMesh == cpc # "exit"
=============================================================================
