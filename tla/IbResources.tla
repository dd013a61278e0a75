----------------------------- MODULE IbResources ----------------------------
(***************************************************************************)
(* The adapter's resources over the life of a process: setup_ib takes them *)
(* one after the other and stops at the first that fails; clean_controller *)
(* and clean_invoker, which run the same code, give them back.             *)
(*                                                                         *)
(* What the adapter refers to through a resource must outlive it.  The     *)
(* library refuses (EBUSY, external) to destroy what a live resource uses, *)
(* and the program does not look at what a destroy call returns; memory it *)
(* lets go while a peer may still reach it is simply overwritten.  The     *)
(* event test's queues report to a completion channel, the connection      *)
(* test's have none.                                                       *)
(***************************************************************************)
EXTENDS Integers, Sequences

CONSTANT MaxPeers       \* bound: peer_num

VARIABLES
  peer_num,
  with_channel,   \* the event test; FALSE for the connection test
  phase,          \* "setup", "use", "clean", "end" or "exit"
  step,           \* resources taken, or given back, in this phase
  live,           \* resources held
  refused         \* resources whose destruction was refused

vars == <<peer_num, with_channel, phase, step, live, refused>>

\* A resource is named by its kind and, for queues and queue pairs, its index.
One(kind) == <<kind, 0>>
Each(kind) == [n \in 1 .. peer_num |-> <<kind, n - 1>>]

\* The calls of setup_ib, in order.
SetupOrder ==
  << One("dev_list"), One("ctx"), One("pd"), One("cache_buf"), One("sched_buf"),
     One("cache_mr"), One("sched_mr") >>
  \o (IF with_channel THEN << One("channel") >> ELSE << >>)
  \o Each("cq") \o Each("qp")

\* Variant: completion queues before queue pairs.
CqFirst ==
  Each("cq") \o Each("qp")
  \o << One("cache_mr"), One("sched_mr"), One("pd"), One("ctx"),
        One("cache_buf"), One("sched_buf") >>

\* Variant: the scheduling buffer's region is not deregistered.
RegionForgotten ==
  Each("qp") \o Each("cq")
  \o << One("cache_mr"), One("ctx"), One("cache_buf"), One("sched_buf") >>

\* The calls of clean_controller and clean_invoker, in order.
CleanOrder ==
  Each("qp") \o Each("cq")
  \o << One("cache_mr"), One("sched_mr"), One("pd"), One("ctx"),
        One("cache_buf"), One("sched_buf") >>

\* What the library counts as using what (external).  A context may be closed
\* while a channel made from it is open.
Uses(r) ==
  CASE r[1] = "pd" -> {One("ctx")}
    [] r[1] \in {"cache_mr", "sched_mr"} -> {One("pd")}
    [] r[1] = "cq" -> {One("ctx")} \cup (IF with_channel THEN {One("channel")} ELSE {})
    [] r[1] = "qp" -> {One("pd"), <<"cq", r[2]>>}
    [] OTHER -> {}

InUse(r) == \E other \in live : r \in Uses(other)

Init ==
  /\ peer_num \in 0 .. MaxPeers /\ with_channel \in BOOLEAN
  /\ phase = "setup" /\ step = 0
  /\ live = {} /\ refused = {}

-----------------------------------------------------------------------------
\* Variant: setup goes on when a call fails.
TakeFailsUnnoticed ==
  /\ phase = "setup" /\ step < Len(SetupOrder)
  /\ step' = step + 1
  /\ UNCHANGED <<peer_num, with_channel, phase, live, refused>>

\* The next call of setup_ib succeeds.
Take ==
  /\ phase = "setup" /\ step < Len(SetupOrder)
  /\ live' = live \cup {SetupOrder[step + 1]}
  /\ step' = step + 1
  /\ UNCHANGED <<peer_num, with_channel, phase, refused>>

\* It fails: error(), and the system takes everything back.
TakeFails ==
  /\ phase = "setup" /\ step < Len(SetupOrder)
  /\ phase' = "exit"
  /\ live' = {}
  /\ UNCHANGED <<peer_num, with_channel, step, refused>>

\* ibv_free_device_list ends setup_ib.
SetupDone ==
  /\ phase = "setup" /\ step = Len(SetupOrder)
  /\ live' = live \ {One("dev_list")}
  /\ phase' = "use" /\ step' = 0
  /\ UNCHANGED <<peer_num, with_channel, refused>>

\* The thread returned and was joined.
BeginClean ==
  /\ phase = "use"
  /\ phase' = "clean"
  /\ UNCHANGED <<peer_num, with_channel, step, live, refused>>

\* The next call of clean_*.  A refused one leaves the resource as it is.
GiveBack ==
  /\ phase = "clean" /\ step < Len(CleanOrder)
  /\ LET r == CleanOrder[step + 1]
     IN  IF InUse(r)
         THEN refused' = refused \cup {r} /\ UNCHANGED live
         ELSE live' = live \ {r} /\ UNCHANGED refused
  /\ step' = step + 1
  /\ UNCHANGED <<peer_num, with_channel, phase>>

CleanDone ==
  /\ phase = "clean" /\ step = Len(CleanOrder)
  /\ phase' = "end"
  /\ UNCHANGED <<peer_num, with_channel, step, live, refused>>

Next == Take \/ TakeFails \/ SetupDone \/ BeginClean \/ GiveBack \/ CleanDone

Spec == Init /\ [][Next]_vars

-----------------------------------------------------------------------------
\* Properties.

\* Whatever the adapter can reach is there: a registered buffer is allocated, and
\* while a queue pair exists, through which a peer may write at any moment, both
\* regions are registered and its own completion queue exists.
ReachableIsLive ==
  /\ One("cache_mr") \in live => One("cache_buf") \in live
  /\ One("sched_mr") \in live => One("sched_buf") \in live
  /\ \A r \in live : r[1] = "qp" =>
       {One("cache_mr"), One("sched_mr"), One("pd"), <<"cq", r[2]>>} \subseteq live

\* No destroy call is refused: each comes after those for everything that uses its
\* resource (the calls' results are not looked at, so nothing else would tell).
NoneStillInUse == refused = {}

\* After the clean-up nothing is held but the completion channel, which no code
\* destroys; the connection test, which has none, holds nothing.
AllGivenBack == phase = "end" => live = IF with_channel THEN {One("channel")} ELSE {}
=============================================================================
