------------------------------- MODULE Process ------------------------------
(***************************************************************************)
(* The life of one process, as main runs it: it asks who it is and who its *)
(* peers are (Identity), makes the adapter's resources for that many peers *)
(* (IbResources), asks for its number if it is an invoker, runs, and gives *)
(* the resources back.  What the thread does meanwhile is EventStream's.   *)
(***************************************************************************)
EXTENDS Identity

VARIABLES
  with_channel,   \* the event test, or the connection test
  phase, step, live, refused

resources == <<with_channel, phase, step, live, refused>>
allVars == <<vars, resources>>

\* setup_ib and clean_* for the peers found.
Ib == INSTANCE IbResources WITH MaxPeers <- MaxListed

ProcessInit ==
  /\ Init
  /\ with_channel \in BOOLEAN
  /\ phase = "setup" /\ step = 0
  /\ live = {} /\ refused = {}

\* The first questions come before setup_ib.
Asks ==
  /\ Role \/ Peers
  /\ UNCHANGED resources

\* Each question may be the one that stops the process.
StopsWithoutAddress ==
  /\ \E at \in {"role", "peers", "id"} : ProbeFails(at)
  /\ pc = "id" => phase = "use"
  /\ phase' = "exit" /\ live' = {}
  /\ UNCHANGED <<with_channel, step, refused>>

\* setup_ib(peer_num).
SetsUp ==
  /\ pc \in {"id", "run"}
  /\ UNCHANGED vars
  /\ Ib!Take \/ Ib!TakeFails \/ Ib!SetupDone

\* get_invoker_id.  An unknown address ends the process, and with it the resources.
AsksNumber ==
  /\ phase = "use"
  /\ Id
  /\ IF pc' = "run" THEN UNCHANGED <<phase, live>> ELSE phase' = "exit" /\ live' = {}
  /\ UNCHANGED <<with_channel, step, refused>>

\* run returns when its thread does, and cleans up.
CleansUp ==
  /\ pc = "run"
  /\ UNCHANGED vars
  /\ Ib!BeginClean \/ Ib!GiveBack \/ Ib!CleanDone

ProcessNext == Asks \/ StopsWithoutAddress \/ SetsUp \/ AsksNumber \/ CleansUp

ProcessSpec == ProcessInit /\ [][ProcessNext]_allVars

-----------------------------------------------------------------------------
\* Properties.

\* What the adapter can reach is there, from the first queue pair to the last
\* (setup.cpp:10-130, controller.cpp:217-270).
ReachableIsLive == Ib!ReachableIsLive

\* No destroy call is refused for a resource still in use.
NoneStillInUse == Ib!NoneStillInUse

\* After the clean-up nothing is held but the completion channel.
AllGivenBack == Ib!AllGivenBack

\* A process at work has a queue pair, with its own completion queue, for every machine
\* listed but itself, and no more: setup_controller and setup_invoker index the queue
\* pairs by counting those machines (main.cpp:14-16, controller.cpp:168-173).
OneQpEach ==
  pc = "run" /\ phase = "use" /\ Answered =>
    LET Others == 0 .. Len(controller) + Len(invoker) - 2
    IN  \A kind \in {"qp", "cq"} : {r \in live : r[1] = kind} = {kind} \X Others
=============================================================================
