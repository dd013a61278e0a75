---------------------------- MODULE ContExchange ----------------------------
(***************************************************************************)
(* Exchange of QP information between the controllers and the invokers:    *)
(* Controller::setup_controller against the first part of                  *)
(* Invoker::setup_invoker, over one TCP connection for each pair.          *)
(*                                                                         *)
(* A controller visits the invokers in the order of the configuration; an  *)
(* invoker accepts one connection and answers on it once for every         *)
(* controller the configuration names.  Processes may end at any time.     *)
(*                                                                         *)
(* A struct qp_info is abstracted to the process that sent it and the      *)
(* index of the queue pair it is about: lid, gid, keys and addresses go    *)
(* with the process, qp_num with the index.  SockIO models how its bytes   *)
(* travel.                                                                 *)
(***************************************************************************)
EXTENDS Integers, Sequences

CONSTANTS
  NumControllers,   \* length of "controller" in ip_config.json
  NumInvokers,      \* length of "invoker" in ip_config.json
  MaxCrash,         \* bound: processes that end before their time
  None,             \* nothing yet
  Garbage           \* content of a structure nothing was read into

ASSUME ExchangeAssumption ==
  /\ NumControllers \in Nat \ {0} /\ NumInvokers \in Nat \ {0}
  /\ MaxCrash \in Nat
  /\ None # Garbage /\ None \notin 0 .. NumControllers - 1

Controllers == 0 .. NumControllers - 1
Invokers == 0 .. NumInvokers - 1

VARIABLES
  \* controllers; queue pair i is for invoker i
  cpc, ci,        \* where setup_controller is, and its loop variable
  ckeys,          \* cache_rkey, cache_raddr, sched_rkey, sched_raddr
  cqp,            \* the queue pairs
  \* invokers; queue pair q is for the q-th turn of the controller loop
  ipc, qp_num,
  ikeys, iqp,
  accepted,       \* cont_serv_sock: whose connection it is
  \* connections, by controller and invoker (external)
  backlog,        \* at each invoker, connections not accepted yet
  toInv, toCont,  \* bytes on their way: whole structures
  closed,         \* the controller's side was closed
  crashes

contVars == <<cpc, ci, ckeys, cqp>>
invVars == <<ipc, qp_num, ikeys, iqp, accepted>>
netVars == <<backlog, toInv, toCont, closed>>
vars == <<contVars, invVars, netVars, crashes>>

ResetQp == [state |-> "RESET", dest |-> None]

Init ==
  /\ cpc = [c \in Controllers |-> "connect"]
  /\ ci = [c \in Controllers |-> 0]
  /\ ckeys = [c \in Controllers |-> [i \in Invokers |-> None]]
  /\ cqp = [c \in Controllers |-> [i \in Invokers |-> ResetQp]]
  /\ ipc = [k \in Invokers |-> "bind"]
  /\ qp_num = [k \in Invokers |-> 0]
  /\ ikeys = [k \in Invokers |-> [q \in Controllers |-> None]]
  /\ iqp = [k \in Invokers |-> [q \in Controllers |-> ResetQp]]
  /\ accepted = [k \in Invokers |-> None]
  /\ backlog = [k \in Invokers |-> << >>]
  /\ toInv = [c \in Controllers |-> [k \in Invokers |-> << >>]]
  /\ toCont = [c \in Controllers |-> [k \in Invokers |-> << >>]]
  /\ closed = [c \in Controllers |-> [k \in Invokers |-> FALSE]]
  /\ crashes = 0

-----------------------------------------------------------------------------
\* modify_qp_to_rts: INIT, then RTR, which names the destination, then RTS.
modify_qp(qp, remote) ==
  CASE qp.state = "RESET" -> [qp EXCEPT !.state = "INIT"]
    [] qp.state = "INIT"  -> [state |-> "RTR", dest |-> remote]
    [] qp.state = "RTR"   -> [qp EXCEPT !.state = "RTS"]

\* Variants: a read that does not wait; a read that does not notice the end.
ReadableAtOnce(chan, gone) == TRUE
ReadableDataOnly(chan, gone) == chan # << >>

\* What a read of one structure leaves in `remote`: the next structure, or
\* nothing at all when the other side is closed: the count returned is not
\* looked at.
Readable(chan, gone) == chan # << >> \/ gone
Received(chan) == IF chan # << >> THEN Head(chan) ELSE Garbage
Rest(chan) == IF chan # << >> THEN Tail(chan) ELSE chan

\* The sides of connection c-k that are gone.
ContGone(c, k) == closed[c][k] \/ cpc[c] = "exit"
InvGone(k) == ipc[k] = "exit"

-----------------------------------------------------------------------------
\* A controller.

\* Variant: the controller, too, reads before it writes.
ConnectThenRead(c) ==
  LET k == ci[c] IN
  /\ cpc[c] = "connect"
  /\ IF ipc[k] \notin {"bind", "exit"}
     THEN /\ backlog' = [backlog EXCEPT ![k] = Append(@, c)]
          /\ cpc' = [cpc EXCEPT ![c] = "read"]
     ELSE /\ cpc' = [cpc EXCEPT ![c] = "exit"]
          /\ UNCHANGED backlog
  /\ UNCHANGED <<ci, ckeys, cqp, invVars, toInv, toCont, closed, crashes>>

\* sock_create_connect: refused unless somebody listens, error("connect error").
Connect(c) ==
  LET k == ci[c] IN
  /\ cpc[c] = "connect"
  /\ IF ipc[k] \notin {"bind", "exit"}
     THEN /\ backlog' = [backlog EXCEPT ![k] = Append(@, c)]
          /\ cpc' = [cpc EXCEPT ![c] = "write"]
     ELSE /\ cpc' = [cpc EXCEPT ![c] = "exit"]
          /\ UNCHANGED backlog
  /\ UNCHANGED <<ci, ckeys, cqp, invVars, toInv, toCont, closed, crashes>>

\* Variant: every invoker is told about queue pair 0.
ContWriteFirstQp(c) ==
  LET k == ci[c] IN
  /\ cpc[c] = "write"
  /\ toInv' = [toInv EXCEPT ![c][k] = Append(@, [from |-> c, qp |-> 0])]
  /\ cpc' = [cpc EXCEPT ![c] = "read"]
  /\ UNCHANGED <<ci, ckeys, cqp, invVars, backlog, toCont, closed, crashes>>

ContWrite(c) ==
  LET k == ci[c] IN
  /\ cpc[c] = "write"
  /\ toInv' = [toInv EXCEPT ![c][k] = Append(@, [from |-> c, qp |-> k])]
  /\ cpc' = [cpc EXCEPT ![c] = "read"]
  /\ UNCHANGED <<ci, ckeys, cqp, invVars, backlog, toCont, closed, crashes>>

ContRead(c) ==
  LET k == ci[c] IN
  /\ cpc[c] = "read"
  /\ Readable(toCont[c][k], InvGone(k))
  /\ ckeys' = [ckeys EXCEPT ![c][k] = Received(toCont[c][k])]
  /\ toCont' = [toCont EXCEPT ![c][k] = Rest(@)]
  /\ cpc' = [cpc EXCEPT ![c] = "modify"]
  /\ UNCHANGED <<ci, cqp, invVars, backlog, toInv, closed, crashes>>

\* Variant: the index moves with every ibv_modify_qp.
ContModifyCountsEach(c) ==
  LET k  == ci[c]
      qp == modify_qp(cqp[c][k], ckeys[c][k])
  IN
  /\ cpc[c] = "modify"
  /\ cqp' = [cqp EXCEPT ![c][k] = qp]
  /\ ci' = [ci EXCEPT ![c] = k + 1]
  /\ IF qp.state = "RTS"
     THEN /\ closed' = [closed EXCEPT ![c][k] = TRUE]
          /\ cpc' = [cpc EXCEPT ![c] = IF k + 1 = NumInvokers THEN "run" ELSE "connect"]
     ELSE UNCHANGED <<closed, cpc>>
  /\ UNCHANGED <<ckeys, invVars, backlog, toInv, toCont, crashes>>

\* One ibv_modify_qp.  After the last one the socket is closed and the next
\* invoker is visited.
ContModify(c) ==
  LET k  == ci[c]
      qp == modify_qp(cqp[c][k], ckeys[c][k])
  IN
  /\ cpc[c] = "modify"
  /\ cqp' = [cqp EXCEPT ![c][k] = qp]
  /\ IF qp.state = "RTS"
     THEN /\ closed' = [closed EXCEPT ![c][k] = TRUE]
          /\ ci' = [ci EXCEPT ![c] = k + 1]
          /\ cpc' = [cpc EXCEPT ![c] = IF k + 1 = NumInvokers THEN "run" ELSE "connect"]
     ELSE UNCHANGED <<closed, ci, cpc>>
  /\ UNCHANGED <<ckeys, invVars, backlog, toInv, toCont, crashes>>

\* The adapter may refuse a destination that is no queue pair of anybody.
ContModifyFails(c) ==
  /\ cpc[c] = "modify"
  /\ cqp[c][ci[c]].state = "INIT" /\ ckeys[c][ci[c]] = Garbage
  /\ cpc' = [cpc EXCEPT ![c] = "exit"]
  /\ UNCHANGED <<ci, ckeys, cqp, invVars, netVars, crashes>>

-----------------------------------------------------------------------------
\* An invoker.

\* sock_bind and listen.
Listen(k) ==
  /\ ipc[k] = "bind"
  /\ ipc' = [ipc EXCEPT ![k] = "accept"]
  /\ UNCHANGED <<qp_num, ikeys, iqp, accepted, contVars, netVars, crashes>>

\* accept, once.
Accept(k) ==
  /\ ipc[k] = "accept"
  /\ backlog[k] # << >>
  /\ accepted' = [accepted EXCEPT ![k] = Head(backlog[k])]
  /\ backlog' = [backlog EXCEPT ![k] = Tail(@)]
  /\ ipc' = [ipc EXCEPT ![k] = "read"]
  /\ UNCHANGED <<qp_num, ikeys, iqp, contVars, toInv, toCont, closed, crashes>>

InvRead(k) ==
  LET c == accepted[k] IN
  /\ ipc[k] = "read"
  /\ Readable(toInv[c][k], ContGone(c, k))
  /\ ikeys' = [ikeys EXCEPT ![k][qp_num[k]] = Received(toInv[c][k])]
  /\ toInv' = [toInv EXCEPT ![c][k] = Rest(@)]
  /\ ipc' = [ipc EXCEPT ![k] = "write"]
  /\ UNCHANGED <<qp_num, iqp, accepted, contVars, backlog, toCont, closed, crashes>>

\* Written to a connection that is gone, the answer reaches nobody.
InvWrite(k) ==
  LET c == accepted[k] IN
  /\ ipc[k] = "write"
  /\ toCont' = IF ContGone(c, k) THEN toCont
               ELSE [toCont EXCEPT ![c][k] = Append(@, [from |-> k, qp |-> qp_num[k]])]
  /\ ipc' = [ipc EXCEPT ![k] = "modify"]
  /\ UNCHANGED <<qp_num, ikeys, iqp, accepted, contVars, backlog, toInv, closed, crashes>>

\* One ibv_modify_qp; after the last one the next turn of the loop.
InvModify(k) ==
  LET q  == qp_num[k]
      qp == modify_qp(iqp[k][q], ikeys[k][q])
  IN
  /\ ipc[k] = "modify"
  /\ iqp' = [iqp EXCEPT ![k][q] = qp]
  /\ IF qp.state = "RTS"
     THEN /\ qp_num' = [qp_num EXCEPT ![k] = q + 1]
          /\ ipc' = [ipc EXCEPT ![k] = IF q + 1 = NumControllers THEN "mesh" ELSE "read"]
     ELSE UNCHANGED <<qp_num, ipc>>
  /\ UNCHANGED <<ikeys, accepted, contVars, netVars, crashes>>

InvModifyFails(k) ==
  /\ ipc[k] = "modify"
  /\ iqp[k][qp_num[k]].state = "INIT" /\ ikeys[k][qp_num[k]] = Garbage
  /\ ipc' = [ipc EXCEPT ![k] = "exit"]
  /\ UNCHANGED <<qp_num, ikeys, iqp, accepted, contVars, netVars, crashes>>

-----------------------------------------------------------------------------
\* A process ends: killed, or stopped by error() in a call that fails.
ContCrash(c) ==
  /\ crashes < MaxCrash /\ cpc[c] # "exit"
  /\ crashes' = crashes + 1
  /\ cpc' = [cpc EXCEPT ![c] = "exit"]
  /\ UNCHANGED <<ci, ckeys, cqp, invVars, netVars>>

InvCrash(k) ==
  /\ crashes < MaxCrash /\ ipc[k] # "exit"
  /\ crashes' = crashes + 1
  /\ ipc' = [ipc EXCEPT ![k] = "exit"]
  /\ UNCHANGED <<qp_num, ikeys, iqp, accepted, contVars, netVars>>

Controller(c) == Connect(c) \/ ContWrite(c) \/ ContRead(c) \/ ContModify(c) \/ ContModifyFails(c)
Invoker(k) == Listen(k) \/ Accept(k) \/ InvRead(k) \/ InvWrite(k) \/ InvModify(k) \/ InvModifyFails(k)

Next ==
  \/ \E c \in Controllers : Controller(c) \/ ContCrash(c)
  \/ \E k \in Invokers : Invoker(k) \/ InvCrash(k)

Spec == Init /\ [][Next]_vars

\* Every process that has not ended runs; none has to end.
FairSpec == /\ Spec
            /\ \A c \in Controllers : WF_vars(Controller(c))
            /\ \A k \in Invokers : WF_vars(Invoker(k))

-----------------------------------------------------------------------------
\* Properties.

ContInfo == [from : Controllers, qp : Invokers]
InvInfo == [from : Invokers, qp : Controllers]
Qp(Info) == [state : {"RESET", "INIT", "RTR", "RTS"}, dest : Info \cup {None, Garbage}]

\* Types; a process at work in one of the loops has an index the loop allows.
TypeOK ==
  /\ cpc \in [Controllers -> {"connect", "write", "read", "modify", "run", "exit"}]
  /\ ci \in [Controllers -> 0 .. NumInvokers]
  /\ ckeys \in [Controllers -> [Invokers -> InvInfo \cup {None, Garbage}]]
  /\ cqp \in [Controllers -> [Invokers -> Qp(InvInfo)]]
  /\ ipc \in [Invokers -> {"bind", "accept", "read", "write", "modify", "mesh", "exit"}]
  /\ qp_num \in [Invokers -> 0 .. NumControllers]
  /\ ikeys \in [Invokers -> [Controllers -> ContInfo \cup {None, Garbage}]]
  /\ iqp \in [Invokers -> [Controllers -> Qp(ContInfo)]]
  /\ accepted \in [Invokers -> Controllers \cup {None}]
  /\ backlog \in [Invokers -> Seq(Controllers)]
  /\ toInv \in [Controllers -> [Invokers -> Seq(ContInfo)]]
  /\ toCont \in [Controllers -> [Invokers -> Seq(InvInfo)]]
  /\ closed \in [Controllers -> [Invokers -> BOOLEAN]]
  /\ crashes \in 0 .. MaxCrash
  /\ \A c \in Controllers : cpc[c] \notin {"run", "exit"} => ci[c] \in Invokers
  /\ \A k \in Invokers : ipc[k] \notin {"mesh", "exit"} => qp_num[k] \in Controllers

Connected == {"RTR", "RTS"}

\* A controller that can send to invoker k sends to a queue pair of invoker k,
\* with that invoker's keys, and the invoker holds the controller's by then; the
\* one exception is an invoker that ended in between, whose end the controller
\* does not notice (controller.cpp:183-207).
Paired ==
  \A c \in Controllers, k \in Invokers :
    cqp[c][k].state \in Connected =>
      /\ cqp[c][k].dest = ckeys[c][k]
      /\ \/ /\ ckeys[c][k] \in InvInfo
            /\ ckeys[c][k].from = k
            /\ ikeys[k][ckeys[c][k].qp] = [from |-> c, qp |-> k]
         \/ ckeys[c][k] = Garbage /\ ipc[k] = "exit"

\* An invoker that goes on to the mesh holds, for QP[0], the information of the
\* controller it accepted, unless that one has ended; and what one read brought stands at
\* one queue pair only (invoker.cpp:248-256).
AcceptedKnown ==
  \A k \in Invokers : ipc[k] = "mesh" =>
    /\ \/ ikeys[k][0] = [from |-> accepted[k], qp |-> k]
       \/ cpc[accepted[k]] = "exit"
    /\ \A p, q \in Controllers : p # q /\ ikeys[k][p] = ikeys[k][q] => ikeys[k][p] = Garbage

\* "exchange QP info with controllers" (invoker.cpp:248): an invoker that goes on to the
\* mesh holds the information of every controller that has not ended.
EveryControllerKnown ==
  \A k \in Invokers : ipc[k] = "mesh" =>
    \A c \in Controllers :
      \/ \E q \in Controllers : ikeys[k][q] = [from |-> c, qp |-> k]
      \/ cpc[c] = "exit"

\* Controller c waits for the answer of an invoker that has accepted another
\* controller's connection, and no more.
TurnedAway(c) == cpc[c] = "read" /\ accepted[ci[c]] \notin {c, None}

\* The next call of controller c, or of invoker k, is there and does not wait.
ContCanGo(c) ==
  \/ cpc[c] \in {"connect", "write"}
  \/ cpc[c] = "read" /\ Readable(toCont[c][ci[c]], InvGone(ci[c]))
  \/ cpc[c] = "modify" /\ cqp[c][ci[c]].state # "RTS"

InvCanGo(k) ==
  \/ ipc[k] \in {"bind", "write"}
  \/ ipc[k] = "accept" /\ backlog[k] # << >>
  \/ ipc[k] = "read" /\ Readable(toInv[accepted[k]][k], ContGone(accepted[k], k))
  \/ ipc[k] = "modify" /\ iqp[k][qp_num[k]].state # "RTS"

\* Nobody waits for somebody who waits: a controller that has to wait does so for the
\* invoker it visits, and that one can go on; an invoker that waits in read does so for
\* the controller it accepted, and that one can go on; and whoever waits in accept has
\* been passed by no controller (controller.cpp:183-207, invoker.cpp:223-256).
NobodyHangs ==
  /\ \A c \in Controllers :
       \/ cpc[c] \in {"run", "exit"} \/ TurnedAway(c)
       \/ ContCanGo(c) \/ InvCanGo(ci[c])
  /\ \A k \in Invokers :
       \/ ipc[k] \in {"mesh", "exit"} \/ InvCanGo(k)
       \/ ipc[k] = "read" /\ ContCanGo(accepted[k])
       \/ ipc[k] = "accept" /\ \A c \in Controllers : cpc[c] # "run"

\* It comes to an end: no controller is left hanging by an invoker that took its
\* connection, whichever process ends and whenever it starts; and no invoker waits for
\* ever, unless in accept, every controller having ended or been turned away.
EverybodySettles ==
  /\ \A c \in Controllers : <>(cpc[c] \in {"run", "exit"} \/ TurnedAway(c))
  /\ \A k \in Invokers :
       <>(\/ ipc[k] \in {"mesh", "exit"}
          \/ ipc[k] = "accept" /\ \A c \in Controllers : cpc[c] = "exit" \/ TurnedAway(c))
=============================================================================
