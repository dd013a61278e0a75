--------------------------- MODULE ExchangeProofs ---------------------------
(***************************************************************************)
(* The exchange with the controller for any number of controllers and      *)
(* invokers and any number of processes that end early.                    *)
(***************************************************************************)
EXTENDS ContExchange, SequenceTheorems, TLAPS

\* Queue pairs come up one at a time, in the order of the loops: those ahead are
\* still reset, and the one in hand has not come through.
QpsInTurn ==
  /\ \A c \in Controllers, k \in Invokers :
       /\ k > ci[c] \/ (k = ci[c] /\ cpc[c] \notin {"modify", "exit"})
            => cqp[c][k].state = "RESET"
       /\ cpc[c] = "modify" /\ k = ci[c] => cqp[c][k].state # "RTS"
  /\ \A k \in Invokers, q \in Controllers :
       /\ q > qp_num[k] \/ (q = qp_num[k] /\ ipc[k] \notin {"modify", "exit"})
            => iqp[k][q].state = "RESET"
       /\ ipc[k] = "modify" /\ q = qp_num[k] => iqp[k][q].state # "RTS"

\* An invoker at work on a connection has one.
HasConnection ==
  \A k \in Invokers : ipc[k] \in {"read", "write", "modify", "mesh"} => accepted[k] \in Controllers

TypeInv == TypeOK /\ QpsInTurn /\ HasConnection

-----------------------------------------------------------------------------
\* What controller c tells invoker k, and what an invoker answers in its first turn.
Mine(c, k) == [from |-> c, qp |-> k]
Answer(k) == [from |-> k, qp |-> 0]

\* Controller c has written to invoker k, or never will.
HasSent(c, k) ==
  \/ k < ci[c]
  \/ k = ci[c] /\ cpc[c] \in {"read", "modify"}
  \/ cpc[c] = "exit"

\* Invoker k has yet to answer for the first time, and may still do so.
NotYet(k) == qp_num[k] = 0 /\ ipc[k] \in {"bind", "accept", "read", "write"}

\* Invoker k has read for the first time, and goes on.
HasRead(k) == \/ ipc[k] \in {"write", "modify", "mesh"}
              \/ ipc[k] = "read" /\ qp_num[k] > 0

\* Controller c brings its queue pair for invoker k up, or has.
AtWork(c, k) == (cpc[c] = "modify" /\ ci[c] = k) \/ cqp[c][k].state # "RESET"

\* Controller c knows what Paired asks for.
Told(c, k) ==
  \/ ckeys[c][k] = Answer(k) /\ ikeys[k][0] = Mine(c, k)
  \/ ckeys[c][k] = Garbage /\ ipc[k] = "exit"

\* A controller writes once on each connection, and nobody answers twice on one:
\* later turns of the invoker find it closed.
OneEachWay ==
  \A c \in Controllers, k \in Invokers :
    /\ toInv[c][k] \in {<< >>, <<Mine(c, k)>>}
    /\ ~HasSent(c, k) => toInv[c][k] = << >>
    /\ toCont[c][k] \in {<< >>, <<Answer(k)>>}
    /\ toCont[c][k] # << >> => ikeys[k][0] = Mine(c, k)

\* The controller's side of a pair.
ControllerSide ==
  \A c \in Controllers, k \in Invokers :
    /\ closed[c][k] => cqp[c][k].state = "RTS" /\ k < ci[c]
    /\ cqp[c][k].state \in Connected => cqp[c][k].dest = ckeys[c][k]
    /\ AtWork(c, k) => Told(c, k)

\* The invoker's side: until it answers nothing can have happened at a controller;
\* from its first read on the one message of its controller is taken.
InvokerSide ==
  \A k \in Invokers :
    /\ NotYet(k) => \A c \in Controllers : toCont[c][k] = << >> /\ ~AtWork(c, k)
    /\ HasRead(k) => /\ toInv[accepted[k]][k] = << >>
                     /\ HasSent(accepted[k], k)
                     /\ \/ ikeys[k][0] = Mine(accepted[k], k)
                        \/ cpc[accepted[k]] = "exit"
    /\ ipc[k] \in {"bind", "accept"} => qp_num[k] = 0
    /\ ipc[k] = "mesh" => qp_num[k] = NumControllers
    /\ ipc[k] = "write" /\ qp_num[k] > 0 => ContGone(accepted[k], k)
    /\ \A q \in Controllers \ {0} :
         q < qp_num[k] \/ (q = qp_num[k] /\ ipc[k] \in {"write", "modify"})
           => ikeys[k][q] = Garbage

IInv == OneEachWay /\ ControllerSide /\ InvokerSide
-----------------------------------------------------------------------------
\* Types.

\* A channel with at most one message, as the exchange uses it.
LEMMA OneMessage ==
  ASSUME NEW S, NEW x \in S
  PROVE  /\ Append(<< >>, x) = <<x>>
         /\ Head(<<x>>) = x /\ Tail(<<x>>) = << >>
         /\ <<x>> # << >>
OBVIOUS

\* modify_qp takes a queue pair that has not come through one state further.
LEMMA ModifyFacts ==
  ASSUME NEW S, NEW qp \in Qp(S), NEW remote \in S \cup {None, Garbage}, qp.state # "RTS"
  PROVE  /\ modify_qp(qp, remote) \in Qp(S)
         /\ modify_qp(qp, remote).state # "RESET"
         /\ modify_qp(qp, remote).state \in Connected =>
              \/ modify_qp(qp, remote).dest = remote
              \/ qp.state \in Connected /\ modify_qp(qp, remote).dest = qp.dest
<1>1. CASE qp.state = "RESET"
  BY <1>1 DEF modify_qp, Qp, Connected
<1>2. CASE qp.state = "INIT"
  BY <1>2 DEF modify_qp, Qp, Connected
<1>3. CASE qp.state = "RTR"
  BY <1>3 DEF modify_qp, Qp, Connected
<1> QED BY <1>1, <1>2, <1>3 DEF Qp

\* A read takes its type from the channel.
LEMMA ReceivedFacts ==
  ASSUME NEW S, NEW chan \in Seq(S)
  PROVE  Received(chan) \in S \cup {Garbage} /\ Rest(chan) \in Seq(S)
BY HeadTailProperties DEF Received, Rest
\* The states the loops go through, with the numbers they are at.
LEMMA Numbers ==
  /\ 0 \in Controllers /\ 0 \in Invokers
  /\ NumControllers \in Nat \ {0} /\ NumInvokers \in Nat \ {0}
  /\ \A c \in 0 .. NumControllers :
       c \in Controllers => c + 1 \in 0 .. NumControllers
                            /\ (c + 1 # NumControllers => c + 1 \in Controllers)
  /\ \A k \in 0 .. NumInvokers :
       k \in Invokers => k + 1 \in 0 .. NumInvokers
                         /\ (k + 1 # NumInvokers => k + 1 \in Invokers)
BY ExchangeAssumption, SMT DEF Controllers, Invokers

\* Changing one place of a table keeps the table's type.
LEMMA RowType ==
  ASSUME NEW A, NEW S, NEW f \in [A -> S], NEW a \in A, NEW v \in S
  PROVE  [f EXCEPT ![a] = v] \in [A -> S]
OBVIOUS

\* The same for one entry of a table of rows.
LEMMA TableType ==
  ASSUME NEW A, NEW B, NEW S, NEW f \in [A -> [B -> S]],
         NEW a \in A, NEW b \in B, NEW v \in S
  PROVE  [f EXCEPT ![a][b] = v] \in [A -> [B -> S]]
OBVIOUS

\* The types hold when the processes start.
LEMMA TypesInit == Init => TypeInv
<1> SUFFICES ASSUME Init PROVE TypeInv
  OBVIOUS
<1>1. TypeOK
  <2>1. 0 \in 0 .. NumInvokers /\ 0 \in 0 .. NumControllers /\ 0 \in 0 .. MaxCrash
    BY ExchangeAssumption, SMT
  <2>2. ResetQp \in Qp(InvInfo) /\ ResetQp \in Qp(ContInfo)
    BY DEF ResetQp, Qp
  <2> QED BY <2>1, <2>2, Numbers DEF Init, TypeOK
<1>2. QpsInTurn /\ HasConnection
  BY DEF Init, QpsInTurn, HasConnection, ResetQp
<1> QED BY <1>1, <1>2 DEF TypeInv

\* connect keeps them: the cursor stays, the backlog grows by a controller.
LEMMA TypesConnect ==
  ASSUME TypeInv, NEW c \in Controllers, Connect(c)
  PROVE  TypeInv'
<1>1. ci[c] \in Invokers
  BY DEF TypeInv, TypeOK, Connect
<1>2. TypeOK'
  <2>1. PICK there \in {"write", "exit"} : cpc' = [cpc EXCEPT ![c] = there]
    BY DEF Connect
  <2>2. /\ cpc' \in [Controllers -> {"connect", "write", "read", "modify", "run", "exit"}]
        /\ \A c1 \in Controllers : cpc'[c1] \notin {"run", "exit"} => ci[c1] \in Invokers
    BY <2>1, <1>1 DEF TypeInv, TypeOK
  <2>3. backlog' \in [Invokers -> Seq(Controllers)]
    <3>1. \/ backlog' = [backlog EXCEPT ![ci[c]] = Append(@, c)]
          \/ backlog' = backlog
      BY DEF Connect
    <3>2. backlog \in [Invokers -> Seq(Controllers)]
      BY DEF TypeInv, TypeOK
    <3>3. Append(backlog[ci[c]], c) \in Seq(Controllers)
      BY <3>2, <1>1, AppendProperties
    <3> QED BY <3>1, <3>2, <3>3, <1>1, RowType
  <2> QED BY <2>2, <2>3 DEF TypeInv, TypeOK, Connect, invVars
<1>3. QpsInTurn' /\ HasConnection'
  BY SMTT(30) DEF TypeInv, TypeOK, QpsInTurn, HasConnection, Connect, invVars
<1> QED BY <1>2, <1>3 DEF TypeInv

\* The controller's write keeps them: a structure of its own goes out.
LEMMA TypesContWrite ==
  ASSUME TypeInv, NEW c \in Controllers, ContWrite(c)
  PROVE  TypeInv'
<1>1. ci[c] \in Invokers /\ [from |-> c, qp |-> ci[c]] \in ContInfo
  BY DEF TypeInv, TypeOK, ContWrite, ContInfo
<1>2. TypeOK'
  BY <1>1 DEF TypeInv, TypeOK, ContWrite, invVars
<1>3. QpsInTurn' /\ HasConnection'
  BY DEF TypeInv, TypeOK, QpsInTurn, HasConnection, ContWrite, invVars
<1> QED BY <1>2, <1>3 DEF TypeInv

\* The controller's read keeps them, also when an end-of-file is taken for data.
LEMMA TypesContRead ==
  ASSUME TypeInv, NEW c \in Controllers, ContRead(c)
  PROVE  TypeInv'
<1>1. ci[c] \in Invokers /\ toCont[c][ci[c]] \in Seq(InvInfo)
  <2>1. cpc[c] = "read"
    BY DEF ContRead
  <2>2. /\ cpc[c] \notin {"run", "exit"} => ci[c] \in Invokers
        /\ toCont \in [Controllers -> [Invokers -> Seq(InvInfo)]]
    BY DEF TypeInv, TypeOK
  <2> QED BY <2>1, <2>2
<1>2. Received(toCont[c][ci[c]]) \in InvInfo \cup {None, Garbage}
      /\ Rest(toCont[c][ci[c]]) \in Seq(InvInfo)
  BY <1>1, ReceivedFacts
<1>3. TypeOK'
  BY <1>1, <1>2 DEF TypeInv, TypeOK, ContRead, invVars
<1>4. QpsInTurn' /\ HasConnection'
  BY <1>1, SMTT(30) DEF TypeInv, TypeOK, QpsInTurn, HasConnection, ContRead, invVars
<1> QED BY <1>3, <1>4 DEF TypeInv

\* The controller's ibv_modify_qp keeps them: queue pairs come up in turn.
LEMMA TypesContModify ==
  ASSUME TypeInv, NEW c \in Controllers, ContModify(c)
  PROVE  TypeInv'
<1> DEFINE k  == ci[c]
           qp == modify_qp(cqp[c][k], ckeys[c][k])
<1>1. /\ k \in Invokers /\ k \in 0 .. NumInvokers
      /\ cqp[c][k] \in Qp(InvInfo) /\ cqp[c][k].state # "RTS"
      /\ ckeys[c][k] \in InvInfo \cup {None, Garbage}
  BY DEF TypeInv, TypeOK, QpsInTurn, ContModify
<1>2. qp \in Qp(InvInfo) /\ qp.state # "RESET"
  BY <1>1, ModifyFacts
<1>3. /\ cpc[c] = "modify"
      /\ cqp' = [cqp EXCEPT ![c][k] = qp]
      /\ \/ /\ qp.state = "RTS"
            /\ closed' = [closed EXCEPT ![c][k] = TRUE]
            /\ ci' = [ci EXCEPT ![c] = k + 1]
            /\ cpc' = [cpc EXCEPT ![c] = IF k + 1 = NumInvokers THEN "run" ELSE "connect"]
         \/ qp.state # "RTS" /\ UNCHANGED <<closed, ci, cpc>>
      /\ UNCHANGED <<ckeys, ipc, qp_num, ikeys, iqp, accepted, backlog, toInv, toCont, crashes>>
  BY DEF ContModify, invVars
<1>4. k + 1 \in 0 .. NumInvokers /\ (k + 1 # NumInvokers => k + 1 \in Invokers)
  BY <1>1, Numbers
<1> HIDE DEF k, qp
<1>5. TypeOK'
  <2>0. PICK next \in {"run", "connect"} :
          cpc' = cpc \/ cpc' = [cpc EXCEPT ![c] = next]
    BY <1>3
  <2>1. ci' \in [Controllers -> 0 .. NumInvokers]
    <3>1. ci' = ci \/ ci' = [ci EXCEPT ![c] = k + 1]
      BY <1>3
    <3> QED BY <3>1, <1>4, RowType DEF TypeInv, TypeOK
  <2>5. cpc' \in [Controllers -> {"connect", "write", "read", "modify", "run", "exit"}]
    BY <2>0, RowType DEF TypeInv, TypeOK
  <2>2. cqp' \in [Controllers -> [Invokers -> Qp(InvInfo)]]
    BY <1>1, <1>2, <1>3 DEF TypeInv, TypeOK
  <2>3. closed' \in [Controllers -> [Invokers -> BOOLEAN]]
    <3>1. closed' = closed \/ closed' = [closed EXCEPT ![c][k] = TRUE]
      BY <1>3
    <3>2. closed \in [Controllers -> [Invokers -> BOOLEAN]] /\ TRUE \in BOOLEAN
      BY DEF TypeInv, TypeOK
    <3>3. [closed EXCEPT ![c][k] = TRUE] \in [Controllers -> [Invokers -> BOOLEAN]]
      BY <3>2, <1>1, TableType, Zenon
    <3> QED BY <3>1, <3>2, <3>3
  <2>4. \A c1 \in Controllers : cpc'[c1] \notin {"run", "exit"} => ci'[c1] \in Invokers
    BY <1>3, <1>4 DEF TypeInv, TypeOK
  <2> QED BY <1>3, <2>1, <2>2, <2>3, <2>4, <2>5 DEF TypeInv, TypeOK
<1>6. HasConnection'
  BY <1>3 DEF TypeInv, HasConnection
<1>7. QpsInTurn'
  <2>1. \A c1 \in Controllers, k1 \in Invokers :
          cqp'[c1][k1] = IF c1 = c /\ k1 = k THEN qp ELSE cqp[c1][k1]
    BY <1>3 DEF TypeInv, TypeOK
  <2>2. ASSUME NEW c1 \in Controllers, NEW k1 \in Invokers
        PROVE  /\ k1 > ci'[c1] \/ (k1 = ci'[c1] /\ cpc'[c1] \notin {"modify", "exit"})
                    => cqp'[c1][k1].state = "RESET"
               /\ cpc'[c1] = "modify" /\ k1 = ci'[c1] => cqp'[c1][k1].state # "RTS"
    <3>1. CASE c1 # c
      BY <3>1, <2>1, <1>3 DEF TypeInv, TypeOK, QpsInTurn
    <3>2. CASE c1 = c /\ qp.state # "RTS"
      <4>1. ci' = ci /\ cpc' = cpc /\ cqp'[c][k] = qp
        BY <3>2, <1>3, <2>1, <1>1
      <4>2. CASE k1 = k
        BY <4>1, <4>2, <3>2, <1>3, <1>1, SMT DEF k, Invokers
      <4>3. CASE k1 # k
        BY <4>1, <4>3, <3>2, <1>3, <2>1 DEF TypeInv, QpsInTurn, k
      <4> QED BY <4>2, <4>3
    <3>3. CASE c1 = c /\ qp.state = "RTS"
      <4>1. ci'[c] = k + 1 /\ cpc'[c] # "modify"
        BY <3>3, <1>3 DEF TypeInv, TypeOK
      <4>2. k1 > ci'[c] \/ k1 = ci'[c] => k1 > k /\ k1 # k
        BY <4>1, <1>1, SMT DEF Invokers
      <4> QED BY <3>3, <4>1, <4>2, <2>1 DEF TypeInv, QpsInTurn, k
    <3> QED BY <3>1, <3>2, <3>3
  <2>3. \A k1 \in Invokers, q \in Controllers :
          /\ q > qp_num'[k1] \/ (q = qp_num'[k1] /\ ipc'[k1] \notin {"modify", "exit"})
               => iqp'[k1][q].state = "RESET"
          /\ ipc'[k1] = "modify" /\ q = qp_num'[k1] => iqp'[k1][q].state # "RTS"
    BY <1>3 DEF TypeInv, QpsInTurn
  <2> QED BY <2>2, <2>3 DEF QpsInTurn
<1> QED BY <1>5, <1>6, <1>7 DEF TypeInv

\* The invoker's read keeps them: it has a connection, and stores at its own index.
LEMMA TypesInvRead ==
  ASSUME TypeInv, NEW k \in Invokers, InvRead(k)
  PROVE  TypeInv'
<1> DEFINE c == accepted[k]
<1>0. c \in Controllers /\ qp_num[k] \in Controllers
  BY DEF TypeInv, TypeOK, HasConnection, InvRead
<1>1. toInv[c][k] \in Seq(ContInfo)
  BY <1>0 DEF TypeInv, TypeOK
<1>2. Received(toInv[c][k]) \in ContInfo \cup {None, Garbage}
      /\ Rest(toInv[c][k]) \in Seq(ContInfo)
  BY <1>1, ReceivedFacts
<1>3. TypeOK'
  <2>1. /\ ikeys' \in [Invokers -> [Controllers -> ContInfo \cup {None, Garbage}]]
        /\ toInv' \in [Controllers -> [Invokers -> Seq(ContInfo)]]
        /\ ipc' \in [Invokers -> {"bind", "accept", "read", "write", "modify", "mesh", "exit"}]
        /\ \A k1 \in Invokers : ipc'[k1] \notin {"mesh", "exit"} => qp_num[k1] \in Controllers
    BY <1>0, <1>2 DEF TypeInv, TypeOK, InvRead
  <2> QED BY <2>1 DEF TypeInv, TypeOK, InvRead, contVars
<1>4. QpsInTurn' /\ HasConnection'
  BY <1>0, SMTT(30) DEF TypeInv, TypeOK, QpsInTurn, HasConnection, InvRead, contVars
<1> QED BY <1>3, <1>4 DEF TypeInv

\* The invoker's write keeps them.
LEMMA TypesInvWrite ==
  ASSUME TypeInv, NEW k \in Invokers, InvWrite(k)
  PROVE  TypeInv'
<1> DEFINE c == accepted[k]
<1>1. /\ c \in Controllers /\ qp_num[k] \in Controllers
      /\ [from |-> k, qp |-> qp_num[k]] \in InvInfo
  BY DEF TypeInv, TypeOK, HasConnection, InvWrite, InvInfo
<1>2. toCont' \in [Controllers -> [Invokers -> Seq(InvInfo)]]
  BY <1>1 DEF TypeInv, TypeOK, InvWrite
<1>3. TypeOK'
  BY <1>1, <1>2 DEF TypeInv, TypeOK, InvWrite, contVars
<1>4. QpsInTurn' /\ HasConnection'
  BY <1>1, SMTT(30) DEF TypeInv, TypeOK, QpsInTurn, HasConnection, InvWrite, contVars
<1> QED BY <1>3, <1>4 DEF TypeInv

\* The invoker's ibv_modify_qp keeps them: queue pairs come up in turn.
LEMMA TypesInvModify ==
  ASSUME TypeInv, NEW k \in Invokers, InvModify(k)
  PROVE  TypeInv'
<1> DEFINE q  == qp_num[k]
           qp == modify_qp(iqp[k][q], ikeys[k][q])
<1>1. /\ q \in Controllers /\ q \in 0 .. NumControllers
      /\ iqp[k][q] \in Qp(ContInfo) /\ iqp[k][q].state # "RTS"
      /\ ikeys[k][q] \in ContInfo \cup {None, Garbage}
  BY DEF TypeInv, TypeOK, QpsInTurn, InvModify
<1>2. qp \in Qp(ContInfo) /\ qp.state # "RESET"
  BY <1>1, ModifyFacts
<1>3. /\ ipc[k] = "modify"
      /\ iqp' = [iqp EXCEPT ![k][q] = qp]
      /\ \/ /\ qp.state = "RTS"
            /\ qp_num' = [qp_num EXCEPT ![k] = q + 1]
            /\ ipc' = [ipc EXCEPT ![k] = IF q + 1 = NumControllers THEN "mesh" ELSE "read"]
         \/ qp.state # "RTS" /\ UNCHANGED <<qp_num, ipc>>
      /\ UNCHANGED <<ikeys, accepted, cpc, ci, ckeys, cqp, netVars, crashes>>
  BY DEF InvModify, contVars
<1>4. q + 1 \in 0 .. NumControllers /\ (q + 1 # NumControllers => q + 1 \in Controllers)
  BY <1>1, Numbers
<1> HIDE DEF q, qp
<1>5. TypeOK'
  <2>0. PICK next \in {"mesh", "read"} : ipc' = ipc \/ ipc' = [ipc EXCEPT ![k] = next]
    BY <1>3
  <2>1. qp_num' \in [Invokers -> 0 .. NumControllers]
    <3>1. qp_num' = qp_num \/ qp_num' = [qp_num EXCEPT ![k] = q + 1]
      BY <1>3
    <3>2. qp_num \in [Invokers -> 0 .. NumControllers]
      BY DEF TypeInv, TypeOK
    <3> QED BY <3>1, <3>2, <1>4, RowType
  <2>4. ipc' \in [Invokers -> {"bind", "accept", "read", "write", "modify", "mesh", "exit"}]
    BY <2>0, RowType DEF TypeInv, TypeOK
  <2>2. iqp' \in [Invokers -> [Controllers -> Qp(ContInfo)]]
    BY <1>1, <1>2, <1>3 DEF TypeInv, TypeOK
  <2>3. \A k1 \in Invokers : ipc'[k1] \notin {"mesh", "exit"} => qp_num'[k1] \in Controllers
    BY <1>3, <1>4 DEF TypeInv, TypeOK
  <2> QED BY <1>3, <2>1, <2>2, <2>3, <2>4 DEF TypeInv, TypeOK, netVars
<1>6. HasConnection'
  BY <1>3 DEF TypeInv, TypeOK, HasConnection
<1>7. QpsInTurn'
  <2>1. \A k1 \in Invokers, q1 \in Controllers :
          iqp'[k1][q1] = IF k1 = k /\ q1 = q THEN qp ELSE iqp[k1][q1]
    BY <1>3 DEF TypeInv, TypeOK
  <2>2. ASSUME NEW k1 \in Invokers, NEW q1 \in Controllers
        PROVE  /\ q1 > qp_num'[k1] \/ (q1 = qp_num'[k1] /\ ipc'[k1] \notin {"modify", "exit"})
                    => iqp'[k1][q1].state = "RESET"
               /\ ipc'[k1] = "modify" /\ q1 = qp_num'[k1] => iqp'[k1][q1].state # "RTS"
    <3>1. CASE k1 # k
      BY <3>1, <2>1, <1>3 DEF TypeInv, TypeOK, QpsInTurn
    <3>2. CASE k1 = k /\ qp.state # "RTS"
      <4>1. qp_num' = qp_num /\ ipc' = ipc /\ iqp'[k][q] = qp
        BY <3>2, <1>3, <2>1, <1>1
      <4>2. CASE q1 = q
        BY <4>1, <4>2, <3>2, <1>3, <1>1, SMT DEF q, Controllers
      <4>3. CASE q1 # q
        BY <4>1, <4>3, <3>2, <1>3, <2>1 DEF TypeInv, QpsInTurn, q
      <4> QED BY <4>2, <4>3
    <3>3. CASE k1 = k /\ qp.state = "RTS"
      <4>1. qp_num'[k] = q + 1 /\ ipc'[k] # "modify"
        BY <3>3, <1>3 DEF TypeInv, TypeOK
      <4>2. q1 > qp_num'[k] \/ q1 = qp_num'[k] => q1 > q /\ q1 # q
        BY <4>1, <1>1, SMT DEF Controllers
      <4> QED BY <3>3, <4>1, <4>2, <2>1 DEF TypeInv, QpsInTurn, q
    <3> QED BY <3>1, <3>2, <3>3
  <2>3. \A c1 \in Controllers, k1 \in Invokers :
          /\ k1 > ci'[c1] \/ (k1 = ci'[c1] /\ cpc'[c1] \notin {"modify", "exit"})
               => cqp'[c1][k1].state = "RESET"
          /\ cpc'[c1] = "modify" /\ k1 = ci'[c1] => cqp'[c1][k1].state # "RTS"
    BY <1>3 DEF TypeInv, QpsInTurn
  <2> QED BY <2>2, <2>3 DEF QpsInTurn
<1> QED BY <1>5, <1>6, <1>7 DEF TypeInv

\* Listening, accepting and ending.
LEMMA TypesInvOther ==
  ASSUME TypeInv, NEW k \in Invokers,
         Listen(k) \/ Accept(k) \/ InvModifyFails(k) \/ InvCrash(k)
  PROVE  TypeInv'
<1>1. CASE Listen(k)
  BY <1>1 DEF TypeInv, TypeOK, QpsInTurn, HasConnection, Listen, contVars, netVars
<1>2. CASE Accept(k)
  <2>1. Head(backlog[k]) \in Controllers /\ Tail(backlog[k]) \in Seq(Controllers)
    BY <1>2, HeadTailProperties DEF Accept, TypeInv, TypeOK
  <2>2. TypeOK'
    BY <1>2, <2>1 DEF TypeInv, TypeOK, Accept, contVars
  <2>3. QpsInTurn' /\ HasConnection'
    BY <1>2, <2>1, SMTT(30) DEF TypeInv, TypeOK, QpsInTurn, HasConnection, Accept, contVars
  <2> QED BY <2>2, <2>3 DEF TypeInv
<1>3. CASE InvModifyFails(k)
  BY <1>3, SMTT(30) DEF TypeInv, TypeOK, QpsInTurn, HasConnection, InvModifyFails, contVars, netVars
<1>4. CASE InvCrash(k)
  <2>1. crashes' \in 0 .. MaxCrash
    BY <1>4, ExchangeAssumption, SMT DEF TypeInv, TypeOK, InvCrash
  <2> QED BY <1>4, <2>1, SMTT(30) DEF TypeInv, TypeOK, QpsInTurn, HasConnection, InvCrash, contVars, netVars
<1> QED BY <1>1, <1>2, <1>3, <1>4

\* A controller that fails or ends keeps them.
LEMMA TypesContOther ==
  ASSUME TypeInv, NEW c \in Controllers, ContModifyFails(c) \/ ContCrash(c)
  PROVE  TypeInv'
<1>1. CASE ContModifyFails(c)
  BY <1>1 DEF TypeInv, TypeOK, QpsInTurn, HasConnection, ContModifyFails, invVars, netVars
<1>2. CASE ContCrash(c)
  <2>1. crashes' \in 0 .. MaxCrash
    BY <1>2, ExchangeAssumption, SMT DEF TypeInv, TypeOK, ContCrash
  <2> QED BY <1>2, <2>1 DEF TypeInv, TypeOK, QpsInTurn, HasConnection, ContCrash, invVars, netVars
<1> QED BY <1>1, <1>2

\* The types hold together with the order of the loops.
LEMMA TypeCorrect == Spec => []TypeInv
<1>1. TypeInv /\ [Next]_vars => TypeInv'
  <2> SUFFICES ASSUME TypeInv, [Next]_vars PROVE TypeInv'
    OBVIOUS
  <2>1. CASE UNCHANGED vars
    BY <2>1 DEF vars, contVars, invVars, netVars, TypeInv, TypeOK, QpsInTurn, HasConnection
  <2>2. CASE Next
    BY <2>2, TypesConnect, TypesContWrite, TypesContRead, TypesContModify, TypesContOther,
       TypesInvRead, TypesInvWrite, TypesInvModify, TypesInvOther
       DEF Next, Controller, Invoker
  <2> QED BY <2>1, <2>2
<1> QED BY <1>1, TypesInit, PTL DEF Spec

\* Every index the loops use is one of the tables', for any number of processes.
THEOREM TypesHold == Spec => []TypeOK
BY TypeCorrect, PTL DEF TypeInv

-----------------------------------------------------------------------------
\* Steps that touch no channel.

\* A controller connects, or ends.
LEMMA ControllerMovesOn ==
  ASSUME TypeInv, IInv, NEW c \in Controllers,
         UNCHANGED <<ci, ckeys, cqp, ipc, qp_num, ikeys, accepted, toInv, toCont, closed>>,
         \A c1 \in Controllers \ {c} : cpc'[c1] = cpc[c1],
         \/ cpc[c] = "connect" /\ cpc'[c] = "write"
         \/ cpc[c] # "exit" /\ cpc'[c] = "exit"
  PROVE  IInv'
<1>1. \A c1 \in Controllers, k1 \in Invokers :
        /\ HasSent(c1, k1) => HasSent(c1, k1)'
        /\ AtWork(c1, k1)' => AtWork(c1, k1)
        /\ Told(c1, k1)' <=> Told(c1, k1)
        /\ ContGone(c1, k1) => ContGone(c1, k1)'
        /\ cpc[c1] = "exit" => cpc'[c1] = "exit"
  BY DEF HasSent, AtWork, Told, ContGone
<1>2. \A k1 \in Invokers : NotYet(k1)' = NotYet(k1) /\ HasRead(k1)' = HasRead(k1)
  BY DEF NotYet, HasRead
<1>3. OneEachWay'
  <2> SUFFICES ASSUME NEW c1 \in Controllers, NEW k1 \in Invokers
               PROVE  /\ toInv'[c1][k1] \in {<< >>, <<Mine(c1, k1)>>}
                      /\ ~HasSent(c1, k1)' => toInv'[c1][k1] = << >>
                      /\ toCont'[c1][k1] \in {<< >>, <<Answer(k1)>>}
                      /\ toCont'[c1][k1] # << >> => ikeys'[k1][0] = Mine(c1, k1)
    BY Zenon DEF OneEachWay, Mine, Answer
  <2>1. /\ toInv[c1][k1] \in {<< >>, <<Mine(c1, k1)>>}
        /\ ~HasSent(c1, k1) => toInv[c1][k1] = << >>
        /\ toCont[c1][k1] \in {<< >>, <<Answer(k1)>>}
        /\ toCont[c1][k1] # << >> => ikeys[k1][0] = Mine(c1, k1)
    BY Zenon DEF IInv, OneEachWay
  <2>2. toInv' = toInv /\ toCont' = toCont /\ ikeys' = ikeys
    OBVIOUS
  <2>3. HasSent(c1, k1) => HasSent(c1, k1)'
    BY <1>1
  <2> QED BY <2>1, <2>2, <2>3, Zenon
<1>4. ControllerSide'
  BY <1>1 DEF IInv, ControllerSide
<1>5. InvokerSide'
  <2>1. \A k1 \in Invokers : HasRead(k1) => accepted[k1] \in Controllers
    BY DEF HasRead, TypeInv, HasConnection
  <2>2. \A k1 \in Invokers : ipc[k1] = "write" => accepted[k1] \in Controllers
    BY DEF TypeInv, HasConnection
  <2> QED BY <1>1, <1>2, <2>1, <2>2 DEF IInv, InvokerSide, Mine
<1> QED BY <1>3, <1>4, <1>5 DEF IInv

\* An invoker comes to its first read, finishes a turn, or ends.
LEMMA InvokerMovesOn ==
  ASSUME TypeInv, IInv, NEW k \in Invokers,
         UNCHANGED <<cpc, ci, ckeys, cqp, ikeys, toInv, toCont, closed>>,
         \A k1 \in Invokers \ {k} : /\ ipc'[k1] = ipc[k1] /\ qp_num'[k1] = qp_num[k1]
                                    /\ accepted'[k1] = accepted[k1],
         \/ /\ ipc[k] \in {"bind", "accept"} /\ ipc'[k] \in {"accept", "read"}
            /\ qp_num'[k] = qp_num[k]
         \/ /\ ipc[k] # "exit" /\ ipc'[k] = "exit"
            /\ qp_num'[k] = qp_num[k] /\ accepted'[k] = accepted[k]
         \/ /\ ipc[k] = "modify" /\ ipc'[k] \in {"mesh", "read"}
            /\ qp_num'[k] = qp_num[k] + 1 /\ accepted'[k] = accepted[k]
            /\ ipc'[k] = "mesh" => qp_num'[k] = NumControllers
         \/ /\ ipc[k] = "modify" /\ ipc'[k] = "modify"
            /\ qp_num'[k] = qp_num[k] /\ accepted'[k] = accepted[k]
  PROVE  IInv'
<1>1. \A c1 \in Controllers, k1 \in Invokers :
        /\ HasSent(c1, k1)' <=> HasSent(c1, k1)
        /\ AtWork(c1, k1)' <=> AtWork(c1, k1)
        /\ Told(c1, k1) => Told(c1, k1)'
        /\ ContGone(c1, k1)' <=> ContGone(c1, k1)
  BY DEF HasSent, AtWork, Told, ContGone, Answer, Mine
<1>t. qp_num[k] \in Nat
  BY ExchangeAssumption, SMT DEF TypeInv, TypeOK
<1>2. \A k1 \in Invokers : /\ NotYet(k1)' => NotYet(k1)
                           /\ HasRead(k1)' => HasRead(k1) /\ accepted'[k1] = accepted[k1]
  BY <1>t, SMT DEF NotYet, HasRead, IInv, InvokerSide
<1>3. OneEachWay'
  BY <1>1 DEF IInv, OneEachWay, Mine, Answer
<1>4. ControllerSide'
  BY <1>1 DEF IInv, ControllerSide
<1>5. InvokerSide'
  <2> SUFFICES ASSUME NEW k1 \in Invokers
               PROVE  /\ NotYet(k1)' => \A c1 \in Controllers :
                                          toCont'[c1][k1] = << >> /\ ~AtWork(c1, k1)'
                      /\ HasRead(k1)' =>
                           /\ toInv'[accepted'[k1]][k1] = << >>
                           /\ HasSent(accepted[k1], k1)' /\ accepted'[k1] = accepted[k1]
                           /\ \/ ikeys'[k1][0] = Mine(accepted'[k1], k1)
                              \/ cpc'[accepted'[k1]] = "exit"
                      /\ ipc'[k1] \in {"bind", "accept"} => qp_num'[k1] = 0
                      /\ ipc'[k1] = "mesh" => qp_num'[k1] = NumControllers
                      /\ ipc'[k1] = "write" /\ qp_num'[k1] > 0 => ContGone(accepted[k1], k1)'
                      /\ \A q \in Controllers \ {0} :
                           \/ q < qp_num'[k1]
                           \/ q = qp_num'[k1] /\ ipc'[k1] \in {"write", "modify"}
                           => ikeys'[k1][q] = Garbage
    BY DEF InvokerSide, HasSent, Mine
  <2>1. NotYet(k1)' => \A c1 \in Controllers : toCont'[c1][k1] = << >> /\ ~AtWork(c1, k1)'
    BY <1>1, <1>2 DEF IInv, InvokerSide
  <2>2. HasRead(k1)' => /\ toInv'[accepted'[k1]][k1] = << >>
                        /\ HasSent(accepted[k1], k1)' /\ accepted'[k1] = accepted[k1]
                        /\ \/ ikeys'[k1][0] = Mine(accepted'[k1], k1)
                           \/ cpc'[accepted'[k1]] = "exit"
    BY <1>1, <1>2 DEF IInv, InvokerSide, HasSent, HasRead, TypeInv, HasConnection
  <2>3. /\ ipc'[k1] \in {"bind", "accept"} => qp_num'[k1] = 0
        /\ ipc'[k1] = "mesh" => qp_num'[k1] = NumControllers
    BY DEF IInv, InvokerSide
  <2>4. ipc'[k1] = "write" /\ qp_num'[k1] > 0 => ContGone(accepted[k1], k1)'
    BY <1>1 DEF IInv, InvokerSide, ContGone
  <2>5. \A q \in Controllers \ {0} :
          \/ q < qp_num'[k1]
          \/ q = qp_num'[k1] /\ ipc'[k1] \in {"write", "modify"}
          => ikeys'[k1][q] = Garbage
    <3> SUFFICES ASSUME NEW q \in Controllers \ {0},
                        \/ q < qp_num'[k1]
                        \/ q = qp_num'[k1] /\ ipc'[k1] \in {"write", "modify"}
                 PROVE  ikeys[k1][q] = Garbage
      OBVIOUS
    <3>1. q < qp_num[k1] \/ (q = qp_num[k1] /\ ipc[k1] \in {"write", "modify"})
      <4>1. q \in Int
        BY SMT DEF Controllers
      <4> QED BY <1>t, <4>1, SMT
    <3> QED BY <3>1 DEF IInv, InvokerSide
  <2> QED BY <2>1, <2>2, <2>3, <2>4, <2>5
<1> QED BY <1>3, <1>4, <1>5 DEF IInv
-----------------------------------------------------------------------------
\* Steps that write or read.

\* A controller writes its one message to the invoker it visits.
LEMMA WritesOnce ==
  ASSUME TypeInv, IInv, NEW c \in Controllers, ContWrite(c)
  PROVE  IInv'
<1> DEFINE k == ci[c]
<1>1. /\ k \in Invokers /\ cpc[c] = "write"
      /\ cpc' = [cpc EXCEPT ![c] = "read"]
      /\ toInv' = [toInv EXCEPT ![c][k] = Append(@, Mine(c, k))]
      /\ UNCHANGED <<ci, ckeys, cqp, ipc, qp_num, ikeys, accepted, toCont, closed>>
  BY DEF ContWrite, TypeInv, TypeOK, invVars, Mine
<1> HIDE DEF k
<1>2. ~HasSent(c, k)
  BY <1>1, SMT DEF HasSent, k, Invokers
<1>3. \A c1 \in Controllers, k1 \in Invokers :
        toInv'[c1][k1] = IF c1 = c /\ k1 = k THEN <<Mine(c, k)>> ELSE toInv[c1][k1]
  <2>1. toInv[c][k] = << >>
    BY <1>1, <1>2 DEF IInv, OneEachWay
  <2>2. Append(<< >>, Mine(c, k)) = <<Mine(c, k)>>
    BY OneMessage
  <2> QED BY <1>1, <2>1, <2>2 DEF TypeInv, TypeOK
<1>4. \A c1 \in Controllers : cpc'[c1] = IF c1 = c THEN "read" ELSE cpc[c1]
  BY <1>1 DEF TypeInv, TypeOK
<1>5. \A c1 \in Controllers, k1 \in Invokers :
        /\ HasSent(c1, k1) => HasSent(c1, k1)'
        /\ c1 = c /\ k1 = k => HasSent(c1, k1)'
        /\ AtWork(c1, k1)' <=> AtWork(c1, k1)
        /\ Told(c1, k1)' <=> Told(c1, k1)
        /\ ContGone(c1, k1)' <=> ContGone(c1, k1)
        /\ cpc'[c1] = "exit" <=> cpc[c1] = "exit"
  BY <1>1, <1>4 DEF HasSent, AtWork, Told, ContGone, k
<1>6. \A k1 \in Invokers : NotYet(k1)' = NotYet(k1) /\ HasRead(k1)' = HasRead(k1)
  BY <1>1 DEF NotYet, HasRead
<1>7. OneEachWay'
  <2> SUFFICES ASSUME NEW c1 \in Controllers, NEW k1 \in Invokers
               PROVE  /\ toInv'[c1][k1] \in {<< >>, <<Mine(c1, k1)>>}
                      /\ ~HasSent(c1, k1)' => toInv'[c1][k1] = << >>
                      /\ toCont'[c1][k1] \in {<< >>, <<Answer(k1)>>}
                      /\ toCont'[c1][k1] # << >> => ikeys'[k1][0] = Mine(c1, k1)
    BY DEF OneEachWay, Mine, Answer
  <2>1. toInv[c1][k1] \in {<< >>, <<Mine(c1, k1)>>}
        /\ (~HasSent(c1, k1) => toInv[c1][k1] = << >>)
    BY DEF IInv, OneEachWay
  <2>2. toInv'[c1][k1] \in {<< >>, <<Mine(c1, k1)>>}
    BY <2>1, <1>3, Zenon
  <2>3. ~HasSent(c1, k1)' => toInv'[c1][k1] = << >>
    BY <2>1, <1>3, <1>5
  <2>4. /\ toCont[c1][k1] \in {<< >>, <<Answer(k1)>>}
        /\ toCont[c1][k1] # << >> => ikeys[k1][0] = Mine(c1, k1)
    BY DEF IInv, OneEachWay
  <2> QED BY <2>2, <2>3, <2>4, <1>1
<1>8. ControllerSide'
  BY <1>1, <1>5 DEF IInv, ControllerSide
<1>9. InvokerSide'
  <2>1. \A k1 \in Invokers : HasRead(k1) => /\ accepted[k1] \in Controllers
                                            /\ ~(accepted[k1] = c /\ k1 = k)
    BY <1>2 DEF HasRead, TypeInv, HasConnection, IInv, InvokerSide
  <2>2. \A k1 \in Invokers : ipc[k1] = "write" => accepted[k1] \in Controllers
    BY DEF TypeInv, HasConnection
  <2> QED BY <1>1, <1>3, <1>5, <1>6, <2>1, <2>2 DEF IInv, InvokerSide, Mine
<1> QED BY <1>7, <1>8, <1>9 DEF IInv

\* A controller reads: the answer, or, of an invoker that has ended, nothing.
LEMMA ReadsAnswer ==
  ASSUME TypeInv, IInv, NEW c \in Controllers, ContRead(c)
  PROVE  IInv'
<1> DEFINE k == ci[c]
<1>1. /\ k \in Invokers /\ cpc[c] = "read"
      /\ toCont[c][k] # << >> \/ ipc[k] = "exit"
      /\ cpc' = [cpc EXCEPT ![c] = "modify"]
      /\ ckeys' = [ckeys EXCEPT ![c][k] = Received(toCont[c][k])]
      /\ toCont' = [toCont EXCEPT ![c][k] = Rest(@)]
      /\ UNCHANGED <<ci, cqp, ipc, qp_num, ikeys, accepted, toInv, closed>>
  BY DEF ContRead, TypeInv, TypeOK, invVars, Readable, InvGone
<1> HIDE DEF k
<1>2. \/ toCont[c][k] = <<Answer(k)>> /\ ikeys[k][0] = Mine(c, k)
      \/ toCont[c][k] = << >> /\ ipc[k] = "exit"
  BY <1>1 DEF IInv, OneEachWay
<1>3. /\ Rest(toCont[c][k]) = << >>
      /\ \/ Received(toCont[c][k]) = Answer(k) /\ ikeys[k][0] = Mine(c, k)
         \/ Received(toCont[c][k]) = Garbage /\ ipc[k] = "exit"
  BY <1>2, OneMessage DEF Rest, Received
<1>4. \A c1 \in Controllers, k1 \in Invokers :
        /\ toCont'[c1][k1] = IF c1 = c /\ k1 = k THEN << >> ELSE toCont[c1][k1]
        /\ ckeys'[c1][k1] = IF c1 = c /\ k1 = k THEN Received(toCont[c][k]) ELSE ckeys[c1][k1]
  BY <1>1, <1>3 DEF TypeInv, TypeOK
<1>5. \A c1 \in Controllers : cpc'[c1] = IF c1 = c THEN "modify" ELSE cpc[c1]
  BY <1>1 DEF TypeInv, TypeOK
<1>6. ~NotYet(k)
  BY <1>2, <1>1 DEF NotYet, IInv, InvokerSide
<1>7. cqp[c][k].state = "RESET"
  BY <1>1 DEF TypeInv, QpsInTurn, k
<1>8. \A c1 \in Controllers, k1 \in Invokers :
        /\ HasSent(c1, k1)' <=> HasSent(c1, k1)
        /\ AtWork(c1, k1)' <=> AtWork(c1, k1) \/ (c1 = c /\ k1 = k)
        /\ ~(c1 = c /\ k1 = k) => (Told(c1, k1)' <=> Told(c1, k1))
        /\ c1 = c /\ k1 = k => Told(c1, k1)'
        /\ ContGone(c1, k1)' <=> ContGone(c1, k1)
        /\ cpc'[c1] = "exit" <=> cpc[c1] = "exit"
  <2> SUFFICES ASSUME NEW c1 \in Controllers, NEW k1 \in Invokers
               PROVE  /\ HasSent(c1, k1)' <=> HasSent(c1, k1)
                      /\ AtWork(c1, k1)' <=> AtWork(c1, k1) \/ (c1 = c /\ k1 = k)
                      /\ ~(c1 = c /\ k1 = k) => (Told(c1, k1)' <=> Told(c1, k1))
                      /\ c1 = c /\ k1 = k => Told(c1, k1)'
                      /\ ContGone(c1, k1)' <=> ContGone(c1, k1)
                      /\ cpc'[c1] = "exit" <=> cpc[c1] = "exit"
    OBVIOUS
  <2>1. ASSUME c1 = c, k1 = k PROVE Told(c1, k1)'
    <3>1. ckeys'[c1][k1] = Received(toCont[c][k])
      BY <2>1, <1>4
    <3> QED BY <2>1, <3>1, <1>1, <1>3 DEF Told, Answer, Mine
  <2> QED BY <2>1, <1>1, <1>4, <1>5 DEF HasSent, AtWork, Told, ContGone, Answer, Mine, k
<1>9. \A k1 \in Invokers : NotYet(k1)' = NotYet(k1) /\ HasRead(k1)' = HasRead(k1)
  BY <1>1 DEF NotYet, HasRead
<1>10. OneEachWay'
  <2> SUFFICES ASSUME NEW c1 \in Controllers, NEW k1 \in Invokers
               PROVE  /\ toInv'[c1][k1] \in {<< >>, <<Mine(c1, k1)>>}
                      /\ ~HasSent(c1, k1)' => toInv'[c1][k1] = << >>
                      /\ toCont'[c1][k1] \in {<< >>, <<Answer(k1)>>}
                      /\ toCont'[c1][k1] # << >> => ikeys'[k1][0] = Mine(c1, k1)
    BY DEF OneEachWay, Mine, Answer
  <2>1. CASE c1 = c /\ k1 = k
    BY <2>1, <1>1, <1>4, <1>8 DEF IInv, OneEachWay
  <2>2. CASE ~(c1 = c /\ k1 = k)
    BY <2>2, <1>1, <1>4, <1>8 DEF IInv, OneEachWay
  <2> QED BY <2>1, <2>2
<1>11. ControllerSide'
  <2> SUFFICES ASSUME NEW c1 \in Controllers, NEW k1 \in Invokers
               PROVE  /\ closed[c1][k1] => cqp[c1][k1].state = "RTS" /\ k1 < ci[c1]
                      /\ cqp[c1][k1].state \in Connected => cqp[c1][k1].dest = ckeys'[c1][k1]
                      /\ AtWork(c1, k1)' => Told(c1, k1)'
    BY <1>1 DEF ControllerSide
  <2>1. CASE c1 = c /\ k1 = k
    <3>1. ~closed[c][k]
      BY <1>1, <1>7 DEF IInv, ControllerSide
    <3>2. cqp[c][k].state \notin Connected
      BY <1>7 DEF Connected
    <3>3. Told(c1, k1)'
      BY <2>1, <1>1, <1>8
    <3> QED BY <2>1, <3>1, <3>2, <3>3
  <2>2. CASE ~(c1 = c /\ k1 = k)
    BY <2>2, <1>4, <1>8 DEF IInv, ControllerSide
  <2> QED BY <2>1, <2>2
<1>12. InvokerSide'
  <2>1. \A k1 \in Invokers : /\ HasRead(k1) => accepted[k1] \in Controllers
                             /\ ipc[k1] = "write" => accepted[k1] \in Controllers
    BY DEF HasRead, TypeInv, HasConnection
  <2> QED BY <1>1, <1>4, <1>6, <1>8, <1>9, <2>1 DEF IInv, InvokerSide, Mine
<1> QED BY <1>10, <1>11, <1>12 DEF IInv

\* A controller brings its queue pair up to what it read.
LEMMA ControllerModifies ==
  ASSUME TypeInv, IInv, NEW c \in Controllers, ContModify(c)
  PROVE  IInv'
<1> DEFINE k  == ci[c]
           qp == modify_qp(cqp[c][k], ckeys[c][k])
<1>1. /\ k \in Invokers /\ cqp[c][k] \in Qp(InvInfo) /\ cqp[c][k].state # "RTS"
      /\ ckeys[c][k] \in InvInfo \cup {None, Garbage}
  BY DEF TypeInv, TypeOK, QpsInTurn, ContModify
<1>2. /\ qp.state # "RESET"
      /\ qp.state \in Connected =>
           \/ qp.dest = ckeys[c][k]
           \/ cqp[c][k].state \in Connected /\ qp.dest = cqp[c][k].dest
  BY <1>1, ModifyFacts
<1>3. /\ cpc[c] = "modify"
      /\ cqp' = [cqp EXCEPT ![c][k] = qp]
      /\ \/ /\ qp.state = "RTS"
            /\ closed' = [closed EXCEPT ![c][k] = TRUE]
            /\ ci' = [ci EXCEPT ![c] = k + 1]
            /\ cpc' = [cpc EXCEPT ![c] = IF k + 1 = NumInvokers THEN "run" ELSE "connect"]
         \/ qp.state # "RTS" /\ UNCHANGED <<closed, ci, cpc>>
      /\ UNCHANGED <<ckeys, ipc, qp_num, ikeys, accepted, toInv, toCont>>
  BY DEF ContModify, invVars
<1>4. AtWork(c, k) /\ k \in Int
  BY <1>1, <1>3, SMT DEF AtWork, k, Invokers
<1>5. qp.state \in Connected => qp.dest = ckeys[c][k]
  BY <1>1, <1>2 DEF IInv, ControllerSide
<1>i. ci[c] = k
  OBVIOUS
<1> HIDE DEF k, qp
<1>6. \A c1 \in Controllers, k1 \in Invokers :
        cqp'[c1][k1] = IF c1 = c /\ k1 = k THEN qp ELSE cqp[c1][k1]
  BY <1>3 DEF TypeInv, TypeOK
<1>7. \A c1 \in Controllers :
        /\ c1 # c => cpc'[c1] = cpc[c1] /\ ci'[c1] = ci[c1]
        /\ cpc'[c1] = "exit" <=> cpc[c1] = "exit"
        /\ cpc'[c] # "modify" => ci'[c] = k + 1 /\ qp.state = "RTS"
        /\ cpc'[c] = "modify" => ci'[c] = k
  BY <1>3, <1>i DEF TypeInv, TypeOK
<1>8. \A c1 \in Controllers, k1 \in Invokers :
        \/ closed'[c1][k1] = closed[c1][k1]
        \/ c1 = c /\ k1 = k /\ closed'[c1][k1] /\ qp.state = "RTS" /\ ci'[c] = k + 1
  BY <1>1, <1>3, SMTT(30) DEF TypeInv, TypeOK
<1>9. \A k1 \in Invokers : k1 \in Int /\ (k1 <= k => k1 < k + 1)
  BY <1>4, SMT DEF Invokers
<1>10. \A c1 \in Controllers, k1 \in Invokers :
         /\ HasSent(c1, k1) => HasSent(c1, k1)'
         /\ AtWork(c1, k1)' => AtWork(c1, k1)
         /\ Told(c1, k1)' <=> Told(c1, k1)
  <2>1. \A c1 \in Controllers, k1 \in Invokers : HasSent(c1, k1) => HasSent(c1, k1)'
    <3> SUFFICES ASSUME NEW c1 \in Controllers, NEW k1 \in Invokers, HasSent(c1, k1)
                 PROVE  HasSent(c1, k1)'
      OBVIOUS
    <3>1. CASE c1 # c
      BY <3>1, <1>7 DEF HasSent
    <3>2. CASE c1 = c
      <4>1. k1 < k \/ k1 = k
        BY <3>2, <1>3, <1>i DEF HasSent
      <4> QED BY <3>2, <4>1, <1>4, <1>7, <1>9, SMT DEF HasSent
    <3> QED BY <3>1, <3>2
  <2>2. \A c1 \in Controllers, k1 \in Invokers : AtWork(c1, k1)' => AtWork(c1, k1)
    BY <1>4, <1>6, <1>7 DEF AtWork
  <2> QED BY <2>1, <2>2, <1>3 DEF Told, Answer, Mine
<1>11. \A c1 \in Controllers, k1 \in Invokers : ContGone(c1, k1) => ContGone(c1, k1)'
  BY <1>7, <1>8 DEF ContGone
<1>12. \A k1 \in Invokers : NotYet(k1)' = NotYet(k1) /\ HasRead(k1)' = HasRead(k1)
  BY <1>3 DEF NotYet, HasRead
<1>13. OneEachWay'
  <2> SUFFICES ASSUME NEW c1 \in Controllers, NEW k1 \in Invokers
               PROVE  /\ toInv'[c1][k1] \in {<< >>, <<Mine(c1, k1)>>}
                      /\ ~HasSent(c1, k1)' => toInv'[c1][k1] = << >>
                      /\ toCont'[c1][k1] \in {<< >>, <<Answer(k1)>>}
                      /\ toCont'[c1][k1] # << >> => ikeys'[k1][0] = Mine(c1, k1)
    BY Zenon DEF OneEachWay, Mine, Answer
  <2>1. /\ toInv[c1][k1] \in {<< >>, <<Mine(c1, k1)>>}
        /\ ~HasSent(c1, k1) => toInv[c1][k1] = << >>
        /\ toCont[c1][k1] \in {<< >>, <<Answer(k1)>>}
        /\ toCont[c1][k1] # << >> => ikeys[k1][0] = Mine(c1, k1)
    BY Zenon DEF IInv, OneEachWay
  <2>2. toInv' = toInv /\ toCont' = toCont /\ ikeys' = ikeys
    BY <1>3
  <2>3. HasSent(c1, k1) => HasSent(c1, k1)'
    BY <1>10
  <2> QED BY <2>1, <2>2, <2>3, Zenon
<1>14. ControllerSide'
  <2> SUFFICES ASSUME NEW c1 \in Controllers, NEW k1 \in Invokers
               PROVE  /\ closed'[c1][k1] => cqp'[c1][k1].state = "RTS" /\ k1 < ci'[c1]
                      /\ cqp'[c1][k1].state \in Connected => cqp'[c1][k1].dest = ckeys[c1][k1]
                      /\ AtWork(c1, k1)' => Told(c1, k1)'
    BY <1>3 DEF ControllerSide
  <2>1. ASSUME closed'[c1][k1] PROVE cqp'[c1][k1].state = "RTS" /\ k1 < ci'[c1]
    <3>1. CASE c1 = c /\ k1 = k
      <4>1. closed[c][k] => cqp[c][k].state = "RTS"
        BY <1>1 DEF IInv, ControllerSide
      <4>2. qp.state = "RTS" /\ ci'[c] = k + 1
        BY <2>1, <3>1, <4>1, <1>1, <1>8
      <4> QED BY <3>1, <4>2, <1>6, <1>9, <1>4
    <3>2. CASE ~(c1 = c /\ k1 = k)
      <4>1. closed[c1][k1] /\ cqp[c1][k1].state = "RTS" /\ k1 < ci[c1]
        BY <2>1, <3>2, <1>8 DEF IInv, ControllerSide
      <4>2. k1 < ci'[c1]
        <5>1. CASE c1 # c
          BY <5>1, <4>1, <1>7
        <5>2. CASE c1 = c
          BY <5>2, <4>1, <1>i, <1>7, <1>9, <1>4, SMT
        <5> QED BY <5>1, <5>2
      <4> QED BY <4>1, <4>2, <3>2, <1>6
    <3> QED BY <3>1, <3>2
  <2>2. cqp'[c1][k1].state \in Connected => cqp'[c1][k1].dest = ckeys[c1][k1]
    BY <1>5, <1>6 DEF IInv, ControllerSide
  <2>3. AtWork(c1, k1)' => Told(c1, k1)'
    BY <1>10 DEF IInv, ControllerSide
  <2> QED BY <2>1, <2>2, <2>3
<1>15. InvokerSide'
  <2>1. \A k1 \in Invokers : /\ HasRead(k1) => accepted[k1] \in Controllers
                             /\ ipc[k1] = "write" => accepted[k1] \in Controllers
    BY DEF HasRead, TypeInv, HasConnection
  <2> QED BY <1>3, <1>7, <1>10, <1>11, <1>12, <2>1 DEF IInv, InvokerSide, Mine
<1> QED BY <1>13, <1>14, <1>15 DEF IInv

\* An invoker reads: in its first turn what its controller wrote, unless that one
\* has ended; in a later turn the end of the connection.
LEMMA InvokerReads ==
  ASSUME TypeInv, IInv, NEW k \in Invokers, InvRead(k)
  PROVE  IInv'
<1> DEFINE c == accepted[k]
           q == qp_num[k]
<1>0. /\ c \in Controllers /\ q \in Controllers /\ ipc[k] = "read"
      /\ q \in Int /\ 0 <= q
  <2>1. ipc[k] = "read"
    BY DEF InvRead
  <2>2. c \in Controllers /\ q \in Controllers
    BY <2>1 DEF TypeInv, TypeOK, HasConnection
  <2> QED BY <2>1, <2>2, SMT DEF Controllers
<1>1. /\ toInv[c][k] # << >> \/ ContGone(c, k)
      /\ ipc' = [ipc EXCEPT ![k] = "write"]
      /\ ikeys' = [ikeys EXCEPT ![k][q] = Received(toInv[c][k])]
      /\ toInv' = [toInv EXCEPT ![c][k] = Rest(@)]
      /\ UNCHANGED <<cpc, ci, ckeys, cqp, qp_num, accepted, toCont, closed>>
  BY DEF InvRead, contVars, Readable
<1>i. c = accepted[k] /\ q = qp_num[k]
  OBVIOUS
<1> HIDE DEF c, q
<1>2. toInv[c][k] \in {<< >>, <<Mine(c, k)>>}
  BY <1>0 DEF IInv, OneEachWay
<1>3. /\ Rest(toInv[c][k]) = << >>
      /\ toInv[c][k] # << >> => Received(toInv[c][k]) = Mine(c, k)
      /\ toInv[c][k] = << >> => Received(toInv[c][k]) = Garbage
  BY <1>2, OneMessage DEF Rest, Received
<1>4. \A c1 \in Controllers, k1 \in Invokers :
        toInv'[c1][k1] = IF c1 = c /\ k1 = k THEN << >> ELSE toInv[c1][k1]
  BY <1>1, <1>3 DEF TypeInv, TypeOK
<1>5. \A k1 \in Invokers, q1 \in Controllers :
        ikeys'[k1][q1] = IF k1 = k /\ q1 = q THEN Received(toInv[c][k]) ELSE ikeys[k1][q1]
  BY <1>1 DEF TypeInv, TypeOK
<1>6. \A k1 \in Invokers : ipc'[k1] = IF k1 = k THEN "write" ELSE ipc[k1]
  BY <1>1 DEF TypeInv, TypeOK
<1>7. q > 0 => toInv[c][k] = << >> /\ ContGone(c, k)
  BY <1>0, <1>1, <1>i DEF IInv, InvokerSide, HasRead
<1>8. q = 0 => /\ \A c1 \in Controllers : toCont[c1][k] = << >> /\ ~AtWork(c1, k)
               /\ ~closed[c][k]
  <2>1. q = 0 => \A c1 \in Controllers : toCont[c1][k] = << >> /\ ~AtWork(c1, k)
    BY <1>0, <1>i DEF IInv, InvokerSide, NotYet
  <2> QED BY <2>1, <1>0 DEF AtWork, IInv, ControllerSide
<1>9. HasSent(c, k)
  BY <1>0, <1>1 DEF ContGone, HasSent, IInv, OneEachWay, ControllerSide
<1>10. ikeys'[k][0] = Mine(c, k) \/ cpc[c] = "exit"
  <2>1. CASE q = 0
    BY <2>1, <1>0, <1>1, <1>3, <1>5, <1>8 DEF ContGone
  <2>2. CASE q # 0
    <3>1. HasRead(k)
      BY <2>2, <1>0, <1>i, SMT DEF HasRead
    <3>2. ikeys'[k][0] = ikeys[k][0]
      BY <2>2, <1>5, Numbers
    <3> QED BY <3>1, <3>2, <1>i DEF IInv, InvokerSide
  <2> QED BY <2>1, <2>2
<1>11. \A c1 \in Controllers, k1 \in Invokers :
         /\ HasSent(c1, k1)' <=> HasSent(c1, k1)
         /\ AtWork(c1, k1)' <=> AtWork(c1, k1)
         /\ ContGone(c1, k1)' <=> ContGone(c1, k1)
  BY <1>1 DEF HasSent, AtWork, ContGone
<1>12. \A k1 \in Invokers : k1 # k \/ q > 0 => ikeys'[k1][0] = ikeys[k1][0]
  BY <1>5, Numbers, SMT
<1>13. OneEachWay'
  <2>1. \A c1 \in Controllers, k1 \in Invokers :
          toCont[c1][k1] # << >> => ikeys'[k1][0] = Mine(c1, k1)
    <3>1. \A c1 \in Controllers, k1 \in Invokers : toCont[c1][k1] # << >> => k1 # k \/ q > 0
      BY <1>0, <1>8, SMT
    <3> QED BY <3>1, <1>12 DEF IInv, OneEachWay
  <2> SUFFICES ASSUME NEW c1 \in Controllers, NEW k1 \in Invokers
               PROVE  /\ toInv'[c1][k1] \in {<< >>, <<Mine(c1, k1)>>}
                      /\ ~HasSent(c1, k1)' => toInv'[c1][k1] = << >>
                      /\ toCont[c1][k1] \in {<< >>, <<Answer(k1)>>}
    BY <2>1, <1>1 DEF OneEachWay, Mine, Answer
  <2> QED BY <1>4, <1>11 DEF IInv, OneEachWay
<1>14. ControllerSide'
  <2>1. \A c1 \in Controllers, k1 \in Invokers : AtWork(c1, k1) => Told(c1, k1)'
    <3> SUFFICES ASSUME NEW c1 \in Controllers, NEW k1 \in Invokers, AtWork(c1, k1)
                 PROVE  Told(c1, k1)'
      OBVIOUS
    <3>1. k1 # k \/ q > 0
      BY <1>0, <1>8, SMT
    <3>2. ikeys'[k1][0] = ikeys[k1][0] /\ (ipc[k1] = "exit" => ipc'[k1] = "exit")
      BY <3>1, <1>0, <1>6, <1>12
    <3>3. Told(c1, k1)
      BY DEF IInv, ControllerSide
    <3> QED BY <3>2, <3>3, <1>1 DEF Told, Answer, Mine
  <2> QED BY <2>1, <1>1, <1>11 DEF IInv, ControllerSide
<1>15. InvokerSide'
  <2> SUFFICES ASSUME NEW k1 \in Invokers
               PROVE  /\ NotYet(k1)' => \A c1 \in Controllers :
                                          toCont'[c1][k1] = << >> /\ ~AtWork(c1, k1)'
                      /\ HasRead(k1)' =>
                           /\ toInv'[accepted[k1]][k1] = << >>
                           /\ HasSent(accepted[k1], k1)'
                           /\ \/ ikeys'[k1][0] = Mine(accepted[k1], k1)
                              \/ cpc'[accepted[k1]] = "exit"
                      /\ ipc'[k1] \in {"bind", "accept"} => qp_num'[k1] = 0
                      /\ ipc'[k1] = "mesh" => qp_num'[k1] = NumControllers
                      /\ ipc'[k1] = "write" /\ qp_num'[k1] > 0 => ContGone(accepted[k1], k1)'
                      /\ \A q1 \in Controllers \ {0} :
                           \/ q1 < qp_num'[k1]
                           \/ q1 = qp_num'[k1] /\ ipc'[k1] \in {"write", "modify"}
                           => ikeys'[k1][q1] = Garbage
    BY <1>1 DEF InvokerSide, Mine
  <2>1. CASE k1 = k
    <3>1. HasSent(accepted[k1], k1)'
      BY <2>1, <1>0, <1>1, <1>9, <1>i DEF HasSent
    <3>2. toInv'[accepted[k1]][k1] = << >>
      BY <2>1, <1>0, <1>4, <1>i
    <3>3. NotYet(k1)' => \A c1 \in Controllers : toCont'[c1][k1] = << >> /\ ~AtWork(c1, k1)'
      BY <2>1, <1>1, <1>8, <1>11, <1>i DEF NotYet
    <3>4. \A q1 \in Controllers \ {0} :
            \/ q1 < qp_num'[k1]
            \/ q1 = qp_num'[k1] /\ ipc'[k1] \in {"write", "modify"}
            => ikeys'[k1][q1] = Garbage
      <4> SUFFICES ASSUME NEW q1 \in Controllers \ {0}, q1 < q \/ q1 = q
                   PROVE  ikeys'[k][q1] = Garbage
        BY <2>1, <1>1, <1>i
      <4>1. CASE q1 = q
        <5>1. q > 0
          BY <4>1, <1>0, SMT DEF Controllers
        <5> QED BY <4>1, <5>1, <1>3, <1>5, <1>7
      <4>2. CASE q1 # q
        BY <4>2, <1>5, <1>i DEF IInv, InvokerSide
      <4> QED BY <4>1, <4>2
    <3>5. ipc'[k1] = "write" /\ (qp_num'[k1] > 0 => ContGone(accepted[k1], k1)')
      BY <2>1, <1>0, <1>1, <1>6, <1>7, <1>i DEF ContGone
    <3> QED BY <2>1, <1>1, <1>10, <1>i, <3>1, <3>2, <3>3, <3>4, <3>5
  <2>2. CASE k1 # k
    <3>1. /\ NotYet(k1)' <=> NotYet(k1)
          /\ HasRead(k1)' <=> HasRead(k1)
          /\ ipc'[k1] = ipc[k1]
          /\ \A q1 \in Controllers : ikeys'[k1][q1] = ikeys[k1][q1]
          /\ ikeys'[k1][0] = ikeys[k1][0]
      BY <2>2, <1>1, <1>5, <1>6, <1>12 DEF NotYet, HasRead
    <3>2. HasRead(k1) \/ ipc[k1] = "write" => accepted[k1] \in Controllers
      BY DEF HasRead, TypeInv, HasConnection
    <3>3. NotYet(k1)' => \A c1 \in Controllers : toCont'[c1][k1] = << >> /\ ~AtWork(c1, k1)'
      BY <3>1, <1>1, <1>11 DEF IInv, InvokerSide
    <3>4. HasRead(k1)' => /\ toInv'[accepted[k1]][k1] = << >>
                          /\ HasSent(accepted[k1], k1)'
                          /\ \/ ikeys'[k1][0] = Mine(accepted[k1], k1)
                             \/ cpc'[accepted[k1]] = "exit"
      BY <2>2, <3>1, <3>2, <1>1, <1>4 DEF IInv, InvokerSide, HasSent
    <3>5. /\ ipc'[k1] \in {"bind", "accept"} => qp_num'[k1] = 0
          /\ ipc'[k1] = "mesh" => qp_num'[k1] = NumControllers
          /\ ipc'[k1] = "write" /\ qp_num'[k1] > 0 => ContGone(accepted[k1], k1)'
      BY <3>1, <3>2, <1>1 DEF IInv, InvokerSide, ContGone
    <3>6. \A q1 \in Controllers \ {0} :
            \/ q1 < qp_num'[k1]
            \/ q1 = qp_num'[k1] /\ ipc'[k1] \in {"write", "modify"}
            => ikeys'[k1][q1] = Garbage
      BY <3>1, <1>1 DEF IInv, InvokerSide
    <3> QED BY <3>3, <3>4, <3>5, <3>6
  <2> QED BY <2>1, <2>2
<1> QED BY <1>13, <1>14, <1>15 DEF IInv

\* An invoker answers, or writes to nobody.  Only the first answer reaches a reader.
LEMMA InvokerAnswers ==
  ASSUME TypeInv, IInv, NEW k \in Invokers, InvWrite(k)
  PROVE  IInv'
<1> DEFINE c == accepted[k]
<1>0. c \in Controllers /\ ipc[k] = "write" /\ qp_num[k] \in Int /\ 0 <= qp_num[k]
  BY SMT DEF TypeInv, TypeOK, HasConnection, InvWrite, Controllers
<1>1. /\ ipc' = [ipc EXCEPT ![k] = "modify"]
      /\ \/ ContGone(c, k) /\ toCont' = toCont
         \/ /\ ~ContGone(c, k)
            /\ toCont' = [toCont EXCEPT ![c][k] = Append(@, [from |-> k, qp |-> qp_num[k]])]
      /\ UNCHANGED <<cpc, ci, ckeys, cqp, qp_num, ikeys, accepted, toInv, closed>>
  BY DEF InvWrite, contVars
<1>i. c = accepted[k]
  OBVIOUS
<1> HIDE DEF c
<1>2. HasRead(k)
  BY <1>0 DEF HasRead
<1>3. ASSUME ~ContGone(c, k)
      PROVE  /\ qp_num[k] = 0 /\ ikeys[k][0] = Mine(c, k)
             /\ toCont[c][k] = << >>
  <2>1. qp_num[k] = 0
    BY <1>3, <1>0, <1>i, SMT DEF IInv, InvokerSide
  <2>2. NotYet(k)
    BY <2>1, <1>0 DEF NotYet
  <2> QED BY <1>3, <2>1, <2>2, <1>0, <1>2, <1>i DEF IInv, InvokerSide, ContGone
<1>4. \A c1 \in Controllers, k1 \in Invokers :
        \/ toCont'[c1][k1] = toCont[c1][k1]
        \/ /\ c1 = c /\ k1 = k
           /\ toCont'[c1][k1] = <<Answer(k)>> /\ ikeys[k][0] = Mine(c, k)
  <2>1. CASE ContGone(c, k)
    BY <2>1, <1>1
  <2>2. CASE ~ContGone(c, k)
    <3>1. toCont' = [toCont EXCEPT ![c][k] = Append(@, Answer(k))]
      BY <2>2, <1>1, <1>3 DEF Answer
    <3>2. Append(<< >>, Answer(k)) = <<Answer(k)>>
      BY OneMessage
    <3> QED BY <2>2, <3>1, <3>2, <1>3, <1>0 DEF TypeInv, TypeOK
  <2> QED BY <2>1, <2>2
<1>5. \A k1 \in Invokers : ipc'[k1] = IF k1 = k THEN "modify" ELSE ipc[k1]
  BY <1>1 DEF TypeInv, TypeOK
<1>6. \A c1 \in Controllers, k1 \in Invokers :
        /\ HasSent(c1, k1)' <=> HasSent(c1, k1)
        /\ AtWork(c1, k1)' <=> AtWork(c1, k1)
        /\ ContGone(c1, k1)' <=> ContGone(c1, k1)
        /\ Told(c1, k1) => Told(c1, k1)'
  BY <1>0, <1>1, <1>5 DEF HasSent, AtWork, ContGone, Told, Answer, Mine
<1>7. \A k1 \in Invokers : /\ NotYet(k1)' => NotYet(k1) /\ k1 # k
                           /\ HasRead(k1)' <=> HasRead(k1)
                           /\ ipc'[k1] # ipc[k1] => k1 = k
  BY <1>1, <1>2, <1>5 DEF NotYet, HasRead
<1>8. OneEachWay'
  <2> SUFFICES ASSUME NEW c1 \in Controllers, NEW k1 \in Invokers
               PROVE  /\ toInv'[c1][k1] \in {<< >>, <<Mine(c1, k1)>>}
                      /\ ~HasSent(c1, k1)' => toInv'[c1][k1] = << >>
                      /\ toCont'[c1][k1] \in {<< >>, <<Answer(k1)>>}
                      /\ toCont'[c1][k1] # << >> => ikeys'[k1][0] = Mine(c1, k1)
    BY DEF OneEachWay, Mine, Answer
  <2>1. /\ toInv[c1][k1] \in {<< >>, <<Mine(c1, k1)>>}
        /\ ~HasSent(c1, k1) => toInv[c1][k1] = << >>
        /\ toCont[c1][k1] \in {<< >>, <<Answer(k1)>>}
        /\ toCont[c1][k1] # << >> => ikeys[k1][0] = Mine(c1, k1)
    BY DEF IInv, OneEachWay
  <2>2. toInv'[c1][k1] \in {<< >>, <<Mine(c1, k1)>>}
        /\ (~HasSent(c1, k1)' => toInv'[c1][k1] = << >>)
    BY <2>1, <1>1, <1>6
  <2>3. toCont'[c1][k1] \in {<< >>, <<Answer(k1)>>}
    BY <2>1, <1>4, Zenon
  <2>4. toCont'[c1][k1] # << >> => ikeys'[k1][0] = Mine(c1, k1)
    BY <2>1, <1>1, <1>4, Zenon
  <2> QED BY <2>2, <2>3, <2>4
<1>9. ControllerSide'
  BY <1>1, <1>6 DEF IInv, ControllerSide
<1>10. InvokerSide'
  <2> SUFFICES ASSUME NEW k1 \in Invokers
               PROVE  /\ NotYet(k1)' => \A c1 \in Controllers :
                                          toCont'[c1][k1] = << >> /\ ~AtWork(c1, k1)'
                      /\ HasRead(k1)' =>
                           /\ toInv'[accepted[k1]][k1] = << >>
                           /\ HasSent(accepted[k1], k1)'
                           /\ \/ ikeys'[k1][0] = Mine(accepted[k1], k1)
                              \/ cpc'[accepted[k1]] = "exit"
                      /\ ipc'[k1] \in {"bind", "accept"} => qp_num'[k1] = 0
                      /\ ipc'[k1] = "mesh" => qp_num'[k1] = NumControllers
                      /\ ipc'[k1] = "write" /\ qp_num'[k1] > 0 => ContGone(accepted[k1], k1)'
                      /\ \A q1 \in Controllers \ {0} :
                           \/ q1 < qp_num'[k1]
                           \/ q1 = qp_num'[k1] /\ ipc'[k1] \in {"write", "modify"}
                           => ikeys'[k1][q1] = Garbage
    BY <1>1 DEF InvokerSide, Mine
  <2>1. NotYet(k1)' => \A c1 \in Controllers : toCont'[c1][k1] = << >> /\ ~AtWork(c1, k1)'
    BY <1>4, <1>6, <1>7 DEF IInv, InvokerSide
  <2>2. HasRead(k1) \/ ipc[k1] = "write" => accepted[k1] \in Controllers
    BY DEF HasRead, TypeInv, HasConnection
  <2>3. HasRead(k1)' => /\ toInv'[accepted[k1]][k1] = << >>
                        /\ HasSent(accepted[k1], k1)'
                        /\ \/ ikeys'[k1][0] = Mine(accepted[k1], k1)
                           \/ cpc'[accepted[k1]] = "exit"
    BY <1>1, <1>7, <2>2 DEF IInv, InvokerSide, HasSent
  <2>4. /\ ipc'[k1] \in {"bind", "accept"} => qp_num'[k1] = 0
        /\ ipc'[k1] = "mesh" => qp_num'[k1] = NumControllers
        /\ ipc'[k1] = "write" /\ qp_num'[k1] > 0 => ContGone(accepted[k1], k1)'
    BY <1>1, <1>5, <2>2 DEF IInv, InvokerSide, ContGone
  <2>5. \A q1 \in Controllers \ {0} :
          \/ q1 < qp_num'[k1]
          \/ q1 = qp_num'[k1] /\ ipc'[k1] \in {"write", "modify"}
          => ikeys'[k1][q1] = Garbage
    BY <1>0, <1>1, <1>5 DEF IInv, InvokerSide
  <2> QED BY <2>1, <2>3, <2>4, <2>5
<1> QED BY <1>8, <1>9, <1>10 DEF IInv

-----------------------------------------------------------------------------
\* The theorems.

\* The invariant holds from the start and every step keeps it.
LEMMA ExchangeInvariant == Spec => []IInv
<1>1. Init => IInv
  <2> SUFFICES ASSUME Init PROVE IInv
    OBVIOUS
  <2>1. OneEachWay
    BY DEF Init, OneEachWay
  <2>2. \A c \in Controllers, k \in Invokers : ~AtWork(c, k)
    BY DEF Init, AtWork, ResetQp
  <2>3. ControllerSide
    BY <2>2 DEF Init, ControllerSide, ResetQp, Connected
  <2>4. InvokerSide
    <3>1. \A q \in Controllers \ {0} : ~(q < 0) /\ q # 0
      BY SMT DEF Controllers
    <3> QED BY <2>2, <3>1 DEF Init, InvokerSide, HasRead
  <2> QED BY <2>1, <2>3, <2>4 DEF IInv
<1>2. ASSUME TypeInv, IInv, NEW c \in Controllers, Controller(c) \/ ContCrash(c)
      PROVE  IInv'
  <2>1. CASE Connect(c) \/ ContModifyFails(c) \/ ContCrash(c)
    <3>1. UNCHANGED <<ci, ckeys, cqp, ipc, qp_num, ikeys, accepted, toInv, toCont, closed>>
      BY <2>1 DEF Connect, ContModifyFails, ContCrash, invVars, netVars
    <3>2. \/ cpc[c] = "connect" /\ cpc' = [cpc EXCEPT ![c] = "write"]
          \/ cpc[c] # "exit" /\ cpc' = [cpc EXCEPT ![c] = "exit"]
      BY <2>1 DEF Connect, ContModifyFails, ContCrash
    <3>t. DOMAIN cpc = Controllers
      BY <1>2 DEF TypeInv, TypeOK
    <3>3. /\ \A c1 \in Controllers \ {c} : cpc'[c1] = cpc[c1]
          /\ \/ cpc[c] = "connect" /\ cpc'[c] = "write"
             \/ cpc[c] # "exit" /\ cpc'[c] = "exit"
      BY <3>2, <3>t
    <3> QED BY <1>2, <3>1, <3>3, ControllerMovesOn
  <2> QED BY <1>2, <2>1, WritesOnce, ReadsAnswer, ControllerModifies DEF Controller
<1>3. ASSUME TypeInv, IInv, NEW k \in Invokers, Invoker(k) \/ InvCrash(k)
      PROVE  IInv'
  <2>t. DOMAIN ipc = Invokers /\ DOMAIN accepted = Invokers /\ DOMAIN qp_num = Invokers
    BY <1>3 DEF TypeInv, TypeOK
  <2>1. CASE Listen(k) \/ Accept(k)
    <3>1. /\ ipc[k] \in {"bind", "accept"} /\ qp_num' = qp_num
          /\ UNCHANGED <<cpc, ci, ckeys, cqp, ikeys, toInv, toCont, closed>>
          /\ \E there \in {"accept", "read"} : ipc' = [ipc EXCEPT ![k] = there]
          /\ accepted' = accepted \/ accepted' = [accepted EXCEPT ![k] = Head(backlog[k])]
      BY <2>1 DEF Listen, Accept, contVars, netVars
    <3>2. /\ ipc'[k] \in {"accept", "read"}
          /\ \A k1 \in Invokers \ {k} : ipc'[k1] = ipc[k1] /\ accepted'[k1] = accepted[k1]
      BY <3>1, <2>t
    <3> QED BY <1>3, <3>1, <3>2, InvokerMovesOn
  <2>2. CASE InvModifyFails(k) \/ InvCrash(k)
    <3>1. /\ ipc[k] # "exit" /\ qp_num' = qp_num /\ accepted' = accepted
          /\ UNCHANGED <<cpc, ci, ckeys, cqp, ikeys, toInv, toCont, closed>>
          /\ ipc' = [ipc EXCEPT ![k] = "exit"]
      BY <2>2 DEF InvModifyFails, InvCrash, contVars, netVars
    <3>2. /\ ipc'[k] = "exit"
          /\ \A k1 \in Invokers \ {k} : ipc'[k1] = ipc[k1]
      BY <3>1, <2>t
    <3> QED BY <1>3, <3>1, <3>2, InvokerMovesOn
  <2>3. CASE InvModify(k)
    <3>1. /\ ipc[k] = "modify" /\ accepted' = accepted
          /\ UNCHANGED <<cpc, ci, ckeys, cqp, ikeys, toInv, toCont, closed>>
          /\ \/ qp_num' = qp_num /\ ipc' = ipc
             \/ /\ qp_num' = [qp_num EXCEPT ![k] = qp_num[k] + 1]
                /\ \E there \in {"mesh", "read"} :
                     /\ ipc' = [ipc EXCEPT ![k] = there]
                     /\ there = "mesh" => qp_num[k] + 1 = NumControllers
      BY <2>3 DEF InvModify, contVars, netVars
    <3>2. /\ \/ qp_num'[k] = qp_num[k] /\ ipc'[k] = "modify"
             \/ /\ qp_num'[k] = qp_num[k] + 1 /\ ipc'[k] \in {"mesh", "read"}
                /\ ipc'[k] = "mesh" => qp_num'[k] = NumControllers
          /\ \A k1 \in Invokers \ {k} : ipc'[k1] = ipc[k1] /\ qp_num'[k1] = qp_num[k1]
      BY <3>1, <2>t
    <3> QED BY <1>3, <3>1, <3>2, InvokerMovesOn
  <2> QED BY <1>3, <2>1, <2>2, <2>3, InvokerReads, InvokerAnswers DEF Invoker
<1>4. ASSUME IInv, UNCHANGED vars PROVE IInv'
  BY <1>4 DEF vars, contVars, invVars, netVars, IInv, OneEachWay, ControllerSide, InvokerSide,
       HasSent, NotYet, HasRead, AtWork, Told, ContGone, Mine, Answer
<1>5. TypeInv /\ IInv /\ [Next]_vars => IInv'
  BY <1>2, <1>3, <1>4 DEF Next
<1> QED BY <1>1, <1>5, TypeCorrect, PTL DEF Spec

\* A controller that can send to an invoker sends to a queue pair of that invoker,
\* which holds the controller's information by then, or the invoker has ended: for any
\* number of controllers, of which each invoker accepts one (controller.cpp:183-207,
\* invoker.cpp:223-256).
THEOREM PairedHolds == Spec => []Paired
<1>1. TypeInv /\ IInv => Paired
  <2> SUFFICES ASSUME TypeInv, IInv, NEW c \in Controllers, NEW k \in Invokers,
                      cqp[c][k].state \in Connected
               PROVE  /\ cqp[c][k].dest = ckeys[c][k]
                      /\ \/ /\ ckeys[c][k] \in InvInfo
                            /\ ckeys[c][k].from = k
                            /\ ikeys[k][ckeys[c][k].qp] = [from |-> c, qp |-> k]
                         \/ ckeys[c][k] = Garbage /\ ipc[k] = "exit"
    BY DEF Paired
  <2>1. cqp[c][k].dest = ckeys[c][k] /\ Told(c, k)
    BY DEF Connected, AtWork, IInv, ControllerSide
  <2>2. Answer(k) \in InvInfo /\ Answer(k).from = k /\ Answer(k).qp = 0
    BY Numbers DEF Answer, InvInfo
  <2> QED BY <2>1, <2>2 DEF Told, Mine
<1> QED BY <1>1, ExchangeInvariant, TypeCorrect, PTL

\* An invoker comes to the mesh with the information of the controller it accepted for
\* QP[0], unless that one has ended, and with what one read brought at no two queue pairs,
\* however many controllers there are (invoker.cpp:248-256).
THEOREM AcceptedKnownHolds == Spec => []AcceptedKnown
<1>1. TypeInv /\ IInv => AcceptedKnown
  <2> SUFFICES ASSUME TypeInv, IInv, NEW k \in Invokers, ipc[k] = "mesh"
               PROVE  /\ \/ ikeys[k][0] = [from |-> accepted[k], qp |-> k]
                         \/ cpc[accepted[k]] = "exit"
                      /\ \A p, q \in Controllers :
                           p # q /\ ikeys[k][p] = ikeys[k][q] => ikeys[k][p] = Garbage
    BY DEF AcceptedKnown
  <2>1. \/ ikeys[k][0] = [from |-> accepted[k], qp |-> k]
        \/ cpc[accepted[k]] = "exit"
    BY DEF IInv, InvokerSide, HasRead, Mine
  <2>2. \A q \in Controllers \ {0} : q < qp_num[k]
    <3>1. qp_num[k] = NumControllers
      BY DEF IInv, InvokerSide
    <3> QED BY <3>1, ExchangeAssumption, SMT DEF Controllers
  <2>3. \A q \in Controllers \ {0} : ikeys[k][q] = Garbage
    BY <2>2 DEF IInv, InvokerSide
  <2>4. ASSUME NEW p \in Controllers, NEW q \in Controllers, p # q, ikeys[k][p] = ikeys[k][q]
        PROVE  ikeys[k][p] = Garbage
    <3>1. p # 0 \/ q # 0
      BY <2>4
    <3> QED BY <3>1, <2>3, <2>4
  <2> QED BY <2>1, <2>4
<1> QED BY <1>1, ExchangeInvariant, TypeCorrect, PTL
-----------------------------------------------------------------------------
(***************************************************************************)
(* Nobody hangs.  What a process waits for is on its way, or the process   *)
(* that has to send it can go on.                                          *)
(***************************************************************************)
Among(x, s) == \E n \in DOMAIN s : s[n] = x

\* Controller c has connected to invoker k; it may have, before it ended.
HasCome(c, k) == k < ci[c] \/ (k = ci[c] /\ cpc[c] \in {"write", "read", "modify"})
MayHaveCome(c, k) == k < ci[c] \/ (k = ci[c] /\ cpc[c] # "connect")

\* Invoker k knows of the connection.
Guest(c, k) == accepted[k] = c \/ Among(c, backlog[k])

\* Who has connected is accepted or queued, and nobody else; connections left behind
\* are closed.
Visits ==
  \A c \in Controllers, k \in Invokers :
    /\ k < ci[c] => closed[c][k]
    /\ HasCome(c, k) => ipc[k] # "bind" /\ Guest(c, k)
    /\ Guest(c, k) => MayHaveCome(c, k)

\* Who waits for an answer has sent what it answers, and it is not lost.
Asked ==
  \A c \in Controllers, k \in Invokers :
    cpc[c] = "read" /\ k = ci[c] =>
      \/ ipc[k] = "exit"
      \/ toInv[c][k] # << >> \/ toCont[c][k] # << >>
      \/ accepted[k] = c /\ ipc[k] = "write" /\ qp_num[k] = 0

\* A controller is through when it has visited everybody; an invoker accepts once.
Through ==
  /\ \A c \in Controllers : cpc[c] = "run" => ci[c] = NumInvokers
  /\ \A k \in Invokers : ipc[k] \in {"bind", "accept"} => accepted[k] = None

WaitInv == Visits /\ Asked /\ Through

\* A queue with one more at the end, or without its first.
LEMMA AmongAppend ==
  ASSUME NEW S, NEW s \in Seq(S), NEW x \in S, NEW y
  PROVE  Among(y, Append(s, x)) <=> y = x \/ Among(y, s)
<1>1. /\ DOMAIN s = 1 .. Len(s) /\ Len(s) \in Nat
      /\ DOMAIN Append(s, x) = 1 .. Len(s) + 1
      /\ \A n \in 1 .. Len(s) : Append(s, x)[n] = s[n]
      /\ Append(s, x)[Len(s) + 1] = x
  OBVIOUS
<1>2. \A n \in 1 .. Len(s) + 1 : n \in 1 .. Len(s) \/ n = Len(s) + 1
  BY <1>1
<1>3. Len(s) + 1 \in 1 .. Len(s) + 1 /\ \A n \in 1 .. Len(s) : n \in 1 .. Len(s) + 1
  BY <1>1
<1> QED BY <1>1, <1>2, <1>3 DEF Among

\* What something was appended to is not empty.
LEMMA AppendNotEmpty ==
  ASSUME NEW S, NEW s \in Seq(S), NEW x \in S
  PROVE  Append(s, x) # << >>
<1>1. Len(Append(s, x)) = Len(s) + 1 /\ Len(s) \in Nat /\ Len(<< >>) = 0
  OBVIOUS
<1>2. Len(Append(s, x)) # 0
  BY <1>1
<1> QED BY <1>1, <1>2

\* Who stands in a queue is its head or stands in the rest.
LEMMA AmongTail ==
  ASSUME NEW S, NEW s \in Seq(S), s # << >>, NEW y
  PROVE  Among(y, s) <=> y = Head(s) \/ Among(y, Tail(s))
<1>1. /\ DOMAIN s = 1 .. Len(s) /\ Len(s) \in Nat \ {0}
      /\ DOMAIN Tail(s) = 1 .. Len(s) - 1
      /\ Head(s) = s[1]
      /\ \A n \in 1 .. Len(s) - 1 : Tail(s)[n] = s[n + 1]
  OBVIOUS
<1>2. ASSUME NEW n \in 1 .. Len(s) PROVE n = 1 \/ (n - 1 \in 1 .. Len(s) - 1 /\ (n - 1) + 1 = n)
  BY <1>1
<1>3. 1 \in 1 .. Len(s) /\ \A n \in 1 .. Len(s) - 1 : n + 1 \in 1 .. Len(s)
  BY <1>1
<1>4. ASSUME Among(y, s) PROVE y = Head(s) \/ Among(y, Tail(s))
  <2>1. PICK n \in 1 .. Len(s) : s[n] = y
    BY <1>4, <1>1 DEF Among
  <2>2. CASE n = 1
    BY <2>1, <2>2, <1>1
  <2>3. CASE n - 1 \in 1 .. Len(s) - 1 /\ (n - 1) + 1 = n
    <3>1. Tail(s)[n - 1] = y
      BY <2>1, <2>3, <1>1
    <3> QED BY <3>1, <2>3, <1>1 DEF Among
  <2> QED BY <1>2, <2>2, <2>3
<1>5. ASSUME y = Head(s) \/ Among(y, Tail(s)) PROVE Among(y, s)
  BY <1>5, <1>1, <1>3 DEF Among
<1> QED BY <1>4, <1>5

\* A step that leaves every visit where it is.
LEMMA VisitsStand ==
  ASSUME Visits, UNCHANGED <<ci, closed, accepted, backlog>>,
         \A k \in Invokers : ipc'[k] = "bind" => ipc[k] = "bind",
         \A c \in Controllers :
           /\ cpc'[c] \in {"write", "read", "modify"} => cpc[c] \in {"write", "read", "modify"}
           /\ cpc'[c] = "connect" => cpc[c] = "connect"
  PROVE  Visits'
BY DEF Visits, HasCome, MayHaveCome, Guest, Among

\* A step at which nobody asks and nobody stops what would be the answer.
LEMMA AskedStands ==
  ASSUME Asked, UNCHANGED <<ci, toInv, toCont>>,
         \A c \in Controllers : cpc'[c] = "read" => cpc[c] = "read",
         \A k \in Invokers :
           \/ ipc'[k] = "exit"
           \/ ipc[k] \notin {"write", "exit"}
           \/ ipc'[k] = ipc[k] /\ accepted'[k] = accepted[k] /\ qp_num'[k] = qp_num[k]
  PROVE  Asked'
<1> SUFFICES ASSUME NEW c \in Controllers, NEW k \in Invokers, cpc'[c] = "read", k = ci'[c]
             PROVE  \/ ipc'[k] = "exit"
                    \/ toInv'[c][k] # << >> \/ toCont'[c][k] # << >>
                    \/ accepted'[k] = c /\ ipc'[k] = "write" /\ qp_num'[k] = 0
  BY DEF Asked
<1>1. \/ ipc[k] = "exit"
      \/ toInv[c][k] # << >> \/ toCont[c][k] # << >>
      \/ accepted[k] = c /\ ipc[k] = "write" /\ qp_num[k] = 0
  BY DEF Asked
<1> QED BY <1>1

\* connect keeps who waits for whom: the controller now stands in the backlog.
LEMMA WaitConnect ==
  ASSUME TypeInv, WaitInv, NEW c \in Controllers, Connect(c)
  PROVE  WaitInv'
<1> DEFINE k == ci[c]
<1>1. /\ k \in Invokers /\ cpc[c] = "connect"
      /\ backlog \in [Invokers -> Seq(Controllers)] /\ DOMAIN cpc = Controllers
  BY DEF TypeInv, TypeOK, Connect
<1>2. /\ UNCHANGED <<ci, closed, accepted, ipc, toInv, toCont, qp_num>>
      /\ \/ /\ ipc[k] # "bind" /\ backlog' = [backlog EXCEPT ![k] = Append(@, c)]
            /\ cpc' = [cpc EXCEPT ![c] = "write"]
         \/ backlog' = backlog /\ cpc' = [cpc EXCEPT ![c] = "exit"]
  BY DEF Connect, invVars
<1>3. \A c1 \in Controllers : c1 # c => cpc'[c1] = cpc[c1]
  BY <1>1, <1>2
<1>4. cpc'[c] \in {"write", "exit"}
  BY <1>1, <1>2
<1>5. Visits'
  <2>1. CASE backlog' = backlog /\ cpc' = [cpc EXCEPT ![c] = "exit"]
    <3>1. cpc'[c] = "exit"
      BY <2>1, <1>1
    <3> QED BY <3>1, <2>1, <1>2, <1>3, VisitsStand DEF WaitInv
  <2>2. CASE /\ ipc[k] # "bind" /\ backlog' = [backlog EXCEPT ![k] = Append(@, c)]
             /\ cpc' = [cpc EXCEPT ![c] = "write"]
    <3>1. cpc'[c] = "write"
      BY <2>2, <1>1
    <3>2. \A c1 \in Controllers, k1 \in Invokers :
            Guest(c1, k1)' <=> Guest(c1, k1) \/ (c1 = c /\ k1 = k)
      <4> SUFFICES ASSUME NEW c1 \in Controllers, NEW k1 \in Invokers
                   PROVE  Among(c1, backlog'[k1]) <=> Among(c1, backlog[k1]) \/ (c1 = c /\ k1 = k)
        BY <1>2 DEF Guest
      <4>1. CASE k1 = k
        <5>1. backlog'[k1] = Append(backlog[k], c) /\ backlog[k] \in Seq(Controllers)
          BY <4>1, <2>2, <1>1
        <5> QED BY <5>1, <4>1, AmongAppend
      <4>2. CASE k1 # k
        BY <4>2, <2>2, <1>1
      <4> QED BY <4>1, <4>2
    <3>3. \A c1 \in Controllers, k1 \in Invokers :
            /\ HasCome(c1, k1)' => HasCome(c1, k1) \/ (c1 = c /\ k1 = k)
            /\ MayHaveCome(c1, k1) => MayHaveCome(c1, k1)'
      BY <1>1, <1>2, <1>3, <3>1 DEF HasCome, MayHaveCome
    <3>4. \A c1 \in Controllers, k1 \in Invokers :
            c1 = c /\ k1 = k => MayHaveCome(c1, k1)'
      BY <1>2, <3>1 DEF MayHaveCome
    <3> HIDE DEF k
    <3> SUFFICES ASSUME NEW c1 \in Controllers, NEW k1 \in Invokers
                 PROVE  /\ k1 < ci'[c1] => closed'[c1][k1]
                        /\ HasCome(c1, k1)' => ipc'[k1] # "bind" /\ Guest(c1, k1)'
                        /\ Guest(c1, k1)' => MayHaveCome(c1, k1)'
      BY Zenon DEF Visits
    <3>5. /\ k1 < ci[c1] => closed[c1][k1]
          /\ HasCome(c1, k1) => ipc[k1] # "bind" /\ Guest(c1, k1)
          /\ Guest(c1, k1) => MayHaveCome(c1, k1)
      BY Zenon DEF WaitInv, Visits
    <3>6. k1 < ci'[c1] => closed'[c1][k1]
      BY <3>5, <1>2
    <3>7. HasCome(c1, k1)' => ipc'[k1] # "bind" /\ Guest(c1, k1)'
      BY <3>2, <3>3, <3>5, <2>2, <1>2
    <3>8. Guest(c1, k1)' => MayHaveCome(c1, k1)'
      BY <3>2, <3>3, <3>4, <3>5
    <3> QED BY <3>6, <3>7, <3>8
  <2> QED BY <1>2, <2>1, <2>2
<1>6. Asked'
  BY <1>2, <1>3, <1>4, AskedStands DEF WaitInv
<1>7. Through'
  BY <1>2, <1>3, <1>4 DEF WaitInv, Through
<1> QED BY <1>5, <1>6, <1>7 DEF WaitInv

\* The controller's write keeps it: what it asks is on its way.
LEMMA WaitContWrite ==
  ASSUME TypeInv, WaitInv, NEW c \in Controllers, ContWrite(c)
  PROVE  WaitInv'
<1> DEFINE k == ci[c]
<1>1. /\ k \in Invokers /\ cpc[c] = "write" /\ DOMAIN cpc = Controllers
      /\ toInv \in [Controllers -> [Invokers -> Seq(ContInfo)]]
      /\ [from |-> c, qp |-> k] \in ContInfo
  BY DEF TypeInv, TypeOK, ContWrite, ContInfo
<1>2. /\ UNCHANGED <<ci, closed, accepted, ipc, toCont, qp_num, backlog>>
      /\ cpc' = [cpc EXCEPT ![c] = "read"]
      /\ toInv' = [toInv EXCEPT ![c][k] = Append(@, [from |-> c, qp |-> k])]
  BY DEF ContWrite, invVars
<1>3. cpc'[c] = "read" /\ \A c1 \in Controllers : c1 # c => cpc'[c1] = cpc[c1]
  BY <1>1, <1>2
<1>4. Visits'
  BY <1>1, <1>2, <1>3, VisitsStand DEF WaitInv
<1>5. \A c1 \in Controllers, k1 \in Invokers :
        IF c1 = c /\ k1 = k THEN toInv'[c1][k1] # << >> ELSE toInv'[c1][k1] = toInv[c1][k1]
  <2>1. toInv[c][k] \in Seq(ContInfo)
    BY <1>1
  <2>2. Append(toInv[c][k], [from |-> c, qp |-> k]) # << >>
    BY <2>1, <1>1, AppendNotEmpty
  <2> QED BY <2>2, <1>1, <1>2
<1>6. Asked'
  <2> SUFFICES ASSUME NEW c1 \in Controllers, NEW k1 \in Invokers, cpc'[c1] = "read", k1 = ci'[c1]
               PROVE  \/ ipc'[k1] = "exit"
                      \/ toInv'[c1][k1] # << >> \/ toCont'[c1][k1] # << >>
                      \/ accepted'[k1] = c1 /\ ipc'[k1] = "write" /\ qp_num'[k1] = 0
    BY Zenon DEF Asked
  <2>1. CASE c1 = c
    BY <2>1, <1>2, <1>5
  <2>2. CASE c1 # c
    BY <2>2, <1>2, <1>3, <1>5 DEF WaitInv, Asked
  <2> QED BY <2>1, <2>2
<1>7. Through'
  BY <1>2, <1>3 DEF WaitInv, Through
<1> QED BY <1>4, <1>6, <1>7 DEF WaitInv

\* The controller's read keeps it: it took the answer and is asking no more.
LEMMA WaitContRead ==
  ASSUME TypeInv, WaitInv, NEW c \in Controllers, ContRead(c)
  PROVE  WaitInv'
<1>1. /\ cpc[c] = "read" /\ DOMAIN cpc = Controllers /\ ci[c] \in Invokers
      /\ toCont \in [Controllers -> [Invokers -> Seq(InvInfo)]]
  BY DEF TypeInv, TypeOK, ContRead
<1>2. /\ UNCHANGED <<ci, closed, accepted, ipc, toInv, qp_num, backlog>>
      /\ cpc' = [cpc EXCEPT ![c] = "modify"]
      /\ toCont' = [toCont EXCEPT ![c][ci[c]] = Rest(@)]
  BY DEF ContRead, invVars
<1>3. cpc'[c] = "modify" /\ \A c1 \in Controllers : c1 # c => cpc'[c1] = cpc[c1]
  BY <1>1, <1>2
<1>4. Visits'
  BY <1>1, <1>2, <1>3, VisitsStand DEF WaitInv
<1>5. \A c1 \in Controllers : c1 # c => toCont'[c1] = toCont[c1]
  BY <1>1, <1>2
<1>6. Asked'
  BY <1>2, <1>3, <1>5 DEF WaitInv, Asked
<1>7. Through'
  BY <1>2, <1>3 DEF WaitInv, Through
<1> QED BY <1>4, <1>6, <1>7 DEF WaitInv

\* The controller's ibv_modify_qp keeps it: the last one closes the visit.
LEMMA WaitContModify ==
  ASSUME TypeInv, WaitInv, NEW c \in Controllers, ContModify(c)
  PROVE  WaitInv'
<1> DEFINE k == ci[c]
<1>1. /\ k \in Invokers /\ cpc[c] = "modify" /\ DOMAIN cpc = Controllers
      /\ DOMAIN ci = Controllers /\ closed \in [Controllers -> [Invokers -> BOOLEAN]]
  BY DEF TypeInv, TypeOK, ContModify
<1>2. /\ UNCHANGED <<accepted, ipc, toInv, toCont, qp_num, backlog>>
      /\ \/ UNCHANGED <<closed, ci, cpc>>
         \/ /\ closed' = [closed EXCEPT ![c][k] = TRUE]
            /\ ci' = [ci EXCEPT ![c] = k + 1]
            /\ cpc' = [cpc EXCEPT ![c] = IF k + 1 = NumInvokers THEN "run" ELSE "connect"]
  BY Zenon DEF ContModify, invVars
<1>3. CASE UNCHANGED <<closed, ci, cpc>>
  <2>1. Visits'
    BY <1>2, <1>3, VisitsStand DEF WaitInv
  <2>2. Asked'
    BY <1>2, <1>3, AskedStands DEF WaitInv
  <2>3. Through'
    BY <1>2, <1>3 DEF WaitInv, Through
  <2> QED BY <2>1, <2>2, <2>3 DEF WaitInv
<1>4. CASE /\ closed' = [closed EXCEPT ![c][k] = TRUE]
           /\ ci' = [ci EXCEPT ![c] = k + 1]
           /\ cpc' = [cpc EXCEPT ![c] = IF k + 1 = NumInvokers THEN "run" ELSE "connect"]
  <2>1. /\ ci'[c] = k + 1
        /\ cpc'[c] = IF k + 1 = NumInvokers THEN "run" ELSE "connect"
        /\ \A c1 \in Controllers : c1 # c => ci'[c1] = ci[c1] /\ cpc'[c1] = cpc[c1]
    BY <1>1, <1>4
  <2>2. /\ closed'[c][k]
        /\ \A c1 \in Controllers, k1 \in Invokers : closed[c1][k1] => closed'[c1][k1]
    <3>1. \A c1 \in Controllers, k1 \in Invokers :
            closed'[c1][k1] = IF c1 = c /\ k1 = k THEN TRUE ELSE closed[c1][k1]
      BY <1>1, <1>4, Zenon
    <3> QED BY <3>1, <1>1, Zenon
  <2> HIDE DEF k
  <2>3. \A k1 \in Invokers : k1 < k + 1 <=> k1 < k \/ k1 = k
    BY <1>1, SMT DEF Invokers
  <2>4. \A k1 \in Invokers : k1 = k + 1 => cpc'[c] = "connect"
    BY <2>1, <1>1, ExchangeAssumption, SMT DEF Invokers
  <2>5. \A c1 \in Controllers, k1 \in Invokers :
          /\ HasCome(c1, k1)' => HasCome(c1, k1)
          /\ MayHaveCome(c1, k1) => MayHaveCome(c1, k1)'
    <3> SUFFICES ASSUME NEW c1 \in Controllers, NEW k1 \in Invokers
                 PROVE  /\ HasCome(c1, k1)' => HasCome(c1, k1)
                        /\ MayHaveCome(c1, k1) => MayHaveCome(c1, k1)'
      OBVIOUS
    <3>1. CASE c1 # c
      BY <3>1, <2>1 DEF HasCome, MayHaveCome
    <3>2. CASE c1 = c
      <4>1. ci[c] = k
        BY DEF k
      <4> QED BY <4>1, <3>2, <2>1, <2>3, <2>4, <1>1 DEF HasCome, MayHaveCome
    <3> QED BY <3>1, <3>2
  <2>6. Visits'
    <3> SUFFICES ASSUME NEW c1 \in Controllers, NEW k1 \in Invokers
                 PROVE  /\ k1 < ci'[c1] => closed'[c1][k1]
                        /\ HasCome(c1, k1)' => ipc'[k1] # "bind" /\ Guest(c1, k1)'
                        /\ Guest(c1, k1)' => MayHaveCome(c1, k1)'
      BY Zenon DEF Visits
    <3>1. /\ k1 < ci[c1] => closed[c1][k1]
          /\ HasCome(c1, k1) => ipc[k1] # "bind" /\ Guest(c1, k1)
          /\ Guest(c1, k1) => MayHaveCome(c1, k1)
      BY Zenon DEF WaitInv, Visits
    <3>2. Guest(c1, k1)' <=> Guest(c1, k1)
      BY <1>2 DEF Guest
    <3>3. k1 < ci'[c1] => closed'[c1][k1]
      <4>1. ci[c] = k
        BY DEF k
      <4> QED BY <4>1, <3>1, <2>1, <2>2, <2>3
    <3> QED BY <3>1, <3>2, <3>3, <2>5, <1>2
  <2>7. Asked'
    <3>1. \A c1 \in Controllers : cpc'[c1] = "read" => c1 # c
      BY <2>1
    <3> QED BY <3>1, <2>1, <1>2 DEF WaitInv, Asked
  <2>8. Through'
    BY <2>1, <1>2 DEF WaitInv, Through
  <2> QED BY <2>6, <2>7, <2>8 DEF WaitInv
<1> QED BY <1>2, <1>3, <1>4

\* A controller that ends keeps it: all its connections are closed.
LEMMA WaitContEnds ==
  ASSUME TypeInv, WaitInv, NEW c \in Controllers, ContModifyFails(c) \/ ContCrash(c)
  PROVE  WaitInv'
<1>1. /\ UNCHANGED <<ci, closed, accepted, ipc, toInv, toCont, qp_num, backlog>>
      /\ cpc' = [cpc EXCEPT ![c] = "exit"]
  BY DEF ContModifyFails, ContCrash, invVars, netVars
<1>2. cpc'[c] = "exit" /\ \A c1 \in Controllers : c1 # c => cpc'[c1] = cpc[c1]
  BY <1>1 DEF TypeInv, TypeOK
<1>3. Visits'
  BY <1>1, <1>2, VisitsStand DEF WaitInv
<1>4. Asked'
  BY <1>1, <1>2, AskedStands DEF WaitInv
<1>5. Through'
  BY <1>1, <1>2 DEF WaitInv, Through
<1> QED BY <1>3, <1>4, <1>5 DEF WaitInv

\* An invoker that moves on without touching a connection.
LEMMA WaitInvStands ==
  ASSUME TypeInv, WaitInv, NEW k \in Invokers,
         Listen(k) \/ InvModify(k) \/ InvModifyFails(k) \/ InvCrash(k)
  PROVE  WaitInv'
<1>1. /\ UNCHANGED <<cpc, ci, closed, accepted, toInv, toCont, backlog>>
      /\ DOMAIN ipc = Invokers /\ DOMAIN qp_num = Invokers
  BY DEF Listen, InvModify, InvModifyFails, InvCrash, contVars, netVars, TypeInv, TypeOK
<1>2. \/ ipc[k] = "bind" /\ ipc' = [ipc EXCEPT ![k] = "accept"] /\ qp_num' = qp_num
      \/ ipc[k] = "modify" /\ ipc' = ipc /\ qp_num' = qp_num
      \/ /\ ipc[k] = "modify" /\ qp_num' = [qp_num EXCEPT ![k] = qp_num[k] + 1]
         /\ \E there \in {"mesh", "read"} : ipc' = [ipc EXCEPT ![k] = there]
      \/ ipc' = [ipc EXCEPT ![k] = "exit"] /\ qp_num' = qp_num
  BY DEF Listen, InvModify, InvModifyFails, InvCrash
<1>3. /\ \A k1 \in Invokers : k1 # k => ipc'[k1] = ipc[k1] /\ qp_num'[k1] = qp_num[k1]
      /\ \/ ipc[k] = "bind" /\ ipc'[k] = "accept"
         \/ ipc[k] = "modify" /\ ipc'[k] \in {"modify", "mesh", "read"}
         \/ ipc'[k] = "exit"
  BY <1>1, <1>2
<1>4. Visits'
  <2>1. \A k1 \in Invokers : ipc'[k1] = "bind" => ipc[k1] = "bind"
    BY <1>3
  <2> QED BY <2>1, <1>1, VisitsStand DEF WaitInv
<1>5. Asked'
  <2>1. \A k1 \in Invokers :
           \/ ipc'[k1] = "exit"
           \/ ipc[k1] \notin {"write", "exit"}
           \/ ipc'[k1] = ipc[k1] /\ accepted'[k1] = accepted[k1] /\ qp_num'[k1] = qp_num[k1]
    BY <1>1, <1>3
  <2> QED BY <2>1, <1>1, AskedStands DEF WaitInv
<1>6. Through'
  BY <1>1, <1>3 DEF WaitInv, Through
<1> QED BY <1>4, <1>5, <1>6 DEF WaitInv

\* accept keeps it: the first in the backlog is the invoker's guest.
LEMMA WaitAccept ==
  ASSUME TypeInv, WaitInv, NEW k \in Invokers, Accept(k)
  PROVE  WaitInv'
<1>1. /\ ipc[k] = "accept" /\ backlog[k] # << >> /\ accepted[k] = None
      /\ backlog \in [Invokers -> Seq(Controllers)]
      /\ DOMAIN ipc = Invokers /\ DOMAIN accepted = Invokers
  BY DEF Accept, TypeInv, TypeOK, WaitInv, Through
<1>2. /\ UNCHANGED <<cpc, ci, closed, toInv, toCont, qp_num>>
      /\ accepted' = [accepted EXCEPT ![k] = Head(backlog[k])]
      /\ backlog' = [backlog EXCEPT ![k] = Tail(@)]
      /\ ipc' = [ipc EXCEPT ![k] = "read"]
  BY DEF Accept, contVars
<1>3. /\ ipc'[k] = "read" /\ accepted'[k] = Head(backlog[k]) /\ backlog'[k] = Tail(backlog[k])
      /\ \A k1 \in Invokers : k1 # k => /\ ipc'[k1] = ipc[k1] /\ accepted'[k1] = accepted[k1]
                                        /\ backlog'[k1] = backlog[k1]
  BY <1>1, <1>2
<1>4. \A c1 \in Controllers, k1 \in Invokers : Guest(c1, k1)' <=> Guest(c1, k1)
  <2> SUFFICES ASSUME NEW c1 \in Controllers, NEW k1 \in Invokers
               PROVE  Guest(c1, k1)' <=> Guest(c1, k1)
    OBVIOUS
  <2>1. CASE k1 # k
    BY <2>1, <1>3 DEF Guest
  <2>2. CASE k1 = k
    <3>1. Among(c1, backlog[k]) <=> c1 = Head(backlog[k]) \/ Among(c1, Tail(backlog[k]))
      <4>1. backlog[k] \in Seq(Controllers)
        BY <1>1
      <4> QED BY <4>1, <1>1, AmongTail
    <3>2. accepted[k] # c1
      BY <1>1, ExchangeAssumption DEF Controllers
    <3> QED BY <2>2, <3>1, <3>2, <1>3 DEF Guest
  <2> QED BY <2>1, <2>2
<1>5. Visits'
  <2>1. \A c1 \in Controllers, k1 \in Invokers :
          (HasCome(c1, k1)' <=> HasCome(c1, k1)) /\ (MayHaveCome(c1, k1)' <=> MayHaveCome(c1, k1))
    BY <1>2 DEF HasCome, MayHaveCome
  <2> SUFFICES ASSUME NEW c1 \in Controllers, NEW k1 \in Invokers
               PROVE  /\ k1 < ci'[c1] => closed'[c1][k1]
                      /\ HasCome(c1, k1)' => ipc'[k1] # "bind" /\ Guest(c1, k1)'
                      /\ Guest(c1, k1)' => MayHaveCome(c1, k1)'
    BY Zenon DEF Visits
  <2>2. /\ k1 < ci[c1] => closed[c1][k1]
        /\ HasCome(c1, k1) => ipc[k1] # "bind" /\ Guest(c1, k1)
        /\ Guest(c1, k1) => MayHaveCome(c1, k1)
    BY Zenon DEF WaitInv, Visits
  <2> QED BY <2>1, <2>2, <1>2, <1>3, <1>4
<1>6. Asked'
  <2>1. \A k1 \in Invokers :
           \/ ipc'[k1] = "exit"
           \/ ipc[k1] \notin {"write", "exit"}
           \/ ipc'[k1] = ipc[k1] /\ accepted'[k1] = accepted[k1] /\ qp_num'[k1] = qp_num[k1]
    BY <1>1, <1>2, <1>3
  <2> QED BY <2>1, <1>2, AskedStands DEF WaitInv
<1>7. Through'
  BY <1>2, <1>3 DEF WaitInv, Through
<1> QED BY <1>5, <1>6, <1>7 DEF WaitInv

\* The invoker's read keeps it: what was asked, it now owes.
LEMMA WaitInvRead ==
  ASSUME TypeInv, IInv, WaitInv, NEW k \in Invokers, InvRead(k)
  PROVE  WaitInv'
<1> DEFINE c == accepted[k]
<1>1. /\ ipc[k] = "read" /\ c \in Controllers /\ qp_num[k] \in Nat
      /\ toInv \in [Controllers -> [Invokers -> Seq(ContInfo)]] /\ DOMAIN ipc = Invokers
  <2>1. ipc[k] = "read"
    BY DEF InvRead
  <2>2. qp_num[k] \in Nat
    BY ExchangeAssumption, SMT DEF TypeInv, TypeOK
  <2> QED BY <2>1, <2>2 DEF TypeInv, TypeOK, HasConnection
<1>2. /\ UNCHANGED <<cpc, ci, closed, accepted, toCont, qp_num, backlog>>
      /\ toInv' = [toInv EXCEPT ![c][k] = Rest(@)]
      /\ ipc' = [ipc EXCEPT ![k] = "write"]
  BY DEF InvRead, contVars
<1>3. /\ ipc'[k] = "write" /\ \A k1 \in Invokers : k1 # k => ipc'[k1] = ipc[k1]
      /\ \A c1 \in Controllers, k1 \in Invokers :
           ~(c1 = c /\ k1 = k) => toInv'[c1][k1] = toInv[c1][k1]
  BY <1>1, <1>2
<1>4. qp_num[k] > 0 => toInv[c][k] = << >>
  BY <1>1 DEF IInv, InvokerSide, HasRead
<1>5. Visits'
  <2>1. \A k1 \in Invokers : ipc'[k1] = "bind" => ipc[k1] = "bind"
    BY <1>3
  <2> QED BY <2>1, <1>2, VisitsStand DEF WaitInv
<1>6. Asked'
  <2> SUFFICES ASSUME NEW c1 \in Controllers, NEW k1 \in Invokers, cpc'[c1] = "read", k1 = ci'[c1]
               PROVE  \/ ipc'[k1] = "exit"
                      \/ toInv'[c1][k1] # << >> \/ toCont'[c1][k1] # << >>
                      \/ accepted'[k1] = c1 /\ ipc'[k1] = "write" /\ qp_num'[k1] = 0
    BY Zenon DEF Asked
  <2>1. \/ ipc[k1] = "exit"
        \/ toInv[c1][k1] # << >> \/ toCont[c1][k1] # << >>
        \/ accepted[k1] = c1 /\ ipc[k1] = "write" /\ qp_num[k1] = 0
    BY <1>2 DEF WaitInv, Asked
  <2>2. CASE k1 # k
    BY <2>1, <2>2, <1>2, <1>3
  <2>3. CASE k1 = k /\ c1 # c
    BY <2>1, <2>3, <1>1, <1>2, <1>3
  <2>4. CASE k1 = k /\ c1 = c /\ qp_num[k] = 0
    BY <2>4, <1>2, <1>3
  <2>5. CASE k1 = k /\ c1 = c /\ qp_num[k] > 0
    BY <2>1, <2>5, <1>1, <1>2, <1>4
  <2>6. qp_num[k] = 0 \/ qp_num[k] > 0
    BY <1>1, SMT
  <2> QED BY <2>2, <2>3, <2>4, <2>5, <2>6
<1>7. Through'
  BY <1>2, <1>3 DEF WaitInv, Through
<1> QED BY <1>5, <1>6, <1>7 DEF WaitInv

\* The invoker's write keeps it: what it owed is on its way back.
LEMMA WaitInvWrite ==
  ASSUME TypeInv, IInv, WaitInv, NEW k \in Invokers, InvWrite(k)
  PROVE  WaitInv'
<1> DEFINE c == accepted[k]
<1>1. /\ ipc[k] = "write" /\ c \in Controllers /\ DOMAIN ipc = Invokers
      /\ toCont \in [Controllers -> [Invokers -> Seq(InvInfo)]]
      /\ [from |-> k, qp |-> qp_num[k]] \in InvInfo
  <2>1. ipc[k] = "write"
    BY DEF InvWrite
  <2> QED BY <2>1 DEF TypeInv, TypeOK, HasConnection, InvInfo
<1>2. /\ UNCHANGED <<cpc, ci, closed, accepted, toInv, qp_num, backlog>>
      /\ toCont' = IF ContGone(c, k) THEN toCont
                   ELSE [toCont EXCEPT ![c][k] = Append(@, [from |-> k, qp |-> qp_num[k]])]
      /\ ipc' = [ipc EXCEPT ![k] = "modify"]
  BY DEF InvWrite, contVars
<1>3. ipc'[k] = "modify" /\ \A k1 \in Invokers : k1 # k => ipc'[k1] = ipc[k1]
  BY <1>1, <1>2
<1>4. /\ ~ContGone(c, k) => toCont'[c][k] # << >>
      /\ \A c1 \in Controllers, k1 \in Invokers :
           ~(c1 = c /\ k1 = k) => toCont'[c1][k1] = toCont[c1][k1]
  <2>1. toCont[c][k] \in Seq(InvInfo)
    BY <1>1
  <2>2. Append(toCont[c][k], [from |-> k, qp |-> qp_num[k]]) # << >>
    BY <2>1, <1>1, AppendNotEmpty
  <2>3. CASE ContGone(c, k)
    BY <2>3, <1>2
  <2>4. CASE ~ContGone(c, k)
    <3>1. toCont' = [toCont EXCEPT ![c][k] = Append(@, [from |-> k, qp |-> qp_num[k]])]
      BY <2>4, <1>2
    <3> QED BY <3>1, <2>2, <1>1
  <2> QED BY <2>3, <2>4
<1>5. cpc[c] = "read" /\ ci[c] = k => ~ContGone(c, k)
  <2>1. closed[c][k] => k < ci[c]
    BY <1>1 DEF IInv, ControllerSide
  <2>2. k \in Int
    BY SMT DEF Invokers
  <2> QED BY <2>1, <2>2 DEF ContGone
<1>6. Visits'
  <2>1. \A k1 \in Invokers : ipc'[k1] = "bind" => ipc[k1] = "bind"
    BY <1>3
  <2> QED BY <2>1, <1>2, VisitsStand DEF WaitInv
<1>7. Asked'
  <2> SUFFICES ASSUME NEW c1 \in Controllers, NEW k1 \in Invokers, cpc'[c1] = "read", k1 = ci'[c1]
               PROVE  \/ ipc'[k1] = "exit"
                      \/ toInv'[c1][k1] # << >> \/ toCont'[c1][k1] # << >>
                      \/ accepted'[k1] = c1 /\ ipc'[k1] = "write" /\ qp_num'[k1] = 0
    BY Zenon DEF Asked
  <2>1. \/ ipc[k1] = "exit"
        \/ toInv[c1][k1] # << >> \/ toCont[c1][k1] # << >>
        \/ accepted[k1] = c1 /\ ipc[k1] = "write" /\ qp_num[k1] = 0
    BY <1>2 DEF WaitInv, Asked
  <2>2. CASE k1 # k
    BY <2>1, <2>2, <1>2, <1>3, <1>4
  <2>3. CASE k1 = k /\ c1 # c
    BY <2>1, <2>3, <1>1, <1>2, <1>4
  <2>4. CASE k1 = k /\ c1 = c
    <3>1. cpc[c] = "read" /\ ci[c] = k
      BY <2>4, <1>2
    <3> QED BY <3>1, <2>4, <1>4, <1>5
  <2> QED BY <2>2, <2>3, <2>4
<1>8. Through'
  BY <1>2, <1>3 DEF WaitInv, Through
<1> QED BY <1>6, <1>7, <1>8 DEF WaitInv

\* Who waits for whom is as WaitInv says in every state.
LEMMA WaitInvariant == Spec => []WaitInv
<1>1. Init => WaitInv
  <2> SUFFICES ASSUME Init PROVE WaitInv
    OBVIOUS
  <2>1. \A c \in Controllers, k \in Invokers :
          /\ ~(k < ci[c]) /\ ~HasCome(c, k) /\ ~Guest(c, k)
    <3> SUFFICES ASSUME NEW c \in Controllers, NEW k \in Invokers
                 PROVE  ~(k < ci[c]) /\ ~HasCome(c, k) /\ ~Guest(c, k)
      OBVIOUS
    <3>1. ci[c] = 0 /\ cpc[c] = "connect" /\ accepted[k] = None /\ backlog[k] = << >>
      BY DEF Init
    <3>2. ~(k < 0) /\ None # c
      BY ExchangeAssumption, SMT DEF Invokers, Controllers
    <3>3. ~Among(c, << >>)
      BY DEF Among
    <3> QED BY <3>1, <3>2, <3>3 DEF HasCome, Guest
  <2>2. Visits
    BY <2>1 DEF Visits
  <2>3. Asked /\ Through
    BY DEF Init, Asked, Through
  <2> QED BY <2>2, <2>3 DEF WaitInv
<1>2. ASSUME TypeInv, IInv, WaitInv, Next PROVE WaitInv'
  <2>1. ASSUME NEW c \in Controllers, Controller(c) \/ ContCrash(c) PROVE WaitInv'
    BY <1>2, <2>1, WaitConnect, WaitContWrite, WaitContRead, WaitContModify, WaitContEnds
       DEF Controller
  <2>2. ASSUME NEW k \in Invokers, Invoker(k) \/ InvCrash(k) PROVE WaitInv'
    BY <1>2, <2>2, WaitInvStands, WaitAccept, WaitInvRead, WaitInvWrite DEF Invoker
  <2> QED BY <1>2, <2>1, <2>2 DEF Next
<1>3. ASSUME WaitInv, UNCHANGED vars PROVE WaitInv'
  BY <1>3 DEF vars, contVars, invVars, netVars, WaitInv, Visits, Asked, Through,
       HasCome, MayHaveCome, Guest, Among
<1> QED BY <1>1, <1>2, <1>3, TypeCorrect, ExchangeInvariant, PTL DEF Spec

\* Nobody waits for somebody who waits, however many controllers and invokers there are
\* and whoever ends when (controller.cpp:183-207, invoker.cpp:223-256).
THEOREM NobodyHangsHolds == Spec => []NobodyHangs
<1>1. ASSUME TypeInv, IInv, WaitInv PROVE NobodyHangs
  <2>1. ASSUME NEW c \in Controllers, cpc[c] \notin {"run", "exit"}, ~TurnedAway(c),
               ~ContCanGo(c)
        PROVE  InvCanGo(ci[c])
    <3> DEFINE k == ci[c]
    <3>1. k \in Invokers /\ cpc[c] = "read"
      BY <1>1, <2>1 DEF TypeInv, TypeOK, QpsInTurn, ContCanGo
    <3>2. toCont[c][k] = << >> /\ ipc[k] # "exit"
      BY <2>1, <3>1 DEF ContCanGo, Readable, InvGone
    <3>3. accepted[k] \in {c, None}
      BY <2>1, <3>1 DEF TurnedAway
    <3>4. ipc[k] # "bind" /\ Guest(c, k)
      BY <1>1, <3>1 DEF WaitInv, Visits, HasCome
    <3>5. \/ toInv[c][k] # << >>
          \/ accepted[k] = c /\ ipc[k] = "write" /\ qp_num[k] = 0
      BY <1>1, <3>1, <3>2 DEF WaitInv, Asked
    <3>6. None # c
      BY ExchangeAssumption, SMT DEF Controllers
    <3>7. CASE ipc[k] = "accept"
      <4>1. accepted[k] = None
        BY <1>1, <3>1, <3>7 DEF WaitInv, Through
      <4>2. Among(c, backlog[k])
        BY <4>1, <3>4, <3>6 DEF Guest
      <4>3. backlog[k] # << >>
        BY <4>2 DEF Among
      <4> QED BY <4>3, <3>7 DEF InvCanGo
    <3>8. CASE ipc[k] \in {"read", "write", "modify", "mesh"}
      <4>1. accepted[k] = c
        BY <1>1, <3>1, <3>3, <3>8, ExchangeAssumption DEF TypeInv, HasConnection, Controllers
      <4>2. CASE ipc[k] = "write"
        BY <4>2 DEF InvCanGo
      <4>3. CASE ipc[k] = "read"
        BY <4>1, <4>3, <3>5 DEF InvCanGo, Readable
      <4>4. CASE ipc[k] = "modify"
        <5>1. qp_num[k] \in Controllers
          BY <1>1, <3>1, <4>4 DEF TypeInv, TypeOK
        <5> QED BY <1>1, <3>1, <4>4, <5>1 DEF InvCanGo, TypeInv, QpsInTurn
      <4>5. ipc[k] # "mesh"
        BY <1>1, <3>1, <3>5, <4>1 DEF IInv, InvokerSide, HasRead
      <4> QED BY <3>8, <4>2, <4>3, <4>4, <4>5
    <3> QED BY <1>1, <3>1, <3>2, <3>4, <3>7, <3>8 DEF TypeInv, TypeOK
  <2>2. ASSUME NEW k \in Invokers, ipc[k] \notin {"mesh", "exit"}, ~InvCanGo(k)
        PROVE  \/ ipc[k] = "read" /\ ContCanGo(accepted[k])
               \/ ipc[k] = "accept" /\ \A c \in Controllers : cpc[c] # "run"
    <3>1. ipc[k] \in {"read", "accept"}
      <4>1. ipc[k] = "modify" => iqp[k][qp_num[k]].state # "RTS"
        BY <1>1 DEF TypeInv, TypeOK, QpsInTurn
      <4>2. ipc[k] \in {"bind", "accept", "read", "write", "modify", "mesh", "exit"}
        BY <1>1 DEF TypeInv, TypeOK
      <4> QED BY <2>2, <4>1, <4>2 DEF InvCanGo
    <3>2. CASE ipc[k] = "read"
      <4> DEFINE c == accepted[k]
      <4>1. c \in Controllers
        BY <1>1, <3>2 DEF TypeInv, HasConnection
      <4>2. toInv[c][k] = << >> /\ ~closed[c][k] /\ cpc[c] # "exit"
        BY <2>2, <3>2 DEF InvCanGo, Readable, ContGone
      <4>3. ~(k < ci[c]) /\ MayHaveCome(c, k)
        BY <1>1, <4>1, <4>2 DEF WaitInv, Visits, Guest
      <4>4. k = ci[c] /\ cpc[c] # "connect"
        BY <4>3 DEF MayHaveCome
      <4>5. cpc[c] # "run"
        <5>1. k # NumInvokers
          BY ExchangeAssumption, SMT DEF Invokers
        <5> QED BY <1>1, <4>1, <4>4, <5>1 DEF WaitInv, Through
      <4>6. cpc[c] = "read" => toCont[c][k] # << >>
        BY <1>1, <3>2, <4>1, <4>2, <4>4 DEF WaitInv, Asked
      <4>7. cpc[c] = "modify" => cqp[c][k].state # "RTS"
        BY <1>1, <4>1, <4>4 DEF TypeInv, QpsInTurn
      <4>8. cpc[c] \in {"connect", "write", "read", "modify", "run", "exit"}
        BY <1>1, <4>1 DEF TypeInv, TypeOK
      <4> QED BY <3>2, <4>2, <4>4, <4>5, <4>6, <4>7, <4>8 DEF ContCanGo, Readable
    <3>3. CASE ipc[k] = "accept"
      <4>1. backlog[k] = << >>
        BY <2>2, <3>3 DEF InvCanGo
      <4>2. ASSUME NEW c \in Controllers, cpc[c] = "run" PROVE FALSE
        <5>1. k < ci[c]
          BY <1>1, <4>2, ExchangeAssumption, SMT DEF WaitInv, Through, Invokers
        <5>2. Guest(c, k)
          BY <1>1, <5>1 DEF WaitInv, Visits, HasCome
        <5>3. ~Among(c, backlog[k])
          BY <4>1 DEF Among
        <5>4. accepted[k] = None /\ None # c
          BY <1>1, <3>3, ExchangeAssumption, SMT DEF WaitInv, Through, Controllers
        <5> QED BY <5>2, <5>3, <5>4 DEF Guest
      <4> QED BY <3>3, <4>2
    <3> QED BY <3>1, <3>2, <3>3
  <2> QED BY <2>1, <2>2 DEF NobodyHangs
<1> QED BY <1>1, TypeCorrect, ExchangeInvariant, WaitInvariant, PTL
-----------------------------------------------------------------------------
(***************************************************************************)
(* It comes to an end.  The calls of a process are numbered in the order   *)
(* its loops make them, with the end of the process behind the last; every *)
(* step takes one process to a call with a higher number and leaves the    *)
(* others where they are.                                                  *)
(***************************************************************************)

\* ibv_modify_qp calls made of the three.
Rank(qp) == CASE qp.state = "RESET" -> 0
              [] qp.state = "INIT" -> 1
              [] OTHER -> 2

ContPlace(c) ==
  CASE cpc[c] = "connect" -> 6 * ci[c]
    [] cpc[c] = "write" -> 6 * ci[c] + 1
    [] cpc[c] = "read" -> 6 * ci[c] + 2
    [] cpc[c] = "modify" -> 6 * ci[c] + 3 + Rank(cqp[c][ci[c]])
    [] cpc[c] = "run" -> 6 * NumInvokers
    [] OTHER -> 6 * NumInvokers + 1

InvPlace(k) ==
  CASE ipc[k] = "bind" -> 0
    [] ipc[k] = "accept" -> 1
    [] ipc[k] = "read" -> 5 * qp_num[k] + 2
    [] ipc[k] = "write" -> 5 * qp_num[k] + 3
    [] ipc[k] = "modify" -> 5 * qp_num[k] + 4 + Rank(iqp[k][qp_num[k]])
    [] ipc[k] = "mesh" -> 5 * NumControllers + 2
    [] OTHER -> 5 * NumControllers + 3

PlacesBounded ==
  /\ \A c \in Controllers : ContPlace(c) \in 0 .. 6 * NumInvokers + 1
  /\ \A k \in Invokers : InvPlace(k) \in 0 .. 5 * NumControllers + 3

\* One process goes ahead, the others stay.
StepsAhead ==
  \/ \E c \in Controllers :
       /\ ContPlace(c) < ContPlace(c)'
       /\ \A o \in Controllers \ {c} : ContPlace(o)' = ContPlace(o)
       /\ \A k \in Invokers : InvPlace(k)' = InvPlace(k)
  \/ \E k \in Invokers :
       /\ InvPlace(k) < InvPlace(k)'
       /\ \A o \in Invokers \ {k} : InvPlace(o)' = InvPlace(o)
       /\ \A c \in Controllers : ContPlace(c)' = ContPlace(c)

\* How far a queue pair is up, and that modify_qp brings it one further.
LEMMA RankFacts ==
  ASSUME NEW S, NEW qp \in Qp(S), NEW remote
  PROVE  /\ Rank(qp) \in 0 .. 2
         /\ qp.state # "RTS" =>
              \/ modify_qp(qp, remote).state = "RTS"
              \/ Rank(modify_qp(qp, remote)) = Rank(qp) + 1
BY DEF Rank, Qp, modify_qp

\* The places in terms of the loop variables.
LEMMA ContPlaceFacts ==
  ASSUME TypeInv, NEW c \in Controllers
  PROVE  /\ ci[c] \in Nat
         /\ cpc[c] \in {"connect", "write", "read", "modify"} =>
              /\ ci[c] + 1 <= NumInvokers
              /\ 6 * ci[c] <= ContPlace(c) /\ ContPlace(c) <= 6 * ci[c] + 5
         /\ ContPlace(c) \in 0 .. 6 * NumInvokers + 1
         /\ cpc[c] # "exit" => ContPlace(c) < 6 * NumInvokers + 1
<1>1. /\ ci[c] \in Nat /\ NumInvokers \in Nat
      /\ cpc[c] \in {"connect", "write", "read", "modify", "run", "exit"}
      /\ cpc[c] \notin {"run", "exit"} => ci[c] \in Invokers
  <2>1. ci[c] \in 0 .. NumInvokers
    BY DEF TypeInv, TypeOK
  <2>2. ci[c] \in Nat
    BY <2>1, SMT
  <2> QED BY <2>2, Numbers DEF TypeInv, TypeOK
<1>2. ci[c] \in Invokers => ci[c] + 1 <= NumInvokers
  BY <1>1, SMT DEF Invokers
<1>3. ASSUME cpc[c] = "modify" PROVE Rank(cqp[c][ci[c]]) \in 0 .. 2
  <2>1. cqp[c][ci[c]] \in Qp(InvInfo)
    BY <1>1, <1>3 DEF TypeInv, TypeOK
  <2> QED BY <2>1, RankFacts
<1>4. CASE cpc[c] \in {"connect", "write", "read"}
  <2>1. ContPlace(c) \in {6 * ci[c], 6 * ci[c] + 1, 6 * ci[c] + 2}
    BY <1>4 DEF ContPlace
  <2> QED BY <2>1, <1>1, <1>2, <1>4, SMT
<1>5. CASE cpc[c] = "modify"
  <2>1. ContPlace(c) = 6 * ci[c] + 3 + Rank(cqp[c][ci[c]])
    BY <1>5 DEF ContPlace
  <2> QED BY <2>1, <1>1, <1>2, <1>3, <1>5, SMT
<1>6. CASE cpc[c] = "run"
  <2>1. ContPlace(c) = 6 * NumInvokers
    BY <1>6 DEF ContPlace
  <2> QED BY <2>1, <1>1, <1>6, SMT
<1>7. CASE cpc[c] = "exit"
  <2>1. ContPlace(c) = 6 * NumInvokers + 1
    BY <1>7 DEF ContPlace
  <2> QED BY <2>1, <1>1, <1>7, SMT
<1> QED BY <1>1, <1>4, <1>5, <1>6, <1>7

\* Where an invoker's place lies by its program counter.
LEMMA InvPlaceFacts ==
  ASSUME TypeInv, NEW k \in Invokers
  PROVE  /\ qp_num[k] \in Nat
         /\ ipc[k] \in {"read", "write", "modify"} =>
              /\ qp_num[k] + 1 <= NumControllers
              /\ 5 * qp_num[k] + 2 <= InvPlace(k) /\ InvPlace(k) <= 5 * qp_num[k] + 6
         /\ InvPlace(k) \in 0 .. 5 * NumControllers + 3
         /\ ipc[k] # "exit" => InvPlace(k) < 5 * NumControllers + 3
<1>1. /\ qp_num[k] \in Nat /\ NumControllers \in Nat \ {0}
      /\ ipc[k] \in {"bind", "accept", "read", "write", "modify", "mesh", "exit"}
      /\ ipc[k] \notin {"mesh", "exit"} => qp_num[k] \in Controllers
  <2>1. qp_num[k] \in 0 .. NumControllers
    BY DEF TypeInv, TypeOK
  <2>2. qp_num[k] \in Nat
    BY <2>1, SMT
  <2> QED BY <2>2, Numbers DEF TypeInv, TypeOK
<1>2. qp_num[k] \in Controllers => qp_num[k] + 1 <= NumControllers
  BY <1>1, SMT DEF Controllers
<1>3. ASSUME ipc[k] = "modify" PROVE Rank(iqp[k][qp_num[k]]) \in 0 .. 2
  <2>1. iqp[k][qp_num[k]] \in Qp(ContInfo)
    BY <1>1, <1>3 DEF TypeInv, TypeOK
  <2> QED BY <2>1, RankFacts
<1>4. CASE ipc[k] \in {"bind", "accept"}
  <2>1. InvPlace(k) \in {0, 1}
    BY <1>4 DEF InvPlace
  <2> QED BY <2>1, <1>1, <1>4, SMT
<1>5. CASE ipc[k] \in {"read", "write"}
  <2>1. InvPlace(k) \in {5 * qp_num[k] + 2, 5 * qp_num[k] + 3}
    BY <1>5 DEF InvPlace
  <2> QED BY <2>1, <1>1, <1>2, <1>5, SMT
<1>6. CASE ipc[k] = "modify"
  <2>1. InvPlace(k) = 5 * qp_num[k] + 4 + Rank(iqp[k][qp_num[k]])
    BY <1>6 DEF InvPlace
  <2> QED BY <2>1, <1>1, <1>2, <1>3, <1>6, SMT
<1>7. CASE ipc[k] = "mesh"
  <2>1. InvPlace(k) = 5 * NumControllers + 2
    BY <1>7 DEF InvPlace
  <2> QED BY <2>1, <1>1, <1>7, SMT
<1>8. CASE ipc[k] = "exit"
  <2>1. InvPlace(k) = 5 * NumControllers + 3
    BY <1>8 DEF InvPlace
  <2> QED BY <2>1, <1>1, <1>8, SMT
<1> QED BY <1>1, <1>4, <1>5, <1>6, <1>7, <1>8

\* A step of one process leaves the other processes' places.
LEMMA OthersStay ==
  ASSUME TypeInv
  PROVE  /\ \A c \in Controllers : Controller(c) \/ ContCrash(c) =>
              /\ \A o \in Controllers \ {c} : ContPlace(o)' = ContPlace(o)
              /\ \A k \in Invokers : InvPlace(k)' = InvPlace(k)
         /\ \A k \in Invokers : Invoker(k) \/ InvCrash(k) =>
              /\ \A o \in Invokers \ {k} : InvPlace(o)' = InvPlace(o)
              /\ \A c \in Controllers : ContPlace(c)' = ContPlace(c)
<1>1. ASSUME NEW c \in Controllers, Controller(c) \/ ContCrash(c)
      PROVE  /\ \A o \in Controllers \ {c} : ContPlace(o)' = ContPlace(o)
             /\ \A k \in Invokers : InvPlace(k)' = InvPlace(k)
  <2>1. UNCHANGED <<ipc, qp_num, iqp>>
    BY <1>1 DEF Controller, Connect, ContWrite, ContRead, ContModify, ContModifyFails,
         ContCrash, invVars
  <2>2. \A k \in Invokers : InvPlace(k)' = InvPlace(k)
    BY <2>1 DEF InvPlace
  <2>3. \A o \in Controllers \ {c} : cpc'[o] = cpc[o] /\ ci'[o] = ci[o] /\ cqp'[o] = cqp[o]
    <3>1. DOMAIN cpc = Controllers /\ DOMAIN ci = Controllers /\ DOMAIN cqp = Controllers
      BY DEF TypeInv, TypeOK
    <3> QED BY <3>1, <1>1, Zenon DEF Controller, Connect, ContWrite, ContRead, ContModify,
              ContModifyFails, ContCrash
  <2>4. \A o \in Controllers \ {c} : ContPlace(o)' = ContPlace(o)
    BY <2>3 DEF ContPlace
  <2> QED BY <2>2, <2>4
<1>2. ASSUME NEW k \in Invokers, Invoker(k) \/ InvCrash(k)
      PROVE  /\ \A o \in Invokers \ {k} : InvPlace(o)' = InvPlace(o)
             /\ \A c \in Controllers : ContPlace(c)' = ContPlace(c)
  <2>1. UNCHANGED <<cpc, ci, cqp>>
    BY <1>2 DEF Invoker, Listen, Accept, InvRead, InvWrite, InvModify, InvModifyFails,
         InvCrash, contVars
  <2>2. \A c \in Controllers : ContPlace(c)' = ContPlace(c)
    BY <2>1 DEF ContPlace
  <2>3. \A o \in Invokers \ {k} : ipc'[o] = ipc[o] /\ qp_num'[o] = qp_num[o] /\ iqp'[o] = iqp[o]
    <3>1. DOMAIN ipc = Invokers /\ DOMAIN qp_num = Invokers /\ DOMAIN iqp = Invokers
      BY DEF TypeInv, TypeOK
    <3> QED BY <3>1, <1>2, Zenon DEF Invoker, Listen, Accept, InvRead, InvWrite, InvModify,
              InvModifyFails, InvCrash
  <2>4. \A o \in Invokers \ {k} : InvPlace(o)' = InvPlace(o)
    BY <2>3 DEF InvPlace
  <2> QED BY <2>2, <2>4
<1> QED BY <1>1, <1>2, Zenon

\* Every step of a controller takes it further.
LEMMA ControllerAhead ==
  ASSUME TypeInv, NEW c \in Controllers, Controller(c) \/ ContCrash(c)
  PROVE  ContPlace(c) < ContPlace(c)'
<1>1. /\ ci[c] \in Nat /\ NumInvokers \in Nat
      /\ cpc[c] \in {"connect", "write", "read", "modify"} =>
           /\ ci[c] + 1 <= NumInvokers
           /\ 6 * ci[c] <= ContPlace(c) /\ ContPlace(c) <= 6 * ci[c] + 5
      /\ ContPlace(c) \in 0 .. 6 * NumInvokers + 1
      /\ cpc[c] # "exit" => ContPlace(c) < 6 * NumInvokers + 1
      /\ DOMAIN cpc = Controllers /\ DOMAIN ci = Controllers
  BY ContPlaceFacts, Numbers DEF TypeInv, TypeOK
<1>2. CASE /\ cpc[c] # "exit" /\ cpc' = [cpc EXCEPT ![c] = "exit"]
  <2>1. cpc'[c] = "exit"
    BY <1>1, <1>2
  <2>2. ContPlace(c)' = 6 * NumInvokers + 1
    BY <2>1 DEF ContPlace
  <2> QED BY <2>2, <1>1, <1>2
<1>3. CASE cpc[c] = "connect" /\ ci' = ci /\ cpc' = [cpc EXCEPT ![c] = "write"]
  <2>1. cpc'[c] = "write"
    BY <1>1, <1>3
  <2>2. ContPlace(c) = 6 * ci[c] /\ ContPlace(c)' = 6 * ci[c] + 1
    BY <2>1, <1>3 DEF ContPlace
  <2> QED BY <2>2, <1>1
<1>4. CASE ContWrite(c)
  <2>1. cpc[c] = "write" /\ cpc'[c] = "read" /\ ci' = ci
    BY <1>1, <1>4 DEF ContWrite
  <2>2. ContPlace(c) = 6 * ci[c] + 1 /\ ContPlace(c)' = 6 * ci[c] + 2
    BY <2>1 DEF ContPlace
  <2> QED BY <2>2, <1>1
<1>5. CASE ContRead(c)
  <2>1. cpc[c] = "read" /\ cpc'[c] = "modify" /\ ci' = ci /\ cqp' = cqp
    BY <1>1, <1>5 DEF ContRead
  <2>2. /\ ContPlace(c) = 6 * ci[c] + 2
        /\ ContPlace(c)' = 6 * ci[c] + 3 + Rank(cqp[c][ci[c]])
    BY <2>1 DEF ContPlace
  <2>3. Rank(cqp[c][ci[c]]) \in 0 .. 2
    <3>1. cpc[c] \notin {"run", "exit"} => ci[c] \in Invokers
      BY DEF TypeInv, TypeOK
    <3>2. cqp \in [Controllers -> [Invokers -> Qp(InvInfo)]]
      BY DEF TypeInv, TypeOK
    <3>3. cqp[c][ci[c]] \in Qp(InvInfo)
      BY <2>1, <3>1, <3>2
    <3> QED BY <3>3, RankFacts
  <2> QED BY <2>2, <2>3, <1>1
<1>6. CASE ContModify(c)
  <2> DEFINE k  == ci[c]
             qp == modify_qp(cqp[c][k], ckeys[c][k])
  <2>1. cpc[c] = "modify" /\ ContPlace(c) = 6 * k + 3 + Rank(cqp[c][k])
    BY <1>6 DEF ContModify, ContPlace
  <2>2. /\ k \in Invokers /\ cqp \in [Controllers -> [Invokers -> Qp(InvInfo)]]
        /\ cqp[c][k].state # "RTS"
    BY <2>1 DEF TypeInv, TypeOK, QpsInTurn
  <2>3. /\ cqp[c][k] \in Qp(InvInfo) /\ Rank(cqp[c][k]) \in 0 .. 2
        /\ qp.state = "RTS" \/ Rank(qp) = Rank(cqp[c][k]) + 1
    BY <2>2, RankFacts
  <2>4. cqp' = [cqp EXCEPT ![c][k] = qp]
    BY <1>6 DEF ContModify
  <2>5. CASE qp.state = "RTS"
    <3>1. ci' = [ci EXCEPT ![c] = k + 1]
          /\ cpc' = [cpc EXCEPT ![c] = IF k + 1 = NumInvokers THEN "run" ELSE "connect"]
      BY <1>6, <2>5 DEF ContModify
    <3>2. ci'[c] = k + 1 /\ cpc'[c] = IF k + 1 = NumInvokers THEN "run" ELSE "connect"
      BY <3>1, <1>1
    <3>3. ContPlace(c)' = 6 * (k + 1)
      BY <3>2 DEF ContPlace
    <3> QED BY <3>3, <2>1, <2>3, <1>1
  <2>6. CASE qp.state # "RTS"
    <3>1. ci' = ci /\ cpc' = cpc
      BY <1>6, <2>6 DEF ContModify
    <3>2. cqp'[c][k] = qp
      BY <2>2, <2>4
    <3>3. ContPlace(c)' = 6 * k + 3 + Rank(qp)
      BY <3>1, <3>2, <2>1 DEF ContPlace
    <3> QED BY <3>3, <2>1, <2>3, <2>6, <1>1
  <2> QED BY <2>5, <2>6
<1>7. Connect(c) \/ ContModifyFails(c) \/ ContCrash(c) =>
        \/ cpc[c] # "exit" /\ cpc' = [cpc EXCEPT ![c] = "exit"]
        \/ cpc[c] = "connect" /\ ci' = ci /\ cpc' = [cpc EXCEPT ![c] = "write"]
  BY DEF Connect, ContModifyFails, ContCrash
<1> QED BY <1>2, <1>3, <1>4, <1>5, <1>6, <1>7 DEF Controller

\* Every step of an invoker takes it further.
LEMMA InvokerAhead ==
  ASSUME TypeInv, NEW k \in Invokers, Invoker(k) \/ InvCrash(k)
  PROVE  InvPlace(k) < InvPlace(k)'
<1>1. /\ qp_num[k] \in Nat /\ NumControllers \in Nat
      /\ ipc[k] \in {"read", "write", "modify"} =>
           /\ qp_num[k] + 1 <= NumControllers
           /\ 5 * qp_num[k] + 2 <= InvPlace(k) /\ InvPlace(k) <= 5 * qp_num[k] + 6
      /\ InvPlace(k) \in 0 .. 5 * NumControllers + 3
      /\ ipc[k] # "exit" => InvPlace(k) < 5 * NumControllers + 3
      /\ DOMAIN ipc = Invokers /\ DOMAIN qp_num = Invokers
  BY InvPlaceFacts, Numbers DEF TypeInv, TypeOK
<1>2. CASE ipc[k] # "exit" /\ ipc' = [ipc EXCEPT ![k] = "exit"]
  <2>1. ipc'[k] = "exit"
    BY <1>1, <1>2
  <2>2. InvPlace(k)' = 5 * NumControllers + 3
    BY <2>1 DEF InvPlace
  <2> QED BY <2>2, <1>1, <1>2
<1>3. CASE Listen(k)
  <2>1. ipc[k] = "bind" /\ ipc'[k] = "accept"
    BY <1>1, <1>3 DEF Listen
  <2>2. InvPlace(k) = 0 /\ InvPlace(k)' = 1
    BY <2>1 DEF InvPlace
  <2> QED BY <2>2
<1>4. CASE Accept(k)
  <2>1. ipc[k] = "accept" /\ ipc'[k] = "read" /\ qp_num' = qp_num
    BY <1>1, <1>4 DEF Accept
  <2>2. InvPlace(k) = 1 /\ InvPlace(k)' = 5 * qp_num[k] + 2
    BY <2>1 DEF InvPlace
  <2> QED BY <2>2, <1>1
<1>5. CASE InvRead(k)
  <2>1. ipc[k] = "read" /\ ipc'[k] = "write" /\ qp_num' = qp_num
    BY <1>1, <1>5 DEF InvRead
  <2>2. InvPlace(k) = 5 * qp_num[k] + 2 /\ InvPlace(k)' = 5 * qp_num[k] + 3
    BY <2>1 DEF InvPlace
  <2> QED BY <2>2, <1>1
<1>6. CASE InvWrite(k)
  <2>1. ipc[k] = "write" /\ ipc'[k] = "modify" /\ qp_num' = qp_num /\ iqp' = iqp
    BY <1>1, <1>6 DEF InvWrite
  <2>2. /\ InvPlace(k) = 5 * qp_num[k] + 3
        /\ InvPlace(k)' = 5 * qp_num[k] + 4 + Rank(iqp[k][qp_num[k]])
    BY <2>1 DEF InvPlace
  <2>3. Rank(iqp[k][qp_num[k]]) \in 0 .. 2
    <3>1. ipc[k] \notin {"mesh", "exit"} => qp_num[k] \in Controllers
      BY DEF TypeInv, TypeOK
    <3>2. iqp \in [Invokers -> [Controllers -> Qp(ContInfo)]]
      BY DEF TypeInv, TypeOK
    <3>3. iqp[k][qp_num[k]] \in Qp(ContInfo)
      BY <2>1, <3>1, <3>2
    <3> QED BY <3>3, RankFacts
  <2> QED BY <2>2, <2>3, <1>1
<1>7. CASE InvModify(k)
  <2> DEFINE q  == qp_num[k]
             qp == modify_qp(iqp[k][q], ikeys[k][q])
  <2>1. ipc[k] = "modify" /\ InvPlace(k) = 5 * q + 4 + Rank(iqp[k][q])
    BY <1>7 DEF InvModify, InvPlace
  <2>2. /\ q \in Controllers /\ iqp \in [Invokers -> [Controllers -> Qp(ContInfo)]]
        /\ iqp[k][q].state # "RTS"
    BY <2>1 DEF TypeInv, TypeOK, QpsInTurn
  <2>3. /\ iqp[k][q] \in Qp(ContInfo) /\ Rank(iqp[k][q]) \in 0 .. 2
        /\ qp.state = "RTS" \/ Rank(qp) = Rank(iqp[k][q]) + 1
    BY <2>2, RankFacts
  <2>4. iqp' = [iqp EXCEPT ![k][q] = qp]
    BY <1>7 DEF InvModify
  <2>5. CASE qp.state = "RTS"
    <3>1. qp_num' = [qp_num EXCEPT ![k] = q + 1]
          /\ ipc' = [ipc EXCEPT ![k] = IF q + 1 = NumControllers THEN "mesh" ELSE "read"]
      BY <1>7, <2>5 DEF InvModify
    <3>2. qp_num'[k] = q + 1 /\ ipc'[k] = IF q + 1 = NumControllers THEN "mesh" ELSE "read"
      BY <3>1, <1>1
    <3>3. InvPlace(k)' = 5 * (q + 1) + 2
      BY <3>2 DEF InvPlace
    <3> QED BY <3>3, <2>1, <2>3, <1>1
  <2>6. CASE qp.state # "RTS"
    <3>1. qp_num' = qp_num /\ ipc' = ipc
      BY <1>7, <2>6 DEF InvModify
    <3>2. iqp'[k][q] = qp
      BY <2>2, <2>4
    <3>3. InvPlace(k)' = 5 * q + 4 + Rank(qp)
      BY <3>1, <3>2, <2>1 DEF InvPlace
    <3> QED BY <3>3, <2>1, <2>3, <2>6, <1>1
  <2> QED BY <2>5, <2>6
<1>8. InvModifyFails(k) \/ InvCrash(k) => ipc[k] # "exit" /\ ipc' = [ipc EXCEPT ![k] = "exit"]
  BY DEF InvModifyFails, InvCrash
<1> QED BY <1>2, <1>3, <1>4, <1>5, <1>6, <1>7, <1>8 DEF Invoker

\* The exchange comes to an end: a controller makes at most 6 * NumInvokers + 1 steps and
\* an invoker at most 5 * NumControllers + 3, the end of the process included, and no step
\* takes anybody back (the loops at controller.cpp:168 and invoker.cpp:250).
THEOREM ExchangeEnds == Spec => []PlacesBounded /\ [][StepsAhead]_vars
<1>1. TypeInv => PlacesBounded
  BY ContPlaceFacts, InvPlaceFacts DEF PlacesBounded
<1>2. TypeInv /\ [Next]_vars => [StepsAhead]_vars
  <2> SUFFICES ASSUME TypeInv, Next PROVE StepsAhead
    OBVIOUS
  <2>1. ASSUME NEW c \in Controllers, Controller(c) \/ ContCrash(c) PROVE StepsAhead
    BY <2>1, ControllerAhead, OthersStay, Zenon DEF StepsAhead
  <2>2. ASSUME NEW k \in Invokers, Invoker(k) \/ InvCrash(k) PROVE StepsAhead
    BY <2>2, InvokerAhead, OthersStay, Zenon DEF StepsAhead
  <2> QED BY <2>1, <2>2, Zenon DEF Next
<1> QED BY <1>1, <1>2, TypeCorrect, PTL DEF Spec
=============================================================================
