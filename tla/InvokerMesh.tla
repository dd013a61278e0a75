----------------------------- MODULE InvokerMesh ----------------------------
(***************************************************************************)
(* The second part of Invoker::setup_invoker: every invoker connects to    *)
(* every other, and sends its queue pair information over the connections. *)
(*                                                                         *)
(* An accepted connection is filed under its place in the order of arrival *)
(* (sock_bind_and_accept_multiple), so that server_socks[i] leads to       *)
(* invoker i only if the invokers arrive in the order of their numbers.    *)
(* Sleeps are meant to arrange that, and to have the server listening      *)
(* before anybody connects; so this model keeps time.  A call takes none:  *)
(* time passes only when every invoker sleeps or waits for another.        *)
(*                                                                         *)
(* The invokers begin when the controller is done with them, in the order  *)
(* of their numbers and with gaps the environment chooses.  A process may  *)
(* end at any moment.                                                      *)
(***************************************************************************)
EXTENDS Integers, Sequences, FiniteSetsExt

CONSTANTS
  total_invoker_num,
  QP_START,             \* qp_num after the controllers' queue pairs
  per_inv_sleep_time,   \* 300 ms, in the unit of time
  write_sleep_time,     \* 10 ms
  GAPS,                 \* environment: time from the start of one invoker to the next
  MaxEnds,              \* bound: invokers that are killed
  None,
  Garbage               \* content of a structure nothing was read into

ASSUME MeshAssumption ==
  /\ total_invoker_num \in Nat \ {0, 1}
  /\ QP_START \in Nat
  /\ per_inv_sleep_time \in Nat \ {0}
  /\ write_sleep_time \in Nat
  /\ GAPS \subseteq Nat /\ GAPS # {}
  /\ MaxEnds \in Nat
  /\ None # Garbage

Invokers == 0 .. total_invoker_num - 1
Others(k) == Invokers \ {k}

VARIABLES
  now,
  pc,            \* where setup_invoker is
  wake,          \* the end of the sleep it is in, or of the last one
  i,             \* its loop variable
  cur_sock,      \* connections made
  slot,          \* the loop variable of the accept loop
  inv_sockfd,    \* by number: the invoker connected to
  server_socks,  \* by number: the invoker whose connection was filed there
  qp_num, send_qp_num, sent,
  keys,          \* what was read, by queue pair index
  listening, backlog,    \* at each invoker (external)
  chan,                  \* by the two ends: structures on their way (external)
  killed                 \* invokers that ended of no fault of the code

loopVars == <<pc, wake, i>>
sockVars == <<cur_sock, slot, inv_sockfd, server_socks>>
qpVars == <<qp_num, send_qp_num, sent, keys>>
netVars == <<listening, backlog, chan>>
vars == <<now, loopVars, sockVars, qpVars, netVars, killed>>

\* Variant: everybody sleeps the same time.
sleep_time_same(k) == per_inv_sleep_time

sleep_time(k) == (k + 1) * per_inv_sleep_time

\* Variant: room for one invoker more.
tot_sleep_time_longer == (total_invoker_num + 2) * per_inv_sleep_time

tot_sleep_time == (total_invoker_num + 1) * per_inv_sleep_time

\* peer_inv_ips: the others in the order of the configuration.
peer_inv_ips(k) ==
  [n \in 0 .. total_invoker_num - 2 |-> IF n < k THEN n ELSE n + 1]

\* The head of the loop, iteration n: connect to the others after a sleep, accept
\* in one's own turn, and go on to the exchange at the end.
Turn(k, n) == IF n = total_invoker_num THEN "exchange"
              ELSE IF n # k THEN "connect" ELSE "listen"

\* The sleep at the head of the exchange, turn n: before one's own write.
WriteDelay(k, n) == IF n = k THEN write_sleep_time ELSE 0

\* The sleep that iteration n of the loop begins with, the exchange after the last.
Delay(k, n) == IF Turn(k, n) = "connect" THEN sleep_time(k)
               ELSE IF Turn(k, n) = "exchange" THEN WriteDelay(k, 0) ELSE 0

Init ==
  /\ now = 0
  /\ \E gap \in [1 .. total_invoker_num - 1 -> GAPS] :
       LET start[k \in Invokers] == IF k = 0 THEN 0 ELSE start[k - 1] + gap[k]
       IN  wake = [k \in Invokers |-> start[k] + Delay(k, 0)]
  /\ pc = [k \in Invokers |-> Turn(k, 0)]
  /\ i = [k \in Invokers |-> 0]
  /\ cur_sock = [k \in Invokers |-> 0]
  /\ slot = [k \in Invokers |-> 0]
  /\ inv_sockfd = [k \in Invokers |-> [j \in Invokers |-> None]]
  /\ server_socks = [k \in Invokers |-> [j \in Invokers |-> None]]
  /\ qp_num = [k \in Invokers |-> QP_START]
  /\ send_qp_num = [k \in Invokers |-> QP_START]
  /\ sent = [k \in Invokers |-> 0]
  /\ keys = [k \in Invokers |-> [q \in QP_START .. QP_START + total_invoker_num - 2 |-> None]]
  /\ listening = [k \in Invokers |-> FALSE]
  /\ backlog = [k \in Invokers |-> << >>]
  /\ chan = [k \in Invokers |-> [j \in Invokers |-> << >>]]
  /\ killed = {}

-----------------------------------------------------------------------------
Awake(k) == wake[k] <= now

\* On to iteration n.
GoTo(k, n) ==
  /\ pc' = [pc EXCEPT ![k] = Turn(k, n)]
  /\ wake' = [wake EXCEPT ![k] = now + Delay(k, n)]
  /\ i' = [i EXCEPT ![k] = IF n = total_invoker_num THEN 0 ELSE n]

\* Variant: the sleep after the connection is skipped for every server.
LastBeforeOwnTurnAlways(k) == TRUE

\* The server's next turn is one's own: no sleep after the connection.
LastBeforeOwnTurn(k) == k = i[k] + 1

\* Sleep, connect and sleep again.  A refused connection is error("connect error").
Connect(k) ==
  LET server == peer_inv_ips(k)[cur_sock[k]] IN
  /\ pc[k] = "connect" /\ Awake(k)
  /\ IF listening[server] /\ pc[server] # "exit"
     THEN /\ backlog' = [backlog EXCEPT ![server] = Append(@, k)]
          /\ inv_sockfd' = [inv_sockfd EXCEPT ![k][i[k]] = server]
          /\ cur_sock' = [cur_sock EXCEPT ![k] = @ + 1]
          /\ IF LastBeforeOwnTurn(k)
             THEN GoTo(k, i[k] + 1)
             ELSE /\ pc' = [pc EXCEPT ![k] = "rest"]
                  /\ wake' = [wake EXCEPT ![k] = now + (tot_sleep_time - sleep_time(k))]
                  /\ UNCHANGED i
     ELSE /\ pc' = [pc EXCEPT ![k] = "exit"]
          /\ UNCHANGED <<backlog, inv_sockfd, cur_sock, wake, i>>
  /\ UNCHANGED <<now, slot, server_socks, qpVars, listening, chan, killed>>

RestOver(k) ==
  /\ pc[k] = "rest" /\ Awake(k)
  /\ GoTo(k, i[k] + 1)
  /\ UNCHANGED <<now, sockVars, qpVars, netVars, killed>>

\* sock_bind and listen.
Listen(k) ==
  /\ pc[k] = "listen" /\ Awake(k)
  /\ listening' = [listening EXCEPT ![k] = TRUE]
  /\ pc' = [pc EXCEPT ![k] = "accept"]
  /\ UNCHANGED <<now, wake, i, sockVars, qpVars, backlog, chan, killed>>

\* Variant: the accept loop does not pass over the invoker's own number.
slot_next_any(k) == slot[k]

\* The number the next connection is filed under; one's own is passed over.
slot_next(k) == IF slot[k] = k THEN slot[k] + 1 ELSE slot[k]

Accept(k) ==
  LET j == slot_next(k) IN
  /\ pc[k] = "accept" /\ j < total_invoker_num
  /\ backlog[k] # << >>
  /\ server_socks' = [server_socks EXCEPT ![k][j] = Head(backlog[k])]
  /\ backlog' = [backlog EXCEPT ![k] = Tail(@)]
  /\ slot' = [slot EXCEPT ![k] = j + 1]
  /\ UNCHANGED <<now, loopVars, cur_sock, inv_sockfd, qpVars, listening, chan, killed>>

AcceptEnd(k) ==
  /\ pc[k] = "accept" /\ slot_next(k) = total_invoker_num
  /\ GoTo(k, i[k] + 1)
  /\ UNCHANGED <<now, sockVars, qpVars, netVars, killed>>

-----------------------------------------------------------------------------
\* The exchange: in one's own turn write to every other, each time after a sleep; in
\* the others' turns read.

\* Variant: the loop runs once more.
NextInfoOnceMore(k) ==
  IF i[k] = total_invoker_num
  THEN pc' = [pc EXCEPT ![k] = "done"] /\ UNCHANGED <<i, wake>>
  ELSE /\ i' = [i EXCEPT ![k] = @ + 1]
       /\ wake' = [wake EXCEPT ![k] = now + WriteDelay(k, i[k] + 1)]
       /\ UNCHANGED pc

\* On to the next turn, or out.
NextInfo(k) ==
  IF i[k] + 1 = total_invoker_num
  THEN pc' = [pc EXCEPT ![k] = "done"] /\ UNCHANGED <<i, wake>>
  ELSE /\ i' = [i EXCEPT ![k] = @ + 1]
       /\ wake' = [wake EXCEPT ![k] = now + WriteDelay(k, i[k] + 1)]
       /\ UNCHANGED pc

\* One sock_write_qp_info, over the connection made to invoker j.
Write(k) ==
  LET j == peer_inv_ips(k)[sent[k]] IN
  /\ pc[k] = "exchange" /\ i[k] = k /\ Awake(k)
  /\ chan' = [chan EXCEPT ![k][inv_sockfd[k][j]] =
                Append(@, [from |-> k, qp |-> send_qp_num[k]])]
  /\ send_qp_num' = [send_qp_num EXCEPT ![k] = @ + 1]
  /\ sent' = [sent EXCEPT ![k] = @ + 1]
  /\ IF sent[k] + 1 = total_invoker_num - 1
     THEN NextInfo(k)
     ELSE /\ wake' = [wake EXCEPT ![k] = now + write_sleep_time]
          /\ UNCHANGED <<pc, i>>
  /\ UNCHANGED <<now, sockVars, qp_num, keys, listening, backlog, killed>>

\* What there is to read from invoker p; at its end, nothing but the end.
Readable(k, p) == chan[p][k] # << >> \/ pc[p] = "exit"

\* Variant: what is read is stored, and the index stays.
ReadSameQp(k) ==
  LET p == server_socks[k][i[k]] IN
  /\ pc[k] = "exchange" /\ i[k] # k
  /\ Readable(k, p)
  /\ keys' = [keys EXCEPT ![k][qp_num[k]] =
                IF chan[p][k] # << >> THEN Head(chan[p][k]) ELSE Garbage]
  /\ chan' = [chan EXCEPT ![p][k] = IF @ # << >> THEN Tail(@) ELSE @]
  /\ NextInfo(k)
  /\ UNCHANGED <<now, sockVars, qp_num, send_qp_num, sent, listening, backlog, killed>>

\* One sock_read_qp_info, from the connection filed under i.
Read(k) ==
  LET p == server_socks[k][i[k]] IN
  /\ pc[k] = "exchange" /\ i[k] # k
  /\ Readable(k, p)
  /\ keys' = [keys EXCEPT ![k][qp_num[k]] =
                IF chan[p][k] # << >> THEN Head(chan[p][k]) ELSE Garbage]
  /\ chan' = [chan EXCEPT ![p][k] = IF @ # << >> THEN Tail(@) ELSE @]
  /\ qp_num' = [qp_num EXCEPT ![k] = @ + 1]
  /\ NextInfo(k)
  /\ UNCHANGED <<now, sockVars, send_qp_num, sent, listening, backlog, killed>>

-----------------------------------------------------------------------------
\* Time passes when no invoker can go on, to the end of the next sleep.

\* After a sleep comes the connection, the server's next turn, or a write.
AfterSleep(k) ==
  pc[k] \in {"connect", "rest", "listen"} \/ (pc[k] = "exchange" /\ i[k] = k)

Sleeping(k) == AfterSleep(k) /\ ~Awake(k)

CanGoOn(k) ==
  \/ AfterSleep(k) /\ Awake(k)
  \/ pc[k] = "accept" /\ (backlog[k] # << >> \/ slot_next(k) = total_invoker_num)
  \/ pc[k] = "exchange" /\ i[k] # k /\ Readable(k, server_socks[k][i[k]])

Elapse ==
  /\ \A k \in Invokers : ~CanGoOn(k)
  /\ \E k \in Invokers : Sleeping(k)
  /\ now' = Min({wake[k] : k \in {j \in Invokers : Sleeping(j)}})
  /\ UNCHANGED <<loopVars, sockVars, qpVars, netVars, killed>>

\* An invoker is killed.  Nobody is told: who connects to it is refused, who reads
\* from it finds the end, who waits in accept for it waits on.
Ends(k) ==
  /\ Cardinality(killed) < MaxEnds /\ pc[k] # "exit"
  /\ killed' = killed \cup {k}
  /\ pc' = [pc EXCEPT ![k] = "exit"]
  /\ UNCHANGED <<now, wake, i, sockVars, qpVars, netVars>>

Invoker(k) == Connect(k) \/ RestOver(k) \/ Listen(k) \/ Accept(k) \/ AcceptEnd(k)
              \/ Write(k) \/ Read(k)

Next == Elapse \/ \E k \in Invokers : Invoker(k) \/ Ends(k)

Spec == Init /\ [][Next]_vars

\* Time goes on and so does every invoker that can; none has to end.
FairSpec == Spec /\ WF_vars(Elapse) /\ \A k \in Invokers : WF_vars(Invoker(k))

-----------------------------------------------------------------------------
\* Properties.

Info == [from : Invokers, qp : Nat]

\* Types; an index of a queue pair is within the table while it is used.
TypeOK ==
  /\ now \in Nat
  /\ pc \in [Invokers -> {"connect", "rest", "listen", "accept", "exchange", "done", "exit"}]
  /\ wake \in [Invokers -> Nat]
  /\ i \in [Invokers -> Invokers]
  /\ cur_sock \in [Invokers -> 0 .. total_invoker_num - 1]
  /\ slot \in [Invokers -> 0 .. total_invoker_num]
  /\ inv_sockfd \in [Invokers -> [Invokers -> Invokers \cup {None}]]
  /\ server_socks \in [Invokers -> [Invokers -> Invokers \cup {None}]]
  /\ qp_num \in [Invokers -> QP_START .. QP_START + total_invoker_num - 1]
  /\ send_qp_num \in [Invokers -> QP_START .. QP_START + total_invoker_num - 1]
  /\ sent \in [Invokers -> 0 .. total_invoker_num - 1]
  /\ DOMAIN keys = Invokers
  /\ \A k \in Invokers : \A q \in DOMAIN keys[k] : keys[k][q] \in Info \cup {None, Garbage}
  /\ listening \in [Invokers -> BOOLEAN]
  /\ backlog \in [Invokers -> Seq(Invokers)]
  /\ chan \in [Invokers -> [Invokers -> Seq(Info)]]
  /\ killed \subseteq Invokers

\* An invoker that comes out of accept has filed invoker j's connection under j
\* ("need to connect socket safely", invoker.cpp:313, 321): the sleeps make the order of
\* arrival the order of numbers.  An invoker that ends before it connects shifts the
\* places of those behind it, but then the server does not come out.
PeerOrder ==
  \A k \in Invokers : slot_next(k) = total_invoker_num =>
    \A j \in Others(k) : server_socks[k][j] = j

\* Nobody connects before the server listens: whoever stops with "connect error" came
\* to a server that has ended.
NoneRefused ==
  \A k \in Invokers : pc[k] = "exit" =>
    k \in killed \/ pc[peer_inv_ips(k)[cur_sock[k]]] = "exit"

\* The index of the queue pair invoker k keeps for invoker j.
IndexFor(k, j) == QP_START + (IF j < k THEN j ELSE j - 1)

\* The two tables of every pair agree: what k files for j is what j sent about the
\* queue pair it keeps for k.  One side counts reads, the other counts writes.  Of an
\* invoker that ended, k may have garbage, and does not know.
TablesAgree ==
  \A k \in Invokers : pc[k] = "done" =>
    \A j \in Others(k) :
      \/ keys[k][IndexFor(k, j)] = [from |-> j, qp |-> IndexFor(j, k)]
      \/ keys[k][IndexFor(k, j)] = Garbage /\ pc[j] = "exit"

\* Every invoker comes through, unless one is killed: nobody waits for ever in accept
\* or in read.
AllDone == <>(killed # {} \/ \A k \in Invokers : pc[k] = "done")
=============================================================================
