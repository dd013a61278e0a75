-------------------------- MODULE EventStreamProofs --------------------------
(***************************************************************************)
(* The event stream for every depth of its queues, every number of slots   *)
(* and any number of writes: its types, its queues, the order of its       *)
(* messages and the refinement of the mailbox, and the words they carry;   *)
(* then the same where queue pairs break and processes end (EventLife).    *)
(* The lemmas on single steps ask for Shapes and Batch and not for the     *)
(* whole type invariant, so that the second part can use them.             *)
(***************************************************************************)
EXTENDS EventLife, EventPacing, ImmCodecProofs, SequenceTheorems

-----------------------------------------------------------------------------
\* Facts about one immediate.

\* Slot k of invoker 0 is a slot of the buffer, and where the controller writes it.
LEMMA SlotOfIndex ==
  ASSUME NEW k \in SlotIndexes
  PROVE  /\ 0 \in InvokerIds
         /\ EventOffset(0, k) \in Offsets
         /\ WriteOffset(k) = EventOffset(0, k)
         /\ htonl(encode_imm(0, k)) \in Immediates
         /\ decode_imm(ntohl(htonl(encode_imm(0, k)))) = <<0, k>>
<1>1. 0 \in InvokerIds
  BY LayoutAssumption, SMT DEF InvokerIds
<1>2. decode_imm(ntohl(htonl(encode_imm(0, k)))) = <<0, k>>
  BY PairRoundTrips DEF RoundTrips
<1>3. WriteOffset(k) = EventOffset(0, k)
  BY SlotMeets, <1>2 DEF Meets
<1> QED BY <1>1, <1>2, <1>3 DEF Offsets, Immediates

\* The handler's reading of any immediate that can arrive.
LEMMA ImmediateRead ==
  ASSUME NEW o \in Immediates
  PROVE  \E k \in SlotIndexes : /\ o = htonl(encode_imm(0, k))
                                /\ decode_imm(ntohl(o)) = <<0, k>>
<1>1. PICK k \in SlotIndexes : o = htonl(encode_imm(0, k))
  BY DEF Immediates
<1> QED BY <1>1, SlotOfIndex

\* Smaller is the minimum.
LEMMA SmallerFacts ==
  ASSUME NEW a \in Nat, NEW b \in Nat
  PROVE  /\ Smaller(a, b) \in Nat
         /\ Smaller(a, b) <= a
         /\ Smaller(a, b) <= b
         /\ a # 0 /\ b # 0 => Smaller(a, b) # 0
BY SMT DEF Smaller

\* A sequence is empty when its length is zero.
LEMMA EmptyLen ==
  ASSUME NEW S, NEW s \in Seq(S)
  PROVE  s = << >> <=> Len(s) = 0
<1>1. Len(<< >>) = 0 /\ (s # << >> => Len(s) \in Nat \ {0})
  BY EmptySeq
<1> QED BY <1>1, SMT

\* Cutting a sequence in two keeps every element.
LEMMA SplitLengths ==
  ASSUME NEW S, NEW s \in Seq(S), NEW n \in Nat, n <= Len(s)
  PROVE  /\ SubSeq(s, 1, n) \in Seq(S)
         /\ SubSeq(s, n + 1, Len(s)) \in Seq(S)
         /\ Len(SubSeq(s, 1, n)) = n
         /\ Len(SubSeq(s, n + 1, Len(s))) = Len(s) - n
         /\ \A i \in 1 .. n : SubSeq(s, 1, n)[i] = s[i]
         /\ \A i \in 1 .. Len(s) - n : SubSeq(s, n + 1, Len(s))[i] = s[n + i]
<1>1. Len(s) \in Nat
  BY LenProperties
<1>2. \A i \in 1 .. Len(s) : s[i] \in S
  BY ElementOfSeq
<1>3. /\ \A i \in 1 .. n : s[i] \in S
      /\ \A i \in n + 1 .. Len(s) : s[i] \in S
  BY <1>1, <1>2, SMT
<1>4. /\ SubSeq(s, 1, n) \in Seq(S)
      /\ Len(SubSeq(s, 1, n)) = IF 1 <= n THEN n - 1 + 1 ELSE 0
      /\ \A i \in 1 .. n - 1 + 1 : SubSeq(s, 1, n)[i] = s[1 + i - 1]
  BY <1>3, SubSeqProperties, SMT
<1>5. /\ SubSeq(s, n + 1, Len(s)) \in Seq(S)
      /\ Len(SubSeq(s, n + 1, Len(s))) =
           IF n + 1 <= Len(s) THEN Len(s) - (n + 1) + 1 ELSE 0
      /\ \A i \in 1 .. Len(s) - (n + 1) + 1 :
           SubSeq(s, n + 1, Len(s))[i] = s[n + 1 + i - 1]
  BY <1>1, <1>3, SubSeqProperties, SMT
<1>6. n - 1 + 1 = n /\ Len(s) - (n + 1) + 1 = Len(s) - n
  BY <1>1, SMT
<1> DEFINE a == SubSeq(s, 1, n)
           b == SubSeq(s, n + 1, Len(s))
<1>7. Len(a) = n
  <2> DEFINE la == Len(a)
  <2>1. la = IF 1 <= n THEN n - 1 + 1 ELSE 0
    BY <1>4
  <2> HIDE DEF la
  <2>2. la = n
    BY <2>1, SMT
  <2> QED BY <2>2 DEF la
<1>8. Len(b) = Len(s) - n
  <2> DEFINE lb == Len(b)
  <2>1. lb = IF n + 1 <= Len(s) THEN Len(s) - (n + 1) + 1 ELSE 0
    BY <1>5
  <2> HIDE DEF lb
  <2>2. lb = Len(s) - n
    BY <2>1, <1>1, SMT
  <2> QED BY <2>2 DEF lb
<1>9. \A i \in 1 .. n : a[i] = s[i]
  <2> TAKE i \in 1 .. n
  <2>1. 1 + i - 1 = i
    BY SMT
  <2> QED BY <1>4, <1>6, <2>1
<1>10. \A i \in 1 .. Len(s) - n : b[i] = s[n + i]
  <2> TAKE i \in 1 .. Len(s) - n
  <2>1. n + 1 + i - 1 = n + i
    BY <1>1, SMT
  <2> QED BY <1>5, <1>6, <2>1
<1> QED BY <1>4, <1>5, <1>7, <1>8, <1>9, <1>10

-----------------------------------------------------------------------------
\* Types.

\* Completions are polled after they are raised, and raised after the write ran.
Counts == reaped <= acked /\ acked <= delivered

\* The handler has a completion in hand exactly while it works on one.
Batch == wc # << >> <=> ipc \in {"read", "flush", "repost"}

\* The data, without the places the two threads are at: what the steps need of the
\* types, and what stays true of them when a queue pair breaks or a process ends
\* (the second part).
Shapes ==
  /\ imm \in SlotIndexes
  /\ cbuf \in Content
  /\ posted \in Seq(SlotIndexes)
  /\ reaped \in Nat /\ acked \in Nat /\ reaped <= acked
  /\ sq \in Seq(Delivery)
  /\ delivered \in Nat
  /\ filled \in Nat
  /\ rq \in Nat
  /\ cq \in Seq(Immediates)
  /\ wc \in Seq(Immediates)
  /\ armed \in BOOLEAN
  /\ events \in Nat
  /\ mem \in [Offsets -> Content]
  /\ printed \in Seq(Report)

TypeInv == TypeOK /\ Counts /\ Batch

\* What the type invariant says, in these terms.
LEMMA TypeShapes ==
  TypeInv <=> /\ Shapes /\ acked <= delivered /\ Batch
              /\ cpc \in {"copy", "copying", "post", "poll", "sleep", "exit", "gone"}
              /\ ipc \in {"fill", "get", "arm", "drain", "read", "flush", "repost"}
BY Zenon DEF TypeInv, TypeOK, Counts, Shapes

\* The initial state has the shapes.
LEMMA ShapesInit == Init => Shapes /\ acked <= delivered /\ Batch
<1> SUFFICES ASSUME Init PROVE Shapes /\ acked <= delivered /\ Batch
  OBVIOUS
<1>1. 0 \in SlotIndexes /\ Stale \in Content
  BY LayoutAssumption, SMT DEF SlotIndexes, Content
<1>2. Shapes
  BY <1>1, EmptySeq, SMT DEF Init, Shapes
<1> QED BY <1>2, SMT DEF Init, Batch

\* Steps of the write thread keep them.
LEMMA ShapesController ==
  ASSUME Shapes, Controller
  PROVE  /\ Shapes'
         /\ cpc' \in {"copy", "copying", "post", "poll", "sleep", "exit"}
<1> USE DEF Shapes, vars, controllerVars, wireVars, invokerVars
<1>1. CASE CopyBegin
  BY <1>1, SMT DEF CopyBegin, Content
<1>2. CASE CopyEnd
  BY <1>2, SMT DEF CopyEnd, Content
<1>3. CASE PostWrite
  <2>1. /\ htonl(encode_imm(0, imm)) \in Immediates
        /\ [imm_data |-> htonl(encode_imm(0, imm)), remote_addr |-> WriteOffset(imm)]
             \in Delivery
    BY SlotOfIndex DEF Delivery
  <2>2. sq' \in Seq(Delivery) /\ posted' \in Seq(SlotIndexes)
    BY <1>3, <2>1, AppendProperties DEF PostWrite
  <2> QED BY <1>3, <2>2, SMT DEF PostWrite
<1>4. CASE PostFails
  BY <1>4, SMT DEF PostFails
<1>5. CASE PollSend
  <2>1. acked - reaped \in Nat /\ NUM_WC \in Nat
    BY StreamAssumption, SMT
  <2>2. /\ Smaller(acked - reaped, NUM_WC) \in Nat
        /\ Smaller(acked - reaped, NUM_WC) <= acked - reaped
    BY <2>1, SmallerFacts
  <2>3. imm' \in SlotIndexes
    BY <1>5, LayoutAssumption, SMT DEF PollSend, SlotIndexes
  <2> QED BY <1>5, <2>2, <2>3, SMT DEF PollSend
<1>6. CASE SleepOver
  BY <1>6, SMT DEF SleepOver
<1> QED BY <1>1, <1>2, <1>3, <1>4, <1>5, <1>6 DEF Controller

\* Steps of the connection keep them.
LEMMA ShapesWire ==
  ASSUME Shapes, Wire
  PROVE  Shapes'
<1> USE DEF Shapes, controllerVars, wireVars, invokerVars
<1>1. CASE Deliver
  <2>1. Head(sq) \in Delivery /\ Tail(sq) \in Seq(Delivery)
    BY <1>1, HeadTailProperties DEF Deliver
  <2>2. Head(sq).imm_data \in Immediates
    BY <2>1 DEF Delivery
  <2>3. cq' \in Seq(Immediates)
    BY <1>1, <2>2, AppendProperties DEF Deliver
  <2>4. mem' \in [Offsets -> Content]
    BY <1>1 DEF Deliver
  <2>5. rq' \in Nat /\ events' \in Nat /\ delivered' \in Nat
    BY <1>1, SMT DEF Deliver
  <2> QED BY <1>1, <2>1, <2>3, <2>4, <2>5 DEF Deliver
<1>2. CASE Acknowledge
  BY <1>2, SMT DEF Acknowledge
<1>3. CASE Teardown
  BY <1>3, EmptySeq, SMT DEF Teardown
<1> QED BY <1>1, <1>2, <1>3 DEF Wire

\* Steps of the event thread keep them.
LEMMA ShapesInvoker ==
  ASSUME Shapes, Batch, Invoker
  PROVE  /\ Shapes' /\ Batch'
         /\ ipc' \in {"fill", "get", "arm", "drain", "read", "flush", "repost"}
<1> USE DEF Shapes, Batch, controllerVars, wireVars, invokerVars
<1>1. CASE FillRecv
  BY <1>1, SMT DEF FillRecv
<1>2. CASE GetEvent
  BY <1>2, SMT DEF GetEvent
<1>3. CASE Rearm
  BY <1>3, SMT DEF Rearm
<1>4. CASE Drain
  <2> DEFINE n == Smaller(Len(cq), NUM_WC)
  <2>1. Len(cq) \in Nat /\ NUM_WC \in Nat \ {0}
    BY StreamAssumption, LenProperties
  <2>2. n \in Nat /\ n <= Len(cq)
    BY <2>1, SmallerFacts
  <2> HIDE DEF n
  <2>3. \A i \in 1 .. Len(cq) : cq[i] \in Immediates
    BY ElementOfSeq
  <2>4. /\ \A i \in 1 .. n : cq[i] \in Immediates
        /\ \A i \in n + 1 .. Len(cq) : cq[i] \in Immediates
    BY <2>1, <2>2, <2>3, SMT
  <2>5. /\ SubSeq(cq, 1, n) \in Seq(Immediates)
        /\ Len(SubSeq(cq, 1, n)) = IF 1 <= n THEN n - 1 + 1 ELSE 0
        /\ SubSeq(cq, n + 1, Len(cq)) \in Seq(Immediates)
    BY <2>1, <2>2, <2>4, SubSeqProperties, SMT
  <2>6. SubSeq(cq, 1, n) = << >> <=> Len(SubSeq(cq, 1, n)) = 0
    BY <2>5, EmptyLen, Zenon
  <2>7. /\ wc' = SubSeq(cq, 1, n)
        /\ cq' = SubSeq(cq, n + 1, Len(cq))
        /\ ipc' = IF n = 0 THEN "get" ELSE "read"
        /\ UNCHANGED <<controllerVars, wireVars, filled, rq, armed, events, mem, printed>>
    BY <1>4 DEF Drain, n
  <2>8. wc' = << >> <=> n = 0
    <3> DEFINE l == Len(SubSeq(cq, 1, n))
    <3>1. l = IF 1 <= n THEN n - 1 + 1 ELSE 0
      BY <2>5
    <3> HIDE DEF l
    <3>2. l = 0 <=> n = 0
      BY <3>1, <2>2, SMT
    <3> QED BY <3>2, <2>6, <2>7 DEF l
  <2>9. wc' \in Seq(Immediates) /\ cq' \in Seq(Immediates)
    BY <2>5, <2>7
  <2> QED BY <2>7, <2>8, <2>9
<1>5. CASE ReadSlot
  <2>1. Head(wc) \in Immediates
    BY <1>5, HeadTailProperties DEF ReadSlot
  <2>2. PICK k \in SlotIndexes : decode_imm(ntohl(Head(wc))) = <<0, k>>
    BY <2>1, ImmediateRead
  <2>3. InHand[1] = 0 /\ InHand[2] = k /\ SlotInHand = EventOffset(0, k)
    BY <2>2 DEF InHand, SlotInHand
  <2>4. mem[SlotInHand] \in Content
    BY <2>3, SlotOfIndex
  <2>5. [inv_id |-> InHand[1], index |-> InHand[2], text |-> mem[SlotInHand]] \in Report
    BY <2>3, <2>4, SlotOfIndex DEF Report
  <2>6. printed' \in Seq(Report)
    BY <1>5, <2>5, AppendProperties DEF ReadSlot
  <2> QED BY <1>5, <2>6, SMT DEF ReadSlot
<1>6. CASE FlushSlot
  <2>1. Flushed \in Content
    BY DEF Content
  <2>2. mem' \in [Offsets -> Content]
    BY <1>6, <2>1 DEF FlushSlot
  <2> QED BY <1>6, <2>2 DEF FlushSlot
<1>7. CASE Repost
  <2>1. Tail(wc) \in Seq(Immediates)
    BY <1>7, HeadTailProperties DEF Repost
  <2> QED BY <1>7, <2>1, SMT DEF Repost
<1> QED BY <1>1, <1>2, <1>3, <1>4, <1>5, <1>6, <1>7 DEF Invoker

\* Types, counters and the completion in hand, for every step.
THEOREM TypeCorrect == Spec => []TypeInv
<1>1. Init => TypeInv
  BY ShapesInit, TypeShapes DEF Init
<1>2. TypeInv /\ [Next]_vars => TypeInv'
  <2> SUFFICES ASSUME TypeInv, [Next]_vars PROVE TypeInv'
    OBVIOUS
  <2>0. /\ Shapes /\ acked <= delivered /\ Batch
        /\ cpc \in {"copy", "copying", "post", "poll", "sleep", "exit", "gone"}
        /\ ipc \in {"fill", "get", "arm", "drain", "read", "flush", "repost"}
    BY TypeShapes
  <2> SUFFICES /\ Shapes' /\ (acked <= delivered)' /\ Batch'
               /\ cpc' \in {"copy", "copying", "post", "poll", "sleep", "exit", "gone"}
               /\ ipc' \in {"fill", "get", "arm", "drain", "read", "flush", "repost"}
    BY Zenon DEF TypeInv, TypeOK, Counts, Shapes
  <2>1. CASE Controller
    <3>1. UNCHANGED <<delivered, acked, invokerVars>>
      BY <2>1 DEF Controller, CopyBegin, CopyEnd, PostWrite, PostFails, PollSend, SleepOver,
                  wireVars
    <3>2. UNCHANGED <<wc, ipc>>
      BY <3>1 DEF invokerVars
    <3>3. Shapes' /\ cpc' \in {"copy", "copying", "post", "poll", "sleep", "exit"}
      BY <2>0, <2>1, ShapesController
    <3> QED BY <2>0, <3>1, <3>2, <3>3 DEF Batch
  <2>2. CASE Wire
    <3>1. UNCHANGED <<wc, ipc>> /\ (cpc' = cpc \/ cpc' = "gone")
      BY <2>2 DEF Wire, Deliver, Acknowledge, Teardown, controllerVars, invokerVars
    <3>2. acked' <= delivered'
      BY <2>0, <2>2, SMT DEF Wire, Deliver, Acknowledge, Teardown, Shapes
    <3> QED BY <2>0, <2>2, <3>1, <3>2, ShapesWire DEF Batch
  <2>3. CASE Invoker
    <3>1. UNCHANGED <<cpc, delivered, acked>>
      BY <2>3 DEF Invoker, FillRecv, GetEvent, Rearm, Drain, ReadSlot, FlushSlot, Repost,
                  controllerVars, wireVars
    <3> QED BY <2>0, <2>3, <3>1, ShapesInvoker
  <2>4. CASE UNCHANGED vars
    BY <2>0, <2>4 DEF vars, controllerVars, wireVars, invokerVars, Shapes, Batch
  <2> QED BY <2>1, <2>2, <2>3, <2>4 DEF Next
<1> QED BY <1>1, <1>2, PTL DEF Spec

\* The type invariant the runs check, for every value of the constants.
THEOREM TypesHold == Spec => []TypeOK
<1>1. TypeInv => TypeOK
  BY DEF TypeInv
<1> QED BY <1>1, TypeCorrect, PTL

-----------------------------------------------------------------------------
\* No lost wakeup.

\* Except between taking an event and re-arming, the queue is armed or an event is
\* waiting; and the thread goes to sleep on an armed queue only if it is empty.
Arming ==
  /\ ipc # "arm" => armed \/ events > 0
  /\ ipc \in {"fill", "get"} /\ armed => cq = << >>

\* Arming is kept by every step.
LEMMA ArmingStep == TypeInv /\ Arming /\ [Next]_vars => Arming'
<1> SUFFICES ASSUME TypeInv, Arming, [Next]_vars PROVE Arming'
  OBVIOUS
<1>t. /\ ipc \in {"fill", "get", "arm", "drain", "read", "flush", "repost"}
      /\ events \in Nat /\ armed \in BOOLEAN /\ cq \in Seq(Immediates)
  BY DEF TypeInv, TypeOK
<1> USE DEF Arming
<1>1. CASE Controller \/ Acknowledge \/ Teardown
  <2>1. UNCHANGED invokerVars
    BY <1>1 DEF Controller, CopyBegin, CopyEnd, PostWrite, PostFails, PollSend, SleepOver,
                Acknowledge, Teardown
  <2> QED BY <2>1 DEF invokerVars
<1>2. CASE Deliver
  <2>1. /\ ipc' = ipc /\ armed' = FALSE
        /\ events' = IF armed THEN events + 1 ELSE events
    BY <1>2 DEF Deliver
  <2> QED BY <2>1, <1>t, SMT
<1>3. CASE FillRecv
  BY <1>3, <1>t DEF FillRecv
<1>4. CASE GetEvent
  BY <1>4 DEF GetEvent
<1>5. CASE Rearm
  BY <1>5 DEF Rearm
<1>6. CASE Drain
  <2> DEFINE n == Smaller(Len(cq), NUM_WC)
  <2>1. /\ ipc = "drain" /\ armed' = armed /\ events' = events
        /\ cq' = SubSeq(cq, n + 1, Len(cq))
        /\ ipc' = IF n = 0 THEN "get" ELSE "read"
    BY <1>6 DEF Drain
  <2>2. ASSUME n = 0 PROVE cq' = << >>
    <3>1. Len(cq) \in Nat /\ NUM_WC \in Nat \ {0}
      BY <1>t, StreamAssumption, LenProperties
    <3>2. Len(cq) = 0
      BY <2>2, <3>1, SMT DEF Smaller
    <3>3. SubSeq(cq, 1, 0) = << >>
      BY SubSeqEmpty, SMT
    <3> QED BY <2>1, <2>2, <3>2, <3>3, SMT
  <2> HIDE DEF n
  <2> QED BY <2>1, <2>2
<1>7. CASE ReadSlot \/ FlushSlot \/ Repost
  <2>1. /\ ipc' \notin {"arm", "fill", "get"} /\ ipc # "arm"
        /\ armed' = armed /\ events' = events
    BY <1>7 DEF ReadSlot, FlushSlot, Repost
  <2> QED BY <2>1
<1>8. CASE UNCHANGED vars
  BY <1>8 DEF vars, invokerVars
<1> QED BY <1>1, <1>2, <1>3, <1>4, <1>5, <1>6, <1>7, <1>8 DEF Next, Wire, Invoker

\* The event thread never waits for an event with a completion in the queue and
\* no event to come (invoker.cpp:137-200).
THEOREM NoLostWakeupHolds == Spec => []NoLostWakeup
<1>1. Init => Arming
  BY DEF Init, Arming
<1>2. TypeInv /\ Arming => NoLostWakeup
  BY DEF Arming, NoLostWakeup, TypeInv, TypeOK
<1> QED BY <1>1, <1>2, ArmingStep, TypeCorrect, PTL DEF Spec

-----------------------------------------------------------------------------
\* Receives.

\* Receives the adapter or the handler has.
Outstanding == rq + Len(cq) + Len(wc)

\* Sums that differ in one term.
LEMMA SumsCancel ==
  ASSUME NEW a \in Nat, NEW b \in Nat, NEW c \in Nat, a + b = b + c
  PROVE  a = c
BY SMT

\* A delivery and the steps of the event thread move a receive from one place to the
\* next; only the initial loop adds one.
LEMMA ReceivesMoved ==
  ASSUME Shapes, Batch, Deliver \/ Invoker
  PROVE  /\ Outstanding \in Nat /\ Outstanding' \in Nat
         /\ filled \in Nat /\ filled' \in Nat
         /\ Outstanding' + filled = Outstanding + filled'
<1>t. /\ rq \in Nat /\ filled \in Nat /\ cq \in Seq(Immediates) /\ wc \in Seq(Immediates)
      /\ sq \in Seq(Delivery)
      /\ Len(cq) \in Nat /\ Len(wc) \in Nat
  BY LenProperties DEF Shapes
<1> USE DEF Outstanding
<1>1. CASE Deliver
  <2>1. Head(sq).imm_data \in Immediates
    <3>1. Head(sq) \in Delivery
      BY <1>1, <1>t, HeadTailProperties DEF Deliver
    <3> QED BY <3>1 DEF Delivery
  <2>2. Len(cq') = Len(cq) + 1
    BY <1>1, <1>t, <2>1, AppendProperties DEF Deliver
  <2>3. /\ rq > 0 /\ rq' = rq - 1 /\ UNCHANGED <<wc, filled>>
    BY <1>1 DEF Deliver
  <2> QED BY <1>t, <2>2, <2>3, SMT
<1>2. CASE FillRecv
  <2>1. rq' = rq + 1 /\ filled' = filled + 1 /\ UNCHANGED <<cq, wc>>
    BY <1>2 DEF FillRecv
  <2> QED BY <1>t, <2>1, SMT
<1>3. CASE GetEvent \/ Rearm \/ ReadSlot \/ FlushSlot
  <2>1. UNCHANGED <<rq, cq, wc, filled>>
    BY <1>3 DEF GetEvent, Rearm, ReadSlot, FlushSlot
  <2> QED BY <1>t, <2>1, SMT
<1>4. CASE Drain
  <2> DEFINE n == Smaller(Len(cq), NUM_WC)
  <2>1. /\ UNCHANGED <<rq, filled>>
        /\ wc' = SubSeq(cq, 1, n)
        /\ cq' = SubSeq(cq, n + 1, Len(cq))
    BY <1>4 DEF Drain
  <2>2. n \in Nat /\ n <= Len(cq)
    BY <1>t, StreamAssumption, SmallerFacts
  <2> HIDE DEF n
  <2>3. Len(wc') = n /\ Len(cq') = Len(cq) - n
    BY <1>t, <2>1, <2>2, SplitLengths
  <2>4. Len(wc) = 0
    BY <1>4, EmptyLen, <1>t DEF Drain, Batch
  <2>5. rq' = rq /\ filled' = filled
    BY <2>1
  <2> QED BY <1>t, <2>2, <2>3, <2>4, <2>5, SMT
<1>5. CASE Repost
  <2>1. wc # << >> /\ rq' = rq + 1 /\ wc' = Tail(wc) /\ UNCHANGED <<cq, filled>>
    BY <1>5 DEF Repost, Batch
  <2>2. Len(wc') = Len(wc) - 1 /\ Len(wc) # 0
    BY <2>1, <1>t, HeadTailProperties, EmptyLen
  <2>3. rq' = rq + 1 /\ cq' = cq /\ filled' = filled
    BY <2>1
  <2> QED BY <1>t, <2>2, <2>3, SMT
<1> QED BY <1>1, <1>2, <1>3, <1>4, <1>5 DEF Invoker

\* All of them are the ones posted, and the first loop posts RECV_DEPTH.
Receives ==
  /\ Outstanding = filled
  /\ filled <= RECV_DEPTH
  /\ ipc = "fill" => filled < RECV_DEPTH
  /\ ipc # "fill" => filled = RECV_DEPTH

\* Receives is kept by every step.
LEMMA ReceivesStep == TypeInv /\ Receives /\ [Next]_vars => Receives'
<1> SUFFICES ASSUME TypeInv, Receives, [Next]_vars PROVE Receives'
  OBVIOUS
<1>t. /\ Shapes /\ Batch /\ filled \in Nat /\ RECV_DEPTH \in Nat
  BY StreamAssumption, TypeShapes DEF Shapes
<1> USE DEF Receives
<1>1. CASE Controller \/ Acknowledge \/ Teardown \/ UNCHANGED vars
  <2>1. UNCHANGED invokerVars
    BY <1>1 DEF Controller, CopyBegin, CopyEnd, PostWrite, PostFails, PollSend, SleepOver,
                Acknowledge, Teardown, vars
  <2> QED BY <2>1 DEF invokerVars, Outstanding
<1>2. CASE FillRecv
  <2>1. /\ ipc = "fill" /\ filled' = filled + 1
        /\ ipc' = IF filled' = RECV_DEPTH THEN "get" ELSE "fill"
    BY <1>2 DEF FillRecv
  <2>2. Outstanding' = filled'
    BY <1>t, <1>2, ReceivesMoved, SumsCancel, Zenon DEF Invoker
  <2>3. /\ filled' <= RECV_DEPTH
        /\ ipc' = "fill" => filled' < RECV_DEPTH
        /\ ipc' # "fill" => filled' = RECV_DEPTH
    BY <1>t, <2>1, SMT
  <2> QED BY <2>2, <2>3
<1>3. CASE Deliver \/ GetEvent \/ Rearm \/ Drain \/ ReadSlot \/ FlushSlot \/ Repost
  <2>1. filled' = filled /\ (ipc' = ipc \/ (ipc # "fill" /\ ipc' # "fill"))
    BY <1>3 DEF Deliver, GetEvent, Rearm, Drain, ReadSlot, FlushSlot, Repost
  <2>2. Outstanding' = filled'
    BY <1>t, <1>3, ReceivesMoved, SumsCancel, Zenon DEF Invoker
  <2> QED BY <2>1, <2>2
<1> QED BY <1>1, <1>2, <1>3 DEF Next, Wire, Invoker

\* They are accounted for at every moment of every run.
LEMMA ReceivesHold == Spec => []Receives
<1>1. Init => Receives
  <2> SUFFICES ASSUME Init PROVE Receives
    OBVIOUS
  <2>1. Len(<< >>) = 0 /\ RECV_DEPTH \in Nat \ {0}
    BY EmptySeq, StreamAssumption
  <2> QED BY <2>1, SMT DEF Init, Receives, Outstanding
<1> QED BY <1>1, ReceivesStep, TypeCorrect, PTL DEF Spec

\* Neither the receive queue nor the completion queue outgrows what the initial
\* loop posted, whatever the depth (invoker.cpp:129-134, 178-181).
THEOREM ReceivesConservedHolds == Spec => []ReceivesConserved
<1>1. TypeInv /\ Receives => ReceivesConserved
  <2> SUFFICES ASSUME TypeInv, Receives PROVE ReceivesConserved
    OBVIOUS
  <2>1. /\ rq \in Nat /\ Len(cq) \in Nat /\ Len(wc) \in Nat /\ filled \in Nat
        /\ RECV_DEPTH \in Nat /\ MAX_RECV_WR \in Nat /\ RECV_DEPTH <= MAX_RECV_WR
    BY StreamAssumption, LenProperties DEF TypeInv, TypeOK
  <2>2. ipc = "repost" => Len(wc) # 0
    BY EmptyLen DEF TypeInv, Batch, TypeOK
  <2> QED BY <2>1, <2>2, SMT DEF Receives, Outstanding, ReceivesConserved
<1> QED BY <1>1, ReceivesHold, TypeCorrect, PTL

-----------------------------------------------------------------------------
\* The send queue.

\* The history variables restrict nothing: a run with them is a run of the stream.
LEMMA PacedIsStream == PacedSpec => Spec
<1>1. PacedInit => Init
  BY DEF PacedInit
<1>2. [PacedNext]_pacedVars => [Next]_vars
  BY Zenon DEF PacedNext, PacedDeliver, PacedSleepOver, PacedOther, pacedVars, Next, Controller, Wire
<1> QED BY <1>1, <1>2, PTL DEF PacedSpec, Spec

\* How far the connection and the polling may be behind the posting, at each point
\* of the write loop.
Pacing ==
  /\ lag \in Nat
  /\ cpc \in {"exit", "gone"} => lag + 2 > MAX_SEND_WR
  /\ cpc \in {"copy", "copying", "post"} => /\ Len(posted) - acked <= lag
                                            /\ Len(posted) - reaped <= lag + 1
  /\ cpc = "poll" => /\ Len(posted) - acked <= lag + 1
                     /\ Len(posted) - reaped <= lag + 2
  /\ cpc = "sleep" => /\ Len(posted) - acked <= lag + 1
                      /\ Len(posted) - reaped <= lag + 1

\* Pacing is kept by every step.
LEMMA PacingStep == TypeInv /\ Pacing /\ [PacedNext]_pacedVars => Pacing'
<1> SUFFICES ASSUME TypeInv, Pacing, [PacedNext]_pacedVars PROVE Pacing'
  OBVIOUS
<1>t. /\ reaped \in Nat /\ acked \in Nat /\ delivered \in Nat
      /\ reaped <= acked /\ posted \in Seq(SlotIndexes) /\ Len(posted) \in Nat
      /\ lag \in Nat /\ MAX_SEND_WR \in Nat /\ NUM_WC \in Nat \ {0}
  BY StreamAssumption, LenProperties DEF TypeInv, TypeOK, Counts, Pacing
<1> USE DEF Pacing
<1>1. CASE PacedOther /\ (CopyBegin \/ CopyEnd)
  BY <1>1 DEF PacedOther, CopyBegin, CopyEnd, wireVars, pacingVars
<1>2. CASE PacedOther /\ PostWrite
  <2>1. Len(posted') = Len(posted) + 1
    BY <1>2, AppendProperties DEF PostWrite, TypeInv, TypeOK
  <2>2. cpc = "post" /\ cpc' = "poll" /\ reaped' = reaped /\ acked' = acked /\ lag' = lag
    BY <1>2 DEF PostWrite, PacedOther, pacingVars
  <2> QED BY <1>t, <2>1, <2>2, SMT
<1>3. CASE PacedOther /\ PostFails
  <2>1. /\ cpc = "post" /\ ~(Len(posted) - reaped < MAX_SEND_WR)
        /\ cpc' = "exit" /\ lag' = lag
    BY <1>3 DEF PostFails, SendRoom, PacedOther, pacingVars
  <2> QED BY <1>t, <2>1, SMT
<1>4. CASE PacedOther /\ PollSend
  <2>1. /\ cpc = "poll" /\ cpc' = "sleep" /\ posted' = posted /\ acked' = acked /\ lag' = lag
        /\ reaped' = reaped + Smaller(acked - reaped, NUM_WC)
    BY <1>4 DEF PollSend, wireVars, PacedOther, pacingVars
  <2>2. reaped' = acked \/ reaped' = reaped + NUM_WC
    BY <1>t, <2>1, SMT DEF Smaller
  <2> QED BY <1>t, <2>1, <2>2, SMT
<1>5. CASE PacedSleepOver
  <2>1. /\ cpc = "sleep" /\ cpc' = "copy"
        /\ posted' = posted /\ acked' = acked /\ reaped' = reaped
        /\ lag' = IF Len(posted) - acked > lag THEN Len(posted) - acked ELSE lag
    BY <1>5 DEF PacedSleepOver, SleepOver, wireVars
  <2>2. lag' \in Nat /\ lag' >= lag /\ Len(posted) - acked <= lag'
    BY <1>t, <2>1, SMT
  <2> QED BY <1>t, <2>1, <2>2, SMT
<1>6. CASE (PacedOther /\ Invoker) \/ PacedDeliver
  <2>1. UNCHANGED <<cpc, posted, reaped, acked, lag>>
    BY <1>6 DEF Invoker, FillRecv, GetEvent, Rearm, Drain, ReadSlot, FlushSlot, Repost,
                PacedDeliver, Deliver, controllerVars, wireVars, PacedOther, pacingVars
  <2> QED BY <2>1
<1>7. CASE PacedOther /\ Acknowledge
  <2>1. UNCHANGED <<cpc, posted, reaped, lag>> /\ acked' = acked + 1
    BY <1>7 DEF Acknowledge, controllerVars, PacedOther, pacingVars
  <2> QED BY <1>t, <2>1, SMT
<1>8. CASE PacedOther /\ Teardown
  <2>1. UNCHANGED <<lag, posted, acked, reaped>> /\ cpc = "exit" /\ cpc' = "gone"
    BY <1>8 DEF Teardown, PacedOther, pacingVars
  <2> QED BY <2>1
<1>9. CASE UNCHANGED pacedVars
  BY <1>9 DEF pacedVars, pacingVars, vars, controllerVars, wireVars
<1> QED BY <1>1, <1>2, <1>3, <1>4, <1>5, <1>6, <1>7, <1>8, <1>9, Zenon DEF PacedNext, PacedOther

\* The controller stops with "write failure" only after a sleep that ended with all but
\* one place of the send queue full of unacknowledged writes, for every depth of the
\* queue and every number of completions to a poll (controller.cpp:135-146).
THEOREM WritesNeverRefusedHolds == PacedSpec => []WritesNeverRefused
<1>1. PacedInit => Pacing
  <2> SUFFICES ASSUME PacedInit PROVE Pacing
    OBVIOUS
  <2>1. Len(<< >>) = 0
    BY EmptySeq
  <2> QED BY <2>1, SMT DEF PacedInit, Init, Pacing
<1>2. Pacing => WritesNeverRefused
  BY DEF Pacing, WritesNeverRefused
<1> QED BY <1>1, <1>2, PacingStep, PacedIsStream, TypeCorrect, PTL DEF PacedSpec

-----------------------------------------------------------------------------
(***************************************************************************)
(* The stream implements the mailbox, for every value of the constants: no *)
(* message is lost, repeated or reported out of order.                     *)
(*                                                                         *)
(* The argument follows a message through the four places it can be in     *)
(* (send queue, completion queue, the batch of the last poll, the printed  *)
(* log): put one after the other, in that order, they are the writes       *)
(* posted.                                                                 *)
(***************************************************************************)

Wire_imm(k) == htonl(encode_imm(0, k))

\* Messages the handler has finished with: printed, flushed and reposted.
Done == Len(printed) - (IF ipc \in {"flush", "repost"} THEN 1 ELSE 0)

\* The messages that reached the invoker: each place continues where the one before
\* it ends.
PrintedInOrder == \A j \in 1 .. Len(printed) : printed[j].index = posted[j]
                                               /\ printed[j].inv_id = 0
BatchInOrder == \A j \in 1 .. Len(wc) : wc[j] = Wire_imm(posted[Done + j])
QueueInOrder == \A j \in 1 .. Len(cq) : cq[j] = Wire_imm(posted[Done + Len(wc) + j])

Places ==
  /\ ipc \in {"flush", "repost"} => Len(printed) > 0
  /\ Done + Len(wc) + Len(cq) = delivered
  /\ delivered <= Len(posted)

Received == Places /\ PrintedInOrder /\ BatchInOrder /\ QueueInOrder

\* Those on their way: the rest, until the controller is gone.
SendsInOrder ==
  \A j \in 1 .. Len(sq) : sq[j] = [imm_data    |-> Wire_imm(posted[delivered + j]),
                                   remote_addr |-> WriteOffset(posted[delivered + j])]

Sends ==
  /\ delivered + Len(sq) <= Len(posted)
  /\ cpc # "gone" => delivered + Len(sq) = Len(posted)
  /\ SendsInOrder

InOrder == Received /\ Sends

-----------------------------------------------------------------------------
\* Every length is a natural number.
LEMMA Lengths ==
  ASSUME Shapes
  PROVE  /\ Len(posted) \in Nat /\ Len(sq) \in Nat /\ Len(cq) \in Nat /\ Len(wc) \in Nat
         /\ Len(printed) \in Nat /\ delivered \in Nat
BY LenProperties DEF Shapes

\* So is the number of messages finished with, and nothing printed is past the batch.
LEMMA Bounds ==
  ASSUME Shapes, Batch, Places
  PROVE  /\ Len(posted) \in Nat /\ Len(sq) \in Nat /\ Len(cq) \in Nat /\ Len(wc) \in Nat
         /\ Len(printed) \in Nat /\ delivered \in Nat /\ Done \in Nat
         /\ Len(printed) <= Done + Len(wc)
         /\ ipc \notin {"flush", "repost"} => Done = Len(printed)
         /\ ipc \in {"flush", "repost"} => Done = Len(printed) - 1
<1>1. /\ Len(posted) \in Nat /\ Len(sq) \in Nat /\ Len(cq) \in Nat /\ Len(wc) \in Nat
      /\ Len(printed) \in Nat /\ delivered \in Nat
  BY Lengths
<1>2. ipc \in {"flush", "repost"} => Len(wc) # 0
  BY EmptyLen DEF Shapes, Batch
<1>3. /\ ipc \notin {"flush", "repost"} => Done = Len(printed)
      /\ ipc \in {"flush", "repost"} => Done = Len(printed) - 1
  BY <1>1, SMT DEF Done
<1> QED BY <1>1, <1>2, <1>3, SMT DEF Places

\* Appending keeps the elements there are.
LEMMA AppendKeeps ==
  ASSUME NEW S, NEW s \in Seq(S), NEW e \in S
  PROVE  /\ Len(s) \in Nat
         /\ Append(s, e) \in Seq(S)
         /\ Len(Append(s, e)) = Len(s) + 1
         /\ \A j \in 1 .. Len(s) : Append(s, e)[j] = s[j]
         /\ Append(s, e)[Len(s) + 1] = e
BY AppendProperties, LenProperties

\* A write just posted is one more that has not arrived.
LEMMA PostReceived ==
  ASSUME Shapes, Batch, Received, PostWrite
  PROVE  Received'
<1> DEFINE L == Len(posted)
<1>b. /\ L \in Nat /\ Len(cq) \in Nat /\ Len(wc) \in Nat
      /\ Len(printed) \in Nat /\ delivered \in Nat /\ Done \in Nat
      /\ Len(printed) <= Done + Len(wc)
  BY Bounds DEF Received
<1>1. /\ posted' = Append(posted, imm)
      /\ UNCHANGED <<ipc, printed, wc, cq, delivered>>
  BY DEF PostWrite, invokerVars
<1>2. /\ Len(posted') = L + 1
      /\ \A j \in 1 .. L : posted'[j] = posted[j]
  BY <1>1, AppendKeeps DEF Shapes
<1>3. Done' = Done
  BY <1>1 DEF Done
<1>4. /\ ipc \in {"flush", "repost"} => Len(printed) > 0
      /\ Done + Len(wc) + Len(cq) = delivered /\ delivered <= L
  BY DEF Received, Places
<1>5. Places'
  <2>1. delivered <= Len(posted')
    BY <1>b, <1>2, <1>4, SMT
  <2>2. /\ Len(printed') = Len(printed) /\ Len(wc') = Len(wc) /\ Len(cq') = Len(cq)
        /\ ipc' = ipc /\ delivered' = delivered
    BY <1>1
  <2> QED BY <1>3, <1>4, <2>1, <2>2 DEF Places
<1>6. PrintedInOrder'
  <2> SUFFICES ASSUME NEW j \in 1 .. Len(printed)
               PROVE  printed[j].index = posted'[j] /\ printed[j].inv_id = 0
    BY <1>1 DEF PrintedInOrder
  <2>1. j \in 1 .. L
    BY <1>b, <1>4, SMT
  <2> QED BY <2>1, <1>2 DEF Received, PrintedInOrder
<1>7. BatchInOrder'
  <2> SUFFICES ASSUME NEW j \in 1 .. Len(wc) PROVE wc[j] = Wire_imm(posted'[Done + j])
    BY <1>1, <1>3 DEF BatchInOrder, Wire_imm
  <2>1. Done + j \in 1 .. L
    BY <1>b, <1>4, SMT
  <2> QED BY <2>1, <1>2 DEF Received, BatchInOrder
<1>8. QueueInOrder'
  <2> SUFFICES ASSUME NEW j \in 1 .. Len(cq)
               PROVE  cq[j] = Wire_imm(posted'[Done + Len(wc) + j])
    BY <1>1, <1>3 DEF QueueInOrder, Wire_imm
  <2>1. Done + Len(wc) + j \in 1 .. L
    BY <1>b, <1>4, SMT
  <2> QED BY <2>1, <1>2 DEF Received, QueueInOrder
<1> QED BY <1>5, <1>6, <1>7, <1>8 DEF Received

\* It goes to the end of the send queue.
LEMMA PostSends ==
  ASSUME Shapes, Sends, PostWrite
  PROVE  Sends'
<1> DEFINE r == [imm_data |-> Wire_imm(imm), remote_addr |-> WriteOffset(imm)]
           L == Len(posted)
<1>b. L \in Nat /\ Len(sq) \in Nat /\ delivered \in Nat
  BY Lengths
<1>1. /\ cpc = "post" /\ posted' = Append(posted, imm) /\ sq' = Append(sq, r)
      /\ delivered' = delivered
  BY DEF PostWrite, Wire_imm
<1>2. /\ Len(posted') = L + 1
      /\ \A j \in 1 .. L : posted'[j] = posted[j]
      /\ posted'[L + 1] = imm
  BY <1>1, AppendKeeps DEF Shapes
<1>3. r \in Delivery
  BY SlotOfIndex DEF Delivery, Wire_imm, Shapes
<1>4. /\ Len(sq') = Len(sq) + 1
      /\ \A j \in 1 .. Len(sq) : sq'[j] = sq[j]
      /\ sq'[Len(sq) + 1] = r
  BY <1>1, <1>3, AppendKeeps DEF Shapes
<1>5. delivered + Len(sq) = L
  BY <1>1 DEF Sends
<1>6. delivered' + Len(sq') = Len(posted') /\ Len(posted') \in Nat
  BY <1>b, <1>1, <1>2, <1>4, <1>5, SMT
<1>7. SendsInOrder'
  <2> SUFFICES ASSUME NEW j \in 1 .. Len(sq) + 1
               PROVE  sq'[j] = [imm_data    |-> Wire_imm(posted'[delivered + j]),
                                remote_addr |-> WriteOffset(posted'[delivered + j])]
    BY <1>1, <1>4 DEF SendsInOrder, Wire_imm, WriteOffset
  <2>1. CASE j = Len(sq) + 1
    <3>1. delivered + j = L + 1
      BY <2>1, <1>b, <1>5, SMT
    <3> QED BY <2>1, <3>1, <1>2, <1>4
  <2>2. CASE j \in 1 .. Len(sq)
    <3>1. delivered + j \in 1 .. L
      BY <2>2, <1>b, <1>5, SMT
    <3> QED BY <2>2, <3>1, <1>2, <1>4 DEF Sends, SendsInOrder
  <2> QED BY <2>1, <2>2, <1>b, SMT
<1>8. delivered' + Len(sq') <= Len(posted')
  BY <1>6, SMT
<1> QED BY <1>6, <1>7, <1>8 DEF Sends

\* A write executed at the invoker moves from the head of the send queue to the end
\* of the completion queue.
LEMMA OrderDeliver ==
  ASSUME Shapes, Batch, Received, Sends, Deliver
  PROVE  Received' /\ Sends'
<1>b. /\ Len(posted) \in Nat /\ Len(sq) \in Nat /\ Len(cq) \in Nat /\ Len(wc) \in Nat
      /\ Len(printed) \in Nat /\ delivered \in Nat /\ Done \in Nat
  BY Bounds DEF Received
<1>1. /\ sq # << >> /\ sq' = Tail(sq) /\ cq' = Append(cq, Head(sq).imm_data)
      /\ delivered' = delivered + 1
      /\ UNCHANGED <<cpc, posted, ipc, printed, wc>>
  BY DEF Deliver, controllerVars
<1>2. /\ Head(sq) \in Delivery /\ Len(sq') = Len(sq) - 1
      /\ \A j \in 1 .. Len(sq') : sq'[j] = sq[j + 1]
  BY <1>1, HeadTailProperties DEF Shapes
<1>3. Head(sq) = sq[1]
  BY <1>1 DEF Shapes
<1>4. Head(sq).imm_data \in Immediates
  BY <1>2 DEF Delivery
<1>5. /\ Len(cq') = Len(cq) + 1
      /\ \A j \in 1 .. Len(cq) : cq'[j] = cq[j]
      /\ cq'[Len(cq) + 1] = sq[1].imm_data
  BY <1>1, <1>3, <1>4, AppendKeeps DEF Shapes
<1>6. Len(sq) # 0
  BY <1>1, EmptyLen DEF Shapes
<1>7. Done' = Done /\ Len(wc') = Len(wc) /\ Len(posted') = Len(posted)
  BY <1>1 DEF Done
<1>8. /\ Done + Len(wc) + Len(cq) = delivered
      /\ delivered + Len(sq) <= Len(posted)
      /\ cpc # "gone" => delivered + Len(sq) = Len(posted)
  BY DEF Received, Places, Sends
<1>9. Places'
  <2>1. ipc' \in {"flush", "repost"} => Len(printed') > 0
    BY <1>1 DEF Received, Places
  <2>2. delivered' <= Len(posted')
    BY <1>1, <1>6, <1>7, <1>8, <1>b, SMT
  <2>3. Done' + Len(wc') + Len(cq') = delivered'
    BY <1>1, <1>5, <1>7, <1>8, <1>b, SMT
  <2> QED BY <2>1, <2>2, <2>3 DEF Places
<1>10. PrintedInOrder' /\ BatchInOrder'
  BY <1>1, <1>7 DEF Received, PrintedInOrder, BatchInOrder, Wire_imm
<1>11. QueueInOrder'
  <2> SUFFICES ASSUME NEW j \in 1 .. Len(cq) + 1
               PROVE  cq'[j] = Wire_imm(posted[Done + Len(wc) + j])
    BY <1>1, <1>5, <1>7 DEF QueueInOrder, Wire_imm
  <2>1. CASE j = Len(cq) + 1
    <3>1. Done + Len(wc) + j = delivered + 1 /\ 1 \in 1 .. Len(sq)
      BY <2>1, <1>6, <1>8, <1>b, SMT
    <3>2. sq[1] = [imm_data    |-> Wire_imm(posted[delivered + 1]),
                   remote_addr |-> WriteOffset(posted[delivered + 1])]
      BY <3>1 DEF Sends, SendsInOrder
    <3> QED BY <2>1, <3>1, <3>2, <1>5
  <2>2. CASE j \in 1 .. Len(cq)
    BY <2>2, <1>5 DEF Received, QueueInOrder
  <2> QED BY <2>1, <2>2, <1>b, SMT
<1>12. SendsInOrder'
  <2> SUFFICES ASSUME NEW j \in 1 .. Len(sq')
               PROVE  sq'[j] = [imm_data    |-> Wire_imm(posted[delivered' + j]),
                                remote_addr |-> WriteOffset(posted[delivered' + j])]
    BY <1>1 DEF SendsInOrder, Wire_imm, WriteOffset
  <2>1. j + 1 \in 1 .. Len(sq) /\ delivered' + j = delivered + (j + 1)
    BY <1>1, <1>2, <1>6, <1>b, SMT
  <2> QED BY <2>1, <1>2 DEF Sends, SendsInOrder
<1>13. Sends'
  <2>1. delivered' + Len(sq') = delivered + Len(sq)
    BY <1>1, <1>2, <1>b, SMT
  <2>2. cpc' = cpc
    BY <1>1
  <2> QED BY <1>7, <1>8, <1>12, <2>1, <2>2 DEF Sends
<1> QED BY <1>9, <1>10, <1>11, <1>13 DEF Received

\* A poll takes a prefix of the completion queue as the new batch.
LEMMA BatchTaken ==
  ASSUME Shapes, Batch, Received, NEW n \in Nat, n <= Len(cq),
         ipc = "drain", ipc' \in {"get", "drain", "read"},
         wc' = SubSeq(cq, 1, n), cq' = SubSeq(cq, n + 1, Len(cq)),
         UNCHANGED <<posted, printed, delivered>>
  PROVE  Received'
<1>b. /\ Len(posted) \in Nat /\ Len(sq) \in Nat /\ Len(cq) \in Nat
      /\ Len(printed) \in Nat /\ delivered \in Nat /\ Done \in Nat
  BY Bounds DEF Received
<1>3. /\ Len(wc') = n /\ Len(cq') = Len(cq) - n
      /\ \A i \in 1 .. n : wc'[i] = cq[i]
      /\ \A i \in 1 .. Len(cq) - n : cq'[i] = cq[n + i]
  BY SplitLengths DEF Shapes
<1>4. Len(wc) = 0
  BY EmptyLen DEF Shapes, Batch
<1>5. Done' = Done
  BY DEF Done
<1>6. Done + Len(wc) + Len(cq) = delivered /\ delivered <= Len(posted)
  BY DEF Received, Places
<1>7. Places'
  <2> DEFINE w == Len(wc')
             c == Len(cq')
  <2>0. w = n /\ c = Len(cq) - n /\ Done + Len(wc) + Len(cq) = delivered
    BY <1>3, <1>6
  <2> HIDE DEF w, c
  <2>1. Done' + w + c = delivered
    BY <2>0, <1>b, <1>4, <1>5, SMT
  <2>2. /\ ipc' \notin {"flush", "repost"} /\ delivered' = delivered
        /\ Len(posted') = Len(posted)
    OBVIOUS
  <2> QED BY <1>6, <2>1, <2>2 DEF Places, w, c
<1>8. PrintedInOrder'
  BY DEF Received, PrintedInOrder
<1>9. BatchInOrder'
  <2> SUFFICES ASSUME NEW j \in 1 .. n PROVE wc'[j] = Wire_imm(posted[Done + j])
    BY <1>3, <1>5 DEF BatchInOrder, Wire_imm
  <2>1. j \in 1 .. Len(cq) /\ Done + Len(wc) + j = Done + j
    BY <1>b, <1>4, SMT
  <2> QED BY <2>1, <1>3 DEF Received, QueueInOrder
<1>10. QueueInOrder'
  <2> SUFFICES ASSUME NEW j \in 1 .. Len(cq) - n
               PROVE  cq'[j] = Wire_imm(posted[Done + n + j])
    BY <1>3, <1>5 DEF QueueInOrder, Wire_imm
  <2>1. n + j \in 1 .. Len(cq) /\ Done + Len(wc) + (n + j) = Done + n + j
    BY <1>b, <1>4, SMT
  <2>2. cq[n + j] = Wire_imm(posted[Done + Len(wc) + (n + j)])
    BY <2>1 DEF Received, QueueInOrder
  <2> QED BY <2>1, <2>2, <1>3
<1> QED BY <1>7, <1>8, <1>9, <1>10 DEF Received

\* The completion in hand is that of the next write not yet printed.
LEMMA NextInHand ==
  ASSUME Shapes, Batch, Received, ipc = "read"
  PROVE  /\ Len(printed) < Len(posted)
         /\ posted[Len(printed) + 1] \in SlotIndexes
         /\ Head(wc) = Wire_imm(posted[Len(printed) + 1])
<1>b. /\ Len(posted) \in Nat /\ Len(cq) \in Nat /\ Len(wc) \in Nat
      /\ Len(printed) \in Nat /\ delivered \in Nat
  BY Lengths
<1>1. Len(wc) # 0 /\ Done = Len(printed)
  BY EmptyLen, Bounds DEF Shapes, Batch, Received
<1>2. Done + Len(wc) + Len(cq) = delivered /\ delivered <= Len(posted)
  BY DEF Received, Places
<1>3. Len(printed) < Len(posted)
  BY <1>b, <1>1, <1>2, SMT
<1>4. posted[Len(printed) + 1] \in SlotIndexes
  <2>1. Len(printed) + 1 \in 1 .. Len(posted)
    BY <1>b, <1>3, SMT
  <2> QED BY <2>1, ElementOfSeq DEF Shapes
<1>5. 1 \in 1 .. Len(wc)
  BY <1>b, <1>1, SMT
<1>6. Head(wc) = Wire_imm(posted[Len(printed) + 1])
  BY <1>5, <1>1 DEF Received, BatchInOrder, Shapes
<1> QED BY <1>3, <1>4, <1>6

\* Printing the next message in turn moves nothing else.
LEMMA NextPrinted ==
  ASSUME Shapes, Batch, Received, NEW t \in Content,
         ipc = "read", ipc' = "flush",
         printed' = Append(printed, [inv_id |-> 0, index |-> posted[Len(printed) + 1],
                                     text |-> t]),
         UNCHANGED <<posted, wc, cq, delivered>>
  PROVE  /\ Received'
         /\ printed' \in Seq(Report)
         /\ Len(printed') = Len(printed) + 1
         /\ \A j \in 1 .. Len(printed) : printed'[j] = printed[j]
         /\ printed'[Len(printed) + 1] =
              [inv_id |-> 0, index |-> posted[Len(printed) + 1], text |-> t]
<1>b. /\ Len(posted) \in Nat /\ Len(cq) \in Nat /\ Len(wc) \in Nat
      /\ Len(printed) \in Nat /\ delivered \in Nat
  BY Lengths
<1>1. Done = Len(printed)
  BY Bounds DEF Received
<1> DEFINE e == [inv_id |-> 0, index |-> posted[Len(printed) + 1], text |-> t]
<1>2. e \in Report
  <2>1. 0 \in InvokerIds
    BY LayoutAssumption, SMT DEF InvokerIds
  <2> QED BY <2>1, NextInHand DEF Report
<1>3. /\ printed' \in Seq(Report)
      /\ Len(printed') = Len(printed) + 1
      /\ \A j \in 1 .. Len(printed) : printed'[j] = printed[j]
      /\ printed'[Len(printed) + 1] = e
  BY <1>2, AppendKeeps DEF Shapes
<1>4. Done' = Done
  <2>1. Done' = Len(printed') - 1
    BY DEF Done
  <2> QED BY <2>1, <1>1, <1>3, <1>b, SMT
<1>5. Places'
  <2>1. Len(printed') > 0
    BY <1>3, <1>b, SMT
  <2>2. /\ delivered' = delivered /\ Len(wc') = Len(wc)
        /\ Len(cq') = Len(cq) /\ Len(posted') = Len(posted)
    OBVIOUS
  <2> QED BY <1>4, <2>1, <2>2 DEF Received, Places
<1>6. PrintedInOrder'
  <2> SUFFICES ASSUME NEW j \in 1 .. Len(printed) + 1
               PROVE  printed'[j].index = posted[j] /\ printed'[j].inv_id = 0
    BY <1>3 DEF PrintedInOrder
  <2>1. CASE j = Len(printed) + 1
    BY <2>1, <1>3 DEF e
  <2>2. CASE j \in 1 .. Len(printed)
    BY <2>2, <1>3 DEF Received, PrintedInOrder
  <2> QED BY <2>1, <2>2, <1>b, SMT
<1>7. BatchInOrder' /\ QueueInOrder'
  BY <1>4 DEF Received, BatchInOrder, QueueInOrder, Wire_imm
<1> QED BY <1>3, <1>5, <1>6, <1>7 DEF e, Received

\* ev_check_write prints it: it unpacks index and invoker from the immediate.
LEMMA ReadPrintsNext ==
  ASSUME Shapes, Batch, Received, ReadSlot
  PROVE  /\ InHand = <<0, posted[Len(printed) + 1]>>
         /\ mem[SlotInHand] \in Content
         /\ ipc = "read" /\ ipc' = "flush"
         /\ printed' = Append(printed, [inv_id |-> 0, index |-> posted[Len(printed) + 1],
                                        text |-> mem[SlotInHand]])
         /\ UNCHANGED <<posted, wc, cq, delivered>>
<1>1. /\ ipc = "read" /\ ipc' = "flush"
      /\ printed' = Append(printed, [inv_id |-> InHand[1], index |-> InHand[2],
                                     text |-> mem[SlotInHand]])
      /\ UNCHANGED <<posted, wc, cq, delivered>>
  BY DEF ReadSlot, controllerVars, wireVars
<1>2. /\ posted[Len(printed) + 1] \in SlotIndexes
      /\ Head(wc) = Wire_imm(posted[Len(printed) + 1])
  BY <1>1, NextInHand
<1>3. InHand = <<0, posted[Len(printed) + 1]>>
  BY <1>2, SlotOfIndex DEF InHand, Wire_imm
<1>4. mem[SlotInHand] \in Content
  <2>1. SlotInHand = EventOffset(0, posted[Len(printed) + 1])
    BY <1>3 DEF SlotInHand
  <2> QED BY <2>1, <1>2, SlotOfIndex DEF Shapes
<1>5. InHand[1] = 0 /\ InHand[2] = posted[Len(printed) + 1]
  BY <1>3
<1> QED BY <1>1, <1>3, <1>4, <1>5

\* So it keeps the order, and the report has the text of the slot.
LEMMA OrderRead ==
  ASSUME Shapes, Batch, Received, ReadSlot
  PROVE  /\ Received'
         /\ Len(printed) < Len(posted)
         /\ Len(printed') = Len(printed) + 1
         /\ \A j \in 1 .. Len(printed) : printed'[j] = printed[j]
         /\ InHand = <<0, posted[Len(printed) + 1]>>
         /\ printed'[Len(printed) + 1] =
              [inv_id |-> 0, index |-> posted[Len(printed) + 1], text |-> mem[SlotInHand]]
<1> DEFINE t == mem[SlotInHand]
<1>1. /\ InHand = <<0, posted[Len(printed) + 1]>>
      /\ t \in Content
      /\ ipc = "read" /\ ipc' = "flush"
      /\ printed' = Append(printed, [inv_id |-> 0, index |-> posted[Len(printed) + 1],
                                     text |-> t])
      /\ UNCHANGED <<posted, wc, cq, delivered>>
  BY ReadPrintsNext
<1> HIDE DEF t
<1>2. Len(printed) < Len(posted)
  BY <1>1, NextInHand
<1>3. /\ Received'
      /\ Len(printed') = Len(printed) + 1
      /\ \A j \in 1 .. Len(printed) : printed'[j] = printed[j]
      /\ printed'[Len(printed) + 1] =
           [inv_id |-> 0, index |-> posted[Len(printed) + 1], text |-> t]
  BY <1>1, NextPrinted
<1> QED BY <1>1, <1>2, <1>3 DEF t

\* Reposting finishes with the message at the head of the batch.
LEMMA HeadFinished ==
  ASSUME Shapes, Batch, Received,
         ipc = "repost", ipc' \in {"drain", "read"}, wc' = Tail(wc),
         UNCHANGED <<posted, printed, cq, delivered>>
  PROVE  Received'
<1>b. /\ Len(posted) \in Nat /\ Len(cq) \in Nat /\ Len(wc) \in Nat
      /\ Len(printed) \in Nat /\ delivered \in Nat /\ Done \in Nat
  BY Bounds DEF Received
<1>2. /\ Len(wc') = Len(wc) - 1
      /\ \A j \in 1 .. Len(wc') : wc'[j] = wc[j + 1]
  BY HeadTailProperties DEF Shapes, Batch
<1>3. Len(wc) # 0 /\ Done = Len(printed) - 1
  BY EmptyLen, Bounds DEF Shapes, Batch, Received
<1>4. Done' = Done + 1
  <2>1. Done' = Len(printed')
    BY <1>b, SMT DEF Done
  <2> QED BY <2>1, <1>3, <1>b, SMT
<1>5. Done + Len(wc) + Len(cq) = delivered /\ delivered <= Len(posted)
  BY DEF Received, Places
<1>6. Places'
  <2> DEFINE w == Len(wc')
  <2>0. w = Len(wc) - 1 /\ Done + Len(wc) + Len(cq) = delivered
    BY <1>2, <1>5
  <2> HIDE DEF w
  <2>1. Done' + w + Len(cq) = delivered
    BY <2>0, <1>b, <1>4, SMT
  <2>2. /\ ipc' \notin {"flush", "repost"} /\ delivered' = delivered
        /\ Len(cq') = Len(cq) /\ Len(posted') = Len(posted)
    OBVIOUS
  <2> QED BY <1>5, <2>1, <2>2 DEF Places, w
<1>7. PrintedInOrder'
  BY DEF Received, PrintedInOrder
<1>8. BatchInOrder'
  <2> SUFFICES ASSUME NEW j \in 1 .. Len(wc') PROVE wc'[j] = Wire_imm(posted[Done' + j])
    BY DEF BatchInOrder, Wire_imm
  <2>1. j + 1 \in 1 .. Len(wc) /\ Done' + j = Done + (j + 1)
    BY <1>b, <1>2, <1>3, <1>4, SMT
  <2> QED BY <2>1, <1>2 DEF Received, BatchInOrder
<1>9. QueueInOrder'
  <2> SUFFICES ASSUME NEW j \in 1 .. Len(cq)
               PROVE  cq[j] = Wire_imm(posted[Done' + Len(wc') + j])
    BY DEF QueueInOrder, Wire_imm
  <2> DEFINE w == Len(wc')
  <2>0. w = Len(wc) - 1
    BY <1>2
  <2> HIDE DEF w
  <2>1. Done' + w + j = Done + Len(wc) + j
    BY <2>0, <1>b, <1>4, SMT
  <2> QED BY <2>1 DEF Received, QueueInOrder, w
<1> QED BY <1>6, <1>7, <1>8, <1>9 DEF Received

\* What moves no message that arrived.
LEMMA ReceivedKept ==
  ASSUME Received, UNCHANGED <<posted, printed, wc, cq, delivered>>,
         \/ ipc' = ipc
         \/ ipc \notin {"flush", "repost"} /\ ipc' \notin {"flush", "repost"}
         \/ ipc = "flush" /\ ipc' = "repost"
  PROVE  Received'
<1>1. Done' = Done
  BY DEF Done
<1>2. Places'
  <2>1. /\ Len(printed') = Len(printed) /\ Len(wc') = Len(wc) /\ Len(cq') = Len(cq)
        /\ Len(posted') = Len(posted) /\ delivered' = delivered
    OBVIOUS
  <2> QED BY <1>1, <2>1 DEF Received, Places
<1> QED BY <1>1, <1>2 DEF Received, PrintedInOrder, BatchInOrder, QueueInOrder, Wire_imm

\* What moves no message on its way.
LEMMA SendsKept ==
  ASSUME Sends, UNCHANGED <<posted, sq, delivered>>, cpc' = cpc \/ cpc # "gone"
  PROVE  Sends'
<1>1. Len(sq') = Len(sq) /\ Len(posted') = Len(posted) /\ delivered' = delivered
  OBVIOUS
<1>2. SendsInOrder'
  BY DEF Sends, SendsInOrder, Wire_imm, WriteOffset
<1> QED BY <1>1, <1>2 DEF Sends

\* The controller's end drops what it had still to send, and only that.
LEMMA SendsDropped ==
  ASSUME Shapes, Sends, UNCHANGED <<posted, delivered>>, sq' = << >>, cpc' = "gone"
  PROVE  Sends'
<1>1. Len(sq') = 0
  BY EmptySeq
<1>2. delivered + 0 <= Len(posted)
  BY Lengths, SMT DEF Sends
<1>3. SendsInOrder'
  BY <1>1, SMT DEF SendsInOrder
<1> QED BY <1>1, <1>2, <1>3 DEF Sends

\* Nothing has been sent.
LEMMA OrderInit == Init => InOrder
<1> SUFFICES ASSUME Init PROVE InOrder
  OBVIOUS
<1>1. Len(<< >>) = 0
  BY EmptySeq
<1>2. Done = 0
  BY <1>1, SMT DEF Init, Done
<1>3. Places
  BY <1>1, <1>2, SMT DEF Init, Places
<1>4. PrintedInOrder /\ BatchInOrder /\ QueueInOrder /\ SendsInOrder
  BY <1>1, SMT DEF Init, PrintedInOrder, BatchInOrder, QueueInOrder, SendsInOrder
<1>5. delivered + Len(sq) = 0 /\ Len(posted) = 0
  BY <1>1, SMT DEF Init
<1>6. Sends
  BY <1>4, <1>5, SMT DEF Sends
<1> QED BY <1>3, <1>4, <1>6 DEF InOrder, Received

\* Each action of the event thread keeps the order of what arrived.
LEMMA OrderInvoker ==
  ASSUME Shapes, Batch, Received, Invoker
  PROVE  Received'
<1>1. UNCHANGED <<posted, delivered>>
  BY DEF Invoker, FillRecv, GetEvent, Rearm, Drain, ReadSlot, FlushSlot, Repost,
         controllerVars, wireVars
<1>2. CASE FillRecv \/ GetEvent \/ Rearm \/ FlushSlot
  <2>1. /\ UNCHANGED <<printed, wc, cq>>
        /\ \/ ipc \notin {"flush", "repost"} /\ ipc' \notin {"flush", "repost"}
           \/ ipc = "flush" /\ ipc' = "repost"
    BY <1>2 DEF FillRecv, GetEvent, Rearm, FlushSlot
  <2> QED BY <1>1, <2>1, ReceivedKept
<1>3. CASE Drain
  <2> DEFINE n == Smaller(Len(cq), NUM_WC)
  <2>1. n \in Nat /\ n <= Len(cq)
    BY Lengths, StreamAssumption, SmallerFacts
  <2>2. /\ ipc = "drain" /\ ipc' \in {"get", "drain", "read"}
        /\ wc' = SubSeq(cq, 1, n) /\ cq' = SubSeq(cq, n + 1, Len(cq)) /\ printed' = printed
    BY <1>3 DEF Drain
  <2> HIDE DEF n
  <2> QED BY <1>1, <2>1, <2>2, BatchTaken
<1>4. CASE ReadSlot
  BY <1>4, OrderRead
<1>5. CASE Repost
  <2>1. /\ ipc = "repost" /\ ipc' \in {"drain", "read"} /\ wc' = Tail(wc)
        /\ UNCHANGED <<printed, cq>>
    BY <1>5 DEF Repost
  <2> QED BY <1>1, <2>1, HeadFinished
<1> QED BY <1>2, <1>3, <1>4, <1>5 DEF Invoker

\* Each action of the write thread keeps both orders.
LEMMA OrderController ==
  ASSUME Shapes, Controller
  PROVE  /\ Batch /\ Received => Received'
         /\ Sends => Sends'
<1>1. CASE PostWrite
  BY <1>1, PostReceived, PostSends
<1>2. CASE ~PostWrite
  <2>1. UNCHANGED <<posted, sq, delivered, ipc, printed, wc, cq>> /\ cpc # "gone"
    BY <1>2 DEF Controller, CopyBegin, CopyEnd, PostFails, PollSend, SleepOver,
                wireVars, invokerVars
  <2> QED BY <2>1, ReceivedKept, SendsKept
<1> QED BY <1>1, <1>2

\* The places hold the posted writes, in order, at every moment of every run.
THEOREM InOrderHolds == Spec => []InOrder
<1>1. TypeInv /\ InOrder /\ [Next]_vars => InOrder'
  <2> SUFFICES ASSUME TypeInv, InOrder, [Next]_vars PROVE InOrder'
    OBVIOUS
  <2>t. Shapes /\ Batch /\ Received /\ Sends
    BY TypeShapes DEF InOrder
  <2>1. CASE Controller
    BY <2>t, <2>1, OrderController DEF InOrder
  <2>2. CASE Deliver
    BY <2>t, <2>2, OrderDeliver DEF InOrder
  <2>3. CASE Teardown
    <3>1. /\ cpc' = "gone" /\ sq' = << >>
          /\ UNCHANGED <<posted, delivered, ipc, printed, wc, cq>>
      BY <2>3 DEF Teardown, invokerVars
    <3> QED BY <2>t, <3>1, ReceivedKept, SendsDropped DEF InOrder
  <2>4. CASE Acknowledge \/ UNCHANGED vars
    <3>1. UNCHANGED <<cpc, posted, sq, delivered, ipc, printed, wc, cq>>
      BY <2>4 DEF Acknowledge, vars, controllerVars, wireVars, invokerVars
    <3> QED BY <2>t, <3>1, ReceivedKept, SendsKept DEF InOrder
  <2>5. CASE Invoker
    <3>1. UNCHANGED <<cpc, posted, sq, delivered>>
      BY <2>5 DEF Invoker, FillRecv, GetEvent, Rearm, Drain, ReadSlot, FlushSlot, Repost,
                  controllerVars, wireVars
    <3> QED BY <2>t, <2>5, <3>1, OrderInvoker, SendsKept DEF InOrder
  <2> QED BY <2>1, <2>2, <2>3, <2>4, <2>5 DEF Next, Wire
<1> QED BY <1>1, OrderInit, TypeCorrect, PTL DEF Spec

\* The event thread can go on unless it waits for an event that has not come.
ThreadCanRun == ipc = "get" => events > 0

\* The next write can be executed at the invoker.
WireCanRun == sq # << >> /\ rq > 0

\* What is not reported yet is not stuck: what was delivered finds the thread able to
\* run, and what was posted finds it, or the connection with a receive to go on.
StreamGoesOn ==
  /\ Len(printed) < delivered => ThreadCanRun
  /\ Len(printed) < Len(posted) /\ cpc # "gone" => ThreadCanRun \/ WireCanRun

\* The thread and the connection never wait for each other, the one for an event and
\* the other for a receive, for every depth of the queues (invoker.cpp:129-200).
THEOREM StreamGoesOnHolds == Spec => []StreamGoesOn
<1>1. Init => Arming
  BY DEF Init, Arming
<1>2. Spec => []Arming
  BY <1>1, ArmingStep, TypeCorrect, PTL DEF Spec
<1>3. TypeInv /\ Arming /\ Receives /\ InOrder => StreamGoesOn
  <2> SUFFICES ASSUME TypeInv, Arming, Receives, InOrder, ~ThreadCanRun
               PROVE  /\ ~(Len(printed) < delivered)
                      /\ Len(printed) < Len(posted) /\ cpc # "gone" => WireCanRun
    BY DEF StreamGoesOn
  <2>1. /\ Shapes /\ Batch /\ Received /\ Sends
    BY TypeShapes DEF InOrder
  <2>2. ipc = "get" /\ events = 0
    BY <2>1, SMT DEF ThreadCanRun, Shapes
  <2>3. cq = << >> /\ wc = << >>
    BY <2>1, <2>2 DEF Arming, Batch, Shapes
  <2>4. Len(cq) = 0 /\ Len(wc) = 0
    BY <2>3, EmptySeq
  <2>5. /\ Len(posted) \in Nat /\ Len(sq) \in Nat /\ Len(printed) \in Nat
        /\ delivered \in Nat /\ Done = Len(printed)
    BY <2>1, <2>2, Bounds DEF Received
  <2>6. delivered = Len(printed)
    BY <2>1, <2>4, <2>5, SMT DEF Received, Places
  <2>7. rq > 0
    <3>1. rq \in Nat /\ filled \in Nat /\ RECV_DEPTH \in Nat \ {0}
      BY <2>1, StreamAssumption DEF Shapes
    <3>2. rq = filled
      BY <2>4, <3>1, SMT DEF Receives, Outstanding
    <3>3. filled = RECV_DEPTH
      BY <2>2 DEF Receives
    <3> QED BY <3>1, <3>2, <3>3, SMT
  <2>8. ASSUME Len(printed) < Len(posted), cpc # "gone" PROVE sq # << >>
    <3>1. delivered + Len(sq) = Len(posted)
      BY <2>1, <2>8 DEF Sends
    <3>2. Len(sq) # 0
      BY <2>5, <2>6, <2>8, <3>1, SMT
    <3> QED BY <3>2, EmptySeq
  <2> QED BY <2>5, <2>6, <2>7, <2>8, SMT DEF WireCanRun
<1> QED BY <1>2, <1>3, TypeCorrect, ReceivesHold, InOrderHolds, PTL

-----------------------------------------------------------------------------
\* The refinement.

\* A function on 1 .. n is a sequence of length n.
LEMMA FunctionIsSeq ==
  ASSUME NEW S, NEW n \in Nat, NEW f \in [1 .. n -> S]
  PROVE  f \in Seq(S) /\ Len(f) = n
<1>1. f \in Seq(S)
  BY SeqDef
<1>2. DOMAIN f = 1 .. Len(f) /\ Len(f) \in Nat
  BY <1>1, LenProperties
<1>3. 1 .. Len(f) = 1 .. n
  BY <1>2
<1> QED BY <1>1, <1>2, <1>3, SMT

\* What the mailbox calls reported: the indexes printed.
Indexes(p) == [n \in DOMAIN p |-> p[n].index]

\* Indexes keeps length and order.
LEMMA IndexesFacts ==
  ASSUME NEW p \in Seq(Report)
  PROVE  /\ Indexes(p) \in Seq(SlotIndexes)
         /\ Len(Indexes(p)) = Len(p)
         /\ \A n \in 1 .. Len(p) : Indexes(p)[n] = p[n].index
<1>1. DOMAIN p = 1 .. Len(p) /\ Len(p) \in Nat
  BY LenProperties
<1>2. \A n \in 1 .. Len(p) : p[n].index \in SlotIndexes
  <2> TAKE n \in 1 .. Len(p)
  <2>1. p[n] \in Report
    BY ElementOfSeq
  <2> QED BY <2>1 DEF Report
<1>3. Indexes(p) \in [1 .. Len(p) -> SlotIndexes]
  BY <1>1, <1>2 DEF Indexes
<1> QED BY <1>1, <1>3, FunctionIsSeq DEF Indexes

\* A printed message is a report of the mailbox.
LEMMA NextIsReport ==
  ASSUME Shapes, Batch, Received, NEW t \in Content,
         ipc = "read", ipc' = "flush",
         printed' = Append(printed, [inv_id |-> 0, index |-> posted[Len(printed) + 1],
                                     text |-> t]),
         UNCHANGED <<posted, wc, cq, delivered>>
  PROVE  Box!Report
<1> DEFINE x == posted[Len(printed) + 1]
<1>1. /\ Len(printed') = Len(printed) + 1
      /\ printed' \in Seq(Report)
      /\ \A j \in 1 .. Len(printed) : printed'[j] = printed[j]
      /\ printed'[Len(printed) + 1] = [inv_id |-> 0, index |-> x, text |-> t]
  BY NextPrinted
<1>t. printed \in Seq(Report) /\ Len(printed) \in Nat
  BY LenProperties DEF Shapes
<1>2. x \in SlotIndexes /\ Len(printed) < Len(posted)
  BY NextInHand
<1> HIDE DEF x
<1> DEFINE r == Indexes(printed)
           s == Indexes(printed')
<1>3. /\ r \in Seq(SlotIndexes) /\ Len(r) = Len(printed)
      /\ \A n \in 1 .. Len(printed) : r[n] = printed[n].index
  BY <1>t, IndexesFacts
<1>4. /\ s \in Seq(SlotIndexes) /\ Len(s) = Len(printed) + 1
      /\ \A n \in 1 .. Len(printed) + 1 : s[n] = printed'[n].index
  BY <1>1, IndexesFacts
<1> HIDE DEF r, s
<1> DEFINE a == Append(r, x)
<1>5. /\ a \in Seq(SlotIndexes) /\ Len(a) = Len(printed) + 1
      /\ \A n \in 1 .. Len(printed) : a[n] = r[n]
      /\ a[Len(printed) + 1] = x
  BY <1>2, <1>3, AppendKeeps
<1> HIDE DEF a
<1>6. \A n \in 1 .. Len(printed) + 1 : s[n] = a[n]
  <2> TAKE n \in 1 .. Len(printed) + 1
  <2>1. CASE n = Len(printed) + 1
    BY <2>1, <1>1, <1>4, <1>5
  <2>2. CASE n \in 1 .. Len(printed)
    BY <2>2, <1>1, <1>3, <1>4, <1>5
  <2> QED BY <2>1, <2>2, <1>t, SMT
<1>7. s = a
  BY <1>4, <1>5, <1>6, SeqEqual
<1> QED BY <1>2, <1>3, <1>7 DEF a, r, s, x, Indexes, Box!Report

\* So is what ev_check_write prints.
LEMMA ReadIsReport ==
  ASSUME Shapes, Batch, Received, ReadSlot
  PROVE  Box!Report
<1> DEFINE t == mem[SlotInHand]
<1>1. /\ t \in Content
      /\ ipc = "read" /\ ipc' = "flush"
      /\ printed' = Append(printed, [inv_id |-> 0, index |-> posted[Len(printed) + 1],
                                     text |-> t])
      /\ UNCHANGED <<posted, wc, cq, delivered>>
  BY ReadPrintsNext
<1> HIDE DEF t
<1> QED BY <1>1, NextIsReport

\* And a write posted is a post.
LEMMA PostIsPost ==
  ASSUME Shapes, PostWrite
  PROVE  Box!Post
BY DEF PostWrite, invokerVars, Shapes, Box!Post

\* At first nothing is posted and nothing reported.
LEMMA BoxInit == Init => Box!Init
<1> SUFFICES ASSUME Init PROVE Box!Init
  OBVIOUS
<1>1. Indexes(<< >>) \in Seq(SlotIndexes) /\ Len(Indexes(<< >>)) = 0
  <2>1. << >> \in Seq(Report) /\ Len(<< >>) = 0
    BY EmptySeq
  <2> QED BY <2>1, IndexesFacts
<1>2. Indexes(<< >>) = << >>
  BY <1>1, EmptyLen
<1> QED BY <1>2 DEF Init, Indexes, Box!Init

\* The stream implements the mailbox: whatever the depths of the queues, the speed
\* of the connection and the order of steps, each write is reported at most once,
\* in the order posted, with its own index (controller.cpp:99-150,
\* invoker.cpp:113-204).
THEOREM StreamImplementsMailbox == Spec => ImplementsMailbox
<1>1. TypeInv /\ InOrder /\ [Next]_vars => [Box!Next]_Box!vars
  <2> SUFFICES ASSUME TypeInv, InOrder, [Next]_vars PROVE [Box!Next]_Box!vars
    OBVIOUS
  <2>t. Shapes /\ Batch /\ Received
    BY TypeShapes DEF InOrder
  <2>1. CASE PostWrite
    BY <2>t, <2>1, PostIsPost DEF Box!Next
  <2>2. CASE ReadSlot
    BY <2>t, <2>2, ReadIsReport DEF Box!Next
  <2>3. CASE ~PostWrite /\ ~ReadSlot
    <3>1. UNCHANGED <<posted, printed>>
      BY <2>3 DEF Next, Controller, Wire, Invoker, CopyBegin, CopyEnd, PostFails, PollSend,
           SleepOver, Deliver, Acknowledge, Teardown, FillRecv, GetEvent, Rearm, Drain,
           FlushSlot, Repost, vars, controllerVars, invokerVars
    <3> QED BY <3>1 DEF Box!vars
  <2> QED BY <2>1, <2>2, <2>3
<1> QED BY <1>1, BoxInit, InOrderHolds, TypeCorrect, PTL DEF Spec, ImplementsMailbox, Box!Spec

-----------------------------------------------------------------------------
(***************************************************************************)
(* Each event prints its own word unless writes overlapped, and only       *)
(* writes a lap apart share a slot.                                        *)
(*                                                                         *)
(* Two buffers are reused: the controller's single source buffer, once per *)
(* write, and each slot of the invoker, once per lap.  A write that is     *)
(* delivered in time brings its own word (Source); it stays in its slot    *)
(* until it is read (InSlot), for what could disturb it there, another     *)
(* write or the flush of an earlier one, is an overlap (Behind).           *)
(***************************************************************************)

\* The slots are used in rotation.
Rotation ==
  /\ \A n \in 1 .. Len(posted) : posted[n] = (n - 1) % NUM_BUF_SLOT
  /\ cpc = "poll" => Len(posted) > 0 /\ imm = (Len(posted) - 1) % NUM_BUF_SLOT
  /\ cpc # "poll" => imm = Len(posted) % NUM_BUF_SLOT

\* The source buffer holds the word of the last write until the next strcpy.
Source ==
  /\ cpc = "post" => cbuf = imm
  /\ cpc \in {"poll", "sleep", "copy"} /\ Len(posted) > 0 => cbuf = posted[Len(posted)]

\* A write that followed into a slot whose word was not flushed yet is an overlap.
Behind ==
  \A k, n \in 1 .. delivered :
    Handled < k /\ k < n /\ posted[k] = posted[n] => n \in overlapped

\* A message delivered and not printed is in its slot; one printed was its own.
InSlot ==
  \A n \in Len(printed) + 1 .. delivered :
    n \notin overlapped => mem[EventOffset(0, posted[n])] = posted[n]
OwnText == \A n \in 1 .. Len(printed) : n \notin overlapped => printed[n].text = posted[n]

Text == Behind /\ InSlot /\ OwnText

-----------------------------------------------------------------------------
\* Arithmetic of the rotation.

\* Quotient and remainder of a natural number.
LEMMA DivMod ==
  ASSUME NEW d \in Nat \ {0}, NEW x \in Nat
  PROVE  /\ x \div d \in Nat
         /\ x % d \in 0 .. d - 1
         /\ x = (x \div d) * d + (x % d)
BY SMT

\* imm = (imm + 1) % NUM_BUF_SLOT steps the remainder of a count (controller.cpp:144).
LEMMA ModSuccessor ==
  ASSUME NEW d \in Nat \ {0}, NEW x \in Nat
  PROVE  ((x % d) + 1) % d = (x + 1) % d
<1> DEFINE q == x \div d
           r == x % d
<1>1. q \in Nat /\ r \in 0 .. d - 1 /\ x = q * d + r
  BY DivMod
<1> HIDE DEF q, r
<1>2. CASE r + 1 < d
  <2>1. r + 1 \in 0 .. d - 1 /\ x + 1 = q * d + (r + 1)
    BY <1>1, <1>2, SMT
  <2>2. (x + 1) % d = r + 1
    BY <2>1, <1>1, DivModUnique
  <2>3. r + 1 = 0 * d + (r + 1)
    BY <1>1, SMT
  <2>4. (r + 1) % d = r + 1
    BY <2>1, <2>3, DivModUnique
  <2> QED BY <2>2, <2>4 DEF r
<1>3. CASE r + 1 = d
  <2>1. q + 1 \in Nat /\ 0 \in 0 .. d - 1 /\ x + 1 = (q + 1) * d + 0
    BY <1>1, <1>3, SMT
  <2>2. (x + 1) % d = 0
    BY <2>1, DivModUnique
  <2>3. r + 1 = 1 * d + 0
    BY <1>1, <1>3, SMT
  <2>4. (r + 1) % d = 0
    BY <2>1, <2>3, DivModUnique
  <2> QED BY <2>2, <2>4 DEF r
<1> QED BY <1>1, <1>2, <1>3, SMT

\* Two counts less than a lap apart have different remainders.
LEMMA LessThanALap ==
  ASSUME NEW d \in Nat \ {0}, NEW x \in Nat, NEW y \in Nat, x < y, y - x < d
  PROVE  x % d # y % d
<1> DEFINE q == x \div d
           r == x % d
           p == y \div d
           t == y % d
<1>1. /\ q \in Nat /\ r \in 0 .. d - 1 /\ x = q * d + r
      /\ p \in Nat /\ t \in 0 .. d - 1 /\ y = p * d + t
  BY DivMod
<1> HIDE DEF q, r, p, t
<1> SUFFICES ASSUME r = t PROVE FALSE
  BY DEF r, t
<1>2. y - x = p * d - q * d
  BY <1>1, SMT
<1>3. p * d - q * d = (p - q) * d
  BY <1>1, SMT
<1>4. CASE p <= q
  <2>1. p * d <= q * d
    BY <1>1, <1>4, SMT
  <2> QED BY <2>1, <1>1, <1>2, SMT
<1>5. CASE p >= q + 1
  <2>1. p * d >= q * d + d
    BY <1>1, <1>5, SMT
  <2> QED BY <2>1, <1>1, <1>2, SMT
<1> QED BY <1>1, <1>4, <1>5, SMT

\* Different indexes have different slots.
LEMMA SlotsDiffer ==
  ASSUME NEW j \in SlotIndexes, NEW k \in SlotIndexes, j # k
  PROVE  EventOffset(0, j) # EventOffset(0, k)
<1>1. EventOffset(0, j) \in Int /\ EventOffset(0, k) \in Int
  BY LayoutAssumption, SMT DEF EventOffset, PER_INV_BUF_SIZE, SlotIndexes
<1>2. <<0, j>> # <<0, k>>
  OBVIOUS
<1>3. \/ EventOffset(0, j) + MSG_SIZE <= EventOffset(0, k)
      \/ EventOffset(0, k) + MSG_SIZE <= EventOffset(0, j)
  BY <1>2, SlotsDisjoint, 0 \in Nat
<1> QED BY <1>1, <1>3, LayoutAssumption, SMT

-----------------------------------------------------------------------------
\* The rotation.

\* Rotation is kept by every step.
LEMMA RotationStep == TypeInv /\ Rotation /\ [Next]_vars => Rotation'
<1> SUFFICES ASSUME TypeInv, Rotation, [Next]_vars PROVE Rotation'
  OBVIOUS
<1> DEFINE L == Len(posted)
<1>t. posted \in Seq(SlotIndexes) /\ L \in Nat /\ NUM_BUF_SLOT \in Nat \ {0}
      /\ imm \in SlotIndexes
  BY LayoutAssumption, LenProperties DEF TypeInv, TypeOK
<1>1. CASE PostWrite
  <2>1. cpc = "post" /\ cpc' = "poll" /\ imm' = imm /\ posted' = Append(posted, imm)
    BY <1>1 DEF PostWrite
  <2>2. /\ Len(posted') = L + 1
        /\ \A j \in 1 .. L : posted'[j] = posted[j]
        /\ posted'[L + 1] = imm
    BY <2>1, <1>t, AppendKeeps
  <2>3. imm = L % NUM_BUF_SLOT
    BY <2>1 DEF Rotation
  <2>4. ASSUME NEW n \in 1 .. L + 1
        PROVE  posted'[n] = (n - 1) % NUM_BUF_SLOT
    <3>1. CASE n = L + 1
      <4>1. n - 1 = L
        BY <3>1, <1>t, SMT
      <4> QED BY <3>1, <4>1, <2>2, <2>3
    <3>2. CASE n \in 1 .. L
      BY <3>2, <2>2 DEF Rotation
    <3> QED BY <3>1, <3>2, <1>t, SMT
  <2>5. Len(posted') > 0 /\ Len(posted') - 1 = L
    BY <2>2, <1>t, SMT
  <2> QED BY <2>1, <2>2, <2>3, <2>4, <2>5 DEF Rotation
<1>2. CASE PollSend
  <2>1. /\ cpc = "poll" /\ cpc' = "sleep" /\ posted' = posted
        /\ imm' = (imm + 1) % NUM_BUF_SLOT
    BY <1>2 DEF PollSend
  <2>2. L > 0 /\ imm = (L - 1) % NUM_BUF_SLOT
    BY <2>1 DEF Rotation
  <2>3. L - 1 \in Nat /\ (L - 1) + 1 = L
    BY <1>t, <2>2, SMT
  <2>4. imm' = L % NUM_BUF_SLOT
    BY <1>t, <2>1, <2>2, <2>3, ModSuccessor
  <2> QED BY <2>1, <2>4 DEF Rotation
<1>3. CASE ~PostWrite /\ ~PollSend
  <2>1. /\ UNCHANGED <<posted, imm>>
        /\ cpc' = cpc \/ (cpc # "poll" /\ cpc' # "poll")
    BY <1>3 DEF Next, Controller, Wire, Invoker, CopyBegin, CopyEnd, PostFails,
         SleepOver, Deliver, Acknowledge, Teardown, FillRecv, GetEvent, Rearm, Drain, ReadSlot,
         FlushSlot, Repost, vars, controllerVars, invokerVars
  <2> QED BY <2>1 DEF Rotation
<1> QED BY <1>1, <1>2, <1>3

\* The slots are used in rotation, in every run.
LEMMA RotationHolds == Spec => []Rotation
<1>1. Init => Rotation
  <2> SUFFICES ASSUME Init PROVE Rotation
    OBVIOUS
  <2>1. Len(<< >>) = 0
    BY EmptySeq
  <2>2. 0 % NUM_BUF_SLOT = 0
    BY LayoutAssumption, SMT
  <2>3. \A n \in 1 .. 0 : posted[n] = (n - 1) % NUM_BUF_SLOT
    BY SMT
  <2> QED BY <2>1, <2>2, <2>3 DEF Init, Rotation
<1> QED BY <1>1, RotationStep, TypeCorrect, PTL DEF Spec

\* Two writes to the same slot are a lap of NUM_BUF_SLOT writes apart or more: a word
\* can meet only the word of an earlier or later lap (controller.cpp:133-144).
THEOREM LapApartHolds ==
  PacedSpec => [](\A m, n \in DOMAIN posted :
                    m < n /\ SameSlot(m, n) => n - m >= NUM_BUF_SLOT)
<1>1. TypeInv /\ Rotation =>
        \A m, n \in DOMAIN posted : m < n /\ SameSlot(m, n) => n - m >= NUM_BUF_SLOT
  <2> SUFFICES ASSUME TypeInv, Rotation, NEW m \in DOMAIN posted, NEW n \in DOMAIN posted,
                      m < n, SameSlot(m, n), ~(n - m >= NUM_BUF_SLOT)
               PROVE  FALSE
    OBVIOUS
  <2>1. /\ DOMAIN posted = 1 .. Len(posted) /\ Len(posted) \in Nat
        /\ NUM_BUF_SLOT \in Nat \ {0}
    BY LayoutAssumption, LenProperties DEF TypeInv, TypeOK
  <2>2. m - 1 \in Nat /\ n - 1 \in Nat /\ m - 1 < n - 1 /\ (n - 1) - (m - 1) < NUM_BUF_SLOT
    BY <2>1, SMT
  <2>3. (m - 1) % NUM_BUF_SLOT # (n - 1) % NUM_BUF_SLOT
    BY <2>1, <2>2, LessThanALap
  <2> QED BY <2>1, <2>3 DEF Rotation, SameSlot
<1> QED BY <1>1, PacedIsStream, TypeCorrect, RotationHolds, PTL

-----------------------------------------------------------------------------
\* The source buffer.

\* Source is kept by every step: the buffer changes only between the sleep and the
\* post.
LEMMA SourceStep == TypeInv /\ Source /\ [Next]_vars => Source'
<1> SUFFICES ASSUME TypeInv, Source, [Next]_vars PROVE Source'
  OBVIOUS
<1>1. CASE CopyEnd
  <2>1. imm \in Words
    BY StreamAssumption DEF TypeInv, TypeOK
  <2>2. cbuf' = imm /\ imm' = imm /\ cpc' = "post"
    BY <1>1, <2>1 DEF CopyEnd
  <2> QED BY <2>2 DEF Source
<1>2. CASE PostWrite
  <2>1. cpc = "post" /\ cpc' = "poll" /\ cbuf' = cbuf /\ posted' = Append(posted, imm)
    BY <1>2 DEF PostWrite
  <2>2. Len(posted) \in Nat /\ Len(posted') = Len(posted) + 1
        /\ posted'[Len(posted) + 1] = imm
    BY <2>1, AppendKeeps DEF TypeInv, TypeOK
  <2> QED BY <2>1, <2>2 DEF Source
<1>3. CASE CopyBegin \/ PostFails \/ PollSend \/ SleepOver \/ Teardown
  BY <1>3 DEF CopyBegin, PostFails, PollSend, SleepOver, Teardown, Source
<1>4. CASE Invoker \/ Deliver \/ Acknowledge \/ UNCHANGED vars
  <2>1. UNCHANGED controllerVars
    BY <1>4 DEF Invoker, Deliver, Acknowledge, FillRecv, GetEvent, Rearm, Drain, ReadSlot,
                FlushSlot, Repost, vars
  <2> QED BY <2>1 DEF Source, controllerVars
<1> QED BY <1>1, <1>2, <1>3, <1>4 DEF Next, Controller, Wire

\* The source buffer holds the word being written, in every run.
LEMMA SourceHolds == Spec => []Source
<1>1. Init => Source
  <2> SUFFICES ASSUME Init PROVE Source
    OBVIOUS
  <2>1. Len(<< >>) = 0
    BY EmptySeq
  <2> QED BY <2>1, SMT DEF Init, Source
<1> QED BY <1>1, SourceStep, TypeCorrect, PTL DEF Spec

-----------------------------------------------------------------------------
\* The words.

Known == TypeInv /\ InOrder /\ Source

\* Where the counts of the stream stand to each other.
LEMMA KnownCounts ==
  ASSUME Known
  PROVE  /\ Len(posted) \in Nat /\ Len(printed) \in Nat /\ delivered \in Nat
         /\ Len(sq) \in Nat /\ Len(wc) \in Nat /\ Len(cq) \in Nat
         /\ delivered + Len(sq) <= Len(posted)
         /\ Len(printed) <= delivered
         /\ Handled \in Nat /\ Handled <= Len(printed)
         /\ ipc = "flush" => Handled = Len(printed) - 1
         /\ ipc # "flush" => Handled = Len(printed)
<1>1. /\ Len(posted) \in Nat /\ Len(sq) \in Nat /\ Len(cq) \in Nat /\ Len(wc) \in Nat
      /\ Len(printed) \in Nat /\ delivered \in Nat /\ Done \in Nat
      /\ Len(printed) <= Done + Len(wc)
  BY Bounds, TypeShapes DEF Known, InOrder, Received
<1>2. Done + Len(wc) + Len(cq) = delivered /\ delivered + Len(sq) <= Len(posted)
  BY DEF Known, InOrder, Received, Places, Sends
<1>3. ipc = "flush" => Len(printed) > 0
  BY DEF Known, InOrder, Received, Places
<1> QED BY <1>1, <1>2, <1>3, SMT DEF Handled

\* Indexes of writes are indexes of slots, each in its place in the buffer.
LEMMA WordPlace ==
  ASSUME Known, NEW n \in 1 .. Len(posted)
  PROVE  posted[n] \in SlotIndexes /\ EventOffset(0, posted[n]) \in Offsets
<1>1. posted[n] \in SlotIndexes
  BY ElementOfSeq DEF Known, TypeInv, TypeOK
<1> QED BY <1>1, SlotOfIndex

\* The write executed next is the next one posted, at the place its index gives.
LEMMA NextWrite ==
  ASSUME Known, sq # << >>
  PROVE  /\ delivered + 1 \in 1 .. Len(posted)
         /\ Head(sq).remote_addr = EventOffset(0, posted[delivered + 1])
<1>b. /\ Len(posted) \in Nat /\ Len(sq) \in Nat /\ delivered \in Nat
      /\ delivered + Len(sq) <= Len(posted)
  BY KnownCounts
<1>1. Len(sq) # 0
  BY EmptyLen DEF Known, TypeInv, TypeOK
<1>2. delivered + 1 \in 1 .. Len(posted) /\ 1 \in 1 .. Len(sq)
  BY <1>b, <1>1, SMT
<1>3. sq[1] = [imm_data    |-> Wire_imm(posted[delivered + 1]),
               remote_addr |-> WriteOffset(posted[delivered + 1])]
  BY <1>2 DEF Known, InOrder, Sends, SendsInOrder
<1>4. Head(sq) = sq[1]
  BY DEF Known, TypeInv, TypeOK
<1>5. WriteOffset(posted[delivered + 1]) = EventOffset(0, posted[delivered + 1])
  BY <1>2, WordPlace, SlotOfIndex
<1> QED BY <1>2, <1>3, <1>4, <1>5

\* A write posted changes nothing of what is on its way or printed.
LEMMA TextPost ==
  ASSUME Known, Text, PostWrite, UNCHANGED overlapped
  PROVE  Text'
<1>b. /\ Len(posted) \in Nat /\ Len(printed) \in Nat /\ delivered \in Nat
      /\ delivered <= Len(posted) /\ Len(printed) <= delivered
  BY KnownCounts, SMT
<1>1. /\ \A j \in 1 .. Len(posted) : posted'[j] = posted[j]
      /\ UNCHANGED <<mem, printed, delivered, ipc>>
  BY AppendKeeps DEF PostWrite, invokerVars, Known, TypeInv, TypeOK
<1>2. \A n \in 1 .. delivered : posted'[n] = posted[n]
  BY <1>b, <1>1, SMT
<1>3. Handled' = Handled
  BY <1>1 DEF Handled
<1>4. Behind'
  BY <1>1, <1>2, <1>3 DEF Text, Behind
<1>5. InSlot'
  <2> SUFFICES ASSUME NEW n \in Len(printed) + 1 .. delivered, n \notin overlapped
               PROVE  mem[EventOffset(0, posted'[n])] = posted'[n]
    BY <1>1 DEF InSlot, EventOffset
  <2>1. n \in 1 .. delivered
    BY <1>b, SMT
  <2> QED BY <2>1, <1>2 DEF Text, InSlot
<1>6. OwnText'
  <2> SUFFICES ASSUME NEW n \in 1 .. Len(printed), n \notin overlapped
               PROVE  printed[n].text = posted'[n]
    BY <1>1 DEF OwnText
  <2>1. n \in 1 .. delivered
    BY <1>b, SMT
  <2> QED BY <2>1, <1>2 DEF Text, OwnText
<1> QED BY <1>4, <1>5, <1>6 DEF Text

\* A write delivered in time, into a slot that was flushed, stands in it; one it meets
\* there is an overlap.
LEMMA TextDeliver ==
  ASSUME Known, Text, PacedDeliver
  PROVE  Text'
<1> DEFINE m == delivered + 1
<1>b. /\ Len(posted) \in Nat /\ Len(printed) \in Nat /\ delivered \in Nat
      /\ delivered <= Len(posted) /\ Len(printed) <= delivered
      /\ Handled \in Nat /\ Handled <= Len(printed)
  BY KnownCounts, SMT
<1>1. /\ sq # << >> /\ delivered' = m
      /\ mem' = [mem EXCEPT ![Head(sq).remote_addr] = cbuf]
      /\ UNCHANGED <<posted, printed, ipc>>
      /\ overlapped' = overlapped \cup Unread(m)
                                  \cup {n \in {m} : ~InTime(n) \/ Unflushed(n) # {}}
  BY DEF PacedDeliver, Deliver, controllerVars
<1>2. m \in 1 .. Len(posted) /\ Head(sq).remote_addr = EventOffset(0, posted[m])
  BY <1>1, NextWrite
<1>3. /\ mem' = [mem EXCEPT ![EventOffset(0, posted[m])] = cbuf]
      /\ EventOffset(0, posted[m]) \in Offsets /\ mem \in [Offsets -> Content]
      /\ posted[m] \in SlotIndexes
  BY <1>1, <1>2, WordPlace DEF Known, TypeInv, TypeOK
<1>4. Handled' = Handled
  BY <1>1 DEF Handled
<1>5. Behind'
  <2> SUFFICES ASSUME NEW k \in 1 .. m, NEW n \in 1 .. m,
                      Handled < k, k < n, posted[k] = posted[n], n \notin overlapped'
               PROVE  FALSE
    BY <1>1, <1>4 DEF Behind
  <2>1. k \in 1 .. delivered
    BY <1>b, SMT
  <2>2. CASE n = m
    <3>1. k \in Handled + 1 .. n - 1
      BY <1>b, SMT
    <3>2. Unflushed(m) # {}
      BY <3>1, <2>2 DEF Unflushed, SameSlot
    <3> QED BY <3>2, <2>2, <1>1
  <2>3. CASE n \in 1 .. delivered
    BY <2>1, <2>3, <1>1 DEF Text, Behind
  <2> QED BY <2>2, <2>3, <1>b, SMT
<1>6. InSlot'
  <2> SUFFICES ASSUME NEW n \in Len(printed) + 1 .. m, n \notin overlapped'
               PROVE  mem'[EventOffset(0, posted[n])] = posted[n]
    BY <1>1 DEF InSlot, EventOffset
  <2>1. CASE n = m
    <3>1. InTime(m)
      BY <2>1, <1>1
    <3>2. cbuf = posted[m]
      <4>1. Len(posted) > 0
        BY <1>2, <1>b, SMT
      <4> QED BY <3>1, <4>1 DEF InTime, Known, Source
    <3> QED BY <2>1, <3>2, <1>3
  <2>2. CASE n \in Len(printed) + 1 .. delivered
    <3>1. n \in Len(printed) + 1 .. m - 1 /\ n \in 1 .. Len(posted)
      BY <2>2, <1>b, SMT
    <3>2. posted[n] # posted[m]
      BY <3>1, <1>1 DEF Unread, SameSlot
    <3>3. posted[n] \in SlotIndexes /\ EventOffset(0, posted[n]) \in Offsets
      BY <3>1, WordPlace
    <3>4. EventOffset(0, posted[n]) # EventOffset(0, posted[m])
      BY <3>2, <3>3, <1>3, SlotsDiffer
    <3>5. mem'[EventOffset(0, posted[n])] = mem[EventOffset(0, posted[n])]
      BY <3>3, <3>4, <1>3
    <3> QED BY <2>2, <3>5, <1>1 DEF Text, InSlot
  <2> QED BY <2>1, <2>2, <1>b, SMT
<1>7. OwnText'
  BY <1>1 DEF Text, OwnText
<1> QED BY <1>5, <1>6, <1>7 DEF Text

\* What the handler reads is what stands in the slot.
LEMMA TextRead ==
  ASSUME Known, Text, ReadSlot, UNCHANGED overlapped
  PROVE  Text'
<1>b. /\ Len(posted) \in Nat /\ Len(printed) \in Nat /\ delivered \in Nat
      /\ Len(wc) \in Nat /\ Len(cq) \in Nat /\ Len(printed) <= delivered
  BY KnownCounts
<1>1. /\ Len(printed) < Len(posted)
      /\ Len(printed') = Len(printed) + 1
      /\ \A j \in 1 .. Len(printed) : printed'[j] = printed[j]
      /\ InHand = <<0, posted[Len(printed) + 1]>>
      /\ printed'[Len(printed) + 1] =
            [inv_id |-> 0, index |-> posted[Len(printed) + 1], text |-> mem[SlotInHand]]
  BY OrderRead, TypeShapes DEF Known, InOrder
<1>2. /\ ipc = "read" /\ ipc' = "flush" /\ UNCHANGED <<posted, mem, delivered>>
  BY DEF ReadSlot, controllerVars, wireVars
<1>3. Len(printed) + 1 <= delivered
  <2>1. Done = Len(printed) /\ Len(wc) # 0
    BY <1>2, EmptyLen, Bounds, TypeShapes DEF Known, InOrder, Received, Shapes, Batch
  <2>2. Done + Len(wc) + Len(cq) = delivered
    BY DEF Known, InOrder, Received, Places
  <2> QED BY <2>1, <2>2, <1>b, SMT
<1>4. Handled' = Handled
  <2>1. Handled = Len(printed)
    BY <1>2, KnownCounts
  <2>2. Handled' = Len(printed') - 1
    BY <1>2 DEF Handled
  <2> QED BY <2>1, <2>2, <1>1, <1>b, SMT
<1>5. Behind'
  BY <1>2, <1>4 DEF Text, Behind
<1>6. InSlot'
  <2> SUFFICES ASSUME NEW n \in Len(printed') + 1 .. delivered, n \notin overlapped
               PROVE  mem[EventOffset(0, posted[n])] = posted[n]
    BY <1>2 DEF InSlot, EventOffset
  <2>1. n \in Len(printed) + 1 .. delivered
    BY <1>1, <1>b, SMT
  <2> QED BY <2>1 DEF Text, InSlot
<1>7. OwnText'
  <2> SUFFICES ASSUME NEW n \in 1 .. Len(printed) + 1, n \notin overlapped
               PROVE  printed'[n].text = posted[n]
    BY <1>1, <1>2 DEF OwnText
  <2>1. CASE n = Len(printed) + 1
    <3>1. SlotInHand = EventOffset(0, posted[n])
      BY <2>1, <1>1 DEF SlotInHand
    <3>2. n \in Len(printed) + 1 .. delivered
      BY <2>1, <1>3, <1>b, SMT
    <3>3. mem[SlotInHand] = posted[n]
      BY <3>1, <3>2 DEF Text, InSlot
    <3> QED BY <2>1, <3>3, <1>1
  <2>2. CASE n \in 1 .. Len(printed)
    BY <2>2, <1>1 DEF Text, OwnText
  <2> QED BY <2>1, <2>2, <1>b, SMT
<1> QED BY <1>5, <1>6, <1>7 DEF Text

\* What the handler flushes is the slot of the message it printed; a later message
\* there is an overlap.
LEMMA TextFlush ==
  ASSUME Known, Text, FlushSlot, UNCHANGED overlapped
  PROVE  Text'
<1> DEFINE p == Len(printed)
<1>b. /\ Len(posted) \in Nat /\ p \in Nat /\ delivered \in Nat /\ Len(wc) \in Nat
      /\ delivered <= Len(posted) /\ p <= delivered /\ Handled \in Nat
  BY KnownCounts, SMT
<1>1. /\ ipc = "flush" /\ ipc' = "repost" /\ mem' = [mem EXCEPT ![SlotInHand] = Flushed]
      /\ UNCHANGED <<posted, printed, delivered>>
  BY DEF FlushSlot, controllerVars, wireVars
<1>2. p > 0 /\ Len(wc) # 0 /\ Done = p - 1 /\ Handled = p - 1
  <2>1. p > 0 /\ Len(wc) # 0 /\ Done = p - 1
    BY <1>1, EmptyLen, Bounds, TypeShapes
       DEF Known, InOrder, Received, Places, Shapes, Batch
  <2> QED BY <2>1, <1>1, KnownCounts
<1>3. p \in 1 .. Len(posted) /\ p \in 1 .. delivered /\ posted[p] \in SlotIndexes
  <2>1. p \in 1 .. Len(posted) /\ p \in 1 .. delivered
    BY <1>b, <1>2, SMT
  <2> QED BY <2>1, WordPlace
<1>4. SlotInHand = EventOffset(0, posted[p])
  <2>1. 1 \in 1 .. Len(wc) /\ Done + 1 = p
    BY <1>b, <1>2, SMT
  <2>2. wc[1] = Wire_imm(posted[p])
    BY <2>1 DEF Known, InOrder, Received, BatchInOrder
  <2>3. Head(wc) = wc[1]
    BY DEF Known, TypeInv, TypeOK
  <2> QED BY <1>3, <2>2, <2>3, SlotOfIndex DEF SlotInHand, InHand, Wire_imm
<1>5. Behind'
  <2>1. Handled' = p
    BY <1>1, <1>b, SMT DEF Handled
  <2> SUFFICES ASSUME NEW k \in 1 .. delivered, NEW n \in 1 .. delivered,
                      p < k, k < n, posted[k] = posted[n]
               PROVE  n \in overlapped
    BY <2>1, <1>1 DEF Behind
  <2>2. Handled < k
    BY <1>b, <1>2, SMT
  <2> QED BY <2>2 DEF Text, Behind
<1>6. InSlot'
  <2> SUFFICES ASSUME NEW n \in p + 1 .. delivered, n \notin overlapped
               PROVE  mem'[EventOffset(0, posted[n])] = posted[n]
    BY <1>1 DEF InSlot, EventOffset
  <2>1. Handled < p /\ p < n /\ n \in 1 .. delivered /\ n \in 1 .. Len(posted)
    BY <1>b, <1>2, SMT
  <2>2. posted[p] # posted[n]
    BY <2>1, <1>3 DEF Text, Behind
  <2>3. posted[n] \in SlotIndexes /\ EventOffset(0, posted[n]) \in Offsets
    BY <2>1, WordPlace
  <2>4. EventOffset(0, posted[p]) # EventOffset(0, posted[n])
    BY <2>2, <2>3, <1>3, SlotsDiffer
  <2>5. mem'[EventOffset(0, posted[n])] = mem[EventOffset(0, posted[n])]
    BY <1>1, <1>4, <2>3, <2>4 DEF Known, TypeInv, TypeOK
  <2> QED BY <2>5 DEF Text, InSlot
<1>7. OwnText'
  BY <1>1 DEF Text, OwnText
<1> QED BY <1>5, <1>6, <1>7 DEF Text

\* The other steps touch neither slots nor counts.
LEMMA TextOther ==
  ASSUME Known, Text, UNCHANGED <<posted, printed, mem, delivered, overlapped>>,
         ipc' = ipc \/ (ipc # "flush" /\ ipc' # "flush")
  PROVE  Text'
<1>1. Handled' = Handled
  BY DEF Handled
<1> QED BY <1>1 DEF Text, Behind, InSlot, OwnText, EventOffset

\* Every step keeps the words where they belong, or counts them as overlapped.
LEMMA TextStep ==
  ASSUME Known, Text, [PacedNext]_pacedVars
  PROVE  Text'
<1>1. CASE PacedDeliver
  BY <1>1, TextDeliver
<1>2. CASE PacedOther /\ PostWrite
  BY <1>2, TextPost DEF PacedOther, pacingVars
<1>3. CASE PacedOther /\ ReadSlot
  BY <1>3, TextRead DEF PacedOther, pacingVars
<1>4. CASE PacedOther /\ FlushSlot
  BY <1>4, TextFlush DEF PacedOther, pacingVars
<1>5. CASE \/ PacedOther /\ ~PostWrite /\ ~ReadSlot /\ ~FlushSlot
           \/ PacedSleepOver
           \/ UNCHANGED pacedVars
  <2>1. /\ UNCHANGED <<posted, printed, mem, delivered, overlapped>>
        /\ ipc' = ipc \/ (ipc # "flush" /\ ipc' # "flush")
    BY <1>5 DEF PacedOther, PacedSleepOver, pacedVars, pacingVars, Invoker, CopyBegin, CopyEnd,
         PostFails, PollSend, SleepOver, Acknowledge, Teardown, FillRecv, GetEvent, Rearm, Drain,
         Repost, vars, controllerVars, wireVars, invokerVars
  <2> QED BY <2>1, TextOther
<1> QED BY <1>1, <1>2, <1>3, <1>4, <1>5 DEF PacedNext

\* Every event prints the word written for it, for any number of slots, writes and
\* receives and whatever the timing, unless its write was late or two writes met in its
\* slot (controller.cpp:115-146, invoker.cpp:147-178).
THEOREM OwnWordHolds == PacedSpec => []OwnWord
<1>1. PacedInit => Text
  <2> SUFFICES ASSUME PacedInit PROVE Text
    OBVIOUS
  <2>1. Len(<< >>) = 0
    BY EmptySeq
  <2>2. Len(printed) = 0 /\ delivered = 0
    BY <2>1 DEF PacedInit, Init
  <2> QED BY <2>2, SMT DEF Text, Behind, InSlot, OwnText
<1>2. TypeInv /\ InOrder /\ Source /\ Text /\ [PacedNext]_pacedVars => Text'
  BY TextStep DEF Known
<1>3. TypeInv /\ InOrder /\ Text => OwnWord
  <2> SUFFICES ASSUME TypeInv, InOrder, Text PROVE OwnWord
    OBVIOUS
  <2>1. DOMAIN printed = 1 .. Len(printed)
    BY LenProperties DEF TypeInv, TypeOK
  <2> QED BY <2>1 DEF OwnWord, Text, OwnText, InOrder, Received, PrintedInOrder
<1> QED BY <1>1, <1>2, <1>3, PacedIsStream, TypeCorrect, InOrderHolds, SourceHolds, PTL
        DEF PacedSpec

-----------------------------------------------------------------------------
(* The stream while queue pairs come up, break and are flushed, and while  *)
(* processes end: for every value of the constants and either loop of the  *)
(* invoker, no receive is lost and the mailbox's promise is kept.          *)
(*                                                                         *)
(* The steps EventLife takes over from EventStream are dealt with by the   *)
(* lemmas above.  What those lemmas ask for holds only while it can        *)
(* matter: the batch and the order of what arrived until the invoker ends, *)
(* and the order of what is on its way until the controller's queue pair   *)
(* is in the error state.                                                  *)

\* Types of the variables a failure can change, and the shapes of the stream.
LifeTypes ==
  /\ Shapes
  /\ consumer \in Consumers
  /\ cqp \in {"reset", "rts", "err"} /\ iqp \in {"reset", "rts", "err"}
  /\ link \in BOOLEAN
  /\ lost \in Nat /\ cqErr \in Nat /\ wcErr \in Nat /\ failures \in Nat
  /\ ipc \in {"fill", "get", "arm", "drain", "read", "flush", "repost", "exit"}

LifeInv == LifeTypes /\ (ipc # "exit" => Batch)

\* Steps of the event thread as EventStream has them.
AsBefore == LifeFill \/ LifeWait \/ LifeDrain \/ LifeRead \/ LifeRepost

-----------------------------------------------------------------------------
\* Which part of the state a step leaves alone.

\* A thread that takes a step of the event loop has not ended.
LEMMA BeforeFacts ==
  ASSUME AsBefore
  PROVE  /\ Invoker /\ ipc # "exit"
         /\ UNCHANGED <<controllerVars, wireVars, lifeVars>>
BY DEF AsBefore, LifeFill, LifeWait, LifeDrain, LifeRead, LifeRepost, Invoker,
       FillRecv, GetEvent, Rearm, Drain, ReadSlot, FlushSlot, Repost

\* The controller's steps do not concern the invoker.
LEMMA ContRunsFacts ==
  ASSUME ContRuns
  PROVE  Controller /\ UNCHANGED <<delivered, acked, invokerVars, lifeVars>>
BY DEF ContRuns, Controller, CopyBegin, CopyEnd, PostWrite, PostFails, PollSend, SleepOver,
       wireVars

\* The flushed slot of the polling loop is one of the buffer, and it is where the
\* write that is in hand went: the immediate of invoker 0 is the index itself.
LEMMA PolledFacts ==
  ASSUME NEW k \in SlotIndexes, Head(wc) = Wire_imm(k)
  PROVE  PolledImm = k /\ PolledSlot = EventOffset(0, k)
<1>1. k \in Nat /\ encode_imm(0, k) = k
  BY LayoutAssumption, SMT DEF SlotIndexes, encode_imm
<1>2. PolledImm = k
  BY <1>1, OctetsRoundTrip DEF PolledImm, Wire_imm
<1>3. WriteOffset(k) = EventOffset(0, k)
  BY SlotOfIndex
<1> QED BY <1>2, <1>3 DEF PolledSlot, WriteOffset

-----------------------------------------------------------------------------
\* Types.

\* Steps that EventStream has keep the types.
LEMMA LifeTypesBefore ==
  ASSUME LifeInv, AsBefore \/ ContRuns \/ LifeDeliver \/ LifeAcknowledge \/ LifeTeardown
  PROVE  LifeInv'
<1>t. LifeTypes /\ Shapes /\ (ipc # "exit" => Batch)
  BY DEF LifeInv, LifeTypes
<1>1. CASE AsBefore
  <2>1. Invoker /\ ipc # "exit" /\ UNCHANGED lifeVars
    BY <1>1, BeforeFacts
  <2>2. /\ Shapes' /\ Batch'
        /\ ipc' \in {"fill", "get", "arm", "drain", "read", "flush", "repost"}
    BY <1>t, <2>1, ShapesInvoker
  <2> QED BY <1>t, <2>1, <2>2 DEF LifeInv, LifeTypes, lifeVars
<1>2. CASE ContRuns
  <2>1. Controller /\ UNCHANGED <<invokerVars, lifeVars>>
    BY <1>2, ContRunsFacts
  <2>2. Shapes'
    BY <1>t, <2>1, ShapesController
  <2> QED BY <1>t, <2>1, <2>2 DEF LifeInv, LifeTypes, Batch, lifeVars, invokerVars
<1>3. CASE LifeDeliver \/ LifeAcknowledge \/ LifeTeardown
  <2>1. Wire /\ UNCHANGED <<wc, ipc, lifeVars>>
    BY <1>3 DEF LifeDeliver, LifeAcknowledge, LifeTeardown, Wire, Deliver, Acknowledge,
                Teardown, invokerVars
  <2>2. Shapes'
    BY <1>t, <2>1, ShapesWire
  <2> QED BY <1>t, <2>1, <2>2 DEF LifeInv, LifeTypes, Batch, lifeVars
<1> QED BY <1>1, <1>2, <1>3

\* So do the steps of the connection, the queue pairs and the processes.
LEMMA LifeTypesFailures ==
  ASSUME LifeInv,
         \/ ContReady \/ InvReady \/ RetryExceeded \/ FlushSends \/ InvokerFault
         \/ LinkBreaks \/ LinkHeals \/ ControllerEnds \/ InvokerEnds
  PROVE  LifeInv'
<1>1. CASE ContReady \/ InvReady \/ LinkBreaks \/ LinkHeals
  <2>1. UNCHANGED <<vars, consumer, lost, cqErr, wcErr>>
    BY <1>1 DEF ContReady, InvReady, LinkBreaks, LinkHeals
  <2>2. /\ cqp' \in {"reset", "rts", "err"} /\ iqp' \in {"reset", "rts", "err"}
        /\ link' \in BOOLEAN
    BY <1>1, Zenon DEF ContReady, InvReady, LinkBreaks, LinkHeals, LifeInv, LifeTypes
  <2>4. failures' \in Nat
    BY <1>1, SMT DEF ContReady, InvReady, LinkBreaks, LinkHeals, LifeInv, LifeTypes
  <2>3. Shapes' /\ UNCHANGED <<ipc, wc>>
    BY <2>1 DEF vars, controllerVars, wireVars, invokerVars, LifeInv, LifeTypes, Shapes
  <2> QED BY <2>1, <2>2, <2>3, <2>4 DEF LifeInv, LifeTypes, Batch
<1> USE DEF LifeInv, LifeTypes, Shapes, Batch, vars, controllerVars, wireVars, invokerVars
<1>2. CASE RetryExceeded
  BY <1>2, EmptySeq, SMT DEF RetryExceeded
<1>3. CASE FlushSends
  <2>1. Len(posted) \in Nat
    BY LenProperties
  <2>2. /\ acked' \in Nat /\ reaped' \in Nat /\ reaped' <= acked' /\ lost' \in Nat
    BY <1>3, <2>1, SMT DEF FlushSends
  <2>3. sq' \in Seq(Delivery)
    BY <1>3, EmptySeq DEF FlushSends
  <2> QED BY <1>3, <2>2, <2>3 DEF FlushSends
<1>4. CASE InvokerFault
  BY <1>4, SMT DEF InvokerFault, Announce
<1>5. CASE ControllerEnds
  BY <1>5, EmptySeq, SMT DEF ControllerEnds
<1>6. CASE InvokerEnds
  BY <1>6, SMT DEF InvokerEnds
<1> QED BY <1>1, <1>2, <1>3, <1>4, <1>5, <1>6

\* And the steps of the event thread that EventStream has not.
LEMMA LifeTypesInvoker ==
  ASSUME LifeInv,
         \/ FillFlushed \/ PollAgain \/ DrainErrors \/ WcFailed \/ PollRead \/ PollFlush
         \/ RepostFlushed
  PROVE  LifeInv'
<1> USE DEF LifeInv, LifeTypes, Shapes, Batch, vars, controllerVars, wireVars, invokerVars
<1>1. CASE FillFlushed
  BY <1>1, SMT DEF FillFlushed, Announce
<1>2. CASE PollAgain
  BY <1>2 DEF PollAgain, lifeVars
<1>6. CASE WcFailed
  BY <1>6 DEF WcFailed, lifeVars
<1>3. CASE DrainErrors
  <2> DEFINE n == Smaller(cqErr, NUM_WC - Len(cq))
  <2>1. Len(cq) \in Nat /\ NUM_WC \in Nat /\ Len(cq) < NUM_WC
    BY <1>3, StreamAssumption, LenProperties DEF DrainErrors
  <2>2. NUM_WC - Len(cq) \in Nat
    BY <2>1, SMT
  <2>3. n \in Nat /\ n <= cqErr
    BY <2>2, SmallerFacts
  <2>4. /\ wcErr' = n /\ cqErr' = cqErr - n
    BY <1>3 DEF DrainErrors
  <2> HIDE DEF n
  <2>5. wcErr' \in Nat /\ cqErr' \in Nat
    BY <2>3, <2>4, SMT
  <2>6. << >> \in Seq(Immediates)
    BY EmptySeq
  <2> QED BY <1>3, <2>5, <2>6 DEF DrainErrors
<1>4. CASE PollRead \/ PollFlush
  <2>1. wc # << >> /\ Head(wc) \in Immediates
    BY <1>4, HeadTailProperties DEF PollRead, PollFlush
  <2>2. PICK k \in SlotIndexes : Head(wc) = Wire_imm(k)
    BY <2>1 DEF Immediates, Wire_imm
  <2>3. PolledImm = k /\ PolledSlot = EventOffset(0, k)
    BY <2>2, PolledFacts
  <2>4. mem[PolledSlot] \in Content /\ 0 \in InvokerIds
    BY <2>3, SlotOfIndex
  <2>5. [inv_id |-> 0, index |-> PolledImm, text |-> mem[PolledSlot]] \in Report
    BY <2>3, <2>4 DEF Report
  <2>6. CASE PollRead
    <3>1. printed' \in Seq(Report)
      BY <2>5, <2>6, AppendProperties DEF PollRead
    <3> QED BY <2>6, <3>1 DEF PollRead, lifeVars
  <2>7. CASE PollFlush
    <3>1. mem' \in [Offsets -> Content]
      BY <2>7 DEF PollFlush, Content
    <3> QED BY <2>7, <3>1 DEF PollFlush, lifeVars
  <2> QED BY <1>4, <2>6, <2>7
<1>5. CASE RepostFlushed
  <2>1. wc' = Tail(wc) /\ wc # << >>
    BY <1>5 DEF RepostFlushed
  <2>2. wc' \in Seq(Immediates)
    BY <2>1, HeadTailProperties
  <2>3. /\ ipc' = IF wc' = << >> THEN "drain" ELSE "read"
        /\ cqErr' = cqErr + 1
        /\ events' = IF 1 > 0 /\ armed THEN events + 1 ELSE events
        /\ armed' = (armed /\ 1 = 0)
    BY <1>5 DEF RepostFlushed, Announce
  <2>4. /\ cqErr' \in Nat /\ events' \in Nat /\ armed' \in BOOLEAN
    BY <2>3, SMT
  <2> QED BY <1>5, <2>2, <2>3, <2>4 DEF RepostFlushed
<1> QED BY <1>1, <1>2, <1>3, <1>4, <1>5, <1>6

\* The step relation, by kind.
LEMMA LifeSteps ==
  ASSUME [LifeNext]_allVars
  PROVE  \/ AsBefore \/ ContRuns \/ LifeDeliver \/ LifeAcknowledge \/ LifeTeardown
         \/ ContReady \/ InvReady \/ RetryExceeded \/ FlushSends \/ InvokerFault
         \/ LinkBreaks \/ LinkHeals \/ ControllerEnds \/ InvokerEnds
         \/ FillFlushed \/ PollAgain \/ DrainErrors \/ WcFailed \/ PollRead \/ PollFlush
         \/ RepostFlushed
         \/ UNCHANGED allVars
BY DEF LifeNext, InvRuns, AsBefore

\* Types, and the batch while the event thread lives, at every moment of every run.
THEOREM LifeTypesHold == LifeSpec => []LifeInv
<1>1. LifeInit => LifeInv
  BY ShapesInit, LifeAssumption DEF LifeInit, LifeInv, LifeTypes, Init
<1>2. LifeInv /\ [LifeNext]_allVars => LifeInv'
  <2> SUFFICES ASSUME LifeInv, [LifeNext]_allVars PROVE LifeInv'
    OBVIOUS
  <2>1. CASE UNCHANGED allVars
    BY <2>1 DEF allVars, vars, lifeVars, controllerVars, wireVars, invokerVars,
                LifeInv, LifeTypes, Shapes, Batch
  <2> QED BY <2>1, LifeSteps, LifeTypesBefore, LifeTypesFailures, LifeTypesInvoker
<1> QED BY <1>1, <1>2, PTL DEF LifeSpec
-----------------------------------------------------------------------------
\* Receives.

\* Every step keeps the account: a receive that fails moves to the completions in
\* error, one that is posted to a failed queue pair goes there at once.
LEMMA AnsweredStep == LifeInv /\ ReceivesAnswered /\ [LifeNext]_allVars => ReceivesAnswered'
<1> SUFFICES ASSUME LifeInv, ReceivesAnswered, [LifeNext]_allVars PROVE ReceivesAnswered'
  OBVIOUS
<1>t. /\ Shapes /\ (ipc # "exit" => Batch)
      /\ rq \in Nat /\ filled \in Nat /\ cqErr \in Nat /\ wcErr \in Nat
      /\ Len(cq) \in Nat /\ Len(wc) \in Nat
      /\ cq \in Seq(Immediates) /\ wc \in Seq(Immediates)
  BY LenProperties DEF LifeInv, LifeTypes, Shapes
<1>a. rq + Len(cq) + cqErr + wcErr + Len(wc) = filled
  BY DEF ReceivesAnswered
<1>1. CASE AsBefore \/ LifeDeliver
  <2>1. /\ Deliver \/ Invoker
        /\ ipc # "exit" /\ cqErr' = cqErr /\ wcErr' = wcErr
    BY <1>1, BeforeFacts DEF LifeDeliver, Reachable, lifeVars
  <2>2. /\ Outstanding \in Nat /\ Outstanding' \in Nat /\ filled' \in Nat
        /\ Outstanding' + filled = Outstanding + filled'
    BY <1>t, <2>1, ReceivesMoved
  <2>3. Outstanding + cqErr + wcErr = filled
    BY <1>t, <1>a, SMT DEF Outstanding
  <2>4. Outstanding' + cqErr + wcErr = filled'
    <3>1. PICK o1 \in Nat, f1 \in Nat : o1 = Outstanding' /\ f1 = filled'
      BY <2>2
    <3>2. o1 + filled = Outstanding + f1
      BY <2>2, <3>1
    <3>3. /\ Outstanding \in Nat /\ filled \in Nat /\ cqErr \in Nat /\ wcErr \in Nat
      BY <1>t, <2>2
    <3>4. o1 + cqErr + wcErr = f1
      BY <2>3, <3>2, <3>3, SMT
    <3> QED BY <3>1, <3>4
  <2> DEFINE c == Len(cq')
             w == Len(wc')
  <2>5. rq' \in Nat /\ c \in Nat /\ w \in Nat
    <3>1. Shapes'
      BY <1>t, <2>1, ShapesWire, ShapesInvoker DEF Wire
    <3> QED BY <3>1, LenProperties DEF Shapes
  <2>6. rq' + c + w + cqErr + wcErr = filled'
    BY <2>4 DEF Outstanding
  <2>7. cqErr' = cqErr /\ wcErr' = wcErr
    BY <2>1
  <2> HIDE DEF c, w
  <2>8. rq' + c + cqErr' + wcErr' + w = filled'
    BY <1>t, <2>5, <2>6, <2>7, SMT
  <2> QED BY <2>8 DEF c, w, ReceivesAnswered
<1>2. CASE \/ ContRuns \/ LifeAcknowledge \/ LifeTeardown
           \/ ContReady \/ InvReady \/ RetryExceeded \/ FlushSends
           \/ LinkBreaks \/ LinkHeals \/ ControllerEnds \/ InvokerEnds
           \/ PollAgain \/ WcFailed \/ PollRead \/ PollFlush \/ UNCHANGED allVars
  <2>1. UNCHANGED <<rq, cq, wc, cqErr, wcErr, filled>>
    BY <1>2, ContRunsFacts
       DEF LifeAcknowledge, LifeTeardown, Acknowledge, Teardown, ContReady, InvReady,
           RetryExceeded, FlushSends, LinkBreaks, LinkHeals, ControllerEnds, InvokerEnds,
           PollAgain, WcFailed, PollRead, PollFlush, allVars, vars, invokerVars, lifeVars
  <2> QED BY <2>1 DEF ReceivesAnswered
<1>3. CASE InvokerFault
  <2>1. rq' = 0 /\ cqErr' = cqErr + rq /\ UNCHANGED <<cq, wc, wcErr, filled>>
    BY <1>3 DEF InvokerFault, Announce
  <2>2. rq' + Len(cq) + cqErr' + wcErr + Len(wc) = filled
    BY <1>t, <1>a, <2>1, SMT
  <2> QED BY <2>1, <2>2 DEF ReceivesAnswered
<1>4. CASE FillFlushed
  <2>1. filled' = filled + 1 /\ cqErr' = cqErr + 1 /\ UNCHANGED <<rq, cq, wc, wcErr>>
    BY <1>4 DEF FillFlushed, Announce
  <2>2. rq + Len(cq) + cqErr' + wcErr + Len(wc) = filled'
    BY <1>t, <1>a, <2>1, SMT
  <2> QED BY <2>1, <2>2 DEF ReceivesAnswered
<1>5. CASE DrainErrors
  <2> DEFINE n == Smaller(cqErr, NUM_WC - Len(cq))
  <2>1. /\ ipc = "drain" /\ wcErr = 0 /\ Len(cq) < NUM_WC
        /\ wc' = cq /\ cq' = << >> /\ wcErr' = n /\ cqErr' = cqErr - n
        /\ UNCHANGED <<rq, filled>>
    BY <1>5 DEF DrainErrors
  <2>2. NUM_WC - Len(cq) \in Nat
    BY <1>t, <2>1, StreamAssumption, SMT
  <2>3. n \in Nat /\ n <= cqErr
    BY <1>t, <2>2, SmallerFacts
  <2> HIDE DEF n
  <2>4. Len(wc) = 0 /\ Len(<< >>) = 0
    BY <1>t, <2>1, EmptyLen, EmptySeq DEF Batch
  <2>5. wcErr' = n /\ cqErr' = cqErr - n
    BY <2>1
  <2>6. rq + 0 + cqErr' + wcErr' + Len(cq) = filled
    BY <1>t, <1>a, <2>1, <2>3, <2>4, <2>5, SMT
  <2> QED BY <2>1, <2>4, <2>6 DEF ReceivesAnswered
<1>6. CASE RepostFlushed
  <2>1. /\ ipc = "repost" /\ wc' = Tail(wc) /\ cqErr' = cqErr + 1
        /\ UNCHANGED <<rq, cq, wcErr, filled>>
    BY <1>6 DEF RepostFlushed, Announce
  <2>2. wc # << >>
    BY <1>t, <2>1 DEF Batch
  <2> DEFINE w == Len(wc')
  <2>3. w = Len(wc) - 1
    BY <1>t, <2>1, <2>2, HeadTailProperties
  <2> HIDE DEF w
  <2>4. cqErr' = cqErr + 1
    BY <2>1
  <2>5. rq + Len(cq) + cqErr' + wcErr + w = filled
    BY <1>t, <1>a, <2>3, <2>4, SMT
  <2> QED BY <2>1, <2>5 DEF ReceivesAnswered, w
<1> QED BY <1>1, <1>2, <1>3, <1>4, <1>5, <1>6, LifeSteps

\* A receive posted is in the queue, consumed, flushed or in the handler's hands,
\* whatever breaks and whoever ends: each one is answered for when the queue pair
\* enters the error state (invoker.cpp:129-134, 159-181).
THEOREM ReceivesAnsweredHolds == LifeSpec => []ReceivesAnswered
<1>1. LifeInit => ReceivesAnswered
  <2> SUFFICES ASSUME LifeInit PROVE ReceivesAnswered
    OBVIOUS
  <2>1. Len(<< >>) = 0
    BY EmptySeq
  <2> QED BY <2>1, SMT DEF LifeInit, Init, ReceivesAnswered
<1> QED BY <1>1, AnsweredStep, LifeTypesHold, PTL DEF LifeSpec

-----------------------------------------------------------------------------
\* Order.

\* Until the invoker ends, what arrived is in order; until the controller's queue
\* pair is in the error state, so is the rest.  Later neither is used: nobody prints,
\* nothing is delivered.
LifeOrder ==
  /\ ipc # "exit" => Received
  /\ cqp # "err" => Sends

\* Steps that EventStream has keep the order.
LEMMA LifeOrderBefore ==
  ASSUME LifeInv, LifeOrder,
         AsBefore \/ ContRuns \/ LifeDeliver \/ LifeAcknowledge \/ LifeTeardown
  PROVE  LifeOrder'
<1>t. Shapes /\ (ipc # "exit" => Batch /\ Received) /\ (cqp # "err" => Sends)
  BY DEF LifeInv, LifeTypes, LifeOrder
<1>1. CASE AsBefore
  <2>1. /\ Invoker /\ ipc # "exit"
        /\ UNCHANGED <<posted, sq, delivered, cpc, cqp>>
    BY <1>1, BeforeFacts DEF controllerVars, wireVars, lifeVars
  <2> QED BY <1>t, <2>1, OrderInvoker, SendsKept DEF LifeOrder
<1>2. CASE ContRuns
  <2>1. Controller /\ UNCHANGED <<ipc, cqp>>
    BY <1>2, ContRunsFacts DEF invokerVars, lifeVars
  <2> QED BY <1>t, <2>1, OrderController DEF LifeOrder
<1>3. CASE LifeDeliver
  <2>1. Deliver /\ ipc # "exit" /\ cqp # "err"
    BY <1>3 DEF LifeDeliver, Reachable
  <2> QED BY <1>t, <2>1, OrderDeliver DEF LifeOrder
<1>4. CASE LifeAcknowledge
  <2>1. UNCHANGED <<posted, sq, delivered, ipc, printed, wc, cq, cpc, cqp>>
    BY <1>4 DEF LifeAcknowledge, Acknowledge, controllerVars, invokerVars, lifeVars
  <2> QED BY <1>t, <2>1, ReceivedKept, SendsKept DEF LifeOrder
<1>5. CASE LifeTeardown
  <2>1. /\ UNCHANGED <<posted, delivered, ipc, printed, wc, cq, cqp>>
        /\ sq' = << >> /\ cpc' = "gone"
    BY <1>5 DEF LifeTeardown, Teardown, invokerVars, lifeVars
  <2> QED BY <1>t, <2>1, ReceivedKept, SendsDropped DEF LifeOrder
<1> QED BY <1>1, <1>2, <1>3, <1>4, <1>5

\* So do failures, which end the claim or move no message that still counts.
LEMMA LifeOrderFailures ==
  ASSUME LifeInv, LifeOrder,
         \/ ContReady \/ InvReady \/ RetryExceeded \/ FlushSends \/ InvokerFault
         \/ LinkBreaks \/ LinkHeals \/ ControllerEnds \/ InvokerEnds
  PROVE  LifeOrder'
<1>t. Shapes /\ (ipc # "exit" => Received) /\ (cqp # "err" => Sends)
  BY DEF LifeInv, LifeTypes, LifeOrder
<1>1. CASE ContReady \/ InvReady \/ InvokerFault \/ LinkBreaks \/ LinkHeals
  <2>1. /\ UNCHANGED <<posted, sq, delivered, ipc, printed, wc, cq, cpc>>
        /\ cqp' = cqp \/ cqp = "reset"
    BY <1>1 DEF ContReady, InvReady, InvokerFault, LinkBreaks, LinkHeals, vars,
                controllerVars, wireVars, invokerVars
  <2>2. cqp' # "err" => cqp # "err"
    BY <2>1
  <2> QED BY <1>t, <2>1, <2>2, ReceivedKept, SendsKept DEF LifeOrder
<1>2. CASE RetryExceeded \/ FlushSends
  <2>1. UNCHANGED <<posted, delivered, ipc, printed, wc, cq>> /\ cqp' = "err"
    BY <1>2 DEF RetryExceeded, FlushSends, controllerVars, invokerVars
  <2> QED BY <1>t, <2>1, ReceivedKept DEF LifeOrder
<1>3. CASE ControllerEnds
  <2>1. /\ UNCHANGED <<posted, delivered, ipc, printed, wc, cq, cqp>>
        /\ sq' = << >> /\ cpc' = "gone"
    BY <1>3 DEF ControllerEnds, invokerVars
  <2> QED BY <1>t, <2>1, ReceivedKept, SendsDropped DEF LifeOrder
<1>4. CASE InvokerEnds
  <2>1. UNCHANGED <<posted, sq, delivered, cpc, cqp>> /\ ipc' = "exit"
    BY <1>4 DEF InvokerEnds, controllerVars, wireVars
  <2> QED BY <1>t, <2>1, SendsKept DEF LifeOrder
<1> QED BY <1>1, <1>2, <1>3, <1>4

\* What the polling loop prints is the next message in turn.
LEMMA PollPrintsNext ==
  ASSUME LifeInv, LifeOrder, PollRead
  PROVE  /\ Shapes /\ Batch /\ Received
         /\ mem[PolledSlot] \in Content
         /\ ipc = "read" /\ ipc' = "flush"
         /\ printed' = Append(printed, [inv_id |-> 0, index |-> posted[Len(printed) + 1],
                                        text |-> mem[PolledSlot]])
         /\ UNCHANGED <<posted, wc, cq, sq, delivered, cpc, cqp>>
<1>1. /\ ipc = "read" /\ ipc' = "flush"
      /\ printed' = Append(printed, [inv_id |-> 0, index |-> PolledImm,
                                     text |-> mem[PolledSlot]])
      /\ UNCHANGED <<posted, wc, cq, sq, delivered, cpc, cqp>>
  BY DEF PollRead, controllerVars, wireVars, lifeVars
<1>2. Shapes /\ Batch /\ Received
  BY <1>1 DEF LifeInv, LifeTypes, LifeOrder
<1>3. /\ posted[Len(printed) + 1] \in SlotIndexes
      /\ Head(wc) = Wire_imm(posted[Len(printed) + 1])
  BY <1>1, <1>2, NextInHand
<1>4. /\ PolledImm = posted[Len(printed) + 1]
      /\ PolledSlot = EventOffset(0, posted[Len(printed) + 1])
  BY <1>3, PolledFacts
<1>5. mem[PolledSlot] \in Content
  BY <1>2, <1>3, <1>4, SlotOfIndex DEF Shapes
<1> QED BY <1>1, <1>2, <1>4, <1>5

\* The steps of the event thread that EventStream has not keep the order.
LEMMA LifeOrderInvoker ==
  ASSUME LifeInv, LifeOrder,
         \/ FillFlushed \/ PollAgain \/ DrainErrors \/ WcFailed \/ PollRead \/ PollFlush
         \/ RepostFlushed
  PROVE  LifeOrder'
<1>t. Shapes /\ (ipc # "exit" => Batch /\ Received) /\ (cqp # "err" => Sends)
  BY DEF LifeInv, LifeTypes, LifeOrder
<1>1. UNCHANGED <<posted, sq, delivered, cpc, cqp>> /\ ipc # "exit"
  BY DEF FillFlushed, PollAgain, DrainErrors, WcFailed, PollRead, PollFlush, RepostFlushed,
         controllerVars, wireVars, lifeVars
<1>2. cqp' # "err" => Sends'
  BY <1>t, <1>1, SendsKept
<1>3. CASE FillFlushed \/ PollAgain \/ PollFlush
  <2>1. /\ UNCHANGED <<printed, wc, cq>>
        /\ \/ ipc \notin {"flush", "repost"} /\ ipc' \notin {"flush", "repost"}
           \/ ipc = "flush" /\ ipc' = "repost"
    BY <1>3 DEF FillFlushed, PollAgain, PollFlush
  <2> QED BY <1>t, <1>1, <1>2, <2>1, ReceivedKept DEF LifeOrder
<1>4. CASE DrainErrors
  <2>1. /\ ipc = "drain" /\ ipc' \in {"get", "drain", "read"}
        /\ wc' = cq /\ cq' = << >> /\ printed' = printed
    BY <1>4 DEF DrainErrors
  <2> DEFINE n == Len(cq)
  <2>2. n \in Nat /\ n <= Len(cq)
    BY <1>t, Lengths, SMT
  <2>3. cq = SubSeq(cq, 1, n)
    <3>1. /\ SubSeq(cq, 1, n) \in Seq(Immediates)
          /\ Len(SubSeq(cq, 1, n)) = n
          /\ \A j \in 1 .. n : SubSeq(cq, 1, n)[j] = cq[j]
      BY <1>t, <2>2, SplitLengths DEF Shapes
    <3>2. cq \in Seq(Immediates)
      BY <1>t DEF Shapes
    <3> QED BY <3>1, <3>2, SeqEqual
  <2>4. << >> = SubSeq(cq, n + 1, Len(cq))
    <3> DEFINE b == SubSeq(cq, n + 1, Len(cq))
    <3>1. b \in Seq(Immediates) /\ Len(b) = Len(cq) - n
      BY <1>t, <2>2, SplitLengths DEF Shapes
    <3> HIDE DEF b
    <3>2. Len(b) = 0
      BY <2>2, <3>1, SMT
    <3> QED BY <3>1, <3>2, EmptyLen DEF b
  <2>5. wc' = SubSeq(cq, 1, n) /\ cq' = SubSeq(cq, n + 1, Len(cq))
    BY <2>1, <2>3, <2>4
  <2> HIDE DEF n
  <2> QED BY <1>t, <1>1, <1>2, <2>1, <2>2, <2>5, BatchTaken DEF LifeOrder
<1>5. CASE WcFailed
  BY <1>2, <1>5 DEF WcFailed, LifeOrder
<1>6. CASE PollRead
  <2> DEFINE t == mem[PolledSlot]
  <2>1. /\ t \in Content
        /\ ipc = "read" /\ ipc' = "flush"
        /\ printed' = Append(printed, [inv_id |-> 0, index |-> posted[Len(printed) + 1],
                                       text |-> t])
        /\ UNCHANGED <<posted, wc, cq, delivered>>
    BY <1>6, PollPrintsNext
  <2> HIDE DEF t
  <2> QED BY <1>t, <1>2, <2>1, NextPrinted DEF LifeOrder
<1>7. CASE RepostFlushed
  <2>1. /\ ipc = "repost" /\ ipc' \in {"drain", "read"} /\ wc' = Tail(wc)
        /\ UNCHANGED <<printed, cq>>
    BY <1>7 DEF RepostFlushed
  <2> QED BY <1>t, <1>1, <1>2, <2>1, HeadFinished DEF LifeOrder
<1> QED BY <1>3, <1>4, <1>5, <1>6, <1>7

\* The order holds, as far as it is claimed, at every moment of every run.
LEMMA LifeOrderHolds == LifeSpec => []LifeOrder
<1>1. LifeInit => LifeOrder
  BY OrderInit DEF LifeInit, LifeOrder, InOrder
<1>2. LifeInv /\ LifeOrder /\ [LifeNext]_allVars => LifeOrder'
  <2> SUFFICES ASSUME LifeInv, LifeOrder, [LifeNext]_allVars PROVE LifeOrder'
    OBVIOUS
  <2>1. CASE UNCHANGED allVars
    <3>1. UNCHANGED <<posted, sq, delivered, ipc, printed, wc, cq, cpc, cqp>>
      BY <2>1 DEF allVars, vars, lifeVars, controllerVars, wireVars, invokerVars
    <3> QED BY <3>1, ReceivedKept, SendsKept DEF LifeOrder
  <2> QED BY <2>1, LifeSteps, LifeOrderBefore, LifeOrderFailures, LifeOrderInvoker
<1> QED BY <1>1, <1>2, LifeTypesHold, PTL DEF LifeSpec

-----------------------------------------------------------------------------
\* The refinement.

\* The mailbox's promise survives failures: whatever breaks, whoever ends and whichever
\* loop the invoker runs, each write is reported at most once, in the order posted and
\* with its own index (invoker.cpp:113-204, 206-270).
THEOREM LifeImplementsMailbox == LifeSpec => ImplementsMailbox
<1>1. LifeInit => Box!Init
  BY BoxInit DEF LifeInit
<1>2. LifeInv /\ LifeOrder /\ [LifeNext]_allVars => [Box!Next]_Box!vars
  <2> SUFFICES ASSUME LifeInv, LifeOrder, [LifeNext]_allVars PROVE [Box!Next]_Box!vars
    OBVIOUS
  <2>t. Shapes /\ (ipc # "exit" => Batch /\ Received)
    BY DEF LifeInv, LifeTypes, LifeOrder
  <2>1. CASE PostWrite
    BY <2>t, <2>1, PostIsPost DEF Box!Next
  <2>2. CASE ReadSlot
    <3>1. ipc # "exit"
      BY <2>2 DEF ReadSlot
    <3> QED BY <2>t, <2>2, <3>1, ReadIsReport DEF Box!Next
  <2>3. CASE PollRead
    <3> DEFINE t == mem[PolledSlot]
    <3>1. /\ Batch /\ Received /\ t \in Content
          /\ ipc = "read" /\ ipc' = "flush"
          /\ printed' = Append(printed, [inv_id |-> 0, index |-> posted[Len(printed) + 1],
                                         text |-> t])
          /\ UNCHANGED <<posted, wc, cq, delivered>>
      BY <2>3, PollPrintsNext
    <3> HIDE DEF t
    <3> QED BY <2>t, <3>1, NextIsReport DEF Box!Next
  <2>4. CASE ~PostWrite /\ ~ReadSlot /\ ~PollRead
    <3>1. CASE ContRuns
      <4>1. UNCHANGED printed
        BY <3>1, ContRunsFacts DEF invokerVars
      <4>2. UNCHANGED posted
        BY <2>4, <3>1 DEF ContRuns, Controller, CopyBegin, CopyEnd, PostFails, PollSend,
                          SleepOver
      <4> QED BY <4>1, <4>2 DEF Box!vars
    <3>2. CASE AsBefore
      <4>1. Invoker /\ UNCHANGED posted
        BY <3>2, BeforeFacts DEF controllerVars
      <4>2. UNCHANGED printed
        BY <2>4, <4>1 DEF Invoker, FillRecv, GetEvent, Rearm, Drain, FlushSlot, Repost
      <4> QED BY <4>1, <4>2 DEF Box!vars
    <3>3. CASE ~ContRuns /\ ~AsBefore
      <4>1. UNCHANGED <<posted, printed>>
        BY <2>4, <3>3, LifeSteps
           DEF LifeDeliver, LifeAcknowledge, LifeTeardown, Deliver, Acknowledge, Teardown,
               ContReady, InvReady, RetryExceeded, FlushSends, InvokerFault,
               LinkBreaks, LinkHeals, ControllerEnds, InvokerEnds,
               FillFlushed, PollAgain, DrainErrors, WcFailed, PollFlush, RepostFlushed,
               allVars, vars, controllerVars, invokerVars
      <4> QED BY <4>1 DEF Box!vars
    <3> QED BY <3>1, <3>2, <3>3
  <2> QED BY <2>1, <2>2, <2>3, <2>4
<1> QED BY <1>1, <1>2, LifeTypesHold, LifeOrderHolds, PTL
       DEF LifeSpec, ImplementsMailbox, Box!Spec
-----------------------------------------------------------------------------
\* Nobody waits for nothing: what liveness needs of the safety side, whatever breaks.

\* What the event thread can do without anybody: everything but wait for receives to be
\* possible and for an event to come.
InvokerCanRun ==
  /\ ipc # "exit"
  /\ ipc = "fill" => iqp # "reset"
  /\ ipc = "get" /\ consumer = "event" => events > 0

\* What the connection can do for a write: execute it, give it up or report it failed.
ConnectionCanRun ==
  \/ cqp = "rts" /\ Reachable /\ sq # << >> /\ rq > 0
  \/ cqp = "rts" /\ ~Reachable /\ cpc # "gone" /\ acked < Len(posted)
  \/ cqp = "err" /\ acked < Len(posted)

\* The queue is armed or an event is waiting, and a thread about to sleep on an armed
\* queue leaves no completion behind, good or in error.
LifeArming ==
  /\ ipc \notin {"arm", "exit"} => armed \/ events > 0
  /\ ipc \in {"fill", "get"} /\ armed => cq = << >> /\ cqErr = 0
  /\ ipc \in {"fill", "get", "arm"} => wcErr = 0
  /\ ipc = "arm" => consumer = "event"

\* What has happened by the state of the two queue pairs.
Stages ==
  /\ cqp = "reset" => posted = << >>
  /\ cqp # "err" => lost = 0
  /\ acked - lost <= delivered
  /\ iqp = "reset" => ipc \in {"fill", "exit"} /\ delivered = 0
  /\ iqp = "err" /\ ipc # "exit" => rq = 0
  /\ ipc = "fill" => filled < RECV_DEPTH
  /\ ipc \notin {"fill", "exit"} => filled = RECV_DEPTH

\* Steps that do not concern the invoker's queue.
Elsewhere == \/ ContRuns \/ LifeAcknowledge \/ LifeTeardown \/ ContReady \/ InvReady
             \/ RetryExceeded \/ FlushSends \/ LinkBreaks \/ LinkHeals \/ ControllerEnds

\* They leave all of it alone.
LEMMA ElsewhereFacts ==
  ASSUME Elsewhere
  PROVE  UNCHANGED <<ipc, armed, events, cq, wc, cqErr, wcErr, consumer, rq, filled, delivered>>
BY ContRunsFacts
   DEF Elsewhere, LifeAcknowledge, LifeTeardown, Acknowledge, Teardown, ContReady, InvReady,
       RetryExceeded, FlushSends, LinkBreaks, LinkHeals, ControllerEnds, vars, wireVars,
       invokerVars, lifeVars

\* The step relation, by kind, for what follows.
LEMMA LifeKinds ==
  ASSUME [LifeNext]_allVars
  PROVE  \/ Elsewhere \/ LifeDeliver \/ InvokerFault \/ InvokerEnds
         \/ LifeFill \/ FillFlushed \/ (LifeWait /\ GetEvent) \/ (LifeWait /\ Rearm)
         \/ PollAgain \/ LifeDrain \/ DrainErrors \/ WcFailed
         \/ LifeRead \/ PollRead \/ PollFlush \/ LifeRepost \/ RepostFlushed
         \/ UNCHANGED allVars
BY DEF LifeNext, InvRuns, LifeWait, Elsewhere

\* A poll that finds nothing leaves nothing behind.
LEMMA DrainedEmpty ==
  ASSUME LifeInv, LifeDrain
  PROVE  /\ ipc = "drain" /\ ipc' \in {"get", "read"} /\ wcErr = 0
         /\ UNCHANGED <<armed, events, cqErr, wcErr, consumer, rq, filled, iqp>>
         /\ ipc' = "get" => cq' = << >> /\ cqErr' = 0
<1> DEFINE n == Smaller(Len(cq), NUM_WC)
<1>1. /\ ipc = "drain" /\ ipc' = (IF n = 0 THEN "get" ELSE "read") /\ wcErr = 0
      /\ cqErr = 0 \/ Len(cq) >= NUM_WC
      /\ cq' = SubSeq(cq, n + 1, Len(cq))
      /\ UNCHANGED <<armed, events, cqErr, wcErr, consumer, rq, filled, iqp>>
  BY DEF LifeDrain, Drain, lifeVars
<1>2. cq \in Seq(Immediates) /\ Len(cq) \in Nat /\ NUM_WC \in Nat \ {0}
  BY StreamAssumption, LenProperties DEF LifeInv, LifeTypes, Shapes
<1>3. ASSUME n = 0 PROVE cq' = << >> /\ cqErr' = 0
  <2>1. Len(cq) = 0
    BY <1>2, <1>3, SMT DEF Smaller
  <2>2. cqErr = 0
    BY <1>1, <1>2, <2>1, SMT
  <2>3. SubSeq(cq, 1, 0) = << >>
    BY SubSeqEmpty, SMT
  <2> QED BY <1>1, <1>3, <2>1, <2>2, <2>3, SMT
<1> HIDE DEF n
<1> QED BY <1>1, <1>3

\* Every step keeps the queue announced.
LEMMA LifeArmingStep ==
  ASSUME LifeInv, LifeArming, [LifeNext]_allVars
  PROVE  LifeArming'
<1>t. /\ events \in Nat /\ armed \in BOOLEAN /\ cqErr \in Nat /\ wcErr \in Nat /\ rq \in Nat
      /\ consumer \in {"event", "poll"}
      /\ ipc \in {"fill", "get", "arm", "drain", "read", "flush", "repost", "exit"}
  BY LifeAssumption DEF LifeInv, LifeTypes, Shapes
<1> USE DEF LifeArming
<1>1. CASE Elsewhere \/ UNCHANGED allVars
  <2>1. UNCHANGED <<ipc, armed, events, cq, cqErr, wcErr, consumer>>
    BY <1>1, ElsewhereFacts DEF allVars, vars, invokerVars, lifeVars
  <2> QED BY <2>1
<1>2. CASE LifeDeliver
  <2>1. /\ UNCHANGED <<ipc, wcErr, consumer>> /\ armed' = FALSE
        /\ events' = IF armed THEN events + 1 ELSE events
    BY <1>2 DEF LifeDeliver, Deliver, lifeVars
  <2> QED BY <2>1, <1>t, SMT
<1>3. CASE InvokerEnds \/ WcFailed
  <2>1. ipc' = "exit"
    BY <1>3 DEF InvokerEnds, WcFailed
  <2> QED BY <2>1
<1>4. CASE InvokerFault
  <2>1. /\ UNCHANGED <<ipc, cq, wcErr, consumer>> /\ ipc # "exit"
        /\ cqErr' = cqErr + rq
        /\ events' = IF rq > 0 /\ armed THEN events + 1 ELSE events
        /\ armed' = (armed /\ rq = 0)
    BY <1>4 DEF InvokerFault, Announce
  <2>2. CASE rq = 0
    <3>1. cqErr' = cqErr /\ events' = events /\ armed' = armed
      BY <1>t, <2>1, <2>2, SMT
    <3> QED BY <2>1, <3>1
  <2>3. CASE rq # 0
    <3>1. ~armed'
      BY <2>1, <2>3
    <3>2. rq > 0
      BY <1>t, <2>3, SMT
    <3>3. events' = IF armed THEN events + 1 ELSE events
      BY <2>1, <3>2
    <3>4. armed \/ events > 0 => events' > 0
      BY <1>t, <3>3, SMT
    <3> QED BY <2>1, <3>1, <3>4
  <2> QED BY <2>2, <2>3
<1>5. CASE LifeFill
  <2>1. /\ ipc = "fill" /\ ipc' \in {"fill", "get"}
        /\ UNCHANGED <<armed, events, cq, cqErr, wcErr, consumer>>
    BY <1>5 DEF LifeFill, FillRecv, lifeVars
  <2> QED BY <2>1
<1>6. CASE FillFlushed \/ RepostFlushed
  <2>1. /\ ipc \notin {"arm", "exit"} /\ ipc' \notin {"arm", "exit"}
        /\ ipc' \in {"fill", "get"} => ipc = "fill"
        /\ events' = IF 1 > 0 /\ armed THEN events + 1 ELSE events
        /\ armed' = (armed /\ 1 = 0)
        /\ UNCHANGED <<wcErr, consumer>>
    BY <1>6 DEF FillFlushed, RepostFlushed, Announce
  <2>2. events' = IF armed THEN events + 1 ELSE events
    BY <2>1, SMT
  <2>3. armed \/ events > 0
    BY <2>1
  <2>4. events' > 0
    BY <1>t, <2>2, <2>3, SMT
  <2>5. ~armed'
    <3>1. 1 # 0
      BY SMT
    <3> QED BY <2>1, <3>1
  <2> QED BY <2>1, <2>4, <2>5
<1>7. CASE LifeWait /\ GetEvent
  <2>1. ipc = "get" /\ ipc' = "arm" /\ consumer = "event" /\ UNCHANGED <<wcErr, consumer>>
    BY <1>7 DEF LifeWait, GetEvent, lifeVars
  <2> QED BY <2>1
<1>8. CASE LifeWait /\ Rearm
  <2>1. ipc' = "drain" /\ armed'
    BY <1>8 DEF LifeWait, Rearm
  <2> QED BY <2>1
<1>9. CASE PollAgain
  <2>1. ipc = "get" /\ ipc' = "drain" /\ UNCHANGED <<armed, events>>
    BY <1>9 DEF PollAgain
  <2> QED BY <2>1
<1>10. CASE LifeDrain
  BY <1>10, DrainedEmpty
<1>11. CASE DrainErrors \/ LifeRead \/ PollRead \/ PollFlush \/ LifeRepost
  <2>1. /\ ipc \notin {"arm", "exit"} /\ ipc' \notin {"arm", "exit", "fill", "get"}
        /\ UNCHANGED <<armed, events>>
    BY <1>11 DEF DrainErrors, LifeRead, ReadSlot, FlushSlot, PollRead, PollFlush, LifeRepost,
                 Repost
  <2> QED BY <2>1
<1> QED BY <1>1, <1>2, <1>3, <1>4, <1>5, <1>6, <1>7, <1>8, <1>9, <1>10, <1>11, LifeKinds

\* Every step keeps the account of the controller's side: what is acknowledged was
\* executed, but for what was flushed.
LEMMA SettlingStep ==
  ASSUME LifeInv, Stages, [LifeNext]_allVars
  PROVE  /\ (cqp = "reset" => posted = << >>)'
         /\ (cqp # "err" => lost = 0)'
         /\ (acked - lost <= delivered)'
<1>t. /\ acked \in Nat /\ lost \in Nat /\ delivered \in Nat /\ Len(posted) \in Nat
      /\ cqp \in {"reset", "rts", "err"}
  BY LenProperties DEF LifeInv, LifeTypes, Shapes
<1> USE DEF Stages
<1>1. CASE ContRuns
  <2>1. cqp # "reset" /\ UNCHANGED <<cqp, lost, delivered, acked>>
    BY <1>1, ContRunsFacts DEF ContRuns, lifeVars
  <2> QED BY <2>1
<1>2. CASE LifeDeliver
  <2>1. UNCHANGED <<cqp, lost, posted, acked>> /\ delivered' = delivered + 1
    BY <1>2 DEF LifeDeliver, Deliver, controllerVars, lifeVars
  <2> QED BY <1>t, <2>1, SMT
<1>3. CASE LifeAcknowledge
  <2>1. /\ cqp = "rts" /\ acked < delivered /\ acked' = acked + 1
        /\ UNCHANGED <<cqp, lost, posted, delivered>>
    BY <1>3 DEF LifeAcknowledge, Acknowledge, controllerVars, lifeVars
  <2> QED BY <1>t, <2>1, SMT
<1>4. CASE ContReady \/ RetryExceeded
  <2>1. cqp' \in {"rts", "err"} /\ cqp # "err" /\ UNCHANGED <<lost, acked, delivered>>
    BY <1>4 DEF ContReady, RetryExceeded, vars, wireVars
  <2> QED BY <2>1
<1>5. CASE FlushSends
  <2>1. /\ cqp = "err" /\ cqp' = cqp /\ UNCHANGED delivered
        /\ acked' = Len(posted) /\ lost' = lost + (Len(posted) - acked)
    BY <1>5 DEF FlushSends
  <2> QED BY <1>t, <2>1, SMT
<1>6. CASE ~(ContRuns \/ LifeDeliver \/ LifeAcknowledge \/ ContReady \/ RetryExceeded \/ FlushSends)
  <2>1. UNCHANGED <<cqp, posted, lost, acked, delivered>>
    <3>1. AsBefore => UNCHANGED <<cqp, posted, lost, acked, delivered>>
      BY BeforeFacts DEF controllerVars, wireVars, lifeVars
    <3> QED BY <1>6, <3>1, LifeSteps
        DEF LifeTeardown, Teardown, InvReady, InvokerFault, LinkBreaks, LinkHeals,
            ControllerEnds, InvokerEnds, FillFlushed, PollAgain, DrainErrors, WcFailed,
            PollRead, PollFlush, RepostFlushed, allVars, vars, controllerVars, wireVars,
            lifeVars
  <2> QED BY <2>1
<1> QED BY <1>1, <1>2, <1>3, <1>4, <1>5, <1>6

\* And of the invoker's: receives are all posted before the first event is waited for,
\* and none stays in the queue of a queue pair in the error state.
LEMMA StockingStep ==
  ASSUME LifeInv, Stages, [LifeNext]_allVars
  PROVE  /\ (iqp = "reset" => ipc \in {"fill", "exit"} /\ delivered = 0)'
         /\ (iqp = "err" /\ ipc # "exit" => rq = 0)'
         /\ (ipc = "fill" => filled < RECV_DEPTH)'
         /\ (ipc \notin {"fill", "exit"} => filled = RECV_DEPTH)'
<1>t. /\ filled \in Nat /\ RECV_DEPTH \in Nat
      /\ iqp \in {"reset", "rts", "err"}
      /\ ipc \in {"fill", "get", "arm", "drain", "read", "flush", "repost", "exit"}
  BY StreamAssumption DEF LifeInv, LifeTypes, Shapes
<1> USE DEF Stages
<1>1. CASE InvReady
  <2>1. iqp' = "rts" /\ UNCHANGED <<ipc, filled>>
    BY <1>1 DEF InvReady, vars, invokerVars
  <2> QED BY <2>1
<1>2. CASE (Elsewhere /\ ~InvReady) \/ UNCHANGED allVars
  <2>1. UNCHANGED <<ipc, filled, rq, delivered>>
    BY <1>2, ElsewhereFacts DEF allVars, vars, invokerVars, wireVars
  <2>2. UNCHANGED iqp
    BY <1>2, ContRunsFacts
       DEF Elsewhere, LifeAcknowledge, LifeTeardown, ContReady, RetryExceeded, FlushSends,
           LinkBreaks, LinkHeals, ControllerEnds, allVars, lifeVars
  <2> QED BY <2>1, <2>2
<1>3. CASE LifeDeliver
  <2>1. iqp = "rts" /\ UNCHANGED <<iqp, ipc, filled>>
    BY <1>3 DEF LifeDeliver, Deliver, Reachable, lifeVars
  <2> QED BY <2>1
<1>4. CASE InvokerFault
  <2>1. iqp' = "err" /\ rq' = 0 /\ UNCHANGED <<ipc, filled>>
    BY <1>4 DEF InvokerFault
  <2> QED BY <2>1
<1>5. CASE InvokerEnds \/ WcFailed
  <2>1. ipc' = "exit" /\ UNCHANGED <<iqp, delivered>>
    BY <1>5 DEF InvokerEnds, WcFailed, wireVars, lifeVars
  <2> QED BY <2>1
<1>6. CASE LifeFill \/ FillFlushed
  <2>1. /\ ipc = "fill" /\ filled' = filled + 1
        /\ ipc' = IF filled' = RECV_DEPTH THEN "get" ELSE "fill"
        /\ UNCHANGED iqp /\ iqp # "reset" /\ (iqp = "err" => rq' = rq)
    BY <1>6 DEF LifeFill, FillFlushed, FillRecv, lifeVars
  <2>2. /\ ipc' = "fill" => filled' < RECV_DEPTH
        /\ ipc' # "fill" => filled' = RECV_DEPTH
    BY <1>t, <2>1, SMT
  <2> QED BY <2>1, <2>2
<1>7. CASE \/ LifeWait \/ PollAgain \/ LifeDrain \/ DrainErrors \/ LifeRead \/ PollRead
           \/ PollFlush \/ LifeRepost \/ RepostFlushed
  <2>1. /\ ipc \notin {"fill", "exit"} /\ ipc' \notin {"fill", "exit"}
        /\ UNCHANGED <<iqp, filled>>
        /\ iqp = "err" => rq' = rq
    BY <1>7 DEF LifeWait, GetEvent, Rearm, PollAgain, LifeDrain, Drain, DrainErrors,
                LifeRead, ReadSlot, FlushSlot, PollRead, PollFlush, LifeRepost, Repost,
                RepostFlushed, lifeVars
  <2> QED BY <2>1
<1> QED BY <1>1, <1>2, <1>3, <1>4, <1>5, <1>6, <1>7, LifeKinds

\* Both hold at every moment of every run.
LEMMA StagesHold == LifeSpec => [](LifeArming /\ Stages)
<1>1. LifeInit => LifeArming /\ Stages
  <2> SUFFICES ASSUME LifeInit PROVE LifeArming /\ Stages
    OBVIOUS
  <2>1. LifeArming
    BY DEF LifeInit, Init, LifeArming
  <2>2. 0 < RECV_DEPTH /\ 0 - 0 <= 0
    BY StreamAssumption, SMT
  <2> QED BY <2>1, <2>2 DEF LifeInit, Init, Stages
<1>2. LifeInv /\ LifeArming /\ Stages /\ [LifeNext]_allVars => (LifeArming /\ Stages)'
  BY LifeArmingStep, SettlingStep, StockingStep DEF Stages
<1> QED BY <1>1, <1>2, LifeTypesHold, PTL DEF LifeSpec

\* A thread that waits for an event has nothing to be told of: no completion, good or in
\* error, and all its receives in a queue that is not in the error state.
LEMMA AsleepFacts ==
  ASSUME LifeInv, LifeArming, Stages, ReceivesAnswered,
         ipc # "exit", iqp # "reset", ~InvokerCanRun
  PROVE  /\ ipc = "get" /\ cq = << >> /\ wc = << >>
         /\ rq > 0 /\ iqp = "rts"
<1>1. ipc = "get" /\ ~(events > 0)
  BY DEF InvokerCanRun
<1>2. cq = << >> /\ cqErr = 0 /\ wcErr = 0
  BY <1>1 DEF LifeArming
<1>3. wc = << >>
  BY <1>1 DEF LifeInv, Batch
<1>4. Len(cq) = 0 /\ Len(wc) = 0
  BY <1>2, <1>3, EmptySeq
<1>5. rq \in Nat /\ filled \in Nat /\ RECV_DEPTH \in Nat \ {0}
  BY StreamAssumption DEF LifeInv, LifeTypes, Shapes
<1>6. rq = filled
  BY <1>2, <1>4, <1>5, SMT DEF ReceivesAnswered
<1>7. filled = RECV_DEPTH
  BY <1>1 DEF Stages
<1>8. rq > 0
  BY <1>5, <1>6, <1>7, SMT
<1>9. iqp = "rts"
  <2>1. rq # 0
    BY <1>5, <1>8, SMT
  <2> QED BY <2>1 DEF Stages, LifeInv, LifeTypes
<1> QED BY <1>1, <1>2, <1>3, <1>8, <1>9

\* The invoker that has not ended can take a step while its queue pair is in the error
\* state: it is not left asleep, so that it comes to the completion in error.
FailureAnnounced == iqp = "err" /\ ipc # "exit" => InvokerCanRun

\* ... and while something is in its memory that it has not shown.
DeliveredMovesOn == Len(printed) < delivered /\ ipc # "exit" => InvokerCanRun

\* For every write that is neither reported nor failed nor without a process, the
\* connection has something to do or the event thread has.
WritesMoveOn == \A n \in DOMAIN posted : Settled(n) \/ ConnectionCanRun \/ InvokerCanRun

\* What FailureNoticed, DeliveredIsReported and EveryWriteSettled ask to happen has, as
\* long as it has not, somebody who can do the next step; whatever breaks, whoever ends,
\* and for every depth of the queues (invoker.cpp:129-200, 273-294).
THEOREM LifeGoesOnHolds == LifeSpec => [](FailureAnnounced /\ DeliveredMovesOn /\ WritesMoveOn)
<1>1. LifeInv /\ LifeOrder /\ LifeArming /\ Stages /\ ReceivesAnswered
        => FailureAnnounced /\ DeliveredMovesOn /\ WritesMoveOn
  <2> SUFFICES ASSUME LifeInv, LifeOrder, LifeArming, Stages, ReceivesAnswered
               PROVE  FailureAnnounced /\ DeliveredMovesOn /\ WritesMoveOn
    OBVIOUS
  <2>t. /\ acked \in Nat /\ lost \in Nat /\ delivered \in Nat
        /\ Len(posted) \in Nat /\ Len(sq) \in Nat /\ Len(printed) \in Nat
        /\ cqp \in {"reset", "rts", "err"} /\ iqp \in {"reset", "rts", "err"}
    BY LenProperties DEF LifeInv, LifeTypes, Shapes
  <2>1. FailureAnnounced
    BY AsleepFacts DEF FailureAnnounced
  <2>2. DeliveredMovesOn
    <3> SUFFICES ASSUME Len(printed) < delivered, ipc # "exit", ~InvokerCanRun
                 PROVE  FALSE
      BY DEF DeliveredMovesOn
    <3>1. iqp # "reset"
      BY <2>t, SMT DEF Stages
    <3>2. ipc = "get" /\ cq = << >> /\ wc = << >>
      BY <3>1, AsleepFacts
    <3>3. Len(cq) = 0 /\ Len(wc) = 0
      BY <3>2, EmptySeq
    <3>4. Shapes /\ Batch /\ Received
      BY DEF LifeInv, LifeTypes, LifeOrder
    <3>5. Done = Len(printed)
      BY <3>2, <3>4, Bounds DEF Received
    <3> QED BY <2>t, <3>3, <3>4, <3>5, SMT DEF Received, Places
  <2>3. WritesMoveOn
    <3> SUFFICES ASSUME NEW n \in DOMAIN posted, ~Settled(n),
                        ~ConnectionCanRun, ~InvokerCanRun
                 PROVE  FALSE
      BY DEF WritesMoveOn
    <3>1. n \in Nat /\ 1 <= n /\ n <= Len(posted)
      <4>1. DOMAIN posted = 1 .. Len(posted)
        BY LenProperties DEF LifeInv, LifeTypes, Shapes
      <4> QED BY <4>1, <2>t, SMT
    <3>2. /\ ~(Len(printed) >= n) /\ ~(acked - lost < n /\ n <= acked)
          /\ cpc # "gone" /\ ipc # "exit"
      BY DEF Settled, FailedAtController
    <3>3. ~(delivered >= n)
      <4> SUFFICES ASSUME delivered >= n PROVE FALSE
        OBVIOUS
      <4>1. Len(printed) < delivered
        BY <2>t, <3>1, <3>2, SMT
      <4> QED BY <2>2, <3>2, <4>1 DEF DeliveredMovesOn
    <3>4. ~(acked >= Len(posted))
      <4> SUFFICES ASSUME acked >= Len(posted) PROVE FALSE
        OBVIOUS
      <4>1. n <= acked /\ acked - lost <= delivered
        BY <2>t, <3>1, SMT DEF Stages
      <4> QED BY <2>t, <3>1, <3>2, <3>3, <4>1, SMT
    <3>5. acked < Len(posted)
      BY <2>t, <3>4, SMT
    <3>6. posted # << >>
      <4>1. Len(posted) # 0
        BY <2>t, <3>1, SMT
      <4> QED BY <4>1, EmptySeq
    <3>7. cqp = "rts" /\ Reachable
      BY <2>t, <3>2, <3>5, <3>6 DEF ConnectionCanRun, Stages
    <3>8. iqp = "rts"
      BY <3>7 DEF Reachable
    <3>9. rq > 0
      BY <3>2, <3>8, AsleepFacts
    <3>10. delivered + Len(sq) = Len(posted)
      BY <3>2, <3>7 DEF LifeOrder, Sends
    <3>11. Len(sq) # 0
      BY <2>t, <3>1, <3>3, <3>10, SMT
    <3>12. sq # << >>
      BY <3>11, EmptySeq
    <3> QED BY <3>7, <3>9, <3>12 DEF ConnectionCanRun
  <2> QED BY <2>1, <2>2, <2>3
<1> QED BY <1>1, LifeTypesHold, LifeOrderHolds, StagesHold, ReceivesAnsweredHolds, PTL

-----------------------------------------------------------------------------
\* What is settled stays settled: a report is not taken back, a completion in error not
\* turned into a good one, a process that ended does not come back.
SettledStays == \A n \in DOMAIN posted : Settled(n) => Settled(n)'

\* That is why the last state of a run may decide about its writes
\* (controller.cpp:140-144 reads completions and never looks at their status).
THEOREM SettledStaysHolds == LifeSpec => [][SettledStays]_allVars
<1>1. LifeInv /\ LifeOrder /\ Stages /\ [LifeNext]_allVars => [SettledStays]_allVars
  <2> SUFFICES ASSUME LifeInv, LifeOrder, Stages, [LifeNext]_allVars,
                      NEW n \in DOMAIN posted, Settled(n)
               PROVE  Settled(n)'
    BY DEF SettledStays
  <2>t. /\ acked \in Nat /\ lost \in Nat /\ Len(posted) \in Nat /\ Len(printed) \in Nat
        /\ n \in 1 .. Len(posted) /\ printed \in Seq(Report)
    BY LenProperties DEF LifeInv, LifeTypes, Shapes
  <2>0. \/ Len(printed) >= n \/ (acked - lost < n /\ n <= acked)
        \/ cpc = "gone" \/ ipc = "exit"
    BY DEF Settled, FailedAtController
  <2> SUFFICES \/ Len(printed') >= n \/ (acked' - lost' < n /\ n <= acked')
               \/ cpc' = "gone" \/ ipc' = "exit"
    BY DEF Settled, FailedAtController
  <2>1. CASE LifeAcknowledge
    <3>1. /\ lost = 0 /\ UNCHANGED <<printed, cpc, ipc>>
      BY <2>1 DEF LifeAcknowledge, Acknowledge, Stages, controllerVars, invokerVars
    <3>2. ~(acked - lost < n /\ n <= acked)
      BY <2>t, <3>1, SMT
    <3> QED BY <2>0, <3>1, <3>2
  <2>2. CASE FlushSends
    <3>1. /\ acked' = Len(posted) /\ lost' = lost + (Len(posted) - acked)
          /\ UNCHANGED <<printed, cpc, ipc>>
      BY <2>2 DEF FlushSends, controllerVars, invokerVars
    <3>2. acked - lost < n /\ n <= acked => acked' - lost' < n /\ n <= acked'
      BY <2>t, <3>1, SMT
    <3> QED BY <2>0, <3>1, <3>2
  <2>3. CASE ContRuns \/ LifeTeardown \/ ControllerEnds
    <3>1. /\ UNCHANGED <<printed, ipc, acked, lost>>
          /\ cpc' = "gone" \/ cpc # "gone"
      BY <2>3, ContRunsFacts
         DEF ContRuns, Controller, CopyBegin, CopyEnd, PostWrite, PostFails, PollSend, SleepOver,
             LifeTeardown, Teardown, ControllerEnds, invokerVars, lifeVars
    <3> QED BY <2>0, <3>1
  <2>4. CASE (LifeRead /\ ReadSlot) \/ PollRead
    <3>1. Shapes /\ (ipc # "exit" => Batch /\ Received)
      BY DEF LifeInv, LifeTypes, LifeOrder
    <3>2. UNCHANGED <<acked, lost, cpc>> /\ ipc # "exit"
      BY <2>4 DEF LifeRead, ReadSlot, PollRead, controllerVars, wireVars, lifeVars
    <3>3. Len(printed') = Len(printed) + 1
      <4>1. CASE ReadSlot
        BY <3>1, <3>2, <4>1, OrderRead
      <4>2. CASE PollRead
        <5> DEFINE t == mem[PolledSlot]
        <5>1. /\ t \in Content /\ ipc = "read" /\ ipc' = "flush"
              /\ printed' = Append(printed, [inv_id |-> 0, index |-> posted[Len(printed) + 1],
                                             text |-> t])
              /\ UNCHANGED <<posted, wc, cq, delivered>>
          BY <4>2, PollPrintsNext
        <5> HIDE DEF t
        <5> QED BY <3>1, <3>2, <5>1, NextPrinted
      <4> QED BY <2>4, <4>1, <4>2
    <3>4. Len(printed) >= n => Len(printed') >= n
      BY <2>t, <3>3, SMT
    <3> QED BY <2>0, <3>2, <3>4
  <2>5. CASE ~(LifeAcknowledge \/ FlushSends \/ ContRuns \/ LifeTeardown \/ ControllerEnds
               \/ (LifeRead /\ ReadSlot) \/ PollRead)
    <3>1. UNCHANGED <<printed, acked, lost, cpc>> /\ (ipc = "exit" => ipc' = "exit")
      BY <2>5, LifeKinds
         DEF Elsewhere, LifeDeliver, Deliver, ContReady, InvReady, RetryExceeded, InvokerFault,
             LinkBreaks, LinkHeals, InvokerEnds, LifeFill, FillRecv, FillFlushed, GetEvent,
             Rearm, LifeWait, PollAgain, LifeDrain, Drain, DrainErrors, WcFailed, LifeRead,
             FlushSlot, PollFlush, LifeRepost, Repost, RepostFlushed, allVars, vars,
             controllerVars, wireVars, invokerVars, lifeVars
    <3> QED BY <2>0, <3>1
  <2> QED BY <2>1, <2>2, <2>3, <2>4, <2>5
<1> QED BY <1>1, LifeTypesHold, LifeOrderHolds, StagesHold, PTL DEF LifeSpec
=============================================================================
