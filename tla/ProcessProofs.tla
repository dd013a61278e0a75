---------------------------- MODULE ProcessProofs ----------------------------
(***************************************************************************)
(* Proofs about Process, for any list of machines, any interfaces and any  *)
(* failure: who a process takes itself for, and its adapter's resources.   *)
(***************************************************************************)
EXTENDS Process, SequenceTheorems, WellFoundedInduction, TLAPS

-----------------------------------------------------------------------------
(* The two orders of calls, place by place. *)

Kinds == {"dev_list", "ctx", "pd", "cache_buf", "sched_buf", "cache_mr", "sched_mr",
          "channel", "cq", "qp"}
Resource == Kinds \X Nat

\* Places of the completion queues begin after those before them.
Before == IF with_channel THEN 8 ELSE 7

\* Sequence u is s and then t.
IsJoined(u, s, t) ==
  /\ u \in Seq(Resource)
  /\ Len(u) = Len(s) + Len(t)
  /\ \A n \in 1 .. Len(s) : u[n] = s[n]
  /\ \A n \in 1 .. Len(t) : u[Len(s) + n] = t[n]

\* The concatenation of two sequences of resources is one.
LEMMA Joined ==
  ASSUME NEW s \in Seq(Resource), NEW t \in Seq(Resource)
  PROVE  IsJoined(s \o t, s, t)
<1>1. Len(s) \in Nat /\ Len(t) \in Nat
  BY LenProperties
<1>2. /\ s \o t \in Seq(Resource)
      /\ Len(s \o t) = Len(s) + Len(t)
      /\ \A i \in 1 .. Len(s) + Len(t) :
           (s \o t)[i] = IF i <= Len(s) THEN s[i] ELSE t[i - Len(s)]
  BY ConcatProperties
<1>3. ASSUME NEW n \in 1 .. Len(t)
      PROVE  (s \o t)[Len(s) + n] = t[n]
  <2>1. /\ Len(s) + n \in 1 .. Len(s) + Len(t) /\ ~(Len(s) + n <= Len(s))
        /\ Len(s) + n - Len(s) = n
    BY <1>1
  <2> QED BY <1>2, <2>1
<1>4. ASSUME NEW n \in 1 .. Len(s)
      PROVE  (s \o t)[n] = s[n]
  BY <1>1, <1>2
<1> QED BY <1>2, <1>3, <1>4 DEF IsJoined

\* Each: one resource of a kind per peer, numbered from zero.
LEMMA EachValue ==
  ASSUME peer_num \in Nat, NEW kind \in Kinds
  PROVE  /\ Ib!Each(kind) \in Seq(Resource)
         /\ Len(Ib!Each(kind)) = peer_num
         /\ \A n \in 1 .. peer_num : Ib!Each(kind)[n] = <<kind, n - 1>>
<1>1. Ib!Each(kind) = [n \in 1 .. peer_num |-> <<kind, n - 1>>]
  BY DEF Ib!Each
<1>2. \A n \in 1 .. peer_num : <<kind, n - 1>> \in Resource
  BY DEF Resource
<1>3. Ib!Each(kind) \in Seq(Resource)
  <2> HIDE DEF Resource, peer_num
  <2> QED BY <1>1, <1>2
<1> QED BY <1>1, <1>3

\* setup_ib (setup.cpp).
LEMMA SetupPlaces ==
  ASSUME peer_num \in Nat, with_channel \in BOOLEAN
  PROVE  /\ Len(Ib!SetupOrder) = Before + 2 * peer_num
         /\ Ib!SetupOrder[1] = <<"dev_list", 0>> /\ Ib!SetupOrder[2] = <<"ctx", 0>>
         /\ Ib!SetupOrder[3] = <<"pd", 0>>
         /\ Ib!SetupOrder[4] = <<"cache_buf", 0>> /\ Ib!SetupOrder[5] = <<"sched_buf", 0>>
         /\ Ib!SetupOrder[6] = <<"cache_mr", 0>> /\ Ib!SetupOrder[7] = <<"sched_mr", 0>>
         /\ with_channel => Ib!SetupOrder[8] = <<"channel", 0>>
         /\ \A n \in 1 .. peer_num :
              /\ Ib!SetupOrder[Before + n] = <<"cq", n - 1>>
              /\ Ib!SetupOrder[Before + peer_num + n] = <<"qp", n - 1>>
<1> DEFINE first == << <<"dev_list", 0>>, <<"ctx", 0>>, <<"pd", 0>>, <<"cache_buf", 0>>,
                       <<"sched_buf", 0>>, <<"cache_mr", 0>>, <<"sched_mr", 0>> >>
           chan == IF with_channel THEN << <<"channel", 0>> >> ELSE << >>
           cqs == Ib!Each("cq")
           qps == Ib!Each("qp")
<1>1. Ib!SetupOrder = ((first \o chan) \o cqs) \o qps
  BY DEF Ib!SetupOrder, Ib!One
<1>2. /\ first \in Seq(Resource) /\ Len(first) = 7
      /\ chan \in Seq(Resource) /\ Len(first) + Len(chan) = Before
      /\ with_channel => chan[1] = <<"channel", 0>> /\ Len(chan) = 1
  BY DEF Resource, Kinds, Before
<1>3. /\ cqs \in Seq(Resource) /\ Len(cqs) = peer_num
      /\ qps \in Seq(Resource) /\ Len(qps) = peer_num
      /\ \A n \in 1 .. peer_num : cqs[n] = <<"cq", n - 1>> /\ qps[n] = <<"qp", n - 1>>
  BY EachValue DEF Kinds
<1> HIDE DEF chan, cqs, qps
<1>4. first[1] = <<"dev_list", 0>> /\ first[2] = <<"ctx", 0>> /\ first[3] = <<"pd", 0>>
      /\ first[4] = <<"cache_buf", 0>> /\ first[5] = <<"sched_buf", 0>>
      /\ first[6] = <<"cache_mr", 0>> /\ first[7] = <<"sched_mr", 0>>
  OBVIOUS
<1> DEFINE head == first \o chan
           body == head \o cqs
<1> HIDE DEF first
<1>5. Before \in {7, 8} /\ (with_channel => Before = 8)
  BY DEF Before
<1>6. /\ head \in Seq(Resource) /\ Len(head) = Before
      /\ \A n \in 1 .. 7 : head[n] = first[n]
      /\ with_channel => head[8] = <<"channel", 0>>
  <2>1. IsJoined(head, first, chan)
    BY <1>2, Joined
  <2> HIDE DEF head
  <2> QED BY <1>2, <2>1 DEF IsJoined
<1>7. /\ body \in Seq(Resource) /\ Len(body) = Before + peer_num
      /\ \A n \in 1 .. Before : body[n] = head[n]
      /\ \A n \in 1 .. peer_num : body[Before + n] = cqs[n]
  <2> HIDE DEF head
  <2>1. IsJoined(body, head, cqs)
    BY <1>3, <1>6, Joined
  <2> HIDE DEF body
  <2> QED BY <1>3, <1>6, <2>1 DEF IsJoined
<1>8. /\ Ib!SetupOrder = body \o qps
      /\ IsJoined(Ib!SetupOrder, body, qps)
  <2>1. Ib!SetupOrder = body \o qps
    BY <1>1, Zenon DEF body, head
  <2> HIDE DEF body
  <2> QED BY <1>3, <1>7, <2>1, Joined
<1> HIDE DEF head, body
<1>9. /\ Len(Ib!SetupOrder) = Before + peer_num + peer_num
      /\ \A n \in 1 .. Before + peer_num : Ib!SetupOrder[n] = body[n]
      /\ \A n \in 1 .. peer_num : Ib!SetupOrder[Before + peer_num + n] = qps[n]
  BY <1>3, <1>7, <1>8 DEF IsJoined
<1>10. /\ \A n \in 1 .. Before : n \in 1 .. Before + peer_num
       /\ \A n \in 1 .. peer_num : Before + n \in 1 .. Before + peer_num
       /\ \A n \in 1 .. 7 : n \in 1 .. Before
       /\ with_channel => 8 \in 1 .. Before
       /\ Before + peer_num + peer_num = Before + 2 * peer_num
  BY <1>5
<1>11. \A n \in 1 .. 7 : Ib!SetupOrder[n] = first[n]
  BY <1>6, <1>7, <1>9, <1>10
<1>12. with_channel => Ib!SetupOrder[8] = <<"channel", 0>>
  BY <1>6, <1>7, <1>9, <1>10
<1>13. \A n \in 1 .. peer_num :
         /\ Ib!SetupOrder[Before + n] = <<"cq", n - 1>>
         /\ Ib!SetupOrder[Before + peer_num + n] = <<"qp", n - 1>>
  BY <1>3, <1>7, <1>9, <1>10
<1>14. /\ Ib!SetupOrder[1] = <<"dev_list", 0>> /\ Ib!SetupOrder[2] = <<"ctx", 0>>
       /\ Ib!SetupOrder[3] = <<"pd", 0>>
       /\ Ib!SetupOrder[4] = <<"cache_buf", 0>> /\ Ib!SetupOrder[5] = <<"sched_buf", 0>>
       /\ Ib!SetupOrder[6] = <<"cache_mr", 0>> /\ Ib!SetupOrder[7] = <<"sched_mr", 0>>
  BY <1>4, <1>11
<1>15. Len(Ib!SetupOrder) = Before + 2 * peer_num
  BY <1>9, <1>10
<1> QED BY <1>12, <1>13, <1>14, <1>15, Zenon

\* clean_controller and clean_invoker (controller.cpp:217-270).
LEMMA CleanPlaces ==
  ASSUME peer_num \in Nat
  PROVE  /\ Len(Ib!CleanOrder) = 2 * peer_num + 6
         /\ \A n \in 1 .. peer_num :
              /\ Ib!CleanOrder[n] = <<"qp", n - 1>>
              /\ Ib!CleanOrder[peer_num + n] = <<"cq", n - 1>>
         /\ Ib!CleanOrder[2 * peer_num + 1] = <<"cache_mr", 0>>
         /\ Ib!CleanOrder[2 * peer_num + 2] = <<"sched_mr", 0>>
         /\ Ib!CleanOrder[2 * peer_num + 3] = <<"pd", 0>>
         /\ Ib!CleanOrder[2 * peer_num + 4] = <<"ctx", 0>>
         /\ Ib!CleanOrder[2 * peer_num + 5] = <<"cache_buf", 0>>
         /\ Ib!CleanOrder[2 * peer_num + 6] = <<"sched_buf", 0>>
<1> DEFINE last == << <<"cache_mr", 0>>, <<"sched_mr", 0>>, <<"pd", 0>>, <<"ctx", 0>>,
                      <<"cache_buf", 0>>, <<"sched_buf", 0>> >>
           cqs == Ib!Each("cq")
           qps == Ib!Each("qp")
           queues == qps \o cqs
<1>1. Ib!CleanOrder = queues \o last
  BY DEF Ib!CleanOrder, Ib!One
<1>2. /\ last \in Seq(Resource) /\ Len(last) = 6
      /\ last[1] = <<"cache_mr", 0>> /\ last[2] = <<"sched_mr", 0>>
      /\ last[3] = <<"pd", 0>> /\ last[4] = <<"ctx", 0>>
      /\ last[5] = <<"cache_buf", 0>> /\ last[6] = <<"sched_buf", 0>>
  BY DEF Resource, Kinds
<1>3. /\ cqs \in Seq(Resource) /\ Len(cqs) = peer_num
      /\ qps \in Seq(Resource) /\ Len(qps) = peer_num
      /\ \A n \in 1 .. peer_num : cqs[n] = <<"cq", n - 1>> /\ qps[n] = <<"qp", n - 1>>
  BY EachValue DEF Kinds
<1> HIDE DEF last, cqs, qps
<1>4. /\ queues \in Seq(Resource) /\ Len(queues) = peer_num + peer_num
      /\ \A n \in 1 .. peer_num : queues[n] = qps[n] /\ queues[peer_num + n] = cqs[n]
  <2>1. IsJoined(queues, qps, cqs)
    BY <1>3, Joined
  <2> HIDE DEF queues
  <2> QED BY <1>3, <2>1 DEF IsJoined
<1> HIDE DEF queues
<1>5. /\ Len(queues \o last) = peer_num + peer_num + 6
      /\ \A n \in 1 .. peer_num + peer_num : (queues \o last)[n] = queues[n]
      /\ \A n \in 1 .. 6 : (queues \o last)[peer_num + peer_num + n] = last[n]
  <2>1. IsJoined(queues \o last, queues, last)
    BY <1>2, <1>4, Joined
  <2> QED BY <1>2, <1>4, <2>1 DEF IsJoined
<1>6. peer_num + peer_num = 2 * peer_num
  OBVIOUS
<1>7. \A n \in 1 .. peer_num :
        /\ Ib!CleanOrder[n] = <<"qp", n - 1>>
        /\ Ib!CleanOrder[peer_num + n] = <<"cq", n - 1>>
  <2>1. \A n \in 1 .. peer_num : /\ n \in 1 .. peer_num + peer_num
                                 /\ peer_num + n \in 1 .. peer_num + peer_num
    OBVIOUS
  <2> QED BY <2>1, <1>1, <1>3, <1>4, <1>5
<1>8. \A n \in 1 .. 6 : Ib!CleanOrder[2 * peer_num + n] = last[n]
  BY <1>1, <1>5, <1>6
<1>9. Len(Ib!CleanOrder) = 2 * peer_num + 6
  BY <1>1, <1>5, <1>6
<1> QED BY <1>2, <1>7, <1>8, <1>9

-----------------------------------------------------------------------------
(* What is held. *)

\* What the first n calls of setup_ib take; what the first n of the clean-up give back;
\* what a process at work holds: all but the list of devices.
Held(n) == {Ib!SetupOrder[m] : m \in 1 .. n}
Given(n) == {Ib!CleanOrder[m] : m \in 1 .. n}
AtWork == Held(Before + 2 * peer_num) \ {<<"dev_list", 0>>}

\* Which calls of setup_ib have been made, when a resource is held.
LEMMA HeldMember ==
  ASSUME peer_num \in Nat, with_channel \in BOOLEAN, NEW n \in 0 .. Before + 2 * peer_num
  PROVE  /\ \A r \in Held(n) :
              \/ r \in {<<"dev_list", 0>>, <<"ctx", 0>>, <<"pd", 0>>,
                        <<"cache_buf", 0>>, <<"sched_buf", 0>>}
              \/ r = <<"cache_mr", 0>> /\ 6 <= n
              \/ r = <<"sched_mr", 0>> /\ 7 <= n
              \/ r = <<"channel", 0>> /\ with_channel
              \/ \E j \in 0 .. peer_num - 1 : r = <<"cq", j>>
              \/ \E j \in 0 .. peer_num - 1 :
                   r = <<"qp", j>> /\ Before + peer_num + j + 1 <= n
         /\ 2 <= n => <<"ctx", 0>> \in Held(n)
         /\ 3 <= n => <<"pd", 0>> \in Held(n)
         /\ 4 <= n => <<"cache_buf", 0>> \in Held(n)
         /\ 5 <= n => <<"sched_buf", 0>> \in Held(n)
         /\ 6 <= n => <<"cache_mr", 0>> \in Held(n)
         /\ 7 <= n => <<"sched_mr", 0>> \in Held(n)
         /\ with_channel /\ 8 <= n => <<"channel", 0>> \in Held(n)
         /\ \A j \in 0 .. peer_num - 1 :
              /\ Before + j + 1 <= n => <<"cq", j>> \in Held(n)
              /\ Before + peer_num + j + 1 <= n => <<"qp", j>> \in Held(n)
<1>1. Before \in {7, 8} /\ (with_channel <=> Before = 8)
  BY DEF Before
<1>2. ASSUME NEW m \in 1 .. n
      PROVE  \/ m \in 1 .. 7
             \/ m = 8 /\ with_channel
             \/ \E j \in 1 .. peer_num : m = Before + j
             \/ \E j \in 1 .. peer_num : m = Before + peer_num + j
  <2>1. CASE m <= Before
    BY <1>1, <2>1
  <2>2. CASE m > Before /\ m <= Before + peer_num
    <3>1. m - Before \in 1 .. peer_num /\ m = Before + (m - Before)
      BY <1>1, <2>2
    <3> QED BY <3>1
  <2>3. CASE m > Before + peer_num
    <3>1. /\ m - Before - peer_num \in 1 .. peer_num
          /\ m = Before + peer_num + (m - Before - peer_num)
      BY <1>1, <2>3
    <3> QED BY <3>1
  <2> QED BY <1>1, <2>1, <2>2, <2>3
<1>3. ASSUME NEW r \in Held(n)
      PROVE  \/ r \in {<<"dev_list", 0>>, <<"ctx", 0>>, <<"pd", 0>>,
                       <<"cache_buf", 0>>, <<"sched_buf", 0>>}
             \/ r = <<"cache_mr", 0>> /\ 6 <= n
             \/ r = <<"sched_mr", 0>> /\ 7 <= n
             \/ r = <<"channel", 0>> /\ with_channel
             \/ \E j \in 0 .. peer_num - 1 : r = <<"cq", j>>
             \/ \E j \in 0 .. peer_num - 1 :
                  r = <<"qp", j>> /\ Before + peer_num + j + 1 <= n
  <2>1. PICK m \in 1 .. n : r = Ib!SetupOrder[m]
    BY DEF Held
  <2>2. m <= n /\ m \in Nat
    OBVIOUS
  <2>3. CASE m \in 1 .. 7
    <3>1. m = 1 \/ m = 2 \/ m = 3 \/ m = 4 \/ m = 5 \/ (m = 6 /\ 6 <= n) \/ (m = 7 /\ 7 <= n)
      BY <2>2, <2>3
    <3> QED BY <2>1, <3>1, SetupPlaces
  <2>4. CASE m = 8 /\ with_channel
    BY <2>1, <2>4, SetupPlaces
  <2>5. ASSUME NEW j \in 1 .. peer_num, m = Before + j
        PROVE  \E k \in 0 .. peer_num - 1 : r = <<"cq", k>>
    <3>1. r = <<"cq", j - 1>> /\ j - 1 \in 0 .. peer_num - 1
      BY <2>1, <2>5, SetupPlaces
    <3> QED BY <3>1
  <2>6. ASSUME NEW j \in 1 .. peer_num, m = Before + peer_num + j
        PROVE  \E k \in 0 .. peer_num - 1 :
                 r = <<"qp", k>> /\ Before + peer_num + k + 1 <= n
    <3>1. r = <<"qp", j - 1>>
      BY <2>1, <2>6, SetupPlaces
    <3>2. j - 1 \in 0 .. peer_num - 1 /\ Before + peer_num + (j - 1) + 1 <= n
      BY <1>1, <2>2, <2>6
    <3> QED BY <3>1, <3>2
  <2> QED BY <1>2, <2>3, <2>4, <2>5, <2>6
<1>4. ASSUME NEW m \in Nat, 1 <= m, m <= n
      PROVE  Ib!SetupOrder[m] \in Held(n)
  BY <1>4 DEF Held
<1>5. /\ 2 <= n => <<"ctx", 0>> \in Held(n)
      /\ 3 <= n => <<"pd", 0>> \in Held(n)
      /\ 4 <= n => <<"cache_buf", 0>> \in Held(n)
      /\ 5 <= n => <<"sched_buf", 0>> \in Held(n)
      /\ 6 <= n => <<"cache_mr", 0>> \in Held(n)
      /\ 7 <= n => <<"sched_mr", 0>> \in Held(n)
      /\ with_channel /\ 8 <= n => <<"channel", 0>> \in Held(n)
  <2>1. /\ 2 <= n => Ib!SetupOrder[2] \in Held(n)
        /\ 3 <= n => Ib!SetupOrder[3] \in Held(n)
        /\ 4 <= n => Ib!SetupOrder[4] \in Held(n)
        /\ 5 <= n => Ib!SetupOrder[5] \in Held(n)
        /\ 6 <= n => Ib!SetupOrder[6] \in Held(n)
        /\ 7 <= n => Ib!SetupOrder[7] \in Held(n)
        /\ 8 <= n => Ib!SetupOrder[8] \in Held(n)
    BY <1>4
  <2> QED BY <2>1, SetupPlaces
<1>6. ASSUME NEW j \in 0 .. peer_num - 1
      PROVE  /\ Before + j + 1 <= n => <<"cq", j>> \in Held(n)
             /\ Before + peer_num + j + 1 <= n => <<"qp", j>> \in Held(n)
  <2>1. /\ j + 1 \in 1 .. peer_num /\ (j + 1) - 1 = j
        /\ Before + (j + 1) \in Nat /\ 1 <= Before + (j + 1)
        /\ Before + (j + 1) = Before + j + 1
        /\ Before + peer_num + (j + 1) \in Nat /\ 1 <= Before + peer_num + (j + 1)
        /\ Before + peer_num + (j + 1) = Before + peer_num + j + 1
    BY <1>1
  <2>2. /\ Ib!SetupOrder[Before + (j + 1)] = <<"cq", j>>
        /\ Ib!SetupOrder[Before + peer_num + (j + 1)] = <<"qp", j>>
    BY <2>1, SetupPlaces
  <2> QED BY <1>4, <2>1, <2>2
<1> QED BY <1>3, <1>5, <1>6

\* Which calls of the clean-up have been made, when a resource is given back.
LEMMA GivenMember ==
  ASSUME peer_num \in Nat, NEW n \in 0 .. 2 * peer_num + 6
  PROVE  /\ \A j : <<"qp", j>> \in Given(n) <=> j \in 0 .. peer_num - 1 /\ j + 1 <= n
         /\ \A j : <<"cq", j>> \in Given(n) <=>
                     j \in 0 .. peer_num - 1 /\ peer_num + j + 1 <= n
         /\ <<"cache_mr", 0>> \in Given(n) <=> 2 * peer_num + 1 <= n
         /\ <<"sched_mr", 0>> \in Given(n) <=> 2 * peer_num + 2 <= n
         /\ <<"pd", 0>> \in Given(n) <=> 2 * peer_num + 3 <= n
         /\ <<"ctx", 0>> \in Given(n) <=> 2 * peer_num + 4 <= n
         /\ <<"cache_buf", 0>> \in Given(n) <=> 2 * peer_num + 5 <= n
         /\ <<"sched_buf", 0>> \in Given(n) <=> 2 * peer_num + 6 <= n
         /\ <<"channel", 0>> \notin Given(n)
<1>1. \A m \in Nat : 1 <= m /\ m <= n => Ib!CleanOrder[m] \in Given(n)
  BY DEF Given
<1>2. ASSUME NEW j \in 0 .. peer_num - 1
      PROVE  /\ j + 1 <= n => <<"qp", j>> \in Given(n)
             /\ peer_num + j + 1 <= n => <<"cq", j>> \in Given(n)
  <2>1. /\ j + 1 \in 1 .. peer_num /\ (j + 1) - 1 = j
        /\ peer_num + (j + 1) \in Nat /\ 1 <= peer_num + (j + 1)
        /\ peer_num + (j + 1) = peer_num + j + 1
    OBVIOUS
  <2>2. /\ Ib!CleanOrder[j + 1] = <<"qp", j>>
        /\ Ib!CleanOrder[peer_num + (j + 1)] = <<"cq", j>>
    BY <2>1, CleanPlaces
  <2> QED BY <1>1, <2>1, <2>2
<1>3. /\ 2 * peer_num + 1 <= n => Ib!CleanOrder[2 * peer_num + 1] \in Given(n)
      /\ 2 * peer_num + 2 <= n => Ib!CleanOrder[2 * peer_num + 2] \in Given(n)
      /\ 2 * peer_num + 3 <= n => Ib!CleanOrder[2 * peer_num + 3] \in Given(n)
      /\ 2 * peer_num + 4 <= n => Ib!CleanOrder[2 * peer_num + 4] \in Given(n)
      /\ 2 * peer_num + 5 <= n => Ib!CleanOrder[2 * peer_num + 5] \in Given(n)
      /\ 2 * peer_num + 6 <= n => Ib!CleanOrder[2 * peer_num + 6] \in Given(n)
  BY <1>1
<1>4. ASSUME NEW r \in Given(n)
      PROVE  \/ \E j \in 0 .. peer_num - 1 : r = <<"qp", j>> /\ j + 1 <= n
             \/ \E j \in 0 .. peer_num - 1 : r = <<"cq", j>> /\ peer_num + j + 1 <= n
             \/ r = <<"cache_mr", 0>> /\ 2 * peer_num + 1 <= n
             \/ r = <<"sched_mr", 0>> /\ 2 * peer_num + 2 <= n
             \/ r = <<"pd", 0>> /\ 2 * peer_num + 3 <= n
             \/ r = <<"ctx", 0>> /\ 2 * peer_num + 4 <= n
             \/ r = <<"cache_buf", 0>> /\ 2 * peer_num + 5 <= n
             \/ r = <<"sched_buf", 0>> /\ 2 * peer_num + 6 <= n
  <2>1. PICK m \in 1 .. n : r = Ib!CleanOrder[m]
    BY DEF Given
  <2>2. m \in Nat /\ 1 <= m /\ m <= n /\ m <= 2 * peer_num + 6
    OBVIOUS
  <2>3. CASE m <= peer_num
    <3>1. m - 1 \in 0 .. peer_num - 1 /\ (m - 1) + 1 <= n /\ m \in 1 .. peer_num
      BY <2>2, <2>3
    <3> QED BY <2>1, <3>1, CleanPlaces
  <2>4. CASE peer_num < m /\ m <= 2 * peer_num
    <3>1. /\ m - peer_num \in 1 .. peer_num /\ m = peer_num + (m - peer_num)
          /\ (m - peer_num) - 1 \in 0 .. peer_num - 1
          /\ peer_num + ((m - peer_num) - 1) + 1 <= n
      BY <2>2, <2>4
    <3>2. r = <<"cq", (m - peer_num) - 1>>
      BY <2>1, <3>1, CleanPlaces
    <3> QED BY <3>1, <3>2
  <2>5. CASE 2 * peer_num < m
    <3>1. \/ m = 2 * peer_num + 1
          \/ m = 2 * peer_num + 2
          \/ m = 2 * peer_num + 3
          \/ m = 2 * peer_num + 4
          \/ m = 2 * peer_num + 5
          \/ m = 2 * peer_num + 6
      BY <2>2, <2>5
    <3> QED BY <2>1, <2>2, <3>1, CleanPlaces
  <2> QED BY <2>2, <2>3, <2>4, <2>5
<1>5. \A j : /\ <<"qp", j>> \in Given(n) => j \in 0 .. peer_num - 1 /\ j + 1 <= n
             /\ <<"cq", j>> \in Given(n) => j \in 0 .. peer_num - 1 /\ peer_num + j + 1 <= n
  BY <1>4
<1>6. /\ <<"cache_mr", 0>> \in Given(n) => 2 * peer_num + 1 <= n
      /\ <<"sched_mr", 0>> \in Given(n) => 2 * peer_num + 2 <= n
      /\ <<"pd", 0>> \in Given(n) => 2 * peer_num + 3 <= n
      /\ <<"ctx", 0>> \in Given(n) => 2 * peer_num + 4 <= n
      /\ <<"cache_buf", 0>> \in Given(n) => 2 * peer_num + 5 <= n
      /\ <<"sched_buf", 0>> \in Given(n) => 2 * peer_num + 6 <= n
      /\ <<"channel", 0>> \notin Given(n)
  BY <1>4
<1>7. /\ 2 * peer_num + 1 <= n => <<"cache_mr", 0>> \in Given(n)
      /\ 2 * peer_num + 2 <= n => <<"sched_mr", 0>> \in Given(n)
      /\ 2 * peer_num + 3 <= n => <<"pd", 0>> \in Given(n)
      /\ 2 * peer_num + 4 <= n => <<"ctx", 0>> \in Given(n)
      /\ 2 * peer_num + 5 <= n => <<"cache_buf", 0>> \in Given(n)
      /\ 2 * peer_num + 6 <= n => <<"sched_buf", 0>> \in Given(n)
  BY <1>3, CleanPlaces
<1> QED BY <1>2, <1>5, <1>6, <1>7


\* What a process at work holds.
LEMMA AtWorkMember ==
  ASSUME peer_num \in Nat, with_channel \in BOOLEAN
  PROVE  /\ \A r \in AtWork :
              \/ r \in {<<"ctx", 0>>, <<"pd", 0>>, <<"cache_buf", 0>>, <<"sched_buf", 0>>,
                        <<"cache_mr", 0>>, <<"sched_mr", 0>>}
              \/ r = <<"channel", 0>> /\ with_channel
              \/ \E j \in 0 .. peer_num - 1 : r = <<"cq", j>> \/ r = <<"qp", j>>
         /\ {<<"ctx", 0>>, <<"pd", 0>>, <<"cache_buf", 0>>, <<"sched_buf", 0>>,
             <<"cache_mr", 0>>, <<"sched_mr", 0>>} \subseteq AtWork
         /\ with_channel => <<"channel", 0>> \in AtWork
         /\ \A j \in 0 .. peer_num - 1 : <<"cq", j>> \in AtWork /\ <<"qp", j>> \in AtWork
<1> DEFINE n == Before + 2 * peer_num
<1>1. /\ Before \in {7, 8} /\ (with_channel => Before = 8)
      /\ n \in 0 .. Before + 2 * peer_num /\ 7 <= n /\ (with_channel => 8 <= n)
      /\ \A j \in 0 .. peer_num - 1 : Before + j + 1 <= n /\ Before + peer_num + j + 1 <= n
  BY DEF Before
<1>2. AtWork = Held(n) \ {<<"dev_list", 0>>}
  BY DEF AtWork
<1> HIDE DEF n
<1>3. \A r \in Held(n) :
        \/ r \in {<<"dev_list", 0>>, <<"ctx", 0>>, <<"pd", 0>>,
                  <<"cache_buf", 0>>, <<"sched_buf", 0>>}
        \/ r = <<"cache_mr", 0>>
        \/ r = <<"sched_mr", 0>>
        \/ r = <<"channel", 0>> /\ with_channel
        \/ \E j \in 0 .. peer_num - 1 : r = <<"cq", j>>
        \/ \E j \in 0 .. peer_num - 1 : r = <<"qp", j>>
  BY <1>1, HeldMember, Zenon
<1>4. /\ <<"ctx", 0>> \in Held(n) /\ <<"pd", 0>> \in Held(n)
      /\ <<"cache_buf", 0>> \in Held(n) /\ <<"sched_buf", 0>> \in Held(n)
      /\ <<"cache_mr", 0>> \in Held(n) /\ <<"sched_mr", 0>> \in Held(n)
      /\ with_channel => <<"channel", 0>> \in Held(n)
  <2>1. /\ 2 <= n /\ 3 <= n /\ 4 <= n /\ 5 <= n /\ 6 <= n /\ 7 <= n
    BY <1>1
  <2> QED BY <1>1, <2>1, HeldMember, Zenon
<1>5. \A j \in 0 .. peer_num - 1 : <<"cq", j>> \in Held(n) /\ <<"qp", j>> \in Held(n)
  BY <1>1, HeldMember, Zenon
<1> QED BY <1>2, <1>3, <1>4, <1>5

\* The next resource given back is used by nothing that is still held.
LEMMA FreeToGo ==
  ASSUME peer_num \in Nat, with_channel \in BOOLEAN, NEW n \in 0 .. 2 * peer_num + 5,
         NEW other \in AtWork \ Given(n)
  PROVE  Ib!CleanOrder[n + 1] \notin Ib!Uses(other)
<1> DEFINE r == Ib!CleanOrder[n + 1]
<1>1. n \in 0 .. 2 * peer_num + 6 /\ n + 1 \in 0 .. 2 * peer_num + 6 /\ n + 1 \in 1 .. n + 1
  OBVIOUS
<1>2. r \in Given(n + 1)
  BY <1>1 DEF Given
<1> HIDE DEF r
<1>3. /\ r = <<"pd", 0>> => 2 * peer_num + 2 <= n
      /\ r = <<"ctx", 0>> => 2 * peer_num + 3 <= n
      /\ r # <<"channel", 0>>
      /\ \A j : r = <<"cq", j>> => j \in 0 .. peer_num - 1 /\ peer_num + j <= n
  <2>1. /\ r = <<"pd", 0>> => 2 * peer_num + 3 <= n + 1
        /\ r = <<"ctx", 0>> => 2 * peer_num + 4 <= n + 1
        /\ r # <<"channel", 0>>
        /\ \A j : r = <<"cq", j>> => j \in 0 .. peer_num - 1 /\ peer_num + j + 1 <= n + 1
    BY <1>1, <1>2, GivenMember, Zenon
  <2> QED BY <2>1
<1>4. /\ \A j \in 0 .. peer_num - 1 : j + 1 <= n => <<"qp", j>> \in Given(n)
      /\ \A j \in 0 .. peer_num - 1 : peer_num + j + 1 <= n => <<"cq", j>> \in Given(n)
      /\ 2 * peer_num + 1 <= n => <<"cache_mr", 0>> \in Given(n)
      /\ 2 * peer_num + 2 <= n => <<"sched_mr", 0>> \in Given(n)
      /\ 2 * peer_num + 3 <= n => <<"pd", 0>> \in Given(n)
  BY <1>1, GivenMember, Zenon
<1>5. CASE other \in {<<"cache_mr", 0>>, <<"sched_mr", 0>>}
  <2>1. Ib!Uses(other) = {<<"pd", 0>>}
    BY <1>5 DEF Ib!Uses, Ib!One
  <2>2. 2 * peer_num + 2 <= n => 2 * peer_num + 1 <= n
    OBVIOUS
  <2>3. <<"cache_mr", 0>> \notin Given(n) \/ <<"sched_mr", 0>> \notin Given(n)
    BY <1>5, Zenon
  <2> QED BY <2>1, <2>2, <2>3, <1>3, <1>4, Zenon DEF r
<1>6. CASE other = <<"pd", 0>>
  <2>1. Ib!Uses(other) = {<<"ctx", 0>>}
    BY <1>6 DEF Ib!Uses, Ib!One
  <2>2. <<"pd", 0>> \notin Given(n)
    BY <1>6
  <2> QED BY <2>1, <2>2, <1>3, <1>4, Zenon DEF r
<1>7. ASSUME NEW j \in 0 .. peer_num - 1, other = <<"cq", j>>
      PROVE  r \notin Ib!Uses(other)
  <2>1. Ib!Uses(other) \subseteq {<<"ctx", 0>>, <<"channel", 0>>}
    BY <1>7 DEF Ib!Uses, Ib!One
  <2>2. 2 * peer_num + 3 <= n => peer_num + j + 1 <= n
    OBVIOUS
  <2> QED BY <2>1, <2>2, <1>3, <1>4, <1>7
<1>8. ASSUME NEW j \in 0 .. peer_num - 1, other = <<"qp", j>>
      PROVE  r \notin Ib!Uses(other)
  <2>1. Ib!Uses(other) = {<<"pd", 0>>, <<"cq", j>>}
    BY <1>8 DEF Ib!Uses, Ib!One
  <2>2. (2 * peer_num + 2 <= n => j + 1 <= n) /\ (peer_num + j <= n => j + 1 <= n)
    OBVIOUS
  <2> QED BY <2>1, <2>2, <1>3, <1>4, <1>8
<1>9. CASE other \in {<<"ctx", 0>>, <<"cache_buf", 0>>, <<"sched_buf", 0>>, <<"channel", 0>>}
  <2>1. Ib!Uses(other) = {}
    BY <1>9 DEF Ib!Uses, Ib!One
  <2> QED BY <2>1
<1>10. \/ other \in {<<"ctx", 0>>, <<"pd", 0>>, <<"cache_buf", 0>>, <<"sched_buf", 0>>,
                     <<"cache_mr", 0>>, <<"sched_mr", 0>>}
       \/ other = <<"channel", 0>>
       \/ \E j \in 0 .. peer_num - 1 : other = <<"cq", j>> \/ other = <<"qp", j>>
  BY AtWorkMember, Zenon
<1> QED BY <1>5, <1>6, <1>7, <1>8, <1>9, <1>10 DEF r

\* One more call takes, or gives back, one more resource.
LEMMA OneMore ==
  ASSUME NEW n \in Nat
  PROVE  /\ Held(n + 1) = Held(n) \cup {Ib!SetupOrder[n + 1]}
         /\ Given(n + 1) = Given(n) \cup {Ib!CleanOrder[n + 1]}
         /\ Held(0) = {} /\ Given(0) = {}
<1>1. \A m : m \in 1 .. n + 1 <=> m \in 1 .. n \/ m = n + 1
  OBVIOUS
<1>2. 1 .. 0 = {}
  OBVIOUS
<1> QED BY <1>1, <1>2, Zenon DEF Held, Given


-----------------------------------------------------------------------------
(* What a process holds at every moment, by the calls it has made. *)

Resources ==
  /\ with_channel \in BOOLEAN /\ refused = {}
  /\ phase \in {"setup", "use", "clean", "end", "exit"}
  /\ pc \in {"role", "peers"} => phase = "setup" /\ step = 0
  /\ \E n \in Nat :
       /\ step = n
       /\ phase = "setup" => n <= Before + 2 * peer_num /\ live = Held(n)
       /\ phase = "use" => n = 0 /\ live = AtWork
       /\ phase = "clean" => n <= 2 * peer_num + 6 /\ live = AtWork \ Given(n)
       /\ phase = "end" => live = AtWork \ Given(2 * peer_num + 6)
       /\ phase = "exit" => live = {}

\* The orders depend on the number of peers and the kind of test only.
LEMMA SameOrders ==
  ASSUME UNCHANGED <<with_channel, peers>>
  PROVE  /\ peer_num' = peer_num /\ Before' = Before /\ AtWork' = AtWork
         /\ \A n : Held(n)' = Held(n) /\ Given(n)' = Given(n)
<1>1. peer_num' = peer_num /\ Before' = Before
  BY DEF peer_num, Before
<1>2. Ib!SetupOrder' = Ib!SetupOrder /\ Ib!CleanOrder' = Ib!CleanOrder
  BY <1>1, Zenon DEF Ib!SetupOrder, Ib!CleanOrder, Ib!Each, Ib!One, peer_num
<1>3. \A n : Held(n)' = Held(n) /\ Given(n)' = Given(n)
  BY <1>2, Zenon DEF Held, Given
<1> QED BY <1>1, <1>3, Zenon DEF AtWork

\* setup_ib takes the next resource, fails, or is done.
LEMMA SetsUpKeeps ==
  ASSUME peer_num \in Nat, Resources, SetsUp
  PROVE  Resources'
<1>1. /\ with_channel \in BOOLEAN /\ refused = {} /\ pc \in {"id", "run"}
      /\ pc' = pc /\ peers' = peers
  BY DEF Resources, SetsUp, vars
<1>2. PICK n \in Nat :
        /\ step = n
        /\ phase = "setup" => n <= Before + 2 * peer_num /\ live = Held(n)
  BY DEF Resources
<1>3. /\ Len(Ib!SetupOrder) = Before + 2 * peer_num
      /\ Before + 2 * peer_num \in Nat
  BY <1>1, SetupPlaces DEF Before
<1>4. CASE Ib!Take
  <2>1. /\ phase = "setup" /\ n < Before + 2 * peer_num
        /\ live' = live \cup {Ib!SetupOrder[n + 1]} /\ step' = n + 1
        /\ UNCHANGED <<with_channel, phase, refused>>
    BY <1>2, <1>3, <1>4 DEF Ib!Take
  <2>2. /\ n + 1 \in Nat /\ n + 1 <= Before + 2 * peer_num
    BY <2>1, <1>3
  <2>3. live' = Held(n + 1)
    BY <1>2, <2>1, OneMore
  <2>4. peer_num' = peer_num /\ Before' = Before /\ Held(n + 1)' = Held(n + 1)
    BY <1>1, <2>1, SameOrders
  <2> QED BY <1>1, <2>1, <2>2, <2>3, <2>4 DEF Resources
<1>5. CASE Ib!TakeFails
  <2>1. phase' = "exit" /\ live' = {} /\ UNCHANGED <<with_channel, step, refused>>
    BY <1>5 DEF Ib!TakeFails
  <2> QED BY <1>1, <1>2, <2>1 DEF Resources
<1>6. CASE Ib!SetupDone
  <2>1. /\ phase = "setup" /\ n = Before + 2 * peer_num
        /\ live' = live \ {<<"dev_list", 0>>} /\ phase' = "use" /\ step' = 0
        /\ UNCHANGED <<with_channel, refused>>
    BY <1>2, <1>3, <1>6 DEF Ib!SetupDone, Ib!One
  <2>2. live' = AtWork
    BY <1>2, <2>1 DEF AtWork
  <2>3. AtWork' = AtWork
    BY <1>1, <2>1, SameOrders
  <2> QED BY <1>1, <2>1, <2>2, <2>3 DEF Resources
<1> QED BY <1>4, <1>5, <1>6 DEF SetsUp

\* The clean-up begins, gives the next resource back, or is done.
LEMMA CleansUpKeeps ==
  ASSUME peer_num \in Nat, Resources, CleansUp
  PROVE  Resources'
<1>1. /\ with_channel \in BOOLEAN /\ refused = {} /\ pc = "run"
      /\ pc' = pc /\ peers' = peers
  BY DEF Resources, CleansUp, vars
<1>2. PICK n \in Nat :
        /\ step = n
        /\ phase = "use" => n = 0 /\ live = AtWork
        /\ phase = "clean" => n <= 2 * peer_num + 6 /\ live = AtWork \ Given(n)
  BY DEF Resources
<1>3. Len(Ib!CleanOrder) = 2 * peer_num + 6
  BY CleanPlaces
<1>4. CASE Ib!BeginClean
  <2>1. /\ phase = "use" /\ phase' = "clean"
        /\ UNCHANGED <<with_channel, step, live, refused>>
    BY <1>4 DEF Ib!BeginClean
  <2>2. AtWork' = AtWork /\ Given(0)' = Given(0) /\ peer_num' = peer_num
    BY <1>1, <2>1, SameOrders
  <2>3. AtWork \ Given(0) = AtWork
    BY OneMore, Zenon
  <2>4. 0 <= 2 * peer_num + 6
    OBVIOUS
  <2> QED BY <1>1, <1>2, <2>1, <2>2, <2>3, <2>4 DEF Resources
<1>5. CASE Ib!GiveBack
  <2>1. /\ phase = "clean" /\ n < 2 * peer_num + 6 /\ step' = n + 1
        /\ IF Ib!InUse(Ib!CleanOrder[n + 1])
           THEN refused' = refused \cup {Ib!CleanOrder[n + 1]} /\ UNCHANGED live
           ELSE live' = live \ {Ib!CleanOrder[n + 1]} /\ UNCHANGED refused
        /\ UNCHANGED <<with_channel, phase>>
    BY <1>2, <1>3, <1>5 DEF Ib!GiveBack
  <2>2. /\ n \in 0 .. 2 * peer_num + 5 /\ n + 1 \in Nat /\ n + 1 <= 2 * peer_num + 6
    BY <2>1
  <2>3. ~Ib!InUse(Ib!CleanOrder[n + 1])
    BY <1>1, <1>2, <2>1, <2>2, FreeToGo DEF Ib!InUse
  <2>4. live' = AtWork \ Given(n + 1)
    BY <1>2, <2>1, <2>3, OneMore
  <2>5. AtWork' = AtWork /\ Given(n + 1)' = Given(n + 1) /\ peer_num' = peer_num
    BY <1>1, <2>1, SameOrders
  <2> QED BY <1>1, <2>1, <2>2, <2>3, <2>4, <2>5 DEF Resources
<1>6. CASE Ib!CleanDone
  <2> DEFINE all == 2 * peer_num + 6
  <2>1. /\ phase = "clean" /\ n = all /\ phase' = "end"
        /\ UNCHANGED <<with_channel, step, live, refused>>
    BY <1>2, <1>3, <1>6 DEF Ib!CleanDone
  <2> HIDE DEF all
  <2>2. live' = AtWork \ Given(all) /\ AtWork' = AtWork /\ Given(n)' = Given(n)
    BY <1>1, <1>2, <2>1, SameOrders
  <2>3. peer_num' = peer_num
    BY <1>1, <2>1, SameOrders
  <2>4. Given(2 * peer_num + 6)' = Given(2 * peer_num + 6)
    BY <1>1, <2>1, SameOrders, Zenon DEF Given, Ib!CleanOrder, Ib!Each, Ib!One, peer_num
  <2> QED BY <1>1, <1>2, <2>1, <2>2, <2>3, <2>4 DEF Resources, all
<1> QED BY <1>4, <1>5, <1>6 DEF CleansUp

\* The other steps.
LEMMA ResourcesNext ==
  ASSUME peer_num \in Nat, peer_num' \in Nat, Resources, [ProcessNext]_allVars
  PROVE  Resources'
<1>1. /\ with_channel \in BOOLEAN /\ refused = {}
      /\ pc \in {"role", "peers"} => phase = "setup" /\ step = 0
  BY DEF Resources
<1>2. PICK n \in Nat :
        /\ step = n
        /\ phase = "setup" => n <= Before + 2 * peer_num /\ live = Held(n)
        /\ phase = "use" => n = 0 /\ live = AtWork
        /\ phase = "clean" => n <= 2 * peer_num + 6 /\ live = AtWork \ Given(n)
        /\ phase = "end" => live = AtWork \ Given(2 * peer_num + 6)
        /\ phase = "exit" => live = {}
  BY DEF Resources
<1>3. CASE Asks
  <2>1. phase = "setup" /\ step = 0 /\ UNCHANGED resources
    BY <1>1, <1>3 DEF Asks, Role, Peers
  <2>2. live = {}
    BY <1>2, <2>1, OneMore
  <2>3. Held(0)' = {}
    <3>1. 1 .. 0 = {}
      OBVIOUS
    <3> QED BY <3>1, Zenon DEF Held
  <2>4. 0 <= Before' + 2 * peer_num'
    <3>1. Before' \in {7, 8}
      BY DEF Before
    <3>2. PICK b \in {7, 8}, p \in Nat : b = Before' /\ p = peer_num'
      BY <3>1, Zenon
    <3>3. 0 <= b + 2 * p
      OBVIOUS
    <3> QED BY <3>2, <3>3, Zenon
  <2> QED BY <1>1, <2>1, <2>2, <2>3, <2>4 DEF Resources, resources
<1>4. CASE StopsWithoutAddress
  <2>1. /\ pc' = "no_address" /\ phase' = "exit" /\ live' = {}
        /\ UNCHANGED <<with_channel, step, refused>>
    BY <1>4 DEF StopsWithoutAddress, ProbeFails
  <2> QED BY <1>1, <1>2, <2>1 DEF Resources
<1>5. CASE SetsUp
  BY <1>5, SetsUpKeeps
<1>6. CASE AsksNumber
  <2>1. /\ phase = "use" /\ pc' \in {"unknown", "run"} /\ peers' = peers
        /\ \/ UNCHANGED <<phase, live>>
           \/ phase' = "exit" /\ live' = {}
        /\ UNCHANGED <<with_channel, step, refused>>
    BY <1>6 DEF AsksNumber, Id
  <2>2. AtWork' = AtWork
    BY <2>1, SameOrders
  <2> QED BY <1>1, <1>2, <2>1, <2>2 DEF Resources
<1>7. CASE CleansUp
  BY <1>7, CleansUpKeeps
<1>8. CASE UNCHANGED allVars
  <2>1. UNCHANGED <<with_channel, peers, pc, phase, step, live, refused>>
    BY <1>8 DEF allVars, vars, resources
  <2>2. /\ peer_num' = peer_num /\ Before' = Before /\ AtWork' = AtWork
        /\ Held(n)' = Held(n) /\ Given(n)' = Given(n)
    BY <2>1, SameOrders
  <2>3. Given(2 * peer_num + 6)' = Given(2 * peer_num + 6)
    BY <2>1, Zenon DEF Given, Ib!CleanOrder, Ib!Each, Ib!One, peer_num
  <2>4. phase' \in {"setup", "use", "clean", "end", "exit"}
    BY <2>1 DEF Resources
  <2> QED BY <1>1, <1>2, <2>1, <2>2, <2>3, <2>4 DEF Resources
<1> QED BY <1>3, <1>4, <1>5, <1>6, <1>7, <1>8 DEF ProcessNext


\* What is registered is allocated, and what a queue pair needs is there.
LEMMA ResourcesReachable ==
  ASSUME peer_num \in Nat, Resources
  PROVE  ReachableIsLive
<1> DEFINE Reachable(held) ==
      /\ <<"cache_mr", 0>> \in held => <<"cache_buf", 0>> \in held
      /\ <<"sched_mr", 0>> \in held => <<"sched_buf", 0>> \in held
      /\ \A r \in held : r[1] = "qp" =>
           {<<"cache_mr", 0>>, <<"sched_mr", 0>>, <<"pd", 0>>, <<"cq", r[2]>>} \subseteq held
<1>1. /\ with_channel \in BOOLEAN
      /\ Before \in {7, 8} /\ phase \in {"setup", "use", "clean", "end", "exit"}
  BY DEF Resources, Before
<1>2. PICK n \in Nat :
        /\ phase = "setup" => n <= Before + 2 * peer_num /\ live = Held(n)
        /\ phase = "use" => n = 0 /\ live = AtWork
        /\ phase = "clean" => n <= 2 * peer_num + 6 /\ live = AtWork \ Given(n)
        /\ phase = "end" => live = AtWork \ Given(2 * peer_num + 6)
        /\ phase = "exit" => live = {}
  BY DEF Resources
<1>3. ASSUME NEW m \in 0 .. Before + 2 * peer_num
      PROVE  Reachable(Held(m))
  <2>1. /\ \A r \in Held(m) :
             \/ r[1] # "qp"
             \/ \E j \in 0 .. peer_num - 1 : r = <<"qp", j>> /\ Before + peer_num + j + 1 <= m
        /\ <<"cache_mr", 0>> \in Held(m) => 6 <= m
        /\ <<"sched_mr", 0>> \in Held(m) => 7 <= m
    <3>1. \A r \in Held(m) :
            \/ r \in {<<"dev_list", 0>>, <<"ctx", 0>>, <<"pd", 0>>,
                      <<"cache_buf", 0>>, <<"sched_buf", 0>>}
            \/ r = <<"cache_mr", 0>> /\ 6 <= m
            \/ r = <<"sched_mr", 0>> /\ 7 <= m
            \/ r = <<"channel", 0>>
            \/ \E j \in 0 .. peer_num - 1 : r = <<"cq", j>>
            \/ \E j \in 0 .. peer_num - 1 :
                 r = <<"qp", j>> /\ Before + peer_num + j + 1 <= m
      BY <1>1, HeldMember, Zenon
    <3> QED BY <3>1
  <2>2. /\ 3 <= m => <<"pd", 0>> \in Held(m)
        /\ 4 <= m => <<"cache_buf", 0>> \in Held(m)
        /\ 5 <= m => <<"sched_buf", 0>> \in Held(m)
        /\ 6 <= m => <<"cache_mr", 0>> \in Held(m)
        /\ 7 <= m => <<"sched_mr", 0>> \in Held(m)
        /\ \A j \in 0 .. peer_num - 1 : Before + j + 1 <= m => <<"cq", j>> \in Held(m)
    BY <1>1, HeldMember, Zenon
  <2>3. /\ 6 <= m => 4 <= m
        /\ 7 <= m => 5 <= m
        /\ \A j \in 0 .. peer_num - 1 : Before + peer_num + j + 1 <= m =>
             Before + j + 1 <= m /\ 3 <= m /\ 6 <= m /\ 7 <= m
    BY <1>1
  <2>4. ASSUME NEW r \in Held(m), r[1] = "qp"
        PROVE  {<<"cache_mr", 0>>, <<"sched_mr", 0>>, <<"pd", 0>>, <<"cq", r[2]>>}
                 \subseteq Held(m)
    <3>1. PICK j \in 0 .. peer_num - 1 : r = <<"qp", j>> /\ Before + peer_num + j + 1 <= m
      BY <2>1, <2>4
    <3>2. r[2] = j
      BY <3>1
    <3> QED BY <2>2, <2>3, <3>1, <3>2
  <2> QED BY <2>1, <2>2, <2>3, <2>4
<1>4. ASSUME NEW m \in 0 .. 2 * peer_num + 6
      PROVE  Reachable(AtWork \ Given(m))
  <2>1. /\ \A j \in 0 .. peer_num - 1 : <<"qp", j>> \notin Given(m) => m < j + 1
        /\ <<"cache_mr", 0>> \notin Given(m) => m < 2 * peer_num + 1
        /\ <<"sched_mr", 0>> \notin Given(m) => m < 2 * peer_num + 2
    <3>1. /\ \A j \in 0 .. peer_num - 1 : <<"qp", j>> \notin Given(m) => ~(j + 1 <= m)
          /\ <<"cache_mr", 0>> \notin Given(m) => ~(2 * peer_num + 1 <= m)
          /\ <<"sched_mr", 0>> \notin Given(m) => ~(2 * peer_num + 2 <= m)
      BY GivenMember, Zenon
    <3> QED BY <3>1
  <2>2. /\ \A j \in 0 .. peer_num - 1 : <<"cq", j>> \in Given(m) => peer_num + j + 1 <= m
        /\ <<"cache_mr", 0>> \in Given(m) => 2 * peer_num + 1 <= m
        /\ <<"sched_mr", 0>> \in Given(m) => 2 * peer_num + 2 <= m
        /\ <<"pd", 0>> \in Given(m) => 2 * peer_num + 3 <= m
        /\ <<"cache_buf", 0>> \in Given(m) => 2 * peer_num + 5 <= m
        /\ <<"sched_buf", 0>> \in Given(m) => 2 * peer_num + 6 <= m
    BY GivenMember, Zenon
  <2>3. /\ m < 2 * peer_num + 1 => ~(2 * peer_num + 5 <= m)
        /\ m < 2 * peer_num + 2 => ~(2 * peer_num + 6 <= m)
        /\ \A j \in 0 .. peer_num - 1 : m < j + 1 =>
             /\ ~(peer_num + j + 1 <= m) /\ ~(2 * peer_num + 1 <= m)
             /\ ~(2 * peer_num + 2 <= m) /\ ~(2 * peer_num + 3 <= m)
    OBVIOUS
  <2>4. ASSUME NEW r \in AtWork \ Given(m), r[1] = "qp"
        PROVE  {<<"cache_mr", 0>>, <<"sched_mr", 0>>, <<"pd", 0>>, <<"cq", r[2]>>}
                 \subseteq AtWork \ Given(m)
    <3>1. PICK j \in 0 .. peer_num - 1 : r = <<"qp", j>>
      <4>1. \/ r \in {<<"ctx", 0>>, <<"pd", 0>>, <<"cache_buf", 0>>, <<"sched_buf", 0>>,
                      <<"cache_mr", 0>>, <<"sched_mr", 0>>}
            \/ r = <<"channel", 0>>
            \/ \E j \in 0 .. peer_num - 1 : r = <<"cq", j>> \/ r = <<"qp", j>>
        BY <1>1, AtWorkMember, Zenon
      <4> QED BY <4>1, <2>4
    <3>2. r[2] = j /\ <<"qp", j>> \notin Given(m)
      BY <3>1
    <3>3. /\ <<"cache_mr", 0>> \in AtWork /\ <<"sched_mr", 0>> \in AtWork
          /\ <<"pd", 0>> \in AtWork /\ <<"cq", j>> \in AtWork
      BY <1>1, AtWorkMember
    <3>4. /\ <<"cache_mr", 0>> \notin Given(m) /\ <<"sched_mr", 0>> \notin Given(m)
          /\ <<"pd", 0>> \notin Given(m) /\ <<"cq", j>> \notin Given(m)
      BY <2>1, <2>2, <2>3, <3>2, Zenon
    <3> QED BY <3>2, <3>3, <3>4
  <2>5. <<"cache_buf", 0>> \in AtWork /\ <<"sched_buf", 0>> \in AtWork
    BY <1>1, AtWorkMember
  <2>6. /\ <<"cache_mr", 0>> \in AtWork \ Given(m) => <<"cache_buf", 0>> \in AtWork \ Given(m)
        /\ <<"sched_mr", 0>> \in AtWork \ Given(m) => <<"sched_buf", 0>> \in AtWork \ Given(m)
    BY <2>1, <2>2, <2>3, <2>5, Zenon
  <2> QED BY <2>4, <2>6
<1>5. Reachable(AtWork)
  <2>1. AtWork \ Given(0) = AtWork
    BY OneMore, Zenon
  <2>2. 0 \in 0 .. 2 * peer_num + 6
    OBVIOUS
  <2>3. Reachable(AtWork \ Given(0))
    BY <1>4, <2>2
  <2> QED BY <2>1, <2>3
<1>6. Reachable({})
  OBVIOUS
<1>7. \/ live = {} \/ live = AtWork
      \/ \E m \in 0 .. Before + 2 * peer_num : live = Held(m)
      \/ \E m \in 0 .. 2 * peer_num + 6 : live = AtWork \ Given(m)
  <2>1. CASE phase = "setup"
    <3>1. n \in 0 .. Before + 2 * peer_num
      BY <1>1, <1>2, <2>1
    <3> QED BY <1>2, <2>1, <3>1
  <2>2. CASE phase = "clean"
    <3>1. n \in 0 .. 2 * peer_num + 6
      BY <1>2, <2>2
    <3> QED BY <1>2, <2>2, <3>1
  <2>3. CASE phase = "end"
    <3>1. 2 * peer_num + 6 \in 0 .. 2 * peer_num + 6
      OBVIOUS
    <3> QED BY <1>2, <2>3, <3>1
  <2> QED BY <1>1, <1>2, <2>1, <2>2, <2>3
<1> HIDE DEF Reachable
<1>8. Reachable(live)
  BY <1>3, <1>4, <1>5, <1>6, <1>7
<1> QED BY <1>8, Zenon DEF Reachable, ReachableIsLive, Ib!ReachableIsLive, Ib!One

\* After the clean-up only the channel is left.
LEMMA ResourcesGivenBack ==
  ASSUME peer_num \in Nat, Resources
  PROVE  NoneStillInUse /\ AllGivenBack
<1> DEFINE all == 2 * peer_num + 6
<1>1. with_channel \in BOOLEAN /\ refused = {} /\ (phase = "end" => live = AtWork \ Given(all))
  BY DEF Resources
<1>2. /\ all \in 0 .. 2 * peer_num + 6 /\ 2 * peer_num + 1 <= all /\ 2 * peer_num + 2 <= all
      /\ 2 * peer_num + 3 <= all /\ 2 * peer_num + 4 <= all /\ 2 * peer_num + 5 <= all
      /\ 2 * peer_num + 6 <= all
      /\ \A j \in 0 .. peer_num - 1 : j + 1 <= all /\ peer_num + j + 1 <= all
  OBVIOUS
<1> HIDE DEF all
<1>3. /\ {<<"cache_mr", 0>>, <<"sched_mr", 0>>, <<"pd", 0>>, <<"ctx", 0>>,
          <<"cache_buf", 0>>, <<"sched_buf", 0>>} \subseteq Given(all)
      /\ \A j \in 0 .. peer_num - 1 : <<"qp", j>> \in Given(all) /\ <<"cq", j>> \in Given(all)
      /\ <<"channel", 0>> \notin Given(all)
  <2>1. /\ <<"cache_mr", 0>> \in Given(all) /\ <<"sched_mr", 0>> \in Given(all)
        /\ <<"pd", 0>> \in Given(all) /\ <<"ctx", 0>> \in Given(all)
        /\ <<"cache_buf", 0>> \in Given(all) /\ <<"sched_buf", 0>> \in Given(all)
        /\ \A j \in 0 .. peer_num - 1 :
             <<"qp", j>> \in Given(all) /\ <<"cq", j>> \in Given(all)
        /\ <<"channel", 0>> \notin Given(all)
    BY <1>2, GivenMember, Zenon
  <2> QED BY <2>1
<1>4. /\ \A r \in AtWork :
           \/ r \in {<<"ctx", 0>>, <<"pd", 0>>, <<"cache_buf", 0>>, <<"sched_buf", 0>>,
                     <<"cache_mr", 0>>, <<"sched_mr", 0>>}
           \/ r = <<"channel", 0>> /\ with_channel
           \/ \E j \in 0 .. peer_num - 1 : r = <<"cq", j>> \/ r = <<"qp", j>>
      /\ with_channel => <<"channel", 0>> \in AtWork
  BY <1>1, AtWorkMember, Zenon
<1>5. AtWork \ Given(all) = IF with_channel THEN {<<"channel", 0>>} ELSE {}
  <2>1. ASSUME NEW r \in AtWork, r \notin Given(all)
        PROVE  r = <<"channel", 0>> /\ with_channel
    <3>1. \A j \in 0 .. peer_num - 1 : r # <<"cq", j>> /\ r # <<"qp", j>>
      BY <1>3, <2>1, Zenon
    <3>2. r \notin {<<"ctx", 0>>, <<"pd", 0>>, <<"cache_buf", 0>>, <<"sched_buf", 0>>,
                    <<"cache_mr", 0>>, <<"sched_mr", 0>>}
      BY <1>3, <2>1
    <3> QED BY <1>4, <3>1, <3>2, Zenon
  <2>2. with_channel => <<"channel", 0>> \in AtWork \ Given(all)
    BY <1>3, <1>4
  <2> HIDE DEF AtWork
  <2>3. CASE with_channel
    BY <2>1, <2>2, <2>3
  <2>4. CASE ~with_channel
    BY <2>1, <2>4
  <2> QED BY <2>3, <2>4
<1>6. NoneStillInUse
  BY <1>1 DEF NoneStillInUse, Ib!NoneStillInUse
<1>7. AllGivenBack
  BY <1>1, <1>5, Zenon DEF AllGivenBack, Ib!AllGivenBack, Ib!One
<1> QED BY <1>6, <1>7

\* The queues of a process at work are numbered by its peers.
LEMMA QueuesAtWork ==
  ASSUME peer_num \in Nat, Resources, phase = "use", NEW kind \in {"qp", "cq"}
  PROVE  {r \in live : r[1] = kind} = {kind} \X (0 .. peer_num - 1)
<1>1. with_channel \in BOOLEAN /\ live = AtWork
  BY DEF Resources
<1>2. \A r \in AtWork :
        \/ r \in {<<"ctx", 0>>, <<"pd", 0>>, <<"cache_buf", 0>>, <<"sched_buf", 0>>,
                  <<"cache_mr", 0>>, <<"sched_mr", 0>>, <<"channel", 0>>}
        \/ \E j \in 0 .. peer_num - 1 : r = <<"cq", j>> \/ r = <<"qp", j>>
  BY <1>1, AtWorkMember
<1>3. \A j \in 0 .. peer_num - 1 : <<kind, j>> \in AtWork
  BY <1>1, AtWorkMember
<1> DEFINE J == 0 .. peer_num - 1
<1> HIDE DEF J
<1>4. \A r \in live : r[1] = kind => \E j \in J : r = <<kind, j>>
  BY <1>1, <1>2 DEF J
<1>5. \A j \in J : <<kind, j>> \in live /\ <<kind, j>>[1] = kind
  BY <1>1, <1>3 DEF J
<1>6. \A r : r \in {kind} \X J <=> \E j \in J : r = <<kind, j>>
  OBVIOUS
<1>7. {r \in live : r[1] = kind} = {kind} \X J
  BY <1>4, <1>5, <1>6
<1> QED BY <1>7 DEF J


-----------------------------------------------------------------------------
(* Identity: the lists, and what the questions return. *)

\* A set of numbers that holds zero and every successor of its elements up to top
\* holds all up to top.
LEMMA UpTo ==
  ASSUME NEW top \in Nat, NEW S,
         0 \in S, \A n \in 0 .. top - 1 : n \in S => n + 1 \in S
  PROVE  0 .. top \subseteq S
<1> SUFFICES ASSUME NEW x \in 0 .. top, x \notin S
             PROVE  FALSE
  OBVIOUS
<1> DEFINE Missing == {n \in 0 .. top : n \notin S}
           R == OpToRel(<, Nat)
<1>1. PICK m \in Missing : \A n \in Missing : ~(n < m)
  <2>1. IsWellFoundedOn(R, Nat)
    BY NatLessThanWellFounded
  <2>2. \A a, b \in Nat : a < b => <<a, b>> \in R
    BY DEF OpToRel
  <2>3. Missing \subseteq Nat /\ Missing # {}
    OBVIOUS
  <2> HIDE DEF R, Missing
  <2>4. PICK m \in Missing : \A n \in Missing : ~(<<n, m>> \in R)
    BY <2>1, <2>3, WFMin, Zenon
  <2> QED BY <2>2, <2>3, <2>4
<1> HIDE DEF R
<1>2. m # 0
  BY <1>1
<1>3. m - 1 \in 0 .. top - 1 /\ m - 1 \notin Missing
  BY <1>1, <1>2
<1> QED BY <1>1, <1>3

\* The list up to n, without the place p.
Without(list, p, n) ==
  [k \in 1 .. (IF n < p THEN n ELSE n - 1) |-> IF k < p THEN list[k] ELSE list[k + 1]]

\* One turn of the loop of get_peers.
LEMMA OneTurn ==
  ASSUME NEW list \in Seq(Addresses), NEW p \in 1 .. Len(list) + 1, NEW n \in 0 .. Len(list)
  PROVE  /\ Without(list, p, n) \in Seq(Addresses)
         /\ n = 0 => Without(list, p, n) = << >>
         /\ n # 0 /\ n = p => Without(list, p, n) = Without(list, p, n - 1)
         /\ n # 0 /\ n # p =>
              Without(list, p, n) = Append(Without(list, p, n - 1), list[n])
<1>1. /\ Len(list) \in Nat
      /\ \A k \in 1 .. Len(list) : list[k] \in Addresses
  BY LenProperties, ElementOfSeq
<1>2. ASSUME NEW m \in 0 .. Len(list)
      PROVE  /\ Without(list, p, m) \in Seq(Addresses)
             /\ Len(Without(list, p, m)) = IF m < p THEN m ELSE m - 1
             /\ \A k \in 1 .. (IF m < p THEN m ELSE m - 1) :
                  Without(list, p, m)[k] = IF k < p THEN list[k] ELSE list[k + 1]
  <2> DEFINE top == IF m < p THEN m ELSE m - 1
  <2>1. /\ top \in Nat
        /\ \A k \in 1 .. top : (IF k < p THEN list[k] ELSE list[k + 1]) \in Addresses
    BY <1>1
  <2>2. Without(list, p, m) = [k \in 1 .. top |-> IF k < p THEN list[k] ELSE list[k + 1]]
    BY DEF Without
  <2> HIDE DEF top
  <2>3. /\ Without(list, p, m) \in Seq(Addresses)
        /\ Len(Without(list, p, m)) = top
        /\ \A k \in 1 .. top : Without(list, p, m)[k] = IF k < p THEN list[k] ELSE list[k + 1]
    BY <2>1, <2>2
  <2> QED BY <2>3 DEF top
<1>3. ASSUME n = 0
      PROVE  Without(list, p, n) = << >>
  <2>1. Len(Without(list, p, n)) = 0
    BY <1>2, <1>3
  <2> QED BY <1>2, <2>1, EmptySeq
<1>4. ASSUME n # 0, n = p
      PROVE  Without(list, p, n) = Without(list, p, n - 1)
  <2>1. /\ n - 1 \in 0 .. Len(list) /\ n - 1 < p /\ ~(n < p)
    BY <1>4
  <2> QED BY <1>2, <2>1 DEF Without
<1>5. ASSUME n # 0, n # p
      PROVE  Without(list, p, n) = Append(Without(list, p, n - 1), list[n])
  <2> DEFINE s == Without(list, p, n)
             t == Without(list, p, n - 1)
  <2>1. n \in 1 .. Len(list) /\ n - 1 \in 0 .. Len(list) /\ list[n] \in Addresses
    BY <1>1, <1>5
  <2>2. /\ s \in Seq(Addresses) /\ t \in Seq(Addresses)
        /\ Len(s) = (IF n < p THEN n ELSE n - 1)
        /\ Len(t) = (IF n < p THEN n - 1 ELSE n - 2)
    BY <1>2, <1>5, <2>1
  <2>3. /\ \A k \in 1 .. Len(s) : s[k] = IF k < p THEN list[k] ELSE list[k + 1]
        /\ \A k \in 1 .. Len(t) : t[k] = IF k < p THEN list[k] ELSE list[k + 1]
    BY <1>2, <1>5, <2>1
  <2> HIDE DEF s, t
  <2>4. /\ Append(t, list[n]) \in Seq(Addresses)
        /\ Len(Append(t, list[n])) = Len(t) + 1
        /\ \A k \in 1 .. Len(t) : Append(t, list[n])[k] = t[k]
        /\ Append(t, list[n])[Len(t) + 1] = list[n]
    BY <2>1, <2>2, AppendProperties
  <2>5. Len(s) = Len(t) + 1 /\ Len(t) \in Nat
    BY <2>1, <2>2
  <2>6. s[Len(t) + 1] = list[n]
    BY <1>5, <2>1, <2>2, <2>3
  <2>7. ASSUME NEW k \in 1 .. Len(s)
        PROVE  s[k] = Append(t, list[n])[k]
    <3>1. CASE k = Len(t) + 1
      BY <3>1, <2>4, <2>6
    <3>2. CASE k # Len(t) + 1
      <4>1. k \in 1 .. Len(t)
        BY <3>2, <2>5
      <4> QED BY <4>1, <2>3, <2>4
    <3> QED BY <3>1, <3>2
  <2>8. s = Append(t, list[n])
    BY <2>2, <2>4, <2>5, <2>7, SeqEqual
  <2> QED BY <2>8 DEF s, t
<1> QED BY <1>2, <1>3, <1>4, <1>5

\* get_peers leaves out the one place where the address is, if it is there.
LEMMA PeersValue ==
  ASSUME NEW list \in Seq(Addresses), NEW ip, NEW p \in 1 .. Len(list) + 1,
         \A n \in 1 .. Len(list) : list[n] = ip <=> n = p
  PROVE  get_peers(list, ip) = Without(list, p, Len(list))
<1> DEFINE Turns(g) == [n \in 0 .. Len(list) |->
                          IF n = 0 THEN << >>
                          ELSE IF list[n] = ip THEN g[n - 1]
                          ELSE Append(g[n - 1], list[n])]
           all == [n \in 0 .. Len(list) |-> Without(list, p, n)]
           ret == CHOOSE g : g = Turns(g)
<1>1. Len(list) \in Nat
  BY LenProperties
<1>2. all = Turns(all)
  <2>1. ASSUME NEW n \in 0 .. Len(list)
        PROVE  all[n] = Turns(all)[n]
    <3>1. CASE n = 0
      BY <3>1, OneTurn
    <3>2. CASE n # 0
      <4>1. /\ n - 1 \in 0 .. Len(list) /\ n \in 1 .. Len(list)
            /\ all[n] = Without(list, p, n) /\ all[n - 1] = Without(list, p, n - 1)
        BY <1>1, <3>2
      <4>2. Turns(all)[n] = IF list[n] = ip THEN all[n - 1] ELSE Append(all[n - 1], list[n])
        BY <3>2
      <4> HIDE DEF all, Turns
      <4> QED BY <3>2, <4>1, <4>2, OneTurn
    <3> QED BY <3>1, <3>2
  <2> QED BY <2>1, Zenon
<1>3. ret = Turns(ret)
  <2>1. \E g : g = Turns(g)
    BY <1>2
  <2> HIDE DEF Turns
  <2> QED BY <2>1
<1>4. get_peers(list, ip) = ret[Len(list)]
  BY Zenon DEF get_peers
<1> HIDE DEF ret, all
<1>5. ret[0] = << >> /\ \A n \in 1 .. Len(list) :
        ret[n] = IF list[n] = ip THEN ret[n - 1] ELSE Append(ret[n - 1], list[n])
  <2>1. \A n \in 0 .. Len(list) : ret[n] = IF n = 0 THEN << >>
                          ELSE IF list[n] = ip THEN ret[n - 1]
                          ELSE Append(ret[n - 1], list[n])
    BY <1>3, Zenon
  <2> QED BY <1>1, <2>1
<1> HIDE DEF Turns
<1> DEFINE Same == {n \in 0 .. Len(list) : ret[n] = Without(list, p, n)}
<1>6. 0 \in Same
  BY <1>1, <1>5, OneTurn
<1>7. ASSUME NEW n \in 0 .. Len(list) - 1, n \in Same
      PROVE  n + 1 \in Same
  <2> DEFINE m == n + 1
  <2>1. /\ m \in 1 .. Len(list) /\ m \in 0 .. Len(list) /\ m # 0 /\ m - 1 = n
    BY <1>1
  <2>2. ret[m - 1] = Without(list, p, m - 1)
    BY <2>1, <1>7
  <2> HIDE DEF m
  <2>3. ret[m] = Without(list, p, m)
    BY <1>5, <2>1, <2>2, OneTurn
  <2>4. m \in Same
    BY <2>1, <2>3
  <2> QED BY <2>4 DEF m
<1>8. 0 .. Len(list) \subseteq Same
  <2> HIDE DEF Same
  <2> QED BY <1>1, <1>6, <1>7, UpTo
<1> QED BY <1>1, <1>4, <1>8


\* An address has at most one place in a list without repetitions.
LEMMA PlaceOf ==
  ASSUME NEW list \in Seq(Addresses), IsInjective(list), NEW ip
  PROVE  \E p \in 1 .. Len(list) + 1 :
           /\ \A n \in 1 .. Len(list) : list[n] = ip <=> n = p
           /\ Contains(list, ip) <=> p <= Len(list)
<1>1. Len(list) \in Nat /\ DOMAIN list = 1 .. Len(list)
  BY LenProperties
<1>2. \A m, n \in 1 .. Len(list) : list[m] = list[n] => m = n
  BY <1>1 DEF IsInjective
<1>3. CASE Contains(list, ip)
  <2>1. PICK p \in 1 .. Len(list) : list[p] = ip
    BY <1>3 DEF Contains
  <2>2. \A n \in 1 .. Len(list) : list[n] = ip <=> n = p
    BY <1>2, <2>1
  <2>3. p \in 1 .. Len(list) + 1 /\ p <= Len(list)
    BY <1>1
  <2> QED BY <1>3, <2>2, <2>3
<1>4. CASE ~Contains(list, ip)
  <2> DEFINE p == Len(list) + 1
  <2>1. p \in 1 .. Len(list) + 1 /\ ~(p <= Len(list)) /\ \A n \in 1 .. Len(list) : n # p
    BY <1>1
  <2>2. \A n \in 1 .. Len(list) : list[n] # ip
    BY <1>4 DEF Contains
  <2> HIDE DEF p
  <2> QED BY <1>4, <2>1, <2>2
<1> QED BY <1>3, <1>4

\* What get_peers returns is a list, one shorter if the machine was in it.
LEMMA PeersLength ==
  ASSUME NEW list \in Seq(Addresses), IsInjective(list), NEW ip
  PROVE  /\ get_peers(list, ip) \in Seq(Addresses)
         /\ Len(get_peers(list, ip)) = IF Contains(list, ip) THEN Len(list) - 1 ELSE Len(list)
<1>1. PICK p \in 1 .. Len(list) + 1 :
        /\ \A n \in 1 .. Len(list) : list[n] = ip <=> n = p
        /\ Contains(list, ip) <=> p <= Len(list)
  BY PlaceOf
<1>2. Len(list) \in Nat /\ Len(list) \in 0 .. Len(list)
  BY LenProperties
<1>3. get_peers(list, ip) = Without(list, p, Len(list))
  BY <1>1, PeersValue, Zenon
<1>4. Without(list, p, Len(list)) \in Seq(Addresses)
  BY <1>2, OneTurn
<1>5. Len(Without(list, p, Len(list))) = IF Len(list) < p THEN Len(list) ELSE Len(list) - 1
  <2> DEFINE top == IF Len(list) < p THEN Len(list) ELSE Len(list) - 1
  <2>1. top \in Nat
    BY <1>2
  <2>2. Without(list, p, Len(list)) =
          [k \in 1 .. top |-> IF k < p THEN list[k] ELSE list[k + 1]]
    BY DEF Without
  <2> HIDE DEF top
  <2>3. Len(Without(list, p, Len(list))) = top
    <3>1. DOMAIN Without(list, p, Len(list)) = 1 .. top
      BY <2>2
    <3> QED BY <1>4, <2>1, <3>1, LenProperties
  <2> QED BY <2>3 DEF top
<1> QED BY <1>1, <1>2, <1>3, <1>4, <1>5

\* The number of an invoker is its place, counted from zero.
LEMMA IdValue ==
  ASSUME invoker \in Seq(Addresses), NEW ip, NEW p \in 1 .. Len(invoker) + 1,
         \A n \in 1 .. Len(invoker) : invoker[n] = ip <=> n = p
  PROVE  get_id(ip) = IF p <= Len(invoker) THEN p - 1 ELSE -1
<1> DEFINE at == {n \in 1 .. Len(invoker) : invoker[n] = ip}
<1>1. Len(invoker) \in Nat
  BY LenProperties
<1>2. get_id(ip) = IF at = {} THEN -1 ELSE Max(at) - 1
  BY DEF get_id
<1>3. CASE p <= Len(invoker)
  <2>1. at = {p}
    BY <1>1, <1>3
  <2> HIDE DEF at
  <2>2. Max(at) = p
    BY <2>1 DEF Max
  <2> QED BY <1>2, <1>3, <2>1, <2>2
<1>4. CASE ~(p <= Len(invoker))
  <2>1. at = {}
    BY <1>1, <1>4
  <2> QED BY <1>2, <1>4, <2>1
<1> QED BY <1>3, <1>4

-----------------------------------------------------------------------------
(* What a process knows about itself, at every moment. *)

\* The configuration: no machine is listed twice.
Config ==
  /\ controller \in Seq(Addresses) /\ IsInjective(controller)
  /\ invoker \in Seq(Addresses) /\ IsInjective(invoker)
  /\ \A m \in 1 .. Len(controller), n \in 1 .. Len(invoker) : controller[m] # invoker[n]
  /\ down \in 0 .. NumInterfaces

Known ==
  /\ Config /\ TypeOK
  /\ pc \in {"role", "peers", "id"} => id = -1
  /\ pc = "id" => ~is_cont
  /\ Answered =>
       /\ pc \in {"peers", "id", "run"} => (is_cont <=> Contains(controller, self))
       /\ pc \in {"id", "run"} =>
            peers = [controller |-> get_peers(controller, self),
                     invoker |-> get_peers(invoker, self)]
       /\ pc = "run" /\ ~is_cont => id = get_id(self)

\* The configurations Init chooses from are such.
LEMMA ConfigInit ==
  ASSUME Init
  PROVE  Config
<1>1. PICK c \in Configs : controller = c[1] /\ invoker = c[2]
  BY DEF Init
<1>2. /\ controller \in Lists /\ invoker \in Lists /\ IsInjective(controller \o invoker)
  BY <1>1 DEF Configs
<1>3. /\ controller \in Seq(Addresses) /\ IsInjective(controller)
      /\ invoker \in Seq(Addresses) /\ IsInjective(invoker)
  <2>1. ASSUME NEW s \in Lists
        PROVE  s \in Seq(Addresses) /\ IsInjective(s)
    <3>1. s \in BoundedSeq(Addresses, MaxListed) /\ IsInjective(s)
      BY DEF Lists
    <3>2. PICK m \in 0 .. MaxListed : s \in [1 .. m -> Addresses]
      BY <3>1 DEF BoundedSeq, SeqOf
    <3>3. m \in Nat
      BY IdentityAssumption
    <3> QED BY <3>1, <3>2, <3>3
  <2> QED BY <1>2, <2>1
<1>4. ASSUME NEW m \in 1 .. Len(controller), NEW n \in 1 .. Len(invoker)
      PROVE  controller[m] # invoker[n]
  <2> DEFINE s == controller \o invoker
  <2>1. /\ s \in Seq(Addresses) /\ Len(s) = Len(controller) + Len(invoker)
        /\ \A k \in 1 .. Len(controller) + Len(invoker) :
             s[k] = IF k <= Len(controller) THEN controller[k] ELSE invoker[k - Len(controller)]
    BY <1>3, ConcatProperties
  <2>2. \A a, b \in DOMAIN s : s[a] = s[b] => a = b
    BY <1>2 DEF IsInjective
  <2> HIDE DEF s
  <2>3. DOMAIN s = 1 .. Len(controller) + Len(invoker)
    BY <2>1, LenProperties
  <2>4. Len(controller) \in Nat /\ Len(invoker) \in Nat
    BY <1>3, LenProperties
  <2>5. /\ m \in DOMAIN s /\ Len(controller) + n \in DOMAIN s /\ m # Len(controller) + n
    BY <2>3, <2>4
  <2>6. s[m] = controller[m] /\ s[Len(controller) + n] = invoker[n]
    <3>1. /\ m <= Len(controller) /\ ~(Len(controller) + n <= Len(controller))
          /\ Len(controller) + n - Len(controller) = n
      BY <2>4
    <3> QED BY <2>1, <2>3, <2>5, <3>1
  <2> QED BY <2>2, <2>5, <2>6
<1>5. down \in 0 .. NumInterfaces
  BY DEF Init
<1> QED BY <1>3, <1>4, <1>5 DEF Config

\* Numbers, and whose they are.
LEMMA IdFacts ==
  ASSUME Config, NEW ip
  PROVE  /\ get_id(ip) \in -1 .. Len(invoker) - 1
         /\ get_id(ip) # -1 =>
              /\ Contains(invoker, ip) /\ invoker[get_id(ip) + 1] = ip
              /\ get_peers(invoker, ip) =
                   [n \in 1 .. Len(invoker) - 1 |->
                      IF n <= get_id(ip) THEN invoker[n] ELSE invoker[n + 1]]
<1>1. PICK p \in 1 .. Len(invoker) + 1 :
        /\ \A n \in 1 .. Len(invoker) : invoker[n] = ip <=> n = p
        /\ Contains(invoker, ip) <=> p <= Len(invoker)
  BY PlaceOf DEF Config
<1>2. Len(invoker) \in Nat
  BY LenProperties DEF Config
<1>3. get_id(ip) = IF p <= Len(invoker) THEN p - 1 ELSE -1
  BY <1>1, IdValue DEF Config
<1>4. get_peers(invoker, ip) = Without(invoker, p, Len(invoker))
  BY <1>1, PeersValue, Zenon DEF Config
<1>5. CASE p <= Len(invoker)
  <2>1. get_id(ip) = p - 1 /\ p - 1 \in -1 .. Len(invoker) - 1
    BY <1>2, <1>3, <1>5
  <2>2. Contains(invoker, ip) /\ invoker[get_id(ip) + 1] = ip
    BY <1>1, <1>2, <1>5, <2>1
  <2>3. Without(invoker, p, Len(invoker)) =
          [k \in 1 .. Len(invoker) - 1 |-> IF k < p THEN invoker[k] ELSE invoker[k + 1]]
    BY <1>2, <1>5 DEF Without
  <2>4. \A k \in 1 .. Len(invoker) - 1 : k < p <=> k <= get_id(ip)
    BY <1>2, <2>1
  <2> QED BY <1>4, <2>1, <2>2, <2>3, <2>4
<1>6. CASE ~(p <= Len(invoker))
  BY <1>2, <1>3, <1>6
<1> QED BY <1>5, <1>6

\* Every step of main keeps this.
LEMMA KnownNext ==
  ASSUME Known, [Next]_vars
  PROVE  Known'
<1>1. /\ Config /\ TypeOK
      /\ pc \in {"role", "peers", "id"} => id = -1
      /\ pc = "id" => ~is_cont
      /\ is_cont \in BOOLEAN /\ peers \in [controller : Seq(Addresses), invoker : Seq(Addresses)]
      /\ id \in -1 .. Len(invoker) - 1
  BY DEF Known, TypeOK
<1>2. Answered => SelfIps = {self}
  <2>1. down \in 0 .. NumInterfaces
    BY <1>1 DEF Config
  <2> QED BY <2>1, IdentityAssumption DEF Answered, SelfIps
<1>3. UNCHANGED machine => /\ Config' /\ Answered' = Answered
                           /\ Len(invoker)' = Len(invoker)
                           /\ self' = self /\ controller' = controller /\ invoker' = invoker
  BY <1>1, Zenon DEF Config, Answered, machine
<1>4. -1 \in -1 .. Len(invoker) - 1
  BY LenProperties DEF Config, Known
<1>5. CASE Role
  <2>1. /\ pc = "role" /\ pc' = "peers" /\ UNCHANGED <<machine, peers, id>>
    BY <1>5 DEF Role
  <2>2. PICK ip \in SelfIps : is_cont' = Contains(controller, ip)
    BY <1>5 DEF Role
  <2>3. is_cont' \in BOOLEAN /\ (Answered => (is_cont' <=> Contains(controller, self)))
    BY <1>2, <2>2 DEF Contains
  <2>4. TypeOK'
    BY <1>1, <1>3, <2>1, <2>3 DEF TypeOK
  <2>5. (Answered => (is_cont <=> Contains(controller, self)))'
    BY <1>3, <2>1, <2>3, Zenon DEF Contains
  <2> QED BY <1>1, <1>3, <2>1, <2>4, <2>5 DEF Known
<1>6. CASE Peers
  <2>1. /\ pc = "peers" /\ pc' = (IF is_cont THEN "run" ELSE "id")
        /\ UNCHANGED <<machine, is_cont, id>>
    BY <1>6 DEF Peers
  <2>2. PICK ip \in SelfIps :
          peers' = [controller |-> get_peers(controller, ip),
                    invoker |-> get_peers(invoker, ip)]
    BY <1>6 DEF Peers
  <2>3. get_peers(controller, ip) \in Seq(Addresses) /\ get_peers(invoker, ip) \in Seq(Addresses)
    BY <1>1, PeersLength DEF Config
  <2>4. TypeOK'
    <3>1. peers' \in [controller : Seq(Addresses), invoker : Seq(Addresses)]
      BY <2>2, <2>3
    <3> QED BY <1>1, <1>3, <2>1, <3>1 DEF TypeOK
  <2>5. (Answered => peers = [controller |-> get_peers(controller, self),
                              invoker |-> get_peers(invoker, self)])'
    <3>1. Answered => peers' = [controller |-> get_peers(controller, self),
                                invoker |-> get_peers(invoker, self)]
      BY <1>2, <2>2, Zenon
    <3> QED BY <1>3, <2>1, <3>1
  <2>6. (Answered => (is_cont <=> Contains(controller, self)))'
    <3>1. Answered => (is_cont <=> Contains(controller, self))
      BY <2>1 DEF Known
    <3> QED BY <1>3, <2>1, <3>1, Zenon DEF Contains
  <2> QED BY <1>1, <1>3, <2>1, <2>4, <2>5, <2>6 DEF Known
<1>7. CASE Id
  <2>1. /\ pc = "id" /\ pc' = (IF id' = -1 THEN "unknown" ELSE "run")
        /\ UNCHANGED <<machine, is_cont, peers>>
    BY <1>7 DEF Id
  <2>2. PICK ip \in SelfIps : id' = get_id(ip)
    BY <1>7 DEF Id
  <2>3. id' \in -1 .. Len(invoker) - 1
    BY <1>1, <2>2, IdFacts
  <2>4. TypeOK'
    BY <1>1, <1>3, <2>1, <2>3 DEF TypeOK
  <2>5. (Answered => id = get_id(self))'
    BY <1>2, <1>3, <2>1, <2>2, Zenon DEF get_id
  <2>6. /\ (Answered => (is_cont <=> Contains(controller, self)))'
        /\ (Answered => peers = [controller |-> get_peers(controller, self),
                                 invoker |-> get_peers(invoker, self)])'
    <3>1. /\ Answered => (is_cont <=> Contains(controller, self))
          /\ Answered => peers = [controller |-> get_peers(controller, self),
                                  invoker |-> get_peers(invoker, self)]
      BY <2>1 DEF Known
    <3> QED BY <1>3, <2>1, <3>1 DEF Contains
  <2> QED BY <1>1, <1>3, <2>1, <2>4, <2>5, <2>6 DEF Known
<1>8. CASE \E at \in {"role", "peers", "id"} : ProbeFails(at)
  <2>1. pc' = "no_address" /\ UNCHANGED <<machine, is_cont, peers, id>>
    BY <1>8 DEF ProbeFails
  <2>2. TypeOK'
    BY <1>1, <1>3, <2>1 DEF TypeOK
  <2> QED BY <1>3, <2>1, <2>2 DEF Known
<1>9. CASE UNCHANGED vars
  <2>1. UNCHANGED <<machine, pc, is_cont, peers, id>>
    BY <1>9 DEF vars
  <2>2. TypeOK'
    BY <1>1, <1>3, <2>1 DEF TypeOK
  <2>3. get_id(self)' = get_id(self)
    BY <1>3, <2>1, Zenon DEF get_id
  <2> QED BY <1>3, <2>1, <2>2, <2>3 DEF Known, Contains
<1> QED BY <1>5, <1>6, <1>7, <1>8, <1>9 DEF Next

\* Nothing is known at the start.
LEMMA KnownInit ==
  ASSUME Init
  PROVE  Known
<1>1. Config
  BY ConfigInit
<1>2. /\ pc = "role" /\ is_cont = FALSE /\ id = -1
      /\ peers = [controller |-> << >>, invoker |-> << >>]
  BY DEF Init
<1>3. TypeOK
  <2>1. peers \in [controller : Seq(Addresses), invoker : Seq(Addresses)]
    BY <1>2, EmptySeq
  <2>2. -1 \in -1 .. Len(invoker) - 1
    BY <1>1, LenProperties DEF Config
  <2> QED BY <1>2, <2>1, <2>2 DEF TypeOK
<1> QED BY <1>1, <1>2, <1>3 DEF Known


-----------------------------------------------------------------------------
(* The theorems. *)

ProcessInv == Known /\ Resources

\* The number of peers is a number.
LEMMA PeerNumber ==
  ASSUME Known
  PROVE  peer_num \in Nat
<1>1. PICK a \in Nat, b \in Nat : a = Len(peers.controller) /\ b = Len(peers.invoker)
  BY LenProperties DEF Known, TypeOK
<1>2. a + b \in Nat
  OBVIOUS
<1> QED BY <1>1, <1>2, Zenon DEF peer_num

\* The process holds nothing when main begins.
LEMMA ProcessInvInit ==
  ASSUME ProcessInit
  PROVE  ProcessInv
<1>1. Known
  BY KnownInit DEF ProcessInit
<1>2. /\ phase = "setup" /\ step = 0 /\ live = {} /\ refused = {}
      /\ with_channel \in BOOLEAN
  BY DEF ProcessInit
<1>3. Held(0) = {} /\ 0 <= Before + 2 * peer_num
  <2>1. Before \in {7, 8}
    BY DEF Before
  <2> QED BY <1>1, <2>1, PeerNumber, OneMore
<1> QED BY <1>1, <1>2, <1>3 DEF ProcessInv, Resources

\* A step of the process is a step of Identity, or none.
LEMMA IsIdentity ==
  ASSUME [ProcessNext]_allVars
  PROVE  [Next]_vars
BY DEF ProcessNext, Asks, StopsWithoutAddress, SetsUp, AsksNumber, CleansUp, allVars, Next

\* Every step keeps both invariants.
LEMMA ProcessInvNext ==
  ASSUME ProcessInv, [ProcessNext]_allVars
  PROVE  ProcessInv'
<1>1. Known'
  BY IsIdentity, KnownNext DEF ProcessInv
<1>2. peer_num \in Nat
  BY PeerNumber DEF ProcessInv
<1>3. peer_num' \in Nat
  <2>1. PICK p \in [controller : Seq(Addresses), invoker : Seq(Addresses)] : p = peers'
    BY <1>1 DEF Known, TypeOK
  <2>2. PICK a \in Nat, b \in Nat : a = Len(p.controller) /\ b = Len(p.invoker)
    BY LenProperties
  <2>3. a + b \in Nat
    OBVIOUS
  <2> QED BY <2>1, <2>2, <2>3, Zenon DEF peer_num
<1>4. Resources'
  BY <1>2, <1>3, ResourcesNext DEF ProcessInv
<1> QED BY <1>1, <1>4 DEF ProcessInv

\* Both invariants hold of every process.
LEMMA ProcessInvHolds == ProcessSpec => []ProcessInv
<1>1. ProcessInit => ProcessInv
  BY ProcessInvInit
<1>2. ProcessInv /\ [ProcessNext]_allVars => ProcessInv'
  BY ProcessInvNext
<1> QED BY <1>1, <1>2, PTL DEF ProcessSpec

\* What the process finds out about itself has its type, and a process runs with a
\* number exactly if it runs as an invoker, whichever address its probes gave
\* (main.cpp:12-40, config.cpp:13-30).
THEOREM TypesHold == ProcessSpec => []TypeOK
<1>1. ProcessInv => TypeOK
  BY DEF ProcessInv, Known
<1> QED BY <1>1, ProcessInvHolds, PTL

\* The list of peers of an invoker that runs leads through all numbers but its own,
\* however many machines are listed (config.cpp:104-118, invoker.cpp:310-316).
THEOREM PeersFollowNumbersHolds == ProcessSpec => []PeersFollowNumbers
<1>1. ASSUME ProcessInv
      PROVE  PeersFollowNumbers
  <2> SUFFICES ASSUME pc = "run", ~is_cont, Answered
               PROVE  /\ invoker[id + 1] = self
                      /\ peers.invoker = [n \in 1 .. Len(invoker) - 1 |->
                                            IF n <= id THEN invoker[n] ELSE invoker[n + 1]]
    BY Zenon DEF PeersFollowNumbers
  <2>1. /\ Config /\ id = get_id(self) /\ id # -1
        /\ peers.invoker = get_peers(invoker, self)
    BY <1>1 DEF ProcessInv, Known, TypeOK
  <2> QED BY <2>1, IdFacts
<1> QED BY <1>1, ProcessInvHolds, PTL

\* A process at work has a queue pair and a completion queue for every machine listed
\* but itself, however many are listed (main.cpp:14-16, setup.cpp:77-117).
THEOREM OneQpEachHolds == ProcessSpec => []OneQpEach
<1>1. ASSUME ProcessInv
      PROVE  OneQpEach
  <2> SUFFICES ASSUME pc = "run", phase = "use", Answered, NEW kind \in {"qp", "cq"}
               PROVE  {r \in live : r[1] = kind} =
                        {kind} \X (0 .. Len(controller) + Len(invoker) - 2)
    BY Zenon DEF OneQpEach
  <2>1. /\ Config /\ TypeOK /\ Resources
        /\ is_cont <=> Contains(controller, self)
        /\ peers.controller = get_peers(controller, self)
        /\ peers.invoker = get_peers(invoker, self)
        /\ ~is_cont => id = get_id(self) /\ id # -1
    BY <1>1 DEF ProcessInv, Known, TypeOK
  <2>2. ~is_cont => Contains(invoker, self)
    BY <2>1, IdFacts
  <2>3. is_cont => ~Contains(invoker, self)
    BY <2>1 DEF Config, Contains
  <2>4. /\ Len(get_peers(controller, self)) =
             IF Contains(controller, self) THEN Len(controller) - 1 ELSE Len(controller)
        /\ Len(get_peers(invoker, self)) =
             IF Contains(invoker, self) THEN Len(invoker) - 1 ELSE Len(invoker)
        /\ Len(controller) \in Nat /\ Len(invoker) \in Nat
    BY <2>1, PeersLength, LenProperties DEF Config
  <2>5. is_cont \in BOOLEAN
    BY <2>1 DEF TypeOK
  <2>6. peer_num - 1 = Len(controller) + Len(invoker) - 2
    <3>1. PICK a \in Int, b \in Int : /\ a = Len(get_peers(controller, self))
                                      /\ b = Len(get_peers(invoker, self))
      BY <2>1, PeersLength, LenProperties DEF Config
    <3>2. peer_num = a + b
      BY <2>1, <3>1, Zenon DEF peer_num
    <3>3. a + b - 1 = Len(controller) + Len(invoker) - 2
      <4>1. PICK c \in Nat, v \in Nat : c = Len(controller) /\ v = Len(invoker)
        BY <2>4
      <4>2. (a = c - 1 /\ b = v) \/ (a = c /\ b = v - 1)
        BY <2>1, <2>2, <2>3, <2>4, <2>5, <3>1, <4>1, Zenon
      <4>3. a + b - 1 = c + v - 2
        BY <4>2
      <4> QED BY <4>1, <4>3, Zenon
    <3> QED BY <3>2, <3>3
  <2>7. {r \in live : r[1] = kind} = {kind} \X (0 .. peer_num - 1)
    BY <1>1, <2>1, PeerNumber, QueuesAtWork DEF ProcessInv
  <2> QED BY <2>6, <2>7
<1> QED BY <1>1, ProcessInvHolds, PTL

\* At every moment from the first call of setup_ib to the last of the clean-up, what
\* the adapter can reach is there, for any number of peers (setup.cpp:10-130,
\* controller.cpp:217-270).
THEOREM ReachableIsLiveHolds == ProcessSpec => []ReachableIsLive
<1>1. ProcessInv => ReachableIsLive
  BY PeerNumber, ResourcesReachable DEF ProcessInv
<1> QED BY <1>1, ProcessInvHolds, PTL

\* The order of the clean-up lets no destroy call be refused, for any number of peers
\* (controller.cpp:217-270).
THEOREM NoneStillInUseHolds == ProcessSpec => []NoneStillInUse
<1>1. ProcessInv => NoneStillInUse
  BY PeerNumber, ResourcesGivenBack DEF ProcessInv
<1> QED BY <1>1, ProcessInvHolds, PTL

\* The clean-up gives back everything but the completion channel, for any number of
\* peers (controller.cpp:217-270).
THEOREM AllGivenBackHolds == ProcessSpec => []AllGivenBack
<1>1. ProcessInv => AllGivenBack
  BY PeerNumber, ResourcesGivenBack DEF ProcessInv
<1> QED BY <1>1, ProcessInvHolds, PTL


=============================================================================
