------------------------------ MODULE MeshProofs -----------------------------
(***************************************************************************)
(* Proofs about InvokerMesh and EventStart, for any number of invokers, any*)
(* sleep and any gaps between the starts.                                  *)
(*                                                                         *)
(* The sleeps make the mesh run to a timetable: invoker y connects to      *)
(* server k at the moment Meets(st, y, k), which depends on the starts st  *)
(* and on nothing else.  The servers open before anybody comes, whatever   *)
(* the starts; the order in which they come is that of the numbers if the  *)
(* starts from invoker 2 to the last are less than three sleeps apart.     *)
(***************************************************************************)
EXTENDS EventStart, FiniteSetTheorems, SequenceTheorems, TLAPS

\* The gaps of Init, and the starts that come of them.
Gaps == [1 .. total_invoker_num - 1 -> GAPS]
StartOf(gap) ==
  LET start[k \in Invokers] == IF k = 0 THEN 0 ELSE start[k - 1] + gap[k] IN start

\* Moments to start, one after another.
Starts ==
  {st \in [Invokers -> Nat] : \A j, k \in Invokers : j <= k => st[j] <= st[k]}

\* The starts are close enough together: their gaps, from invoker 2 to the last, come to
\* less than three sleeps (900 ms).
CloseGaps == \A g \in GAPS : (total_invoker_num - 3) * g < 3 * per_inv_sleep_time

\* So are these.
Close(st) ==
  total_invoker_num > 2 => st[LastInvoker] < st[2] + 3 * per_inv_sleep_time

-----------------------------------------------------------------------------
(* Induction, from the least counterexample. *)

\* A set of numbers that is not empty has a least one.
LEMMA LeastNat ==
  ASSUME NEW S, S \subseteq Nat, S # {}
  PROVE  \E m \in S : \A n \in S : m <= n
<1> DEFINE R == OpToRel(<, Nat)
<1>1. IsWellFoundedOn(R, Nat)
  BY NatLessThanWellFounded
<1>2. \A x, y \in Nat : x < y => <<x, y>> \in R
  BY DEF OpToRel
<1> HIDE DEF R
<1>3. PICK m \in S : \A n \in S : ~(<<n, m>> \in R)
  BY <1>1, WFMin, Zenon
<1>4. \A n \in S : ~(n < m)
  BY <1>2, <1>3
<1> QED BY <1>4

\* Min is what it says, on a set of numbers (Elapse).
LEMMA MinIsLeast ==
  ASSUME NEW S, S \subseteq Nat, S # {}
  PROVE  Min(S) \in S /\ \A n \in S : Min(S) <= n
<1>1. \E m \in S : \A n \in S : m <= n
  BY LeastNat
<1> QED BY <1>1 DEF Min

\* A set of numbers that holds zero and every successor of its elements up to top
\* holds all up to top.
LEMMA UpTo ==
  ASSUME NEW top \in Nat, NEW S,
         0 \in S, \A n \in 0 .. top - 1 : n \in S => n + 1 \in S
  PROVE  0 .. top \subseteq S
<1> SUFFICES ASSUME NEW x \in 0 .. top, x \notin S
             PROVE  FALSE
  OBVIOUS
<1> DEFINE Missing == {n \in 0 .. top : n \notin S}
<1>1. PICK m \in Missing : \A n \in Missing : m <= n
  <2>1. Missing \subseteq Nat /\ Missing # {}
    OBVIOUS
  <2> HIDE DEF Missing
  <2> QED BY <2>1, LeastNat
<1>2. m # 0
  BY <1>1
<1>3. m - 1 \in 0 .. top - 1 /\ m - 1 \notin Missing
  BY <1>1, <1>2
<1> QED BY <1>1, <1>3

-----------------------------------------------------------------------------
(* The starts. *)

\* The recursive definition of the starts has a solution: it is built step by step.
LEMMA StartExists ==
  ASSUME NEW gap \in Gaps
  PROVE  \E f : f = [k \in Invokers |-> IF k = 0 THEN 0 ELSE f[k - 1] + gap[k]]
<1> USE MeshAssumption
<1> DEFINE Solves(f, n) ==
             f = [k \in 0 .. n |-> IF k = 0 THEN 0 ELSE f[k - 1] + gap[k]]
           S == {n \in Nat : \E f : Solves(f, n)}
<1>1. 0 \in S
  <2>1. Solves([k \in 0 .. 0 |-> 0], 0)
    OBVIOUS
  <2> QED BY <2>1
<1>2. ASSUME NEW n \in 0 .. LastInvoker - 1, n \in S
      PROVE  n + 1 \in S
  <2>1. PICK f : Solves(f, n)
    BY <1>2
  <2> DEFINE g == [k \in 0 .. n + 1 |-> IF k = n + 1 THEN f[n] + gap[n + 1] ELSE f[k]]
  <2>2. n \in Nat
    BY <1>2 DEF LastInvoker
  <2>3. \A k \in 0 .. n + 1 : g[k] = IF k = 0 THEN 0 ELSE g[k - 1] + gap[k]
    BY <2>1, <2>2
  <2>4. Solves(g, n + 1)
    BY <2>3, <2>2
  <2>5. \E h : Solves(h, n + 1)
    <3> HIDE DEF g, Solves
    <3> QED BY <2>4
  <2> QED BY <2>5, <2>2
<1>3. 0 .. LastInvoker \subseteq S
  <2>1. LastInvoker \in Nat
    BY DEF LastInvoker
  <2> HIDE DEF S
  <2> QED BY <1>1, <1>2, <2>1, UpTo
<1>4. LastInvoker \in Nat /\ Invokers = 0 .. LastInvoker
  BY DEF LastInvoker, Invokers
<1>5. LastInvoker \in S
  <2> HIDE DEF S
  <2> QED BY <1>3, <1>4
<1> QED BY <1>4, <1>5

\* The starts are what their definition says.
LEMMA StartOfValue ==
  ASSUME NEW gap \in Gaps
  PROVE  StartOf(gap) =
           [k \in Invokers |-> IF k = 0 THEN 0 ELSE StartOf(gap)[k - 1] + gap[k]]
<1>1. StartOf(gap) =
        CHOOSE g : g = [k \in Invokers |-> IF k = 0 THEN 0 ELSE g[k - 1] + gap[k]]
  BY Zenon DEF StartOf
<1>2. \E f : f = [k \in Invokers |-> IF k = 0 THEN 0 ELSE f[k - 1] + gap[k]]
  BY StartExists
<1> HIDE DEF StartOf
<1> QED BY <1>1, <1>2

\* They follow each other, and with close gaps they are close.
LEMMA StartsFollow ==
  ASSUME NEW gap \in Gaps
  PROVE  /\ StartOf(gap) \in Starts
         /\ CloseGaps => Close(StartOf(gap))
<1> USE MeshAssumption
<1> DEFINE st == StartOf(gap)
           d == 3 * per_inv_sleep_time - 1
           e == total_invoker_num - 3
<1>1. st = [k \in Invokers |-> IF k = 0 THEN 0 ELSE st[k - 1] + gap[k]]
  BY StartOfValue
<1> HIDE DEF st
<1>2. \A n \in 0 .. LastInvoker - 1 :
        /\ n \in Invokers /\ n + 1 \in Invokers
        /\ gap[n + 1] \in Nat /\ gap[n + 1] \in GAPS
        /\ st[n + 1] = st[n] + gap[n + 1]
  <2> SUFFICES ASSUME NEW n \in 0 .. LastInvoker - 1
               PROVE  /\ n \in Invokers /\ n + 1 \in Invokers
                      /\ gap[n + 1] \in Nat /\ gap[n + 1] \in GAPS
                      /\ st[n + 1] = st[n] + gap[n + 1]
    OBVIOUS
  <2>1. n \in Invokers /\ n + 1 \in Invokers /\ n + 1 \in 1 .. total_invoker_num - 1
    BY DEF LastInvoker, Invokers
  <2>2. gap[n + 1] \in GAPS
    BY <2>1 DEF Gaps
  <2>3. n \in Nat /\ n + 1 # 0 /\ (n + 1) - 1 = n
    BY DEF LastInvoker
  <2>4. st[n + 1] = st[(n + 1) - 1] + gap[n + 1]
    BY <2>1, <2>3, <1>1
  <2> QED BY <2>1, <2>2, <2>3, <2>4
<1>3. LastInvoker \in Nat /\ Invokers = 0 .. LastInvoker /\ st[0] = 0
  BY <1>1 DEF LastInvoker, Invokers
<1>4. \A k \in Invokers : st[k] \in Nat
  <2> DEFINE S == {n \in Invokers : st[n] \in Nat}
  <2>1. 0 \in S
    BY <1>3
  <2>2. \A n \in 0 .. LastInvoker - 1 : n \in S => n + 1 \in S
    BY <1>2
  <2>3. 0 .. LastInvoker \subseteq S
    <3> HIDE DEF S
    <3> QED BY <2>1, <2>2, <1>3, UpTo
  <2> QED BY <2>3, <1>3
<1>5. \A j, k \in Invokers : j <= k => st[j] <= st[k]
  <2> SUFFICES ASSUME NEW j \in Invokers
               PROVE  \A k \in Invokers : j <= k => st[j] <= st[k]
    OBVIOUS
  <2> DEFINE S == {n \in Invokers : j <= n => st[j] <= st[n]}
  <2>1. 0 \in S
    BY <1>3, <1>4
  <2>2. ASSUME NEW n \in 0 .. LastInvoker - 1, n \in S
        PROVE  n + 1 \in S
    <3>1. CASE j = n + 1
      BY <3>1, <1>2, <1>4
    <3>2. CASE j # n + 1
      BY <3>2, <2>2, <1>2, <1>4, <1>3
    <3> QED BY <3>1, <3>2
  <2>3. 0 .. LastInvoker \subseteq S
    <3> HIDE DEF S
    <3> QED BY <2>1, <2>2, <1>3, UpTo
  <2> QED BY <2>3, <1>3
<1>6. st \in [Invokers -> Nat]
  BY <1>1, <1>4
<1>7. ASSUME CloseGaps, total_invoker_num > 2
      PROVE  st[LastInvoker] < st[2] + 3 * per_inv_sleep_time
  <2>1. d \in Nat /\ e \in Nat /\ 2 \in Invokers
    BY <1>7, <1>3 DEF LastInvoker
  <2>2. \A n \in 0 .. LastInvoker - 1 : e * gap[n + 1] <= d
    BY <1>2, <1>7, <2>1 DEF CloseGaps
  <2> HIDE DEF d, e
  <2> DEFINE S == {n \in Invokers : 2 <= n => e * (st[n] - st[2]) <= (n - 2) * d}
  <2>3. 0 \in S
    BY <1>3
  <2>4. ASSUME NEW n \in 0 .. LastInvoker - 1, n \in S
        PROVE  n + 1 \in S
    <3>1. CASE n + 1 < 2
      BY <3>1, <1>2
    <3>2. CASE n + 1 = 2
      BY <3>2, <1>2, <2>1, <1>4
    <3>3. CASE n >= 2
      <4>1. PICK a \in Nat, g \in Nat, b \in Nat :
              a = st[n] /\ g = gap[n + 1] /\ b = st[2] /\ st[n + 1] = a + g
        BY <1>2, <1>4, <2>1
      <4>2. e * (a - b) <= (n - 2) * d /\ e * g <= d
        BY <4>1, <2>2, <2>4, <3>3
      <4>3. e * ((a + g) - b) = e * (a - b) + e * g
        BY <2>1
      <4>4. ((n + 1) - 2) * d = (n - 2) * d + d
        BY <2>1, <1>2, <1>3
      <4>5. e * (a - b) \in Int /\ e * g \in Int /\ (n - 2) * d \in Int
        BY <2>1, <1>2, <1>3
      <4>6. e * ((a + g) - b) <= ((n + 1) - 2) * d
        <5> HIDE DEF S
        <5> QED BY <4>2, <4>3, <4>4, <4>5, <2>1
      <4> QED BY <4>1, <4>6, <1>2
    <3> QED BY <3>1, <3>2, <3>3
  <2>5. LastInvoker \in S
    <3>1. 0 .. LastInvoker \subseteq S
      <4> HIDE DEF S
      <4> QED BY <2>3, <2>4, <1>3, UpTo
    <3> QED BY <3>1, <1>3
  <2>6. e * (st[LastInvoker] - st[2]) <= e * d
    BY <2>5, <1>7 DEF LastInvoker, e
  <2>7. CASE e = 0
    BY <2>7, <1>4, <2>1 DEF e, LastInvoker
  <2>8. CASE e > 0
    <3>1. PICK a \in Nat, b \in Nat : a = st[LastInvoker] /\ b = st[2]
      BY <1>4, <2>1, <1>3
    <3>2. ~(a - b >= d + 1)
      <4> SUFFICES ASSUME a - b >= d + 1
                   PROVE  FALSE
        OBVIOUS
      <4>1. PICK c \in Nat : a - b = d + 1 + c
        <5>1. (a - b) - (d + 1) \in Nat
          BY <2>1, <3>1
        <5> QED BY <5>1, <2>1
      <4>2. e * (d + 1 + c) = e * d + e + e * c /\ e * c \in Nat /\ e * d \in Nat
        BY <2>1
      <4> QED BY <4>1, <4>2, <2>6, <3>1, <2>8, <2>1
    <3> QED BY <3>1, <3>2, <2>1 DEF d
  <2> QED BY <2>7, <2>8, <2>1
<1> QED BY <1>5, <1>6, <1>7 DEF Starts, Close, st

-----------------------------------------------------------------------------
(* The timetable. *)

\* When invoker y connects to server k: before its own turn it is on its own time, after
\* it on that of the last invoker, which is the last to connect to it.
Meets(st, y, k) ==
  IF y < k
  THEN st[LastInvoker] + k * tot_sleep_time + y * per_inv_sleep_time
  ELSE st[y] + k * tot_sleep_time + (y + 1) * per_inv_sleep_time

\* When server k listens.
Opens(st, k) == IF k = 0 THEN st[0] ELSE Meets(st, k, k - 1)

\* The last to connect to server k.
LastBut(k) == IF k = LastInvoker THEN LastInvoker - 1 ELSE LastInvoker

\* The end of the mesh.
MeshEnd(st) == st[LastInvoker] + total_invoker_num * tot_sleep_time

\* Products keep the order.
LEMMA Times ==
  ASSUME NEW a \in Nat, NEW b \in Nat, NEW c \in Nat
  PROVE  /\ a * c \in Nat
         /\ (a + 1) * c = a * c + c
         /\ a <= b => a * c <= b * c
<1>1. a <= b => a * c <= b * c
  <2> SUFFICES ASSUME a <= b
               PROVE  a * c <= b * c
    OBVIOUS
  <2>1. PICK d \in Nat : b = a + d
    <3>1. b - a \in Nat /\ b = a + (b - a)
      OBVIOUS
    <3> QED BY <3>1
  <2>2. (a + d) * c = a * c + d * c /\ a * c \in Nat /\ d * c \in Nat
    OBVIOUS
  <2> QED BY <2>1, <2>2
<1> QED BY <1>1

\* The sleeps of the code.
LEMMA Sleeps ==
  /\ tot_sleep_time \in Nat
  /\ \A k \in Invokers :
       /\ sleep_time(k) \in Nat \ {0}
       /\ sleep_time(k) = k * per_inv_sleep_time + per_inv_sleep_time
       /\ sleep_time(k) < tot_sleep_time
  /\ sleep_time(LastInvoker) + per_inv_sleep_time = tot_sleep_time
<1> USE MeshAssumption
<1> DEFINE p == per_inv_sleep_time
           n == total_invoker_num
<1>1. p \in Nat \ {0} /\ n \in Nat \ {0, 1}
  OBVIOUS
<1> HIDE DEF p, n
<1>2. (n + 1) * p = n * p + p /\ n * p \in Nat
  BY <1>1, Times
<1>3. (n + 1) * p \in Nat
  BY <1>1, <1>2
<1>4. ASSUME NEW k \in 0 .. n - 1
      PROVE  /\ (k + 1) * p \in Nat \ {0}
             /\ (k + 1) * p = k * p + p
             /\ (k + 1) * p < (n + 1) * p
  <2>1. k \in Nat /\ k + 1 \in Nat /\ k + 1 <= n
    BY <1>1
  <2>2. k * p \in Nat /\ (k + 1) * p = k * p + p /\ (k + 1) * p <= n * p
    BY <2>1, <1>1, Times
  <2> QED BY <2>2, <1>1, <1>2
<1>5. ((n - 1) + 1) * p + p = (n + 1) * p
  BY <1>1, <1>2
<1> QED BY <1>3, <1>4, <1>5 DEF p, n, tot_sleep_time, sleep_time, Invokers, LastInvoker

\* The table's entries, as sums of unknown numbers.
LEMMA MeetsValue ==
  ASSUME NEW st \in Starts, NEW y \in Invokers, NEW k \in 0 .. total_invoker_num, k # y
  PROVE  /\ st[y] \in Nat /\ st[LastInvoker] \in Nat /\ st[y] <= st[LastInvoker]
         /\ k * tot_sleep_time \in Nat /\ y * per_inv_sleep_time \in Nat
         /\ y < k => Meets(st, y, k) =
              st[LastInvoker] + k * tot_sleep_time + y * per_inv_sleep_time
         /\ k < y => Meets(st, y, k) = st[y] + k * tot_sleep_time + sleep_time(y)
         /\ Meets(st, y, k) \in Nat
<1> USE MeshAssumption
<1>1. /\ LastInvoker \in Invokers /\ y <= LastInvoker
      /\ k \in Nat /\ y \in Nat /\ per_inv_sleep_time \in Nat
  BY DEF Invokers, LastInvoker
<1>2. st[y] \in Nat /\ st[LastInvoker] \in Nat /\ st[y] <= st[LastInvoker]
  BY <1>1 DEF Starts
<1>3. k * tot_sleep_time \in Nat /\ y * per_inv_sleep_time \in Nat
  BY <1>1, Sleeps, Times
<1>4. y < k => Meets(st, y, k) =
        st[LastInvoker] + k * tot_sleep_time + y * per_inv_sleep_time
  BY DEF Meets
<1>5. k < y => Meets(st, y, k) = st[y] + k * tot_sleep_time + sleep_time(y)
  BY <1>1 DEF Meets, sleep_time
<1>6. sleep_time(y) \in Nat
  BY Sleeps
<1> HIDE DEF Meets
<1>7. y < k \/ k < y
  BY <1>1
<1>8. Meets(st, y, k) \in Nat
  <2>1. CASE y < k
    BY <2>1, <1>2, <1>3, <1>4
  <2>2. CASE k < y
    BY <2>2, <1>2, <1>3, <1>5, <1>6
  <2> QED BY <1>7, <2>1, <2>2
<1> QED BY <1>2, <1>3, <1>4, <1>5, <1>8

\* A moment of the timetable.
LEMMA MeetsType ==
  ASSUME NEW st \in Starts, NEW k \in Invokers, NEW y \in Others(k)
  PROVE  Meets(st, y, k) \in Nat
<1>1. k \in 0 .. total_invoker_num /\ y \in Invokers /\ k # y
  BY MeshAssumption DEF Invokers, Others
<1> QED BY <1>1, MeetsValue

\* From one server to the next a round passes.
LEMMA MeetsNext ==
  ASSUME NEW st \in Starts, NEW y \in Invokers, NEW k \in Invokers, k # y, k + 1 # y
  PROVE  Meets(st, y, k + 1) = Meets(st, y, k) + tot_sleep_time
<1> USE MeshAssumption
<1>1. /\ k \in 0 .. total_invoker_num /\ k + 1 \in 0 .. total_invoker_num
      /\ k \in Nat /\ y \in Nat
  BY DEF Invokers
<1>2. (k + 1) * tot_sleep_time = k * tot_sleep_time + tot_sleep_time
  BY <1>1, Sleeps, Times
<1>3. CASE y < k
  BY <1>1, <1>2, <1>3, MeetsValue, Sleeps
<1>4. CASE k + 1 < y
  BY <1>1, <1>2, <1>4, MeetsValue, Sleeps
<1> QED BY <1>1, <1>3, <1>4

\* After one's own turn, which the last invoker ends.
LEMMA MeetsAfterTurn ==
  ASSUME NEW st \in Starts, NEW k \in Invokers, k # LastInvoker
  PROVE  Meets(st, k, k + 1) = Meets(st, LastInvoker, k) + sleep_time(k)
<1> USE MeshAssumption
<1>1. /\ k \in 0 .. total_invoker_num /\ k + 1 \in 0 .. total_invoker_num
      /\ k \in Nat /\ LastInvoker \in Invokers /\ k < LastInvoker
  BY DEF Invokers, LastInvoker
<1>2. (k + 1) * tot_sleep_time = k * tot_sleep_time + tot_sleep_time
  BY <1>1, Sleeps, Times
<1>3. Meets(st, k, k + 1) =
        st[LastInvoker] + (k + 1) * tot_sleep_time + k * per_inv_sleep_time
  BY <1>1, MeetsValue
<1>4. Meets(st, LastInvoker, k) =
        st[LastInvoker] + k * tot_sleep_time + sleep_time(LastInvoker)
  BY <1>1, MeetsValue
<1>5. /\ st[LastInvoker] \in Nat /\ k * tot_sleep_time \in Nat
      /\ k * per_inv_sleep_time \in Nat /\ per_inv_sleep_time \in Nat
      /\ sleep_time(LastInvoker) \in Nat /\ tot_sleep_time \in Nat
      /\ sleep_time(k) = k * per_inv_sleep_time + per_inv_sleep_time
      /\ sleep_time(LastInvoker) + per_inv_sleep_time = tot_sleep_time
  BY <1>1, MeetsValue, Sleeps
<1> QED BY <1>2, <1>3, <1>4, <1>5

\* Later numbers sleep longer.
LEMMA SleepsGrow ==
  ASSUME NEW y \in Invokers, NEW z \in Invokers, y < z
  PROVE  /\ y * per_inv_sleep_time + per_inv_sleep_time <= z * per_inv_sleep_time
         /\ sleep_time(y) + per_inv_sleep_time <= sleep_time(z)
<1> USE MeshAssumption
<1>1. y \in Nat /\ z \in Nat /\ y + 1 \in Nat /\ y + 1 <= z
  BY DEF Invokers
<1>2. /\ per_inv_sleep_time \in Nat
      /\ y * per_inv_sleep_time \in Nat /\ z * per_inv_sleep_time \in Nat
      /\ (y + 1) * per_inv_sleep_time = y * per_inv_sleep_time + per_inv_sleep_time
      /\ (y + 1) * per_inv_sleep_time <= z * per_inv_sleep_time
  BY <1>1, Times
<1>3. /\ sleep_time(y) = y * per_inv_sleep_time + per_inv_sleep_time
      /\ sleep_time(z) = z * per_inv_sleep_time + per_inv_sleep_time
  BY Sleeps
<1> QED BY <1>2, <1>3

\* A server listens before anybody comes, whatever the gaps.
LEMMA OpensFirst ==
  ASSUME NEW st \in Starts, NEW k \in Invokers
  PROVE  /\ Opens(st, k) \in Nat
         /\ \A y \in Invokers \ {k} : Opens(st, k) < Meets(st, y, k)
<1> USE MeshAssumption
<1>1. k \in 0 .. total_invoker_num /\ k \in Nat /\ k <= LastInvoker
  BY DEF Invokers, LastInvoker
<1>2. CASE k = 0
  <2>1. Opens(st, k) = st[0] /\ 0 \in Invokers
    BY <1>2 DEF Opens
  <2>2. st[0] \in Nat
    BY <2>1 DEF Starts
  <2>3. ASSUME NEW y \in Invokers \ {k}
        PROVE  st[0] < Meets(st, y, k)
    <3>1. y \in Nat /\ k < y
      BY <1>2 DEF Invokers
    <3>2. st[0] <= st[y] /\ st[y] \in Nat
      BY <2>1, <3>1, <1>2 DEF Starts
    <3>3. Meets(st, y, k) = st[y] + k * tot_sleep_time + sleep_time(y)
      BY <1>1, <3>1, MeetsValue
    <3>4. k * tot_sleep_time \in Nat /\ sleep_time(y) \in Nat \ {0}
      BY <1>1, Sleeps, Times
    <3> QED BY <2>2, <3>2, <3>3, <3>4
  <2> QED BY <2>1, <2>2, <2>3
<1>3. CASE k > 0
  <2>1. k - 1 \in Invokers /\ k - 1 \in Nat /\ k - 1 \in 0 .. total_invoker_num
        /\ k - 1 < k
    BY <1>3 DEF Invokers
  <2>2. Opens(st, k) = st[k] + (k - 1) * tot_sleep_time + sleep_time(k)
    BY <1>3, <2>1, MeetsValue DEF Opens
  <2>3. /\ st[k] \in Nat /\ (k - 1) * tot_sleep_time \in Nat
        /\ sleep_time(k) \in Nat /\ sleep_time(k) < tot_sleep_time
        /\ tot_sleep_time \in Nat
        /\ ((k - 1) + 1) * tot_sleep_time = (k - 1) * tot_sleep_time + tot_sleep_time
        /\ (k - 1) + 1 = k
    <3>1. st[k] \in Nat /\ (k - 1) * tot_sleep_time \in Nat
      BY <2>1, MeetsValue
    <3>2. /\ sleep_time(k) \in Nat /\ sleep_time(k) < tot_sleep_time
          /\ tot_sleep_time \in Nat
      BY Sleeps
    <3>3. ((k - 1) + 1) * tot_sleep_time = (k - 1) * tot_sleep_time + tot_sleep_time
      BY <2>1, <3>2, Times
    <3> QED BY <1>1, <3>1, <3>2, <3>3
  <2>4. ASSUME NEW y \in Invokers \ {k}
        PROVE  Opens(st, k) < Meets(st, y, k)
    <3>1. CASE y < k
      <4>1. /\ Meets(st, y, k) =
                 st[LastInvoker] + k * tot_sleep_time + y * per_inv_sleep_time
            /\ y * per_inv_sleep_time \in Nat /\ k * tot_sleep_time \in Nat
        BY <1>1, <3>1, MeetsValue
      <4>2. st[LastInvoker] \in Nat /\ st[k] <= st[LastInvoker]
        BY <2>1, MeetsValue
      <4> QED BY <4>1, <4>2, <2>2, <2>3
    <3>2. CASE k < y
      <4>1. /\ Meets(st, y, k) = st[y] + k * tot_sleep_time + sleep_time(y)
            /\ st[y] \in Nat /\ k * tot_sleep_time \in Nat
            /\ sleep_time(y) \in Nat
        BY <1>1, <3>2, MeetsValue, Sleeps
      <4>2. st[k] <= st[y]
        <5>1. k <= y /\ y \in Invokers
          BY <3>2 DEF Invokers
        <5> QED BY <5>1 DEF Starts
      <4> QED BY <4>1, <4>2, <2>2, <2>3
    <3>3. y < k \/ k < y
      BY DEF Invokers
    <3> QED BY <3>1, <3>2, <3>3
  <2> QED BY <2>2, <2>3, <2>4
<1> QED BY <1>1, <1>2, <1>3

\* The last is the last.
LEMMA MeetsLast ==
  ASSUME NEW st \in Starts, NEW k \in Invokers
  PROVE  /\ LastBut(k) \in Others(k)
         /\ \A y \in Others(k) : Meets(st, y, k) <= Meets(st, LastBut(k), k)
<1> USE MeshAssumption
<1>1. /\ k \in 0 .. total_invoker_num /\ k \in Nat /\ k <= LastInvoker
      /\ LastBut(k) \in Invokers /\ LastBut(k) # k
      /\ LastInvoker \in Invokers /\ LastInvoker \in Nat
  BY DEF Invokers, LastInvoker, LastBut
<1>2. ASSUME NEW y \in Others(k), y # LastBut(k)
      PROVE  Meets(st, y, k) <= Meets(st, LastBut(k), k)
  <2>1. y \in Invokers /\ y \in Nat /\ y # k /\ y < LastBut(k) /\ y <= LastInvoker
    BY <1>2 DEF Others, Invokers, LastInvoker, LastBut
  <2>2. /\ per_inv_sleep_time \in Nat
        /\ y * per_inv_sleep_time \in Nat /\ LastBut(k) * per_inv_sleep_time \in Nat
        /\ y * per_inv_sleep_time + per_inv_sleep_time <= LastBut(k) * per_inv_sleep_time
        /\ sleep_time(y) + per_inv_sleep_time <= sleep_time(LastBut(k))
        /\ sleep_time(LastBut(k)) =
             LastBut(k) * per_inv_sleep_time + per_inv_sleep_time
        /\ sleep_time(y) \in Nat /\ sleep_time(LastBut(k)) \in Nat
    BY <2>1, <1>1, SleepsGrow, Sleeps, MeetsValue
  <2>3. /\ st[y] \in Nat /\ st[LastInvoker] \in Nat /\ st[y] <= st[LastInvoker]
        /\ k * tot_sleep_time \in Nat
    BY <2>1, <1>1, MeetsValue
  <2>4. CASE k = LastInvoker
    <3>1. LastBut(k) < k /\ y < k
      BY <2>4, <2>1, <1>1 DEF LastBut
    <3>2. /\ Meets(st, y, k) =
               st[LastInvoker] + k * tot_sleep_time + y * per_inv_sleep_time
          /\ Meets(st, LastBut(k), k) =
               st[LastInvoker] + k * tot_sleep_time + LastBut(k) * per_inv_sleep_time
      BY <3>1, <2>1, <1>1, MeetsValue
    <3> QED BY <3>2, <2>2, <2>3
  <2>5. CASE k # LastInvoker
    <3>1. LastBut(k) = LastInvoker /\ k < LastInvoker
      BY <2>5, <1>1 DEF LastBut
    <3>2. Meets(st, LastBut(k), k) =
            st[LastInvoker] + k * tot_sleep_time + sleep_time(LastBut(k))
      BY <3>1, <1>1, MeetsValue
    <3>3. CASE y < k
      <4>1. Meets(st, y, k) =
              st[LastInvoker] + k * tot_sleep_time + y * per_inv_sleep_time
        BY <3>3, <2>1, <1>1, MeetsValue
      <4> QED BY <4>1, <3>2, <2>2, <2>3
    <3>4. CASE k < y
      <4>1. Meets(st, y, k) = st[y] + k * tot_sleep_time + sleep_time(y)
        BY <3>4, <2>1, <1>1, MeetsValue
      <4> QED BY <4>1, <3>2, <2>2, <2>3
    <3> QED BY <3>3, <3>4, <2>1, <1>1
  <2> QED BY <2>4, <2>5
<1>3. Meets(st, LastBut(k), k) \in Nat
  BY <1>1, MeetsValue
<1> QED BY <1>1, <1>2, <1>3 DEF Others

\* What happens before one's own turn happens before one listens.
LEMMA MeetsBeforeTurn ==
  ASSUME NEW st \in Starts, NEW k \in Invokers, NEW n \in Invokers, n < k
  PROVE  Meets(st, k, n) <= Opens(st, k)
<1> USE MeshAssumption
<1>1. /\ k \in Nat /\ n \in Nat /\ k - 1 \in Nat /\ n <= k - 1 /\ k # 0 /\ k - 1 < k
      /\ n \in 0 .. total_invoker_num /\ k - 1 \in 0 .. total_invoker_num
  BY DEF Invokers
<1>2. /\ n * tot_sleep_time <= (k - 1) * tot_sleep_time
      /\ n * tot_sleep_time \in Nat /\ (k - 1) * tot_sleep_time \in Nat
  BY <1>1, Sleeps, Times
<1>3. /\ Meets(st, k, n) = st[k] + n * tot_sleep_time + sleep_time(k)
      /\ Meets(st, k, k - 1) = st[k] + (k - 1) * tot_sleep_time + sleep_time(k)
      /\ st[k] \in Nat
  BY <1>1, MeetsValue
<1>4. sleep_time(k) \in Nat
  BY Sleeps
<1>5. Opens(st, k) = Meets(st, k, k - 1)
  BY <1>1 DEF Opens
<1> QED BY <1>2, <1>3, <1>4, <1>5

\* Every sleep is over by the end of the mesh.
LEMMA MeetsEnds ==
  ASSUME NEW st \in Starts, NEW y \in Invokers
  PROVE  /\ MeshEnd(st) \in Nat
         /\ \A k \in Others(y) : Meets(st, y, k) <= MeshEnd(st)
         /\ \A k \in Others(y) : k + 1 # y =>
              Meets(st, y, k + 1) <= MeshEnd(st) + sleep_time(y)
         /\ Opens(st, y) <= MeshEnd(st)
<1> USE MeshAssumption
<1>1. /\ y \in Nat /\ y <= LastInvoker
      /\ LastInvoker \in Nat /\ LastInvoker \in Invokers
  BY DEF Invokers, LastInvoker
<1>2. /\ st[LastInvoker] \in Nat /\ st[y] \in Nat /\ st[y] <= st[LastInvoker]
  BY <1>1 DEF Starts
<1>3. /\ tot_sleep_time \in Nat /\ sleep_time(y) \in Nat /\ sleep_time(y) < tot_sleep_time
      /\ sleep_time(y) = y * per_inv_sleep_time + per_inv_sleep_time
      /\ per_inv_sleep_time \in Nat /\ y * per_inv_sleep_time \in Nat
  BY <1>1, Sleeps, Times
<1>4. ASSUME NEW n \in 0 .. total_invoker_num
      PROVE  n * tot_sleep_time \in Nat
             /\ n * tot_sleep_time <= total_invoker_num * tot_sleep_time
  BY <1>3, Times
<1>5. total_invoker_num * tot_sleep_time \in Nat
  BY <1>3, Times
<1>6. ASSUME NEW k \in Others(y)
      PROVE  Meets(st, y, k) <= MeshEnd(st)
  <2>1. k \in 0 .. total_invoker_num /\ k + 1 \in 0 .. total_invoker_num
        /\ k \in Nat /\ k # y
    BY DEF Others, Invokers
  <2>2. (k + 1) * tot_sleep_time = k * tot_sleep_time + tot_sleep_time
    BY <2>1, <1>3, Times
  <2>3. /\ y < k => Meets(st, y, k) =
             st[LastInvoker] + k * tot_sleep_time + y * per_inv_sleep_time
        /\ k < y => Meets(st, y, k) = st[y] + k * tot_sleep_time + sleep_time(y)
    BY <2>1, MeetsValue
  <2>4. /\ k * tot_sleep_time \in Nat
        /\ (k + 1) * tot_sleep_time <= total_invoker_num * tot_sleep_time
    BY <2>1, <1>4
  <2>5. CASE y < k
    BY <2>5, <2>2, <2>3, <2>4, <1>2, <1>3, <1>5 DEF MeshEnd
  <2>6. CASE k < y
    BY <2>6, <2>2, <2>3, <2>4, <1>2, <1>3, <1>5 DEF MeshEnd
  <2> QED BY <2>1, <2>5, <2>6, <1>1
<1>7. ASSUME NEW k \in Others(y), k + 1 # y
      PROVE  Meets(st, y, k + 1) <= MeshEnd(st) + sleep_time(y)
  <2>1. k + 1 \in 0 .. total_invoker_num /\ k + 1 \in Nat
    BY DEF Others, Invokers
  <2>2. /\ y < k + 1 => Meets(st, y, k + 1) =
             st[LastInvoker] + (k + 1) * tot_sleep_time + y * per_inv_sleep_time
        /\ k + 1 < y => Meets(st, y, k + 1) =
             st[y] + (k + 1) * tot_sleep_time + sleep_time(y)
    BY <1>7, <2>1, MeetsValue
  <2>3. /\ (k + 1) * tot_sleep_time \in Nat
        /\ (k + 1) * tot_sleep_time <= total_invoker_num * tot_sleep_time
    BY <2>1, <1>4
  <2> HIDE <1>7
  <2>4. CASE y < k + 1
    BY <2>4, <2>2, <2>3, <1>2, <1>3, <1>5 DEF MeshEnd
  <2>5. CASE k + 1 < y
    BY <2>5, <2>2, <2>3, <1>2, <1>3, <1>5 DEF MeshEnd
  <2> QED BY <1>7, <2>1, <2>4, <2>5, <1>1
<1>8. Opens(st, y) <= MeshEnd(st)
  <2>1. CASE y = 0
    BY <2>1, <1>2, <1>5 DEF Opens, MeshEnd
  <2>2. CASE y > 0
    <3>1. y - 1 \in Others(y)
      BY <2>2 DEF Others, Invokers
    <3>2. Opens(st, y) = Meets(st, y, y - 1)
      BY <2>2 DEF Opens
    <3> QED BY <3>1, <3>2, <1>6
  <2> QED BY <2>1, <2>2, <1>1
<1>9. MeshEnd(st) \in Nat
  BY <1>2, <1>5 DEF MeshEnd
<1> QED BY <1>6, <1>7, <1>8, <1>9

\* With close starts the invokers come to a server in the order of their numbers.
LEMMA MeetsInOrder ==
  ASSUME NEW st \in Starts, Close(st), NEW k \in Invokers,
         NEW y \in Others(k), NEW z \in Others(k), y < z
  PROVE  Meets(st, y, k) < Meets(st, z, k)
<1> USE MeshAssumption
<1>1. /\ y \in Invokers /\ z \in Invokers /\ y # k /\ z # k
      /\ k \in 0 .. total_invoker_num
      /\ k \in Nat /\ y \in Nat /\ z \in Nat
  BY DEF Others, Invokers
<1>2. /\ per_inv_sleep_time \in Nat \ {0}
      /\ y * per_inv_sleep_time + per_inv_sleep_time <= z * per_inv_sleep_time
      /\ sleep_time(y) + per_inv_sleep_time <= sleep_time(z)
      /\ sleep_time(y) \in Nat /\ sleep_time(z) \in Nat
  BY <1>1, SleepsGrow, Sleeps
<1>3. /\ st[LastInvoker] \in Nat /\ st[y] \in Nat /\ st[z] \in Nat
      /\ k * tot_sleep_time \in Nat
      /\ y * per_inv_sleep_time \in Nat /\ z * per_inv_sleep_time \in Nat
  BY <1>1, MeetsValue
<1>4. st[y] <= st[z]
  BY <1>1 DEF Starts
<1>5. CASE z < k
  <2>1. /\ Meets(st, y, k) =
             st[LastInvoker] + k * tot_sleep_time + y * per_inv_sleep_time
        /\ Meets(st, z, k) =
             st[LastInvoker] + k * tot_sleep_time + z * per_inv_sleep_time
    BY <1>1, <1>5, MeetsValue
  <2> QED BY <2>1, <1>2, <1>3
<1>6. CASE k < y
  <2>1. /\ Meets(st, y, k) = st[y] + k * tot_sleep_time + sleep_time(y)
        /\ Meets(st, z, k) = st[z] + k * tot_sleep_time + sleep_time(z)
    BY <1>1, <1>6, MeetsValue
  <2> QED BY <2>1, <1>2, <1>3, <1>4
<1>7. CASE y < k /\ k < z
  <2>1. /\ Meets(st, y, k) =
             st[LastInvoker] + k * tot_sleep_time + y * per_inv_sleep_time
        /\ Meets(st, z, k) = st[z] + k * tot_sleep_time + sleep_time(z)
    BY <1>1, <1>7, MeetsValue
  <2>2. 2 \in Invokers /\ 2 <= z /\ total_invoker_num > 2
    BY <1>1, <1>7 DEF Invokers
  <2>3. st[2] <= st[z] /\ st[2] \in Nat
    BY <2>2, <1>1 DEF Starts
  <2>4. st[LastInvoker] < st[2] + 3 * per_inv_sleep_time
    BY <2>2 DEF Close
  <2>5. y * per_inv_sleep_time + per_inv_sleep_time <= k * per_inv_sleep_time
        /\ k * per_inv_sleep_time + per_inv_sleep_time <= z * per_inv_sleep_time
        /\ k * per_inv_sleep_time \in Nat
        /\ sleep_time(z) = z * per_inv_sleep_time + per_inv_sleep_time
    BY <1>1, <1>7, SleepsGrow, Sleeps, Times
  <2> QED BY <2>1, <2>3, <2>4, <2>5, <1>2, <1>3
<1> QED BY <1>1, <1>5, <1>6, <1>7

-----------------------------------------------------------------------------
(* Types, and where an invoker is. *)

\* The place of invoker j among the others of invoker k.
Rank(k, j) == IF j < k THEN j ELSE j - 1

\* The counters of setup_invoker, by where it is.
Position(k) ==
  /\ pc[k] = "connect" => i[k] # k /\ cur_sock[k] = Rank(k, i[k])
  /\ pc[k] = "rest" => i[k] # k /\ i[k] + 1 # k /\ cur_sock[k] = Rank(k, i[k]) + 1
  /\ pc[k] \in {"connect", "rest"} =>
       IF i[k] < k THEN slot[k] = 0
       ELSE slot_next(k) = total_invoker_num /\ listening[k]
  /\ pc[k] = "listen" => i[k] = k /\ cur_sock[k] = k /\ slot[k] = 0
  /\ pc[k] = "accept" => i[k] = k /\ cur_sock[k] = k /\ listening[k]
  /\ pc[k] \in {"connect", "rest", "listen", "accept"} =>
       qp_num[k] = QP_START /\ sent[k] = 0
  /\ pc[k] \in {"exchange", "done"} =>
       /\ cur_sock[k] = total_invoker_num - 1 /\ slot_next(k) = total_invoker_num
       /\ listening[k]
  /\ pc[k] = "exchange" =>
       /\ qp_num[k] = QP_START + (IF i[k] <= k THEN i[k] ELSE i[k] - 1)
       /\ i[k] < k => sent[k] = 0
       /\ i[k] = k => sent[k] < total_invoker_num - 1
       /\ i[k] > k => sent[k] = total_invoker_num - 1
  /\ pc[k] = "done" =>
       /\ qp_num[k] = QP_START + total_invoker_num - 1
       /\ sent[k] = total_invoker_num - 1
  /\ send_qp_num[k] = QP_START + sent[k]

\* Every place up to slot is taken, and nobody connects to itself.
Filled(k) ==
  /\ \A j \in Others(k) : j < slot[k] => server_socks[k][j] \in Others(k)
  /\ backlog[k] \in Seq(Others(k))

TypeInv == TypeOK /\ \A k \in Invokers : Position(k) /\ Filled(k)

\* peer_inv_ips and Rank are each other's inverse.
LEMMA RankOfPeer ==
  ASSUME NEW k \in Invokers
  PROVE  /\ \A j \in Others(k) :
              /\ Rank(k, j) \in 0 .. total_invoker_num - 2
              /\ peer_inv_ips(k)[Rank(k, j)] = j
         /\ \A m \in 0 .. total_invoker_num - 2 :
              /\ peer_inv_ips(k)[m] \in Others(k)
              /\ Rank(k, peer_inv_ips(k)[m]) = m
BY MeshAssumption DEF Invokers, Others, Rank, peer_inv_ips

\* What Position is about.
LEMMA PositionKept ==
  ASSUME NEW j, Position(j),
         pc'[j] = pc[j], i'[j] = i[j], cur_sock'[j] = cur_sock[j], slot'[j] = slot[j],
         listening'[j] = listening[j], qp_num'[j] = qp_num[j],
         send_qp_num'[j] = send_qp_num[j], sent'[j] = sent[j]
  PROVE  Position(j)'
BY DEF Position, slot_next

\* The same for the places.
LEMMA FilledKept ==
  ASSUME NEW j, Filled(j), slot'[j] = slot[j], server_socks'[j] = server_socks[j],
         backlog'[j] = backlog[j]
  PROVE  Filled(j)'
BY DEF Filled

\* The state begins in position.
LEMMA TypeInit == Init => TypeInv
<1> SUFFICES ASSUME Init
             PROVE  TypeInv
  OBVIOUS
<1> USE MeshAssumption
<1>1. PICK gap \in Gaps :
        wake = [k \in Invokers |-> StartOf(gap)[k] + Delay(k, 0)]
  BY Zenon DEF Init, StartOf, Gaps
<1>2. StartOf(gap) \in [Invokers -> Nat]
  BY StartsFollow DEF Starts
<1>3. \A k \in Invokers : Delay(k, 0) \in Nat
  BY Sleeps, MeshAssumption DEF Delay, WriteDelay
<1>4. wake \in [Invokers -> Nat]
  BY <1>1, <1>2, <1>3
<1>5. 0 \in Invokers
  BY DEF Invokers
<1>6. pc \in [Invokers -> {"connect", "listen"}]
  <2>1. \A k \in Invokers : Turn(k, 0) \in {"connect", "listen"}
    BY DEF Turn
  <2> QED BY <2>1 DEF Init
<1>7. TypeOK
  <2>1. pc \in [Invokers ->
          {"connect", "rest", "listen", "accept", "exchange", "done", "exit"}]
    BY <1>6
  <2>2. backlog \in [Invokers -> Seq(Invokers)] /\ chan \in [Invokers -> [Invokers -> Seq(Info)]]
    BY DEF Init
  <2>3. /\ DOMAIN keys = Invokers
        /\ \A k \in Invokers : \A q \in DOMAIN keys[k] : keys[k][q] = None
    BY DEF Init
  <2>4. /\ now \in Nat /\ i \in [Invokers -> Invokers]
        /\ cur_sock \in [Invokers -> 0 .. total_invoker_num - 1]
        /\ slot \in [Invokers -> 0 .. total_invoker_num]
        /\ qp_num \in [Invokers -> QP_START .. QP_START + total_invoker_num - 1]
        /\ send_qp_num \in [Invokers -> QP_START .. QP_START + total_invoker_num - 1]
        /\ sent \in [Invokers -> 0 .. total_invoker_num - 1]
    BY <1>5 DEF Init
  <2>5. /\ inv_sockfd \in [Invokers -> [Invokers -> Invokers \cup {None}]]
        /\ server_socks \in [Invokers -> [Invokers -> Invokers \cup {None}]]
        /\ listening \in [Invokers -> BOOLEAN] /\ killed \subseteq Invokers
    BY DEF Init
  <2> QED BY <1>4, <2>1, <2>2, <2>3, <2>4, <2>5 DEF TypeOK
<1>8. ASSUME NEW k \in Invokers
      PROVE  Position(k) /\ Filled(k)
  <2>1. /\ pc[k] = Turn(k, 0) /\ i[k] = 0 /\ cur_sock[k] = 0 /\ slot[k] = 0
        /\ qp_num[k] = QP_START /\ send_qp_num[k] = QP_START /\ sent[k] = 0
        /\ backlog[k] = << >>
    BY DEF Init
  <2>2. (pc[k] = "connect" /\ k > 0) \/ (pc[k] = "listen" /\ k = 0)
    <3>1. k \in Nat /\ 0 # total_invoker_num
      BY DEF Invokers
    <3>2. CASE k = 0
      BY <2>1, <3>1, <3>2 DEF Turn
    <3>3. CASE k > 0
      <4>1. 0 # k
        BY <3>3
      <4>2. Turn(k, 0) = "connect"
        BY <3>1, <4>1, Zenon DEF Turn
      <4> QED BY <2>1, <3>3, <4>2, Zenon
    <3> QED BY <3>1, <3>2, <3>3
  <2>3. Position(k)
    BY <2>1, <2>2 DEF Position, Rank
  <2>4. Filled(k)
    BY <2>1 DEF Filled, Others, Invokers
  <2> QED BY <2>3, <2>4
<1> QED BY <1>7, <1>8 DEF TypeInv

\* What going on to iteration n does.
LEMMA GoToValue ==
  ASSUME TypeInv, NEW k \in Invokers, NEW n \in 1 .. total_invoker_num, GoTo(k, n)
  PROVE  /\ pc' = [pc EXCEPT ![k] = Turn(k, n)]
         /\ pc' \in [Invokers ->
              {"connect", "rest", "listen", "accept", "exchange", "done", "exit"}]
         /\ wake' \in [Invokers -> Nat] /\ i' \in [Invokers -> Invokers]
         /\ pc'[k] = Turn(k, n) /\ wake'[k] = now + Delay(k, n)
         /\ i'[k] = IF n = total_invoker_num THEN 0 ELSE n
         /\ \A j \in Others(k) : pc'[j] = pc[j] /\ wake'[j] = wake[j] /\ i'[j] = i[j]
<1> USE MeshAssumption
<1>1. Turn(k, n) \in {"connect", "listen", "exchange"}
  BY DEF Turn
<1>2. Delay(k, n) \in Nat
  BY Sleeps DEF Delay, WriteDelay
<1>3. now + Delay(k, n) \in Nat
  <2>1. now \in Nat
    BY DEF TypeInv, TypeOK
  <2> QED BY <1>2, <2>1
<1>4. (IF n = total_invoker_num THEN 0 ELSE n) \in Invokers
  BY DEF Invokers
<1>5. /\ pc \in [Invokers ->
           {"connect", "rest", "listen", "accept", "exchange", "done", "exit"}]
      /\ wake \in [Invokers -> Nat] /\ i \in [Invokers -> Invokers]
  BY DEF TypeInv, TypeOK
<1>6. /\ pc' = [pc EXCEPT ![k] = Turn(k, n)]
      /\ wake' = [wake EXCEPT ![k] = now + Delay(k, n)]
      /\ i' = [i EXCEPT ![k] = IF n = total_invoker_num THEN 0 ELSE n]
  BY DEF GoTo
<1>7. /\ pc' \in [Invokers ->
           {"connect", "rest", "listen", "accept", "exchange", "done", "exit"}]
      /\ pc'[k] = Turn(k, n) /\ \A j \in Others(k) : pc'[j] = pc[j]
  BY <1>1, <1>5, <1>6 DEF Others
<1>8. /\ wake' \in [Invokers -> Nat]
      /\ wake'[k] = now + Delay(k, n) /\ \A j \in Others(k) : wake'[j] = wake[j]
  BY <1>3, <1>5, <1>6 DEF Others
<1>9. /\ i' \in [Invokers -> Invokers]
      /\ i'[k] = (IF n = total_invoker_num THEN 0 ELSE n)
      /\ \A j \in Others(k) : i'[j] = i[j]
  BY <1>4, <1>5, <1>6 DEF Others
<1> QED BY <1>6, <1>7, <1>8, <1>9

\* Where a turn leads.
LEMMA TurnValue ==
  ASSUME NEW k \in Invokers, NEW n \in 1 .. total_invoker_num
  PROVE  /\ n = total_invoker_num => Turn(k, n) = "exchange" /\ Delay(k, n) = WriteDelay(k, 0)
         /\ n = k => Turn(k, n) = "listen" /\ Delay(k, n) = 0 /\ n # total_invoker_num
         /\ n # k /\ n # total_invoker_num =>
              Turn(k, n) = "connect" /\ Delay(k, n) = sleep_time(k)
BY MeshAssumption DEF Turn, Delay, Invokers

\* The server an invoker connects to is the one whose turn it is.
LEMMA ServerValue ==
  ASSUME TypeInv, NEW k \in Invokers, pc[k] = "connect"
  PROVE  /\ i[k] \in Others(k) /\ peer_inv_ips(k)[cur_sock[k]] = i[k]
         /\ cur_sock[k] = Rank(k, i[k])
         /\ cur_sock[k] \in 0 .. total_invoker_num - 2
<1>1. i[k] \in Others(k) /\ cur_sock[k] = Rank(k, i[k])
  BY DEF TypeInv, TypeOK, Position, Others
<1> QED BY <1>1, RankOfPeer

\* The connection made: what Connect changes, when it is not refused.
LEMMA ConnectValue ==
  ASSUME TypeInv, NEW k \in Invokers, Connect(k),
         listening[i[k]], pc[i[k]] # "exit"
  PROVE  /\ backlog' = [backlog EXCEPT ![i[k]] = Append(@, k)]
         /\ inv_sockfd' = [inv_sockfd EXCEPT ![k][i[k]] = i[k]]
         /\ cur_sock' = [cur_sock EXCEPT ![k] = @ + 1]
         /\ IF k = i[k] + 1
            THEN GoTo(k, i[k] + 1)
            ELSE /\ pc' = [pc EXCEPT ![k] = "rest"]
                 /\ wake' = [wake EXCEPT ![k] = now + (tot_sleep_time - sleep_time(k))]
                 /\ i' = i
         /\ UNCHANGED <<now, slot, server_socks, qpVars, listening, chan, killed>>
<1>1. pc[k] = "connect"
  BY DEF Connect
<1>2. peer_inv_ips(k)[cur_sock[k]] = i[k]
  BY <1>1, ServerValue
<1> QED BY <1>2, Zenon DEF Connect, LastBeforeOwnTurn

\* Refused.
LEMMA RefusedValue ==
  ASSUME TypeInv, NEW k \in Invokers, Connect(k),
         ~(listening[i[k]] /\ pc[i[k]] # "exit")
  PROVE  /\ pc' = [pc EXCEPT ![k] = "exit"]
         /\ UNCHANGED <<now, wake, i, sockVars, qpVars, netVars, killed>>
<1>1. pc[k] = "connect"
  BY DEF Connect
<1>2. peer_inv_ips(k)[cur_sock[k]] = i[k]
  BY <1>1, ServerValue
<1> QED BY <1>2, Zenon DEF Connect, sockVars, netVars

\* The step lemmas: each action keeps TypeInv.  A connection is made or refused.
LEMMA TypeConnect ==
  ASSUME TypeInv, NEW k \in Invokers, Connect(k)
  PROVE  TypeInv'
<1> USE MeshAssumption
<1>1. pc[k] = "connect" /\ i[k] \in Invokers /\ i[k] # k /\ cur_sock[k] = Rank(k, i[k])
      /\ cur_sock[k] \in 0 .. total_invoker_num - 2
  BY ServerValue DEF Connect, Others
<1>2. CASE listening[i[k]] /\ pc[i[k]] # "exit"
  <2>1. /\ backlog' = [backlog EXCEPT ![i[k]] = Append(@, k)]
        /\ inv_sockfd' = [inv_sockfd EXCEPT ![k][i[k]] = i[k]]
        /\ cur_sock' = [cur_sock EXCEPT ![k] = @ + 1]
        /\ UNCHANGED <<now, slot, server_socks, qpVars, listening, chan, killed>>
    BY <1>2, ConnectValue, Zenon
  <2>2. /\ pc' \in [Invokers ->
             {"connect", "rest", "listen", "accept", "exchange", "done", "exit"}]
        /\ wake' \in [Invokers -> Nat] /\ i' \in [Invokers -> Invokers]
        /\ \A j \in Others(k) : pc'[j] = pc[j] /\ i'[j] = i[j]
        /\ \/ pc'[k] = "listen" /\ i'[k] = k /\ k = i[k] + 1
           \/ pc'[k] = "rest" /\ i'[k] = i[k] /\ k # i[k] + 1
    <3>1. CASE k = i[k] + 1
      <4>2. GoTo(k, k)
        BY <1>1, <1>2, <3>1, ConnectValue, Zenon
      <4>3. k \in 1 .. total_invoker_num
        BY <1>1, <3>1 DEF Invokers
      <4>1. GoTo(k, k) /\ k \in 1 .. total_invoker_num
        BY <4>2, <4>3
      <4> QED BY <3>1, <4>1, GoToValue, TurnValue
    <3>2. CASE k # i[k] + 1
      <4>1. /\ pc' = [pc EXCEPT ![k] = "rest"]
            /\ wake' = [wake EXCEPT ![k] = now + (tot_sleep_time - sleep_time(k))]
            /\ i' = i
        BY <1>2, <3>2, ConnectValue, Zenon
      <4>2. now + (tot_sleep_time - sleep_time(k)) \in Nat
        <5>1. now \in Nat
          BY DEF TypeInv, TypeOK
        <5> QED BY <5>1, Sleeps
      <4>3. /\ pc \in [Invokers ->
                 {"connect", "rest", "listen", "accept", "exchange", "done", "exit"}]
            /\ wake \in [Invokers -> Nat] /\ i \in [Invokers -> Invokers]
        BY DEF TypeInv, TypeOK
      <4> QED BY <3>2, <4>1, <4>2, <4>3 DEF Others
    <3> QED BY <3>1, <3>2
  <2>3. /\ cur_sock' \in [Invokers -> 0 .. total_invoker_num - 1]
        /\ cur_sock'[k] = cur_sock[k] + 1
        /\ \A j \in Others(k) : cur_sock'[j] = cur_sock[j]
    <3>1. cur_sock[k] + 1 \in 0 .. total_invoker_num - 1
      BY <1>1
    <3>2. cur_sock \in [Invokers -> 0 .. total_invoker_num - 1]
      BY DEF TypeInv, TypeOK
    <3> QED BY <2>1, <3>1, <3>2 DEF Others
  <2>4. inv_sockfd' \in [Invokers -> [Invokers -> Invokers \cup {None}]]
    BY <1>1, <2>1 DEF TypeInv, TypeOK
  <2>5. /\ backlog' \in [Invokers -> Seq(Invokers)]
        /\ backlog'[i[k]] = Append(backlog[i[k]], k)
        /\ \A j \in Invokers : j # i[k] => backlog'[j] = backlog[j]
    <3>1. backlog \in [Invokers -> Seq(Invokers)]
      BY DEF TypeInv, TypeOK
    <3>2. Append(backlog[i[k]], k) \in Seq(Invokers)
      BY <1>1, <3>1, AppendProperties
    <3> QED BY <1>1, <2>1, <3>1, <3>2
  <2>6. TypeOK'
    BY <2>1, <2>2, <2>3, <2>4, <2>5 DEF TypeInv, TypeOK, qpVars
  <2>7. ASSUME NEW j \in Invokers
        PROVE  Position(j)'
    <3>1. Position(j) /\ slot' = slot /\ listening' = listening /\ qp_num' = qp_num
          /\ send_qp_num' = send_qp_num /\ sent' = sent
      BY <2>1 DEF TypeInv, qpVars
    <3>2. CASE j # k
      BY <3>1, <3>2, <2>2, <2>3, PositionKept DEF Others
    <3>3. CASE j = k
      <4>1. k \in Nat /\ i[k] \in Nat
        BY <1>1 DEF Invokers
      <4>2. CASE pc'[k] = "listen" /\ i'[k] = k /\ k = i[k] + 1
        <5>1. cur_sock'[k] = k
          BY <1>1, <2>3, <4>1, <4>2 DEF Rank
        <5>2. slot[k] = 0
          BY <3>1, <3>3, <1>1, <4>1, <4>2 DEF Position
        <5> QED BY <3>1, <3>3, <1>1, <4>2, <5>1, <5>2 DEF Position
      <4>3. CASE pc'[k] = "rest" /\ i'[k] = i[k] /\ k # i[k] + 1
        BY <3>1, <3>3, <1>1, <2>3, <4>1, <4>3 DEF Position, slot_next
      <4> QED BY <2>2, <4>2, <4>3
    <3> QED BY <3>2, <3>3
  <2>8. ASSUME NEW j \in Invokers
        PROVE  Filled(j)'
    <3>1. Filled(j) /\ slot'[j] = slot[j] /\ server_socks'[j] = server_socks[j]
      BY <2>1 DEF TypeInv
    <3>2. CASE j # i[k]
      BY <3>1, <3>2, <2>5, FilledKept
    <3>3. CASE j = i[k]
      <4>1. k \in Others(j) /\ backlog[j] \in Seq(Others(j))
        BY <1>1, <3>1, <3>3 DEF Others, Filled
      <4>2. backlog'[j] \in Seq(Others(j))
        <5>1. Append(backlog[j], k) \in Seq(Others(j))
          BY <4>1, AppendProperties
        <5> QED BY <5>1, <2>5, <3>3
      <4> QED BY <3>1, <4>2 DEF Filled
    <3> QED BY <3>2, <3>3
  <2> QED BY <2>6, <2>7, <2>8 DEF TypeInv
<1>3. CASE ~(listening[i[k]] /\ pc[i[k]] # "exit")
  <2>1. /\ pc' = [pc EXCEPT ![k] = "exit"]
        /\ UNCHANGED <<now, wake, i, sockVars, qpVars, netVars, killed>>
    BY <1>3, RefusedValue, Zenon
  <2>2. /\ pc' \in [Invokers ->
             {"connect", "rest", "listen", "accept", "exchange", "done", "exit"}]
        /\ pc'[k] = "exit" /\ \A j \in Others(k) : pc'[j] = pc[j]
    BY <2>1 DEF TypeInv, TypeOK, Others
  <2>3. TypeOK'
    BY <2>1, <2>2 DEF TypeInv, TypeOK, sockVars, qpVars, netVars
  <2>4. ASSUME NEW j \in Invokers
        PROVE  Position(j)' /\ Filled(j)'
    <3>1. Position(j) /\ Filled(j)
      BY DEF TypeInv
    <3>2. Filled(j)'
      BY <3>1, <2>1, FilledKept DEF sockVars, netVars
    <3>3. CASE j # k
      BY <3>1, <3>2, <3>3, <2>1, <2>2, PositionKept DEF sockVars, qpVars, netVars, Others
    <3>4. CASE j = k
      BY <3>1, <3>2, <3>4, <2>1, <2>2 DEF sockVars, qpVars, netVars, Position
    <3> QED BY <3>3, <3>4
  <2> QED BY <2>3, <2>4 DEF TypeInv
<1> QED BY <1>2, <1>3

\* The sleep after a connection ends.
LEMMA TypeRestOver ==
  ASSUME TypeInv, NEW k \in Invokers, RestOver(k)
  PROVE  TypeInv'
<1> USE MeshAssumption
<1>1. /\ pc[k] = "rest" /\ i[k] \in Invokers /\ i[k] # k /\ i[k] + 1 # k
      /\ cur_sock[k] = Rank(k, i[k]) + 1 /\ GoTo(k, i[k] + 1)
      /\ UNCHANGED <<now, sockVars, qpVars, netVars, killed>>
      /\ k \in Nat /\ i[k] \in Nat /\ i[k] + 1 \in 1 .. total_invoker_num
  <2>1. /\ pc[k] = "rest" /\ GoTo(k, i[k] + 1)
        /\ UNCHANGED <<now, sockVars, qpVars, netVars, killed>>
    BY DEF RestOver
  <2>2. i[k] \in Invokers /\ Position(k)
    BY DEF TypeInv, TypeOK
  <2>3. i[k] # k /\ i[k] + 1 # k /\ cur_sock[k] = Rank(k, i[k]) + 1
    BY <2>1, <2>2 DEF Position
  <2>4. k \in Nat /\ i[k] \in Nat /\ i[k] + 1 \in 1 .. total_invoker_num
    BY <2>2 DEF Invokers
  <2> QED BY <2>1, <2>2, <2>3, <2>4
<1>2. /\ pc' \in [Invokers ->
           {"connect", "rest", "listen", "accept", "exchange", "done", "exit"}]
      /\ wake' \in [Invokers -> Nat] /\ i' \in [Invokers -> Invokers]
      /\ \A j \in Others(k) : pc'[j] = pc[j] /\ i'[j] = i[j]
      /\ \/ pc'[k] = "exchange" /\ i'[k] = 0 /\ i[k] + 1 = total_invoker_num
         \/ pc'[k] = "connect" /\ i'[k] = i[k] + 1 /\ i[k] + 1 # total_invoker_num
  BY <1>1, GoToValue, TurnValue
<1>3. TypeOK'
  BY <1>1, <1>2 DEF TypeInv, TypeOK, sockVars, qpVars, netVars
<1>4. ASSUME NEW j \in Invokers
      PROVE  Position(j)' /\ Filled(j)'
  <2>1. /\ Position(j) /\ Filled(j)
        /\ slot' = slot /\ listening' = listening /\ qp_num' = qp_num
        /\ send_qp_num' = send_qp_num /\ sent' = sent /\ cur_sock' = cur_sock
    BY <1>1 DEF TypeInv, sockVars, qpVars, netVars
  <2>2. Filled(j)'
    BY <2>1, <1>1, FilledKept DEF sockVars, netVars
  <2>3. CASE j # k
    BY <2>1, <2>2, <2>3, <1>2, PositionKept DEF Others
  <2>4. CASE j = k
    <3>1. CASE pc'[k] = "connect" /\ i'[k] = i[k] + 1
      BY <2>1, <2>2, <2>4, <1>1, <3>1 DEF Position, Rank, slot_next
    <3>2. CASE pc'[k] = "exchange" /\ i'[k] = 0 /\ i[k] + 1 = total_invoker_num
      <4>1. k < i[k] /\ k <= total_invoker_num - 1
        BY <1>1, <3>2 DEF Invokers
      <4>2. cur_sock[k] = total_invoker_num - 1 /\ slot_next(k) = total_invoker_num
            /\ listening[k] /\ qp_num[k] = QP_START /\ sent[k] = 0
            /\ send_qp_num[k] = QP_START
        BY <2>1, <2>4, <1>1, <3>2, <4>1 DEF Position, Rank
      <4>3. slot_next(k)' = slot_next(k)
        BY <2>1 DEF slot_next
      <4> QED BY <2>1, <2>2, <2>4, <1>1, <3>2, <4>1, <4>2, <4>3 DEF Position
    <3> QED BY <1>2, <3>1, <3>2
  <2> QED BY <2>3, <2>4
<1> QED BY <1>3, <1>4 DEF TypeInv

\* The server opens.
LEMMA TypeListen ==
  ASSUME TypeInv, NEW k \in Invokers, Listen(k)
  PROVE  TypeInv'
<1>1. /\ pc[k] = "listen" /\ pc' = [pc EXCEPT ![k] = "accept"]
      /\ listening' = [listening EXCEPT ![k] = TRUE]
      /\ UNCHANGED <<now, wake, i, sockVars, qpVars, backlog, chan, killed>>
  BY DEF Listen
<1>2. /\ pc' \in [Invokers ->
           {"connect", "rest", "listen", "accept", "exchange", "done", "exit"}]
      /\ pc'[k] = "accept" /\ \A j \in Others(k) : pc'[j] = pc[j]
  BY <1>1 DEF TypeInv, TypeOK, Others
<1>3. /\ listening' \in [Invokers -> BOOLEAN]
      /\ listening'[k] = TRUE /\ \A j \in Others(k) : listening'[j] = listening[j]
  BY <1>1, Zenon DEF TypeInv, TypeOK, Others
<1>4. TypeOK'
  BY <1>1, <1>2, <1>3 DEF TypeInv, TypeOK, sockVars, qpVars
<1>5. ASSUME NEW j \in Invokers
      PROVE  Position(j)' /\ Filled(j)'
  <2>1. /\ Position(j) /\ Filled(j)
        /\ slot' = slot /\ i' = i /\ qp_num' = qp_num
        /\ send_qp_num' = send_qp_num /\ sent' = sent /\ cur_sock' = cur_sock
    BY <1>1 DEF TypeInv, sockVars, qpVars
  <2>2. Filled(j)'
    BY <2>1, <1>1, FilledKept DEF sockVars
  <2>3. CASE j # k
    BY <2>1, <2>2, <2>3, <1>2, <1>3, PositionKept DEF Others
  <2>4. CASE j = k
    BY <2>1, <2>2, <2>4, <1>1, <1>2, <1>3 DEF Position
  <2> QED BY <2>3, <2>4
<1> QED BY <1>4, <1>5 DEF TypeInv

\* The next place of the accept loop.
LEMMA SlotNext ==
  ASSUME TypeInv, NEW k \in Invokers
  PROVE  /\ slot_next(k) \in Nat /\ slot_next(k) # k
         /\ slot[k] \in Nat /\ slot[k] <= slot_next(k)
         /\ \A j \in Others(k) : j < slot_next(k) => j < slot[k]
         /\ slot_next(k) < total_invoker_num => slot_next(k) \in Others(k)
<1> USE MeshAssumption
<1>1. slot[k] \in 0 .. total_invoker_num /\ k \in Nat
  <2>1. slot[k] \in 0 .. total_invoker_num
    BY DEF TypeInv, TypeOK
  <2> QED BY <2>1 DEF Invokers
<1>2. CASE slot[k] = k
  <2>1. slot_next(k) = k + 1
    BY <1>2 DEF slot_next
  <2> QED BY <1>1, <1>2, <2>1 DEF Others, Invokers
<1>3. CASE slot[k] # k
  <2>1. slot_next(k) = slot[k]
    BY <1>3 DEF slot_next
  <2> QED BY <1>1, <1>3, <2>1 DEF Others, Invokers
<1> QED BY <1>2, <1>3

\* A connection is filed at the next place.
LEMMA TypeAccept ==
  ASSUME TypeInv, NEW k \in Invokers, Accept(k)
  PROVE  TypeInv'
<1> USE MeshAssumption
<1> DEFINE j == slot_next(k)
           x == Head(backlog[k])
<1>1. /\ pc[k] = "accept" /\ j < total_invoker_num /\ backlog[k] # << >>
      /\ server_socks' = [server_socks EXCEPT ![k][j] = x]
      /\ backlog' = [backlog EXCEPT ![k] = Tail(@)]
      /\ slot' = [slot EXCEPT ![k] = j + 1]
      /\ UNCHANGED <<now, loopVars, cur_sock, inv_sockfd, qpVars, listening, chan, killed>>
  BY DEF Accept
<1>2. /\ backlog[k] \in Seq(Others(k)) /\ backlog[k] \in Seq(Invokers)
      /\ backlog \in [Invokers -> Seq(Invokers)]
  BY DEF TypeInv, TypeOK, Filled
<1>3. x \in Others(k) /\ Tail(backlog[k]) \in Seq(Others(k)) /\ Tail(backlog[k]) \in Seq(Invokers)
  BY <1>1, <1>2, HeadTailProperties
<1>4. j \in Others(k) /\ j \in Nat /\ j + 1 \in 0 .. total_invoker_num
  BY <1>1, SlotNext
<1> HIDE DEF j, x
<1>5. /\ slot' \in [Invokers -> 0 .. total_invoker_num]
      /\ slot'[k] = j + 1 /\ \A n \in Others(k) : slot'[n] = slot[n]
  BY <1>1, <1>4 DEF TypeInv, TypeOK, Others
<1>6. /\ backlog' \in [Invokers -> Seq(Invokers)]
      /\ backlog'[k] = Tail(backlog[k]) /\ \A n \in Others(k) : backlog'[n] = backlog[n]
  BY <1>1, <1>2, <1>3 DEF Others
<1>7. /\ server_socks' \in [Invokers -> [Invokers -> Invokers \cup {None}]]
      /\ server_socks'[k][j] = x
      /\ \A n \in Others(j) : server_socks'[k][n] = server_socks[k][n]
      /\ \A n \in Others(k) : server_socks'[n] = server_socks[n]
  BY <1>1, <1>3, <1>4 DEF TypeInv, TypeOK, Others
<1>8. TypeOK'
  BY <1>1, <1>5, <1>6, <1>7 DEF TypeInv, TypeOK, loopVars, qpVars
<1>9. ASSUME NEW n \in Invokers
      PROVE  Position(n)' /\ Filled(n)'
  <2>1. /\ Position(n) /\ Filled(n)
        /\ pc' = pc /\ i' = i /\ qp_num' = qp_num /\ listening' = listening
        /\ send_qp_num' = send_qp_num /\ sent' = sent /\ cur_sock' = cur_sock
    BY <1>1 DEF TypeInv, loopVars, qpVars
  <2>2. CASE n # k
    BY <2>1, <2>2, <1>5, <1>6, <1>7, PositionKept, FilledKept DEF Others
  <2>3. CASE n = k
    <3>1. Position(n)'
      BY <2>1, <2>3, <1>1 DEF Position
    <3>2. ASSUME NEW m \in Others(k), m < j + 1
          PROVE  server_socks'[k][m] \in Others(k)
      <4>1. CASE m = j
        BY <4>1, <1>3, <1>7
      <4>2. CASE m # j
        <5>1. m < j /\ m \in Others(j)
          BY <3>2, <4>2, <1>4 DEF Others, Invokers
        <5>2. m < slot[k]
          BY <5>1, SlotNext DEF j
        <5> QED BY <5>1, <5>2, <1>7, <2>1, <2>3 DEF Filled
      <4> QED BY <4>1, <4>2
    <3>3. Filled(n)'
      BY <3>2, <2>3, <1>3, <1>5, <1>6 DEF Filled
    <3> QED BY <3>1, <3>3
  <2> QED BY <2>2, <2>3
<1> QED BY <1>8, <1>9 DEF TypeInv

\* All places are taken, and the server's turn is over.
LEMMA TypeAcceptEnd ==
  ASSUME TypeInv, NEW k \in Invokers, AcceptEnd(k)
  PROVE  TypeInv'
<1> USE MeshAssumption
<1>1. /\ pc[k] = "accept" /\ i[k] = k /\ cur_sock[k] = k /\ listening[k]
      /\ slot_next(k) = total_invoker_num /\ GoTo(k, k + 1)
      /\ UNCHANGED <<now, sockVars, qpVars, netVars, killed>>
      /\ k \in Nat /\ k + 1 \in 1 .. total_invoker_num /\ k + 1 # k
  <2>1. /\ pc[k] = "accept" /\ Position(k) /\ slot_next(k) = total_invoker_num
        /\ GoTo(k, i[k] + 1) /\ UNCHANGED <<now, sockVars, qpVars, netVars, killed>>
    BY DEF AcceptEnd, TypeInv
  <2>2. i[k] = k /\ cur_sock[k] = k /\ listening[k]
    BY <2>1 DEF Position
  <2>3. k \in Nat /\ k + 1 \in 1 .. total_invoker_num /\ k + 1 # k
    BY DEF Invokers
  <2> QED BY <2>1, <2>2, <2>3
<1>2. /\ pc' \in [Invokers ->
           {"connect", "rest", "listen", "accept", "exchange", "done", "exit"}]
      /\ wake' \in [Invokers -> Nat] /\ i' \in [Invokers -> Invokers]
      /\ \A j \in Others(k) : pc'[j] = pc[j] /\ i'[j] = i[j]
      /\ \/ pc'[k] = "exchange" /\ i'[k] = 0 /\ k + 1 = total_invoker_num
         \/ pc'[k] = "connect" /\ i'[k] = k + 1 /\ k + 1 # total_invoker_num
  BY <1>1, GoToValue, TurnValue
<1>3. TypeOK'
  BY <1>1, <1>2 DEF TypeInv, TypeOK, sockVars, qpVars, netVars
<1>4. ASSUME NEW j \in Invokers
      PROVE  Position(j)' /\ Filled(j)'
  <2>1. /\ Position(j) /\ Filled(j)
        /\ slot' = slot /\ listening' = listening /\ qp_num' = qp_num
        /\ send_qp_num' = send_qp_num /\ sent' = sent /\ cur_sock' = cur_sock
    BY <1>1 DEF TypeInv, sockVars, qpVars, netVars
  <2>2. Filled(j)'
    BY <2>1, <1>1, FilledKept DEF sockVars, netVars
  <2>3. CASE j # k
    BY <2>1, <2>2, <2>3, <1>2, PositionKept DEF Others
  <2>4. CASE j = k
    <3>1. slot_next(k)' = slot_next(k)
      BY <2>1 DEF slot_next
    <3>2. qp_num[k] = QP_START /\ sent[k] = 0 /\ send_qp_num[k] = QP_START
      BY <2>1, <2>4, <1>1 DEF Position
    <3>3. CASE pc'[k] = "connect" /\ i'[k] = k + 1
      BY <2>1, <2>2, <2>4, <1>1, <3>1, <3>2, <3>3 DEF Position, Rank
    <3>4. CASE pc'[k] = "exchange" /\ i'[k] = 0 /\ k + 1 = total_invoker_num
      BY <2>1, <2>2, <2>4, <1>1, <3>1, <3>2, <3>4 DEF Position
    <3> QED BY <1>2, <3>3, <3>4
  <2> QED BY <2>3, <2>4
<1> QED BY <1>3, <1>4 DEF TypeInv

\* On to the next turn of the exchange, or out of it.
LEMMA NextInfoValue ==
  ASSUME TypeInv, NEW k \in Invokers, NextInfo(k)
  PROVE  /\ pc' \in [Invokers ->
              {"connect", "rest", "listen", "accept", "exchange", "done", "exit"}]
         /\ i' \in [Invokers -> Invokers] /\ wake' \in [Invokers -> Nat]
         /\ \A j \in Others(k) : pc'[j] = pc[j] /\ i'[j] = i[j] /\ wake'[j] = wake[j]
         /\ \/ /\ i[k] + 1 = total_invoker_num
               /\ pc'[k] = "done" /\ i'[k] = i[k]
            \/ /\ i[k] + 1 < total_invoker_num
               /\ pc'[k] = pc[k] /\ i'[k] = i[k] + 1
               /\ wake'[k] = now + WriteDelay(k, i[k] + 1)
<1> USE MeshAssumption
<1>1. /\ pc \in [Invokers ->
           {"connect", "rest", "listen", "accept", "exchange", "done", "exit"}]
      /\ i \in [Invokers -> Invokers] /\ i[k] \in Invokers
      /\ wake \in [Invokers -> Nat]
  BY DEF TypeInv, TypeOK
<1>2. CASE i[k] + 1 = total_invoker_num
  <2>1. pc' = [pc EXCEPT ![k] = "done"] /\ i' = i /\ wake' = wake
    BY <1>2, Zenon DEF NextInfo
  <2> QED BY <1>1, <1>2, <2>1 DEF Others
<1>3. CASE i[k] + 1 # total_invoker_num
  <2>1. /\ i' = [i EXCEPT ![k] = @ + 1] /\ pc' = pc
        /\ wake' = [wake EXCEPT ![k] = now + WriteDelay(k, i[k] + 1)]
    BY <1>3, Zenon DEF NextInfo
  <2>4. now + WriteDelay(k, i[k] + 1) \in Nat
    BY DEF TypeInv, TypeOK, WriteDelay
  <2>5. /\ wake' \in [Invokers -> Nat]
        /\ wake'[k] = now + WriteDelay(k, i[k] + 1)
        /\ \A j \in Others(k) : wake'[j] = wake[j]
    BY <1>1, <2>1, <2>4 DEF Others
  <2>6. i[k] \in Invokers
    BY <1>1
  <2>2. i[k] + 1 \in Invokers /\ i[k] + 1 < total_invoker_num
    BY <2>6, <1>3 DEF Invokers
  <2>3. i' \in [Invokers -> Invokers] /\ i'[k] = i[k] + 1
        /\ \A j \in Others(k) : i'[j] = i[j]
    BY <1>1, <2>1, <2>2 DEF Others
  <2> QED BY <1>1, <2>1, <2>2, <2>3, <2>5
<1> QED BY <1>2, <1>3

\* One structure is written.
LEMMA TypeWrite ==
  ASSUME TypeInv, NEW k \in Invokers, Write(k)
  PROVE  TypeInv'
<1> USE MeshAssumption
<1> DEFINE p == inv_sockfd[k][peer_inv_ips(k)[sent[k]]]
           m == [from |-> k, qp |-> send_qp_num[k]]
<1>1. /\ pc[k] = "exchange" /\ i[k] = k
      /\ chan' = [chan EXCEPT ![k][p] = Append(@, m)]
      /\ send_qp_num' = [send_qp_num EXCEPT ![k] = @ + 1]
      /\ sent' = [sent EXCEPT ![k] = @ + 1]
      /\ IF sent[k] + 1 = total_invoker_num - 1
         THEN NextInfo(k)
         ELSE /\ wake' = [wake EXCEPT ![k] = now + write_sleep_time]
              /\ UNCHANGED <<pc, i>>
      /\ UNCHANGED <<now, sockVars, qp_num, keys, listening, backlog, killed>>
  BY DEF Write
<1>2. /\ Position(k) /\ k \in Nat
      /\ sent[k] \in 0 .. total_invoker_num - 1 /\ sent \in [Invokers -> 0 .. total_invoker_num - 1]
      /\ send_qp_num \in [Invokers -> QP_START .. QP_START + total_invoker_num - 1]
  <2>1. /\ Position(k)
        /\ sent \in [Invokers -> 0 .. total_invoker_num - 1]
        /\ send_qp_num \in [Invokers -> QP_START .. QP_START + total_invoker_num - 1]
    BY DEF TypeInv, TypeOK
  <2>2. sent[k] \in 0 .. total_invoker_num - 1
    BY <2>1
  <2>3. k \in Nat
    BY DEF Invokers
  <2> QED BY <2>1, <2>2, <2>3
<1>3. /\ sent[k] < total_invoker_num - 1 /\ send_qp_num[k] = QP_START + sent[k]
      /\ qp_num[k] = QP_START + k
  <2>1. /\ pc[k] = "exchange" /\ i[k] = k => sent[k] < total_invoker_num - 1
        /\ pc[k] = "exchange" /\ i[k] = k =>
             qp_num[k] = QP_START + (IF i[k] <= k THEN i[k] ELSE i[k] - 1)
        /\ send_qp_num[k] = QP_START + sent[k]
    BY <1>2, Zenon DEF Position
  <2>2. pc[k] = "exchange" /\ i[k] = k
    BY <1>1
  <2>3. k \in Nat /\ k <= k
    BY <1>2
  <2> QED BY <2>1, <2>2, <2>3
<1>4. m \in Info
  BY <1>2, <1>3 DEF Info
<1> HIDE DEF p, m
<1>5. chan' \in [Invokers -> [Invokers -> Seq(Info)]]
  <2>1. chan \in [Invokers -> [Invokers -> Seq(Info)]]
    BY DEF TypeInv, TypeOK
  <2>2. CASE p \in Invokers
    <3>1. Append(chan[k][p], m) \in Seq(Info)
      BY <2>1, <2>2, <1>4, AppendProperties
    <3> QED BY <1>1, <2>1, <2>2, <3>1
  <2>3. CASE p \notin Invokers
    <3>1. \A n \in Others(k) : chan'[n] = chan[n]
      BY <1>1, <2>1 DEF Others
    <3>2. chan'[k] = [chan[k] EXCEPT ![p] = Append(@, m)]
      BY <1>1, <2>1
    <3>3. chan'[k] = [n \in Invokers |-> chan[k][n]]
      BY <3>2, <2>1, <2>3
    <3>4. chan' = [n \in Invokers |-> chan'[n]]
      BY <1>1, <2>1
    <3>5. \A n \in Invokers : chan'[n] \in [Invokers -> Seq(Info)]
      BY <2>1, <3>1, <3>3 DEF Others
    <3> QED BY <3>4, <3>5
  <2> QED BY <2>2, <2>3
<1>6. /\ send_qp_num' \in [Invokers -> QP_START .. QP_START + total_invoker_num - 1]
      /\ send_qp_num'[k] = send_qp_num[k] + 1
      /\ \A n \in Others(k) : send_qp_num'[n] = send_qp_num[n]
  <2>1. send_qp_num[k] + 1 \in QP_START .. QP_START + total_invoker_num - 1
    BY <1>2, <1>3
  <2> QED BY <1>1, <1>2, <2>1 DEF Others
<1>7. /\ sent' \in [Invokers -> 0 .. total_invoker_num - 1]
      /\ sent'[k] = sent[k] + 1 /\ \A n \in Others(k) : sent'[n] = sent[n]
  <2>1. sent[k] + 1 \in 0 .. total_invoker_num - 1
    BY <1>2, <1>3
  <2> QED BY <1>1, <1>2, <2>1 DEF Others
<1>8. /\ pc' \in [Invokers ->
           {"connect", "rest", "listen", "accept", "exchange", "done", "exit"}]
      /\ i' \in [Invokers -> Invokers] /\ wake' \in [Invokers -> Nat]
      /\ \A n \in Others(k) : pc'[n] = pc[n] /\ i'[n] = i[n]
      /\ \/ /\ sent[k] + 1 = total_invoker_num - 1
            /\ \/ k + 1 = total_invoker_num /\ pc'[k] = "done" /\ i'[k] = k
               \/ k + 1 < total_invoker_num /\ pc'[k] = "exchange" /\ i'[k] = k + 1
         \/ sent[k] + 1 # total_invoker_num - 1 /\ pc'[k] = "exchange" /\ i'[k] = k
  <2>1. CASE sent[k] + 1 = total_invoker_num - 1
    <3>1. NextInfo(k)
      BY <1>1, <2>1
    <3> QED BY <1>1, <2>1, <3>1, NextInfoValue
  <2>2. CASE sent[k] + 1 # total_invoker_num - 1
    <3>1. pc' = pc /\ i' = i /\ wake' = [wake EXCEPT ![k] = now + write_sleep_time]
      BY <1>1, <2>2, Zenon
    <3>2. now + write_sleep_time \in Nat
      <4>1. now \in Nat /\ write_sleep_time \in Nat
        BY Zenon DEF TypeInv, TypeOK
      <4> QED BY <4>1
    <3> QED BY <1>1, <2>2, <3>1, <3>2 DEF TypeInv, TypeOK
  <2> QED BY <2>1, <2>2
<1>9. TypeOK'
  BY <1>1, <1>5, <1>6, <1>7, <1>8 DEF TypeInv, TypeOK, sockVars
<1>10. ASSUME NEW n \in Invokers
       PROVE  Position(n)' /\ Filled(n)'
  <2>1. /\ Position(n) /\ Filled(n)
        /\ slot' = slot /\ qp_num' = qp_num /\ listening' = listening
        /\ cur_sock' = cur_sock
    BY <1>1 DEF TypeInv, sockVars
  <2>2. Filled(n)'
    BY <2>1, <1>1, FilledKept DEF sockVars
  <2>3. CASE n # k
    BY <2>1, <2>2, <2>3, <1>6, <1>7, <1>8, PositionKept DEF Others
  <2>4. CASE n = k
    <3>1. slot_next(k)' = slot_next(k)
      BY <2>1 DEF slot_next
    <3>2. /\ cur_sock'[k] = total_invoker_num - 1
          /\ slot_next(k)' = total_invoker_num /\ listening'[k]
          /\ qp_num'[k] = QP_START + k
          /\ send_qp_num'[k] = QP_START + sent'[k]
      BY <2>1, <2>4, <1>1, <1>2, <1>3, <1>6, <1>7, <3>1 DEF Position
    <3>3. pc'[k] \in {"exchange", "done"}
      BY <1>8
    <3>4. pc'[k] = "exchange" =>
            /\ qp_num'[k] = QP_START + (IF i'[k] <= k THEN i'[k] ELSE i'[k] - 1)
            /\ i'[k] < k => sent'[k] = 0
            /\ i'[k] = k => sent'[k] < total_invoker_num - 1
            /\ i'[k] > k => sent'[k] = total_invoker_num - 1
      BY <1>2, <1>3, <1>7, <1>8, <3>2
    <3>5. pc'[k] = "done" =>
            /\ qp_num'[k] = QP_START + total_invoker_num - 1
            /\ sent'[k] = total_invoker_num - 1
      BY <1>2, <1>3, <1>7, <1>8, <3>2
    <3>6. Position(k)'
      BY <3>2, <3>3, <3>4, <3>5 DEF Position
    <3> QED BY <2>2, <2>4, <3>6
  <2> QED BY <2>3, <2>4
<1> QED BY <1>9, <1>10 DEF TypeInv

\* The connection one reads from was filed by the accept loop.
LEMMA SourceValue ==
  ASSUME TypeInv, NEW k \in Invokers, pc[k] \in {"exchange", "done"}
  PROVE  \A j \in Others(k) : server_socks[k][j] \in Others(k)
<1>1. Position(k) /\ Filled(k)
  BY DEF TypeInv
<1>2. slot_next(k) = total_invoker_num
  BY <1>1 DEF Position
<1>3. \A j \in Others(k) : j < slot_next(k)
  BY <1>2, MeshAssumption DEF Others, Invokers
<1> QED BY <1>1, <1>3, SlotNext DEF Filled

\* One structure is read, or what stands for it at the end.
LEMMA TypeRead ==
  ASSUME TypeInv, NEW k \in Invokers, Read(k)
  PROVE  TypeInv'
<1> USE MeshAssumption
<1> DEFINE p == server_socks[k][i[k]]
           v == IF chan[p][k] # << >> THEN Head(chan[p][k]) ELSE Garbage
           rest == IF chan[p][k] # << >> THEN Tail(chan[p][k]) ELSE chan[p][k]
<1>1. /\ pc[k] = "exchange" /\ i[k] # k /\ NextInfo(k)
      /\ keys' = [keys EXCEPT ![k][qp_num[k]] = v]
      /\ chan' = [chan EXCEPT ![p][k] = rest]
      /\ qp_num' = [qp_num EXCEPT ![k] = @ + 1]
      /\ UNCHANGED <<now, sockVars, send_qp_num, sent, listening, backlog, killed>>
  BY DEF Read
<1>2. /\ Position(k) /\ k \in Nat /\ i[k] \in Invokers /\ i[k] \in Nat
      /\ i[k] <= total_invoker_num - 1 /\ k <= total_invoker_num - 1
      /\ qp_num \in [Invokers -> QP_START .. QP_START + total_invoker_num - 1]
      /\ chan \in [Invokers -> [Invokers -> Seq(Info)]]
  <2>1. /\ Position(k) /\ i[k] \in Invokers
        /\ qp_num \in [Invokers -> QP_START .. QP_START + total_invoker_num - 1]
        /\ chan \in [Invokers -> [Invokers -> Seq(Info)]]
    BY DEF TypeInv, TypeOK
  <2>2. i[k] \in Nat /\ i[k] <= total_invoker_num - 1
        /\ k \in Nat /\ k <= total_invoker_num - 1
    BY <2>1 DEF Invokers
  <2> QED BY <2>1, <2>2
<1>3. qp_num[k] = QP_START + (IF i[k] <= k THEN i[k] ELSE i[k] - 1)
  BY <1>1, <1>2 DEF Position
<1>4. p \in Invokers
  BY <1>1, <1>2, SourceValue DEF Others
<1>5. chan[p][k] \in Seq(Info)
  BY <1>2, <1>4
<1>6. v \in Info \cup {None, Garbage} /\ rest \in Seq(Info)
  BY <1>5, HeadTailProperties
<1> HIDE DEF p, v, rest
<1>7. chan' \in [Invokers -> [Invokers -> Seq(Info)]]
  BY <1>1, <1>2, <1>4, <1>6
<1>8. DOMAIN keys' = Invokers
      /\ \A n \in Invokers : \A q \in DOMAIN keys'[n] : keys'[n][q] \in Info \cup {None, Garbage}
  <2>1. /\ DOMAIN keys = Invokers
        /\ \A n \in Invokers : \A q \in DOMAIN keys[n] : keys[n][q] \in Info \cup {None, Garbage}
    BY DEF TypeInv, TypeOK
  <2>2. DOMAIN keys' = Invokers
    BY <1>1, <2>1
  <2>3. ASSUME NEW n \in Invokers, n # k
        PROVE  keys'[n] = keys[n]
    BY <1>1, <2>1, <2>3
  <2>4. keys'[k] = [keys[k] EXCEPT ![qp_num[k]] = v]
    BY <1>1, <2>1
  <2>5. \A q \in DOMAIN keys'[k] : keys'[k][q] \in Info \cup {None, Garbage}
    BY <1>6, <2>1, <2>4
  <2> QED BY <2>1, <2>2, <2>3, <2>5
<1>9. /\ pc' \in [Invokers ->
           {"connect", "rest", "listen", "accept", "exchange", "done", "exit"}]
      /\ i' \in [Invokers -> Invokers] /\ wake' \in [Invokers -> Nat]
      /\ \A n \in Others(k) : pc'[n] = pc[n] /\ i'[n] = i[n]
      /\ \/ i[k] + 1 = total_invoker_num /\ pc'[k] = "done" /\ i'[k] = i[k]
         \/ i[k] + 1 < total_invoker_num /\ pc'[k] = "exchange" /\ i'[k] = i[k] + 1
  BY <1>1, NextInfoValue
<1>10. /\ qp_num' \in [Invokers -> QP_START .. QP_START + total_invoker_num - 1]
       /\ qp_num'[k] = qp_num[k] + 1 /\ \A n \in Others(k) : qp_num'[n] = qp_num[n]
  <2>1. qp_num[k] + 1 \in QP_START .. QP_START + total_invoker_num - 1
    <3>1. PICK a \in Nat : a = i[k] /\ a # k /\ a <= total_invoker_num - 1
      BY <1>1, <1>2
    <3>2. k \in Nat /\ k <= total_invoker_num - 1
      BY <1>2
    <3>3. qp_num[k] = QP_START + (IF a <= k THEN a ELSE a - 1)
      BY <1>3, <3>1
    <3> QED BY <3>1, <3>2, <3>3
  <2> QED BY <1>1, <1>2, <2>1 DEF Others
<1>11. TypeOK'
  BY <1>1, <1>7, <1>8, <1>9, <1>10 DEF TypeInv, TypeOK, sockVars
<1>12. ASSUME NEW n \in Invokers
       PROVE  Position(n)' /\ Filled(n)'
  <2>1. /\ Position(n) /\ Filled(n)
        /\ slot' = slot /\ sent' = sent /\ send_qp_num' = send_qp_num
        /\ listening' = listening /\ cur_sock' = cur_sock
    BY <1>1 DEF TypeInv, sockVars
  <2>2. Filled(n)'
    BY <2>1, <1>1, FilledKept DEF sockVars
  <2>3. CASE n # k
    BY <2>1, <2>2, <2>3, <1>9, <1>10, PositionKept DEF Others
  <2>4. CASE n = k
    <3>1. slot_next(k)' = slot_next(k)
      BY <2>1 DEF slot_next
    <3>2. /\ cur_sock'[k] = total_invoker_num - 1
          /\ slot_next(k)' = total_invoker_num /\ listening'[k]
          /\ send_qp_num'[k] = QP_START + sent'[k]
          /\ i[k] < k => sent[k] = 0
          /\ i[k] > k => sent[k] = total_invoker_num - 1
      BY <2>1, <2>4, <1>1, <3>1 DEF Position
    <3>3. pc'[k] \in {"exchange", "done"}
      BY <1>9
    <3>7. i[k] \in Nat /\ i[k] <= total_invoker_num - 1 /\ i[k] # k
          /\ k \in Nat /\ k <= total_invoker_num - 1
      BY <1>1, <1>2
    <3>8. qp_num'[k] = QP_START + (IF i[k] <= k THEN i[k] ELSE i[k] - 1) + 1
      BY <1>3, <1>10
    <3>4. pc'[k] = "exchange" =>
            /\ qp_num'[k] = QP_START + (IF i'[k] <= k THEN i'[k] ELSE i'[k] - 1)
            /\ i'[k] < k => sent'[k] = 0
            /\ i'[k] = k => sent'[k] < total_invoker_num - 1
            /\ i'[k] > k => sent'[k] = total_invoker_num - 1
      BY <1>1, <3>7, <3>8, <1>9, <1>10, <2>1, <3>2
    <3>5. pc'[k] = "done" =>
            /\ qp_num'[k] = QP_START + total_invoker_num - 1
            /\ sent'[k] = total_invoker_num - 1
      BY <1>1, <3>7, <3>8, <1>9, <1>10, <2>1, <3>2
    <3>6. Position(k)'
      BY <3>2, <3>3, <3>4, <3>5 DEF Position
    <3> QED BY <2>2, <2>4, <3>6
  <2> QED BY <2>3, <2>4
<1> QED BY <1>11, <1>12 DEF TypeInv

\* Time passes.
LEMMA TypeElapse ==
  ASSUME TypeInv, Elapse
  PROVE  TypeInv'
<1> DEFINE S == {wake[k] : k \in {j \in Invokers : Sleeping(j)}}
<1>1. wake \in [Invokers -> Nat]
  BY DEF TypeInv, TypeOK
<1>2. S \subseteq Nat /\ S # {}
  BY <1>1 DEF Elapse
<1>3. now' = Min(S) /\ UNCHANGED <<loopVars, sockVars, qpVars, netVars, killed>>
  BY DEF Elapse
<1> HIDE DEF S
<1>4. now' \in Nat
  BY <1>2, <1>3, MinIsLeast
<1>5. TypeOK'
  BY <1>3, <1>4 DEF TypeInv, TypeOK, loopVars, sockVars, qpVars, netVars
<1>6. ASSUME NEW k \in Invokers
      PROVE  Position(k)' /\ Filled(k)'
  <2>1. Position(k) /\ Filled(k)
    BY DEF TypeInv
  <2> QED BY <2>1, <1>3, PositionKept, FilledKept
          DEF loopVars, sockVars, qpVars, netVars
<1> QED BY <1>5, <1>6 DEF TypeInv

\* An invoker ends; its counters say nothing any more.
LEMMA TypeEnds ==
  ASSUME TypeInv, NEW k \in Invokers, Ends(k)
  PROVE  TypeInv'
<1>1. /\ killed' = killed \cup {k} /\ pc' = [pc EXCEPT ![k] = "exit"]
      /\ UNCHANGED <<now, wake, i, sockVars, qpVars, netVars>>
  BY DEF Ends
<1>2. /\ pc' \in [Invokers ->
           {"connect", "rest", "listen", "accept", "exchange", "done", "exit"}]
      /\ pc'[k] = "exit" /\ \A j \in Others(k) : pc'[j] = pc[j]
  BY <1>1 DEF TypeInv, TypeOK, Others
<1>3. TypeOK'
  BY <1>1, <1>2 DEF TypeInv, TypeOK, sockVars, qpVars, netVars
<1>4. ASSUME NEW j \in Invokers
      PROVE  Position(j)' /\ Filled(j)'
  <2>1. Position(j) /\ Filled(j)
    BY DEF TypeInv
  <2>2. Filled(j)'
    BY <2>1, <1>1, FilledKept DEF sockVars, netVars
  <2>3. CASE j # k
    BY <2>1, <2>2, <2>3, <1>1, <1>2, PositionKept DEF sockVars, qpVars, netVars, Others
  <2>4. CASE j = k
    BY <2>1, <2>2, <2>4, <1>1, <1>2 DEF sockVars, qpVars, netVars, Position
  <2> QED BY <2>3, <2>4
<1> QED BY <1>3, <1>4 DEF TypeInv

\* Nothing happens.
LEMMA TypeStutter ==
  ASSUME TypeInv, UNCHANGED vars
  PROVE  TypeInv'
<1>1. UNCHANGED <<now, loopVars, sockVars, qpVars, netVars, killed>>
  BY DEF vars
<1>2. TypeOK'
  BY <1>1 DEF TypeInv, TypeOK, loopVars, sockVars, qpVars, netVars
<1>3. ASSUME NEW k \in Invokers
      PROVE  Position(k)' /\ Filled(k)'
  <2>1. Position(k) /\ Filled(k)
    BY DEF TypeInv
  <2> QED BY <2>1, <1>1, PositionKept, FilledKept
          DEF loopVars, sockVars, qpVars, netVars
<1> QED BY <1>2, <1>3 DEF TypeInv

\* Types, for any number of invokers, any sleeps and gaps, and any of them killed: every
\* index of the mesh is within its table, and every invoker's counters agree with the
\* place of the code it has come to.
THEOREM PositionHolds == Spec => []TypeInv
<1>1. TypeInv /\ [Next]_vars => TypeInv'
  <2> SUFFICES ASSUME TypeInv, [Next]_vars
               PROVE  TypeInv'
    OBVIOUS
  <2>1. CASE Elapse
    BY <2>1, TypeElapse
  <2>2. ASSUME NEW k \in Invokers, Invoker(k)
        PROVE  TypeInv'
    BY <2>2, TypeConnect, TypeRestOver, TypeListen, TypeAccept, TypeAcceptEnd,
       TypeWrite, TypeRead, Zenon DEF Invoker
  <2>3. ASSUME NEW k \in Invokers, Ends(k)
        PROVE  TypeInv'
    BY <2>3, TypeEnds
  <2>4. CASE UNCHANGED vars
    BY <2>4, TypeStutter
  <2> QED BY <2>1, <2>2, <2>3, <2>4, Zenon DEF Next
<1> QED BY <1>1, TypeInit, PTL DEF Spec

\* The types, with the indexes of queue pairs within their tables, for any number of
\* invokers (invoker.cpp:300-390).
THEOREM TypesHold == Spec => []TypeOK
<1>1. TypeInv => TypeOK
  BY DEF TypeInv
<1> QED BY <1>1, PositionHolds, PTL

-----------------------------------------------------------------------------
(* Who has come to a server: those filed, then those in the backlog. *)

\* How many were filed; how many came; who came as the r-th, counted from zero.
Taken(k) == IF slot[k] <= k THEN slot[k] ELSE slot[k] - 1
Came(k) == Taken(k) + Len(backlog[k])
Arrival(k, r) ==
  IF r < Taken(k) THEN server_socks[k][peer_inv_ips(k)[r]]
  ELSE backlog[k][r - Taken(k) + 1]

\* Types of these.
LEMMA ArrivalType ==
  ASSUME TypeInv, NEW k \in Invokers
  PROVE  /\ Taken(k) \in 0 .. total_invoker_num - 1
         /\ Taken(k) = total_invoker_num - 1 <=> slot_next(k) = total_invoker_num
         /\ Len(backlog[k]) \in Nat /\ Came(k) \in Nat
         /\ backlog[k] = << >> => Came(k) = Taken(k)
         /\ \A r \in 0 .. Came(k) - 1 : Arrival(k, r) \in Others(k)
<1> USE MeshAssumption
<1>1. slot[k] \in 0 .. total_invoker_num /\ Filled(k)
  BY DEF TypeInv, TypeOK
<1>2. k \in Nat /\ k <= total_invoker_num - 1
  BY DEF Invokers
<1>3. /\ Taken(k) \in 0 .. total_invoker_num - 1
      /\ Taken(k) = total_invoker_num - 1 <=> slot_next(k) = total_invoker_num
  BY <1>1, <1>2 DEF Taken, slot_next
<1>4. backlog[k] \in Seq(Others(k)) /\ Len(backlog[k]) \in Nat
      /\ \A n \in 1 .. Len(backlog[k]) : backlog[k][n] \in Others(k)
  BY <1>1, ElementOfSeq, LenProperties DEF Filled
<1>5. ASSUME NEW r \in 0 .. Came(k) - 1
      PROVE  Arrival(k, r) \in Others(k)
  <2>1. r \in Nat /\ r < Taken(k) + Len(backlog[k])
    BY <1>3, <1>4 DEF Came
  <2>2. CASE r < Taken(k)
    <3>1. r \in 0 .. total_invoker_num - 2
      BY <2>1, <2>2, <1>3
    <3>2. peer_inv_ips(k)[r] \in Others(k) /\ peer_inv_ips(k)[r] < slot[k]
      BY <3>1, <2>2, <1>1, <1>2 DEF peer_inv_ips, Taken, Others, Invokers
    <3> QED BY <3>2, <2>2, <1>1 DEF Arrival, Filled
  <2>3. CASE ~(r < Taken(k))
    <3>1. r - Taken(k) + 1 \in 1 .. Len(backlog[k])
      BY <2>1, <2>3, <1>3, <1>4
    <3> QED BY <3>1, <2>3, <1>4 DEF Arrival
  <2> QED BY <2>2, <2>3
<1>6. Came(k) \in Nat
  BY <1>3, <1>4 DEF Came
<1>7. backlog[k] = << >> => Came(k) = Taken(k)
  BY <1>3, EmptySeq DEF Came
<1> QED BY <1>3, <1>4, <1>5, <1>6, <1>7

\* Only Connect and Accept have to do with it.
LEMMA ArrivalKept ==
  ASSUME NEW k, slot'[k] = slot[k], server_socks'[k] = server_socks[k],
         backlog'[k] = backlog[k]
  PROVE  /\ Came(k)' = Came(k)
         /\ \A r : Arrival(k, r)' = Arrival(k, r)
BY DEF Came, Taken, Arrival, peer_inv_ips

\* Accept files the first of the backlog at the next place: the order stays.
LEMMA AcceptArrival ==
  ASSUME TypeInv, NEW k \in Invokers, Accept(k)
  PROVE  /\ \A n \in Invokers : Came(n)' = Came(n)
         /\ \A n \in Invokers : \A r \in 0 .. Came(n) - 1 : Arrival(n, r)' = Arrival(n, r)
<1> USE MeshAssumption
<1> DEFINE j == slot_next(k)
           x == Head(backlog[k])
           b == backlog[k]
           t == Taken(k)
<1>1. /\ j < total_invoker_num /\ b # << >>
      /\ server_socks' = [server_socks EXCEPT ![k][j] = x]
      /\ backlog' = [backlog EXCEPT ![k] = Tail(b)]
      /\ slot' = [slot EXCEPT ![k] = j + 1]
  BY DEF Accept
<1>2. /\ k \in Nat /\ k <= total_invoker_num - 1
      /\ slot \in [Invokers -> 0 .. total_invoker_num]
      /\ backlog \in [Invokers -> Seq(Invokers)]
      /\ server_socks \in [Invokers -> [Invokers -> Invokers \cup {None}]]
      /\ Filled(k)
  <2>1. /\ slot \in [Invokers -> 0 .. total_invoker_num]
        /\ backlog \in [Invokers -> Seq(Invokers)]
        /\ server_socks \in [Invokers -> [Invokers -> Invokers \cup {None}]]
        /\ Filled(k)
    BY DEF TypeInv, TypeOK
  <2> QED BY <2>1 DEF Invokers
<1>3. /\ b \in Seq(Invokers)
      /\ Len(Tail(b)) = Len(b) - 1 /\ Len(b) \in Nat /\ Len(b) >= 1
      /\ b[1] = x
      /\ \A n \in 1 .. Len(b) - 1 : Tail(b)[n] = b[n + 1]
  <2>1. b \in Seq(Invokers)
    BY <1>2
  <2> HIDE DEF b
  <2>2. Len(b) \in Nat /\ Len(b) # 0
    BY <2>1, <1>1, LenProperties, EmptySeq
  <2> QED BY <2>1, <2>2, <1>1, HeadTailProperties DEF x, b
<1>4. /\ slot'[k] = j + 1 /\ backlog'[k] = Tail(b)
      /\ server_socks'[k][j] = x
      /\ \A n \in Invokers : n # j => server_socks'[k][n] = server_socks[k][n]
      /\ \A n \in Others(k) : /\ slot'[n] = slot[n] /\ backlog'[n] = backlog[n]
                              /\ server_socks'[n] = server_socks[n]
  BY <1>1, <1>2, SlotNext DEF Others
<1>5. /\ t \in Nat /\ t < total_invoker_num - 1
      /\ peer_inv_ips(k)[t] = j
      /\ Taken(k)' = t + 1
  <2>1. slot[k] \in 0 .. total_invoker_num
    BY <1>2
  <2>2. Taken(k)' = IF j + 1 <= k THEN j + 1 ELSE (j + 1) - 1
    BY <1>4 DEF Taken
  <2> QED BY SMTT(30), <1>1, <1>2, <2>1, <2>2 DEF Taken, slot_next, peer_inv_ips
<1> HIDE DEF j, x, b, t
<1>6. Came(k)' = Came(k) /\ Came(k) = t + Len(b)
  BY <1>3, <1>4, <1>5 DEF Came, t, b
<1>7. ASSUME NEW r \in 0 .. Came(k) - 1
      PROVE  Arrival(k, r)' = Arrival(k, r)
  <2>1. r \in Nat /\ r < t + Len(b)
    BY <1>3, <1>5, <1>6
  <2>2. CASE r < t
    <3>1. r \in 0 .. total_invoker_num - 2
      BY <2>1, <2>2, <1>5
    <3>2. peer_inv_ips(k)[r] \in Invokers /\ peer_inv_ips(k)[r] # j
          /\ t \in 0 .. total_invoker_num - 2
      BY <3>1, <2>2, <1>5, RankOfPeer DEF Others
    <3>3. Arrival(k, r)' = server_socks'[k][peer_inv_ips(k)[r]]
      BY <2>1, <2>2, <1>5 DEF Arrival, peer_inv_ips
    <3>4. Arrival(k, r) = server_socks[k][peer_inv_ips(k)[r]]
      BY <2>2 DEF Arrival, t
    <3> QED BY <3>2, <3>3, <3>4, <1>4
  <2>3. CASE r = t
    <3>1. Arrival(k, r)' = server_socks'[k][peer_inv_ips(k)[r]]
      BY <2>1, <2>3, <1>5 DEF Arrival, peer_inv_ips
    <3>2. Arrival(k, r) = b[1]
      <4>1. ~(r < t) /\ r - t + 1 = 1
        BY <2>3, <1>5
      <4> QED BY <4>1 DEF Arrival, t, b
    <3> QED BY <3>1, <3>2, <2>3, <1>3, <1>4, <1>5
  <2>4. CASE r > t
    <3>1. Arrival(k, r)' = Tail(b)[r - (t + 1) + 1]
      <4>1. ~(r < t + 1)
        BY <2>1, <2>4, <1>5
      <4> QED BY <4>1, <1>4, <1>5 DEF Arrival
    <3>2. Arrival(k, r) = b[r - t + 1]
      <4>1. ~(r < t)
        BY <2>1, <2>4, <1>5
      <4> QED BY <4>1 DEF Arrival, t, b
    <3>3. r - t \in 1 .. Len(b) - 1 /\ r - (t + 1) + 1 = r - t
      BY SMTT(30), <2>1, <2>4, <1>3, <1>5
    <3> QED BY <3>1, <3>2, <3>3, <1>3
  <2> QED BY <2>1, <2>2, <2>3, <2>4, <1>5
<1>8. ASSUME NEW n \in Invokers, n # k
      PROVE  Came(n)' = Came(n) /\ \A r : Arrival(n, r)' = Arrival(n, r)
  BY <1>4, <1>8, ArrivalKept DEF Others
<1> QED BY <1>6, <1>7, <1>8

\* A connection made puts its maker behind those who came before.
LEMMA ConnectArrival ==
  ASSUME TypeInv, NEW k \in Invokers, Connect(k), NEW s \in Invokers, s = i[k],
         listening[s], pc[s] # "exit"
  PROVE  /\ Came(s)' = Came(s) + 1
         /\ \A r \in 0 .. Came(s) - 1 : Arrival(s, r)' = Arrival(s, r)
         /\ \A r : r = Came(s) => Arrival(s, r)' = k
         /\ \A n \in Others(s) :
              /\ Came(n)' = Came(n)
              /\ \A r : Arrival(n, r)' = Arrival(n, r)
<1> DEFINE b == backlog[s]
           t == Taken(s)
<1>1. /\ backlog' = [backlog EXCEPT ![s] = Append(b, k)]
      /\ slot' = slot /\ server_socks' = server_socks
  BY ConnectValue
<1>2. backlog \in [Invokers -> Seq(Invokers)] /\ b \in Seq(Invokers)
  BY DEF TypeInv, TypeOK
<1>3. /\ Len(Append(b, k)) = Len(b) + 1 /\ Len(b) \in Nat
      /\ Append(b, k)[Len(b) + 1] = k
      /\ \A n \in 1 .. Len(b) : Append(b, k)[n] = b[n]
  BY <1>2, AppendProperties, LenProperties
<1>4. backlog'[s] = Append(b, k) /\ \A n \in Others(s) : backlog'[n] = backlog[n]
  BY <1>1, <1>2 DEF Others
<1>5. t \in Nat /\ Came(s) = t + Len(b)
  BY <1>2, ArrivalType DEF Came
<1>6. Taken(s)' = t
  BY <1>1 DEF Taken
<1> HIDE DEF b, t
<1>7. \A n \in Others(s) : Came(n)' = Came(n) /\ \A r : Arrival(n, r)' = Arrival(n, r)
  BY <1>1, <1>4, ArrivalKept
<1>8. Came(s)' = Came(s) + 1
  BY <1>3, <1>4, <1>5, <1>6 DEF Came
<1>9. ASSUME NEW r \in 0 .. Came(s)
      PROVE  Arrival(s, r)' = IF r = Came(s) THEN k ELSE Arrival(s, r)
  <2>1. r \in Nat /\ r <= t + Len(b)
    BY <1>3, <1>5
  <2>2. CASE r < t
    <3>1. Arrival(s, r)' = server_socks[s][peer_inv_ips(s)[r]]
      BY <2>2, <1>1, <1>6 DEF Arrival, peer_inv_ips
    <3>2. Arrival(s, r) = server_socks[s][peer_inv_ips(s)[r]]
      BY <2>2 DEF Arrival, t
    <3>3. r # Came(s)
      BY <2>1, <2>2, <1>3, <1>5
    <3> QED BY <3>1, <3>2, <3>3
  <2>3. CASE ~(r < t)
    <3>1. Arrival(s, r)' = Append(b, k)[r - t + 1]
      BY <2>3, <1>4, <1>6 DEF Arrival
    <3>2. Arrival(s, r) = b[r - t + 1]
      BY <2>3 DEF Arrival, t, b
    <3>3. CASE r = Came(s)
      <4>1. r - t + 1 = Len(b) + 1
        BY <3>3, <1>3, <1>5
      <4> QED BY <4>1, <3>1, <3>3, <1>3
    <3>4. CASE r # Came(s)
      <4>1. r - t + 1 \in 1 .. Len(b)
        BY <3>4, <2>1, <2>3, <1>3, <1>5
      <4> QED BY <4>1, <3>1, <3>2, <3>4, <1>3
    <3> QED BY <3>3, <3>4
  <2> QED BY <2>2, <2>3
<1>10. Came(s) \in Nat
  BY <1>3, <1>5
<1> QED BY <1>7, <1>8, <1>9, <1>10

-----------------------------------------------------------------------------
(* The timetable is kept. *)

\* A sleep ends when the timetable says.
Punctual(st, k) ==
  /\ pc[k] = "connect" => wake[k] = Meets(st, k, i[k])
  /\ pc[k] = "rest" => wake[k] + sleep_time(k) = Meets(st, k, i[k] + 1)
  /\ pc[k] = "listen" => wake[k] = Opens(st, k)
  /\ pc[k] \in {"connect", "rest", "listen"} => now <= wake[k]

\* Whoever came to server k came once, at the time the timetable says.
Guests(st, k) ==
  \A r \in 0 .. Came(k) - 1 :
    /\ cur_sock[Arrival(k, r)] > Rank(Arrival(k, r), k)
    /\ Meets(st, Arrival(k, r), k) <= now
    /\ \A q \in 0 .. r - 1 : Arrival(k, q) # Arrival(k, r)

\* A server that all have come to does not stay.
Complete(st, k) ==
  pc[k] = "accept" /\ Came(k) = total_invoker_num - 1 => now <= Meets(st, LastBut(k), k)

KeepsTime(st) ==
  \A k \in Invokers : Punctual(st, k) /\ Guests(st, k) /\ Complete(st, k)

\* Time, as numbers.
LEMMA TimeTypes ==
  ASSUME TypeInv
  PROVE  /\ now \in Nat
         /\ \A k \in Invokers : wake[k] \in Nat /\ cur_sock[k] \in Nat
BY DEF TypeInv, TypeOK

\* If all came, everybody came: they are as many as there are others (pigeonholes).
LEMMA AllCame ==
  ASSUME TypeInv, NEW st, NEW k \in Invokers, Guests(st, k),
         Came(k) >= total_invoker_num - 1
  PROVE  /\ Came(k) = total_invoker_num - 1
         /\ \A y \in Others(k) : \E r \in 0 .. Came(k) - 1 : Arrival(k, r) = y
<1> USE MeshAssumption
<1> DEFINE D == 0 .. total_invoker_num - 2
           f == [r \in D |-> Rank(k, Arrival(k, r))]
<1>1. Came(k) \in Nat /\ \A r \in 0 .. Came(k) - 1 : Arrival(k, r) \in Others(k)
  BY ArrivalType
<1>2. \A r \in 0 .. Came(k) - 1 : Rank(k, Arrival(k, r)) \in D
  BY <1>1, RankOfPeer
<1>3. \A x, y \in Others(k) : Rank(k, x) = Rank(k, y) => x = y
  BY RankOfPeer
<1>4. D \subseteq 0 .. Came(k) - 1
  BY <1>1
<1>5. \A q, r \in 0 .. Came(k) - 1 : q # r => Arrival(k, q) # Arrival(k, r)
  <2> SUFFICES ASSUME NEW q \in 0 .. Came(k) - 1, NEW r \in 0 .. Came(k) - 1, q # r
               PROVE  Arrival(k, q) # Arrival(k, r)
    OBVIOUS
  <2>1. CASE q < r
    <3>1. q \in 0 .. r - 1
      BY <2>1, <1>1
    <3> QED BY <3>1 DEF Guests
  <2>2. CASE r < q
    <3>1. r \in 0 .. q - 1
      BY <2>2, <1>1
    <3> QED BY <3>1 DEF Guests
  <2> QED BY <2>1, <2>2, <1>1
<1>6. f \in Injection(D, D)
  <2>1. f \in [D -> D]
    BY <1>2, <1>4
  <2>2. ASSUME NEW q \in D, NEW r \in D, f[q] = f[r]
        PROVE  q = r
    <3>1. Rank(k, Arrival(k, q)) = Rank(k, Arrival(k, r))
      BY <2>2
    <3>2. q \in 0 .. Came(k) - 1 /\ r \in 0 .. Came(k) - 1
      BY <1>4
    <3>3. Arrival(k, q) = Arrival(k, r)
      BY <3>1, <3>2, <1>1, <1>3
    <3> QED BY <3>2, <3>3, <1>5
  <2> HIDE DEF f, D
  <2>3. DOMAIN f = D
    BY <2>1
  <2> QED BY <2>1, <2>2, <2>3, Zenon DEF Injection, IsInjective
<1>7. f \in Surjection(D, D)
  <2>1. IsFiniteSet(D)
    BY FS_Interval
  <2> HIDE DEF f, D
  <2> QED BY <1>6, <2>1, FS_Injection
<1>8. \A m \in D : \E r \in D : Rank(k, Arrival(k, r)) = m
  <2>1. \A m \in D : \E r \in D : f[r] = m
    <3> HIDE DEF f, D
    <3> QED BY <1>7, Zenon DEF Surjection
  <2> QED BY <2>1
<1>9. ASSUME NEW y \in Others(k)
      PROVE  \E r \in 0 .. Came(k) - 1 : Arrival(k, r) = y
  <2>1. Rank(k, y) \in D
    BY RankOfPeer
  <2>2. PICK r \in D : Rank(k, Arrival(k, r)) = Rank(k, y)
    BY <2>1, <1>8
  <2>3. r \in 0 .. Came(k) - 1
    BY <1>4
  <2> QED BY <2>2, <2>3, <1>1, <1>3
<1>10. Came(k) = total_invoker_num - 1
  <2> SUFFICES ASSUME Came(k) # total_invoker_num - 1
               PROVE  FALSE
    OBVIOUS
  <2>1. total_invoker_num - 1 \in 0 .. Came(k) - 1 /\ total_invoker_num - 1 \notin D
    BY <1>1
  <2>2. PICK r \in D :
          Rank(k, Arrival(k, r)) = Rank(k, Arrival(k, total_invoker_num - 1))
    BY <2>1, <1>2, <1>8
  <2>3. r \in 0 .. Came(k) - 1 /\ r # total_invoker_num - 1
    BY <1>4, <2>1
  <2>4. Arrival(k, r) = Arrival(k, total_invoker_num - 1)
    BY <2>1, <2>2, <2>3, <1>1, <1>3
  <2> QED BY <2>1, <2>3, <2>4, <1>5
<1> QED BY <1>9, <1>10

\* A server that comes out of accept does so when the last has come.
LEMMA LeavesOnTime ==
  ASSUME TypeInv, NEW st \in Starts, NEW k \in Invokers, Guests(st, k), Complete(st, k),
         pc[k] = "accept", slot_next(k) = total_invoker_num
  PROVE  now = Meets(st, LastBut(k), k)
<1>1. Came(k) >= total_invoker_num - 1
  BY ArrivalType, MeshAssumption DEF Came
<1>2. /\ Came(k) = total_invoker_num - 1
      /\ \A y \in Others(k) : \E r \in 0 .. Came(k) - 1 : Arrival(k, r) = y
  BY <1>1, AllCame
<1>3. LastBut(k) \in Others(k)
  BY MeetsLast
<1>4. Meets(st, LastBut(k), k) <= now
  BY <1>2, <1>3 DEF Guests
<1>5. now <= Meets(st, LastBut(k), k)
  BY <1>2 DEF Complete
<1>6. Meets(st, LastBut(k), k) \in Nat
  BY <1>3, MeetsType
<1> QED BY <1>4, <1>5, <1>6, TimeTypes

\* What stays the same at k: a step of another invoker that takes no time.
LEMMA PunctualKept ==
  ASSUME NEW st, NEW k, Punctual(st, k), now' = now,
         pc'[k] = pc[k], wake'[k] = wake[k], i'[k] = i[k]
  PROVE  Punctual(st, k)'
BY DEF Punctual, Meets, Opens, sleep_time, tot_sleep_time, LastInvoker

\* Who came stays, and time goes on only.
LEMMA GuestsKept ==
  ASSUME TypeInv, NEW st \in Starts, NEW k \in Invokers, Guests(st, k),
         Came(k)' = Came(k),
         \A r \in 0 .. Came(k) - 1 : Arrival(k, r)' = Arrival(k, r),
         now' \in Nat, now <= now', \A y \in Invokers : cur_sock'[y] = cur_sock[y]
  PROVE  Guests(st, k)'
<1> SUFFICES ASSUME NEW r \in 0 .. Came(k) - 1
             PROVE  /\ cur_sock'[Arrival(k, r)] > Rank(Arrival(k, r), k)
                    /\ Meets(st, Arrival(k, r), k) <= now'
                    /\ \A q \in 0 .. r - 1 : Arrival(k, q)' # Arrival(k, r)
  <2>1. \A r \in 0 .. Came(k) - 1 :
          Rank(Arrival(k, r), k)' = Rank(Arrival(k, r), k)
          /\ Meets(st, Arrival(k, r), k)' = Meets(st, Arrival(k, r), k)
    BY DEF Rank, Meets, tot_sleep_time, LastInvoker
  <2> QED BY <2>1 DEF Guests
<1>1. Arrival(k, r) \in Others(k) /\ Came(k) \in Nat
  BY ArrivalType
<1>2. /\ cur_sock[Arrival(k, r)] > Rank(Arrival(k, r), k)
      /\ Meets(st, Arrival(k, r), k) <= now
      /\ \A q \in 0 .. r - 1 : Arrival(k, q) # Arrival(k, r)
  BY DEF Guests
<1>3. Meets(st, Arrival(k, r), k) \in Nat
  BY <1>1, MeetsType
<1>4. Meets(st, Arrival(k, r), k) <= now'
  BY <1>2, <1>3, TimeTypes
<1>5. \A q \in 0 .. r - 1 : q \in 0 .. Came(k) - 1
  BY <1>1
<1> QED BY <1>1, <1>2, <1>4, <1>5 DEF Others

\* The bound on the stay of a server, if none comes.
LEMMA CompleteKept ==
  ASSUME NEW st, NEW k, Complete(st, k), now' = now, pc'[k] = pc[k], Came(k)' = Came(k)
  PROVE  Complete(st, k)'
BY DEF Complete, Meets, LastBut, tot_sleep_time, LastInvoker

\* It begins on time: the first sleeps start with the invokers.
LEMMA TimeInit ==
  ASSUME Init, NEW st \in Starts, wake = [k \in Invokers |-> st[k] + Delay(k, 0)]
  PROVE  KeepsTime(st)
<1> USE MeshAssumption
<1>1. now = 0
  BY DEF Init
<1>2. ASSUME NEW k \in Invokers
      PROVE  Punctual(st, k) /\ Guests(st, k) /\ Complete(st, k)
  <2>1. /\ pc[k] = Turn(k, 0) /\ i[k] = 0 /\ slot[k] = 0 /\ backlog[k] = << >>
        /\ wake[k] = st[k] + Delay(k, 0) /\ st[k] \in Nat
        /\ k \in Nat /\ 0 # total_invoker_num /\ 0 \in Invokers
    <3>1. /\ pc[k] = Turn(k, 0) /\ i[k] = 0 /\ slot[k] = 0 /\ backlog[k] = << >>
          /\ wake[k] = st[k] + Delay(k, 0)
      BY DEF Init
    <3>2. st[k] \in Nat
      BY DEF Starts
    <3>3. k \in Nat /\ 0 # total_invoker_num /\ 0 \in Invokers
      BY DEF Invokers
    <3> QED BY <3>1, <3>2, <3>3
  <2>2. Came(k) = 0
    BY <2>1, EmptySeq DEF Came, Taken
  <2>3. Guests(st, k)
    BY <2>2 DEF Guests
  <2>4. CASE k = 0
    <3>1. pc[k] = "listen" /\ Delay(k, 0) = 0
      BY <2>1, <2>4 DEF Turn, Delay
    <3>2. wake[k] = Opens(st, k) /\ now <= wake[k]
      BY <2>1, <2>4, <3>1, <1>1 DEF Opens
    <3> QED BY <2>3, <3>1, <3>2 DEF Punctual, Complete
  <2>5. CASE k # 0
    <3>1. Turn(k, 0) = "connect"
      BY <2>1, <2>5, Zenon DEF Turn
    <3>2. pc[k] = "connect" /\ Delay(k, 0) = sleep_time(k)
      BY <2>1, <3>1, Zenon DEF Delay
    <3>3. 0 \in 0 .. total_invoker_num /\ 0 < k /\ 0 * tot_sleep_time = 0
      BY <2>1, <2>5, Sleeps
    <3>4. Meets(st, k, 0) = st[k] + 0 * tot_sleep_time + sleep_time(k)
      BY <3>3, <2>5, MeetsValue
    <3>5. wake[k] = Meets(st, k, i[k]) /\ now <= wake[k]
      BY <2>1, <3>2, <3>3, <3>4, <1>1, Sleeps
    <3> QED BY <2>3, <3>2, <3>5 DEF Punctual, Complete
  <2> QED BY <2>4, <2>5
<1> QED BY <1>1, <1>2 DEF KeepsTime

\* An invoker that is awake is on time.
LEMMA OnTime ==
  ASSUME TypeInv, NEW st, NEW k \in Invokers, Punctual(st, k), Awake(k),
         pc[k] \in {"connect", "rest", "listen"}
  PROVE  now = wake[k]
BY TimeTypes DEF Punctual, Awake

\* A step of invoker k that takes no time, makes no connection, and leaves k where the
\* timetable wants it.
LEMMA TimeLocal ==
  ASSUME TypeInv, NEW st \in Starts, KeepsTime(st), NEW k \in Invokers,
         now' = now,
         \A j \in Others(k) : pc'[j] = pc[j] /\ wake'[j] = wake[j] /\ i'[j] = i[j],
         \A y \in Invokers : cur_sock'[y] = cur_sock[y],
         \A n \in Invokers :
           /\ Came(n)' = Came(n)
           /\ \A r \in 0 .. Came(n) - 1 : Arrival(n, r)' = Arrival(n, r),
         Punctual(st, k)', Complete(st, k)'
  PROVE  KeepsTime(st)'
<1>2. ASSUME NEW n \in Invokers
      PROVE  (Punctual(st, n) /\ Guests(st, n) /\ Complete(st, n))'
  <2>1. Punctual(st, n) /\ Guests(st, n) /\ Complete(st, n)
    BY DEF KeepsTime
  <2>2. now' \in Nat /\ now <= now'
    BY TimeTypes
  <2>3. Guests(st, n)'
    BY <2>1, <2>2, GuestsKept
  <2>4. CASE n = k
    BY <2>3, <2>4
  <2>5. CASE n # k
    BY <2>1, <2>3, <2>5, PunctualKept, CompleteKept DEF Others
  <2> QED BY <2>4, <2>5
<1> QED BY <1>2 DEF KeepsTime

\* The step lemmas: each action keeps the timetable.  The sleep after a connection leads
\* to the next connection.
LEMMA TimeRestOver ==
  ASSUME TypeInv, NEW st \in Starts, KeepsTime(st), NEW k \in Invokers, RestOver(k)
  PROVE  KeepsTime(st)'
<1> USE MeshAssumption
<1>1. /\ pc[k] = "rest" /\ Awake(k) /\ GoTo(k, i[k] + 1)
      /\ UNCHANGED <<now, sockVars, qpVars, netVars, killed>>
  BY DEF RestOver
<1>2. /\ i[k] \in Invokers /\ Position(k) /\ Punctual(st, k)
  BY DEF TypeInv, TypeOK, KeepsTime
<1>3. i[k] + 1 # k /\ i[k] + 1 \in 1 .. total_invoker_num
  BY <1>1, <1>2 DEF Position, Invokers
<1>4. now = wake[k]
  BY <1>1, <1>2, OnTime
<1>5. /\ pc'[k] = Turn(k, i[k] + 1) /\ wake'[k] = now + Delay(k, i[k] + 1)
      /\ i'[k] = (IF i[k] + 1 = total_invoker_num THEN 0 ELSE i[k] + 1)
      /\ \A j \in Others(k) : pc'[j] = pc[j] /\ wake'[j] = wake[j] /\ i'[j] = i[j]
  BY <1>1, <1>3, GoToValue
<1>6. /\ \A y \in Invokers : cur_sock'[y] = cur_sock[y]
      /\ \A n \in Invokers :
           /\ Came(n)' = Came(n)
           /\ \A r \in 0 .. Came(n) - 1 : Arrival(n, r)' = Arrival(n, r)
  BY <1>1, ArrivalKept DEF sockVars, netVars
<1>7. Punctual(st, k)' /\ Complete(st, k)'
  <2>1. CASE i[k] + 1 = total_invoker_num
    <3>1. pc'[k] = "exchange"
      BY <2>1, <1>3, <1>5, TurnValue
    <3> QED BY <3>1 DEF Punctual, Complete
  <2>2. CASE i[k] + 1 # total_invoker_num
    <3>1. /\ pc'[k] = "connect" /\ wake'[k] = now + sleep_time(k)
          /\ i'[k] = i[k] + 1
      BY <2>2, <1>3, <1>5, TurnValue
    <3>2. wake'[k] = Meets(st, k, i'[k])
      BY <3>1, <1>1, <1>2, <1>4 DEF Punctual
    <3>3. now' <= wake'[k]
      BY <3>1, <1>1, TimeTypes, Sleeps
    <3>4. Meets(st, k, i[k])' = Meets(st, k, i'[k])
      BY DEF Meets, tot_sleep_time, LastInvoker
    <3> QED BY <3>1, <3>2, <3>3, <3>4 DEF Punctual, Complete
  <2> QED BY <2>1, <2>2
<1> QED BY <1>1, <1>5, <1>6, <1>7, TimeLocal

\* The server opens before the last to connect to it is due.
LEMMA TimeListen ==
  ASSUME TypeInv, NEW st \in Starts, KeepsTime(st), NEW k \in Invokers, Listen(k)
  PROVE  KeepsTime(st)'
<1>1. /\ pc[k] = "listen" /\ Awake(k) /\ pc' = [pc EXCEPT ![k] = "accept"]
      /\ UNCHANGED <<now, wake, i, sockVars, qpVars, backlog, chan, killed>>
  BY DEF Listen
<1>2. Punctual(st, k)
  BY DEF KeepsTime
<1>3. pc'[k] = "accept" /\ \A j \in Others(k) : pc'[j] = pc[j]
  BY <1>1 DEF TypeInv, TypeOK, Others
<1>4. /\ \A y \in Invokers : cur_sock'[y] = cur_sock[y]
      /\ \A n \in Invokers :
           /\ Came(n)' = Came(n)
           /\ \A r \in 0 .. Came(n) - 1 : Arrival(n, r)' = Arrival(n, r)
  BY <1>1, ArrivalKept DEF sockVars
<1>5. now <= Meets(st, LastBut(k), k)
  <2>1. now = Opens(st, k)
    BY <1>1, <1>2, OnTime DEF Punctual
  <2>2. LastBut(k) \in Others(k)
    BY MeetsLast
  <2>3. Opens(st, k) < Meets(st, LastBut(k), k) /\ Opens(st, k) \in Nat
    BY <2>2, OpensFirst DEF Others
  <2>4. Meets(st, LastBut(k), k) \in Nat
    BY <2>2, MeetsType
  <2> QED BY <2>1, <2>3, <2>4
<1>6. Punctual(st, k)' /\ Complete(st, k)'
  <2>1. (now <= Meets(st, LastBut(k), k))'
    BY <1>1, <1>5 DEF Meets, LastBut, tot_sleep_time, LastInvoker
  <2> QED BY <1>3, <2>1 DEF Punctual, Complete
<1> QED BY <1>1, <1>3, <1>4, <1>6, TimeLocal

\* Filing takes no time and keeps the order.
LEMMA TimeAccept ==
  ASSUME TypeInv, NEW st \in Starts, KeepsTime(st), NEW k \in Invokers, Accept(k)
  PROVE  KeepsTime(st)'
<1>1. UNCHANGED <<now, loopVars, cur_sock>>
  BY DEF Accept
<1>2. Punctual(st, k) /\ Complete(st, k)
  BY DEF KeepsTime
<1>3. \A n \in Invokers :
        /\ Came(n)' = Came(n)
        /\ \A r \in 0 .. Came(n) - 1 : Arrival(n, r)' = Arrival(n, r)
  BY AcceptArrival
<1>4. now' = now /\ pc' = pc /\ wake' = wake /\ i' = i /\ cur_sock' = cur_sock
  BY <1>1 DEF loopVars
<1>5. Punctual(st, k)' /\ Complete(st, k)'
  BY <1>2, <1>3, <1>4, PunctualKept, CompleteKept
<1> QED BY <1>3, <1>4, <1>5, TimeLocal

\* All have come, so the last one came now: from here the server is on its time.
LEMMA TimeAcceptEnd ==
  ASSUME TypeInv, NEW st \in Starts, KeepsTime(st), NEW k \in Invokers, AcceptEnd(k)
  PROVE  KeepsTime(st)'
<1> USE MeshAssumption
<1>1. /\ pc[k] = "accept" /\ slot_next(k) = total_invoker_num /\ GoTo(k, i[k] + 1)
      /\ UNCHANGED <<now, sockVars, qpVars, netVars, killed>>
  BY DEF AcceptEnd
<1>2. Position(k) /\ Guests(st, k) /\ Complete(st, k)
  BY DEF TypeInv, KeepsTime
<1>3. i[k] = k /\ k \in Nat /\ k + 1 \in 1 .. total_invoker_num /\ k + 1 # k
  BY <1>1, <1>2 DEF Position, Invokers
<1>4. now = Meets(st, LastBut(k), k)
  BY <1>1, <1>2, LeavesOnTime
<1>5. /\ pc'[k] = Turn(k, k + 1) /\ wake'[k] = now + Delay(k, k + 1)
      /\ i'[k] = (IF k + 1 = total_invoker_num THEN 0 ELSE k + 1)
      /\ \A j \in Others(k) : pc'[j] = pc[j] /\ wake'[j] = wake[j] /\ i'[j] = i[j]
  BY <1>1, <1>3, GoToValue
<1>6. /\ \A y \in Invokers : cur_sock'[y] = cur_sock[y]
      /\ \A n \in Invokers :
           /\ Came(n)' = Came(n)
           /\ \A r \in 0 .. Came(n) - 1 : Arrival(n, r)' = Arrival(n, r)
  BY <1>1, ArrivalKept DEF sockVars, netVars
<1>7. Punctual(st, k)' /\ Complete(st, k)'
  <2>1. CASE k + 1 = total_invoker_num
    <3>1. pc'[k] = "exchange"
      BY <2>1, <1>3, <1>5, TurnValue
    <3> QED BY <3>1 DEF Punctual, Complete
  <2>2. CASE k + 1 # total_invoker_num
    <3>1. /\ pc'[k] = "connect" /\ wake'[k] = now + sleep_time(k)
          /\ i'[k] = k + 1
      BY <2>2, <1>3, <1>5, TurnValue
    <3>2. k # LastInvoker /\ LastBut(k) = LastInvoker
      BY <2>2, <1>3 DEF LastInvoker, LastBut
    <3>3. wake'[k] = Meets(st, k, i'[k])
      BY <3>1, <3>2, <1>4, MeetsAfterTurn
    <3>4. now' <= wake'[k]
      BY <3>1, <1>1, TimeTypes, Sleeps
    <3>5. Meets(st, k, i[k])' = Meets(st, k, i'[k])
      BY DEF Meets, tot_sleep_time, LastInvoker
    <3> QED BY <3>1, <3>3, <3>4, <3>5 DEF Punctual, Complete
  <2> QED BY <2>1, <2>2
<1> QED BY <1>1, <1>5, <1>6, <1>7, TimeLocal

\* An invoker connects when it is due; refused, it is off the timetable.
LEMMA TimeConnect ==
  ASSUME TypeInv, NEW st \in Starts, KeepsTime(st), NEW k \in Invokers, Connect(k)
  PROVE  KeepsTime(st)'
<1> USE MeshAssumption
<1>1. PICK s \in Others(k) : s = i[k]
  BY ServerValue DEF Connect
<1>2. /\ pc[k] = "connect" /\ Awake(k) /\ s \in Invokers /\ s # k /\ k \in Others(s)
      /\ cur_sock[k] = Rank(k, s) /\ now \in Nat
  BY <1>1, ServerValue, TimeTypes DEF Connect, Others
<1>3. /\ Punctual(st, k) /\ Position(k) /\ k \in Nat /\ s \in Nat
  BY <1>2 DEF TypeInv, KeepsTime, Invokers
<1>4. now = wake[k] /\ now = Meets(st, k, s)
  BY <1>1, <1>2, <1>3, OnTime DEF Punctual
<1>6. CASE listening[s] /\ pc[s] # "exit"
  <2>1. /\ cur_sock' = [cur_sock EXCEPT ![k] = @ + 1]
        /\ now' = now
        /\ IF k = s + 1
           THEN GoTo(k, s + 1)
           ELSE /\ pc' = [pc EXCEPT ![k] = "rest"]
                /\ wake' = [wake EXCEPT ![k] = now + (tot_sleep_time - sleep_time(k))]
                /\ i' = i
    BY <1>1, <1>6, ConnectValue
  <2>2. /\ Came(s)' = Came(s) + 1
        /\ \A r \in 0 .. Came(s) - 1 : Arrival(s, r)' = Arrival(s, r)
        /\ \A r : r = Came(s) => Arrival(s, r)' = k
        /\ \A n \in Others(s) :
             /\ Came(n)' = Came(n)
             /\ \A r : Arrival(n, r)' = Arrival(n, r)
    BY <1>1, <1>2, <1>6, ConnectArrival
  <2>3. /\ cur_sock'[k] = Rank(k, s) + 1
        /\ \A y \in Others(k) : cur_sock'[y] = cur_sock[y]
        /\ \A y \in Invokers : cur_sock'[y] >= cur_sock[y]
    <3>1. cur_sock \in [Invokers -> 0 .. total_invoker_num - 1]
      BY DEF TypeInv, TypeOK
    <3>2. \A y \in Others(k) : cur_sock'[y] = cur_sock[y]
      BY <2>1, <3>1 DEF Others
    <3>3. cur_sock'[k] = cur_sock[k] + 1
      BY <2>1, <3>1
    <3>4. \A y \in Invokers : cur_sock[y] \in Nat
      BY <3>1
    <3> QED BY <3>2, <3>3, <3>4, <1>2 DEF Others
  <2>4. /\ Punctual(st, k)'
        /\ \A j \in Others(k) : pc'[j] = pc[j] /\ wake'[j] = wake[j] /\ i'[j] = i[j]
        /\ pc'[k] \in {"listen", "rest"}
    <3>1. CASE k = s + 1
      <4>1. GoTo(k, k) /\ k \in 1 .. total_invoker_num
        BY <2>1, <3>1, <1>3 DEF Invokers
      <4>2. /\ pc'[k] = "listen" /\ wake'[k] = now
            /\ \A j \in Others(k) : pc'[j] = pc[j] /\ wake'[j] = wake[j] /\ i'[j] = i[j]
        BY <4>1, GoToValue, TurnValue, <1>2
      <4>3. k # 0 /\ s = k - 1
        BY <3>1, <1>3
      <4>4. wake'[k] = Opens(st, k)
        BY <4>2, <4>3, <1>4 DEF Opens
      <4>5. Opens(st, k)' = Opens(st, k) /\ (pc[k] = "listen")' /\ now' <= wake'[k]
        BY <4>2, <2>1, <1>2 DEF Opens, Meets, tot_sleep_time, LastInvoker
      <4> QED BY <4>2, <4>4, <4>5 DEF Punctual
    <3>2. CASE k # s + 1
      <4>1. /\ pc' = [pc EXCEPT ![k] = "rest"]
            /\ wake' = [wake EXCEPT ![k] = now + (tot_sleep_time - sleep_time(k))]
            /\ i' = i
        BY <2>1, <3>2
      <4>2. /\ pc'[k] = "rest" /\ wake'[k] = now + (tot_sleep_time - sleep_time(k))
            /\ i'[k] = s
            /\ \A j \in Others(k) : pc'[j] = pc[j] /\ wake'[j] = wake[j] /\ i'[j] = i[j]
        BY <4>1, <1>1 DEF TypeInv, TypeOK, Others
      <4>3. Meets(st, k, s + 1) = Meets(st, k, s) + tot_sleep_time
        BY <3>2, <1>2, <1>3, MeetsNext
      <4>4. wake'[k] + sleep_time(k) = Meets(st, k, s + 1) /\ now <= wake'[k]
        BY <4>2, <4>3, <1>2, <1>4, Sleeps
      <4>5. (Meets(st, k, i[k] + 1) = Meets(st, k, s + 1))' /\ now' <= wake'[k]
            /\ Meets(st, k, s + 1)' = Meets(st, k, s + 1)
            /\ sleep_time(k)' = sleep_time(k)
        BY <4>2, <4>4, <2>1 DEF Meets, tot_sleep_time, sleep_time, LastInvoker
      <4> QED BY <4>2, <4>4, <4>5 DEF Punctual
    <3> QED BY <3>1, <3>2
  <2>5. \A r \in 0 .. Came(s) - 1 : Arrival(s, r) \in Others(s) /\ Arrival(s, r) # k
    <3> SUFFICES ASSUME NEW r \in 0 .. Came(s) - 1
                 PROVE  Arrival(s, r) \in Others(s) /\ Arrival(s, r) # k
      OBVIOUS
    <3>1. Arrival(s, r) \in Others(s)
      BY <1>2, ArrivalType
    <3>2. cur_sock[Arrival(s, r)] > Rank(Arrival(s, r), s)
      BY <1>2 DEF KeepsTime, Guests
    <3>3. Rank(k, s) \in Nat
      BY <1>1, RankOfPeer
    <3> QED BY <3>1, <3>2, <3>3, <1>2
  <2>6. ASSUME NEW n \in Invokers
        PROVE  Guests(st, n)'
    <3>1. /\ Came(n) \in Nat
          /\ \A r \in 0 .. Came(n) - 1 : Arrival(n, r) \in Others(n)
          /\ Guests(st, n)
      BY ArrivalType DEF KeepsTime
    <3>2. ASSUME NEW r \in 0 .. Came(n) - 1
          PROVE  /\ cur_sock'[Arrival(n, r)] > Rank(Arrival(n, r), n)
                 /\ Meets(st, Arrival(n, r), n) <= now'
                 /\ \A q \in 0 .. r - 1 : Arrival(n, q) # Arrival(n, r)
      <4>1. /\ cur_sock[Arrival(n, r)] > Rank(Arrival(n, r), n)
            /\ Meets(st, Arrival(n, r), n) <= now
            /\ \A q \in 0 .. r - 1 : Arrival(n, q) # Arrival(n, r)
        BY <3>1 DEF Guests
      <4>2. PICK y \in Others(n) : y = Arrival(n, r)
        BY <3>1
      <4>3. /\ y \in Invokers /\ n \in Others(y)
            /\ cur_sock[y] \in Nat
            /\ cur_sock'[y] = cur_sock[y] \/ cur_sock'[y] = cur_sock[y] + 1
        <5>1. y \in Invokers /\ n \in Others(y)
          BY DEF Others
        <5>2. cur_sock[y] \in Nat /\ cur_sock[k] \in Nat
          BY <5>1, TimeTypes
        <5> QED BY <5>1, <5>2, <2>3, <1>2 DEF Others
      <4>4. Rank(y, n) \in Nat
        BY <4>3, RankOfPeer
      <4>5. cur_sock'[y] > Rank(y, n)
        BY <4>1, <4>2, <4>3, <4>4
      <4> QED BY <4>1, <4>2, <4>5, <2>1
    <3>3. \A y, z : Rank(y, z)' = Rank(y, z) /\ Meets(st, y, z)' = Meets(st, y, z)
      BY DEF Rank, Meets, tot_sleep_time, LastInvoker
    <3>4. CASE n # s
      <4>1. Came(n)' = Came(n) /\ \A r : Arrival(n, r)' = Arrival(n, r)
        BY <3>4, <2>2 DEF Others
      <4> QED BY <4>1, <3>2, <3>3 DEF Guests
    <3>5. CASE n = s
      <4> SUFFICES ASSUME NEW r \in 0 .. Came(s)
                   PROVE  /\ cur_sock'[Arrival(s, r)'] > Rank(Arrival(s, r)', s)
                          /\ Meets(st, Arrival(s, r)', s) <= now'
                          /\ \A q \in 0 .. r - 1 : Arrival(s, q)' # Arrival(s, r)'
        <5>1. Came(s)' - 1 = Came(s)
          BY <2>2, <3>1, <3>5
        <5> QED BY <5>1, <3>3, <3>5 DEF Guests
      <4>1. CASE r = Came(s)
        <5>1. Arrival(s, r)' = k
          BY <4>1, <2>2
        <5>2. cur_sock'[k] > Rank(k, s)
          <6>1. Rank(k, s) \in Nat
            BY <1>1, RankOfPeer
          <6> QED BY <6>1, <2>3
        <5>3. Meets(st, k, s) <= now'
          BY <1>2, <1>4, <2>1
        <5>4. \A q \in 0 .. r - 1 : Arrival(s, q)' # k
          BY <4>1, <2>2, <2>5
        <5> QED BY <5>1, <5>2, <5>3, <5>4
      <4>2. CASE r # Came(s)
        <5>1. r \in 0 .. Came(s) - 1 /\ \A q \in 0 .. r - 1 : q \in 0 .. Came(s) - 1
          BY <4>2, <3>1, <3>5
        <5> QED BY <5>1, <2>2, <3>2, <3>5
      <4> QED BY <4>1, <4>2
    <3> QED BY <3>4, <3>5
  <2>7. ASSUME NEW n \in Invokers
        PROVE  Punctual(st, n)' /\ Complete(st, n)'
    <3>1. Punctual(st, n) /\ Complete(st, n)
      BY DEF KeepsTime
    <3>2. CASE n = k
      BY <3>2, <2>4 DEF Complete
    <3>3. CASE n # k
      <4>1. pc'[n] = pc[n] /\ wake'[n] = wake[n] /\ i'[n] = i[n]
        BY <3>3, <2>4 DEF Others
      <4>2. Punctual(st, n)'
        BY <3>1, <4>1, <2>1, PunctualKept
      <4>3. CASE n = s
        <5>1. now <= Meets(st, LastBut(s), s)
          BY <1>2, <1>4, MeetsLast
        <5>2. (now <= Meets(st, LastBut(s), s))'
          BY <5>1, <2>1 DEF Meets, LastBut, tot_sleep_time, LastInvoker
        <5> QED BY <4>2, <4>3, <5>2 DEF Complete
      <4>4. CASE n # s
        <5>1. Came(n)' = Came(n)
          BY <4>4, <2>2 DEF Others
        <5> QED BY <3>1, <4>1, <4>2, <5>1, <2>1, CompleteKept
      <4> QED BY <4>3, <4>4
    <3> QED BY <3>2, <3>3
  <2> QED BY <2>1, <2>6, <2>7 DEF KeepsTime
<1>7. CASE ~(listening[s] /\ pc[s] # "exit")
  <2>1. /\ pc' = [pc EXCEPT ![k] = "exit"]
        /\ UNCHANGED <<now, wake, i, sockVars, qpVars, netVars, killed>>
    BY <1>1, <1>7, RefusedValue
  <2>2. pc'[k] = "exit" /\ \A j \in Others(k) : pc'[j] = pc[j]
    BY <2>1 DEF TypeInv, TypeOK, Others
  <2>3. /\ \A y \in Invokers : cur_sock'[y] = cur_sock[y]
        /\ \A n \in Invokers :
             /\ Came(n)' = Came(n)
             /\ \A r \in 0 .. Came(n) - 1 : Arrival(n, r)' = Arrival(n, r)
    BY <2>1, ArrivalKept DEF sockVars, netVars
  <2>4. Punctual(st, k)' /\ Complete(st, k)'
    BY <2>2 DEF Punctual, Complete
  <2> QED BY <2>1, <2>2, <2>3, <2>4, TimeLocal
<1> QED BY <1>6, <1>7

\* The exchange has no timetable.
LEMMA TimeExchange ==
  ASSUME TypeInv, NEW st \in Starts, KeepsTime(st), NEW k \in Invokers,
         Write(k) \/ Read(k)
  PROVE  KeepsTime(st)'
<1>1. /\ UNCHANGED <<now, sockVars, backlog>> /\ pc[k] = "exchange"
      /\ \/ NextInfo(k)
         \/ /\ UNCHANGED <<pc, i>>
            /\ wake' = [wake EXCEPT ![k] = now + write_sleep_time]
  BY Zenon DEF Write, Read
<1>2. /\ \A j \in Others(k) : pc'[j] = pc[j] /\ wake'[j] = wake[j] /\ i'[j] = i[j]
      /\ pc'[k] \in {"exchange", "done"}
  <2>1. CASE NextInfo(k)
    BY <1>1, <2>1, NextInfoValue
  <2>2. CASE /\ UNCHANGED <<pc, i>>
             /\ wake' = [wake EXCEPT ![k] = now + write_sleep_time]
    BY <1>1, <2>2 DEF TypeInv, TypeOK, Others
  <2> QED BY <1>1, <2>1, <2>2
<1>3. /\ \A y \in Invokers : cur_sock'[y] = cur_sock[y]
      /\ \A n \in Invokers :
           /\ Came(n)' = Came(n)
           /\ \A r \in 0 .. Came(n) - 1 : Arrival(n, r)' = Arrival(n, r)
  BY <1>1, ArrivalKept DEF sockVars
<1>4. Punctual(st, k)' /\ Complete(st, k)'
  BY <1>2 DEF Punctual, Complete
<1> QED BY <1>1, <1>2, <1>3, <1>4, TimeLocal

\* Nor has the dead.
LEMMA TimeEnds ==
  ASSUME TypeInv, NEW st \in Starts, KeepsTime(st), NEW k \in Invokers, Ends(k)
  PROVE  KeepsTime(st)'
<1>1. /\ pc' = [pc EXCEPT ![k] = "exit"]
      /\ UNCHANGED <<now, wake, i, sockVars, qpVars, netVars>>
  BY DEF Ends
<1>2. pc'[k] = "exit" /\ \A j \in Others(k) : pc'[j] = pc[j]
  BY <1>1 DEF TypeInv, TypeOK, Others
<1>3. /\ \A y \in Invokers : cur_sock'[y] = cur_sock[y]
      /\ \A n \in Invokers :
           /\ Came(n)' = Came(n)
           /\ \A r \in 0 .. Came(n) - 1 : Arrival(n, r)' = Arrival(n, r)
  BY <1>1, ArrivalKept DEF sockVars, netVars
<1>4. Punctual(st, k)' /\ Complete(st, k)'
  BY <1>2 DEF Punctual, Complete
<1> QED BY <1>1, <1>2, <1>3, <1>4, TimeLocal

\* The sleeps of the loop are over before the mesh is.
LEMMA SleepEnds ==
  ASSUME TypeInv, NEW st \in Starts, KeepsTime(st), NEW j \in Invokers,
         pc[j] \in {"connect", "rest", "listen"}
  PROVE  now <= wake[j] /\ wake[j] <= MeshEnd(st)
<1> USE MeshAssumption
<1>1. Punctual(st, j) /\ Position(j) /\ i[j] \in Invokers
  BY DEF KeepsTime, TypeInv, TypeOK
<1>2. now <= wake[j]
  BY <1>1 DEF Punctual
<1>3. CASE pc[j] = "connect"
  <2>1. i[j] \in Others(j) /\ wake[j] = Meets(st, j, i[j])
    BY <1>1, <1>3 DEF Punctual, Position, Others
  <2> QED BY <2>1, <1>2, MeetsEnds
<1>4. CASE pc[j] = "rest"
  <2>1. /\ i[j] \in Others(j) /\ i[j] + 1 # j
        /\ wake[j] + sleep_time(j) = Meets(st, j, i[j] + 1)
    BY <1>1, <1>4 DEF Punctual, Position, Others
  <2>2. wake[j] + sleep_time(j) <= MeshEnd(st) + sleep_time(j) /\ MeshEnd(st) \in Nat
    BY <2>1, MeetsEnds
  <2> QED BY <2>2, <1>2, TimeTypes, Sleeps
<1>5. CASE pc[j] = "listen"
  <2>1. wake[j] = Opens(st, j)
    BY <1>1, <1>5 DEF Punctual
  <2> QED BY <2>1, <1>2, MeetsEnds
<1> QED BY <1>3, <1>4, <1>5

\* Time passes to the end of the next sleep, and not beyond.
LEMMA TimeElapse ==
  ASSUME TypeInv, NEW st \in Starts, KeepsTime(st), Elapse
  PROVE  KeepsTime(st)'
<1> USE MeshAssumption
<1> DEFINE S == {wake[k] : k \in {j \in Invokers : Sleeping(j)}}
<1>1. /\ \A k \in Invokers : ~CanGoOn(k)
      /\ now' = Min(S)
      /\ UNCHANGED <<loopVars, sockVars, qpVars, netVars, killed>>
  BY DEF Elapse
<1>2. S \subseteq Nat /\ S # {}
  BY TimeTypes DEF Elapse
<1>3. \A k \in Invokers : Sleeping(k) => wake[k] \in S
  OBVIOUS
<1>4. \A t \in S : \E k \in Invokers : Sleeping(k) /\ t = wake[k]
  OBVIOUS
<1> HIDE DEF S
<1>5. now' \in S /\ \A t \in S : now' <= t
  BY <1>1, <1>2, MinIsLeast
<1>6. PICK j \in Invokers : Sleeping(j) /\ now' = wake[j]
  BY <1>4, <1>5
<1>7. now' \in Nat /\ now <= now'
  BY <1>6, TimeTypes DEF Sleeping, Awake
<1>10. pc' = pc /\ wake' = wake /\ i' = i /\ slot' = slot /\ server_socks' = server_socks
       /\ backlog' = backlog /\ cur_sock' = cur_sock
  BY <1>1 DEF loopVars, sockVars, netVars
<1>11. ASSUME NEW k \in Invokers
       PROVE  (Punctual(st, k) /\ Guests(st, k) /\ Complete(st, k))'
  <2>1. Punctual(st, k) /\ Guests(st, k)
    BY DEF KeepsTime
  <2>2. Came(k)' = Came(k) /\ \A r \in 0 .. Came(k) - 1 : Arrival(k, r)' = Arrival(k, r)
    BY <1>10, ArrivalKept
  <2>3. Guests(st, k)'
    BY <2>1, <2>2, <1>7, <1>10, GuestsKept
  <2>4. pc[k] \in {"connect", "rest", "listen"} => now' <= wake[k]
    <3> SUFFICES ASSUME pc[k] \in {"connect", "rest", "listen"}
                 PROVE  now' <= wake[k]
      OBVIOUS
    <3>1. Sleeping(k)
      BY <1>1 DEF CanGoOn, Sleeping, AfterSleep
    <3> QED BY <3>1, <1>3, <1>5
  <2>5. Punctual(st, k)'
    BY <2>1, <2>4, <1>10 DEF Punctual, Meets, Opens, sleep_time, tot_sleep_time, LastInvoker
  <2>6. ~(pc[k] = "accept" /\ Came(k) = total_invoker_num - 1)
    <3> SUFFICES ASSUME pc[k] = "accept", Came(k) = total_invoker_num - 1
                 PROVE  FALSE
      OBVIOUS
    <3>1. backlog[k] = << >> /\ slot_next(k) # total_invoker_num
      BY <1>1 DEF CanGoOn
    <3> QED BY <3>1, ArrivalType
  <2>7. Complete(st, k)'
    BY <2>2, <2>6, <1>10 DEF Complete
  <2> QED BY <2>3, <2>5, <2>7
<1> QED BY <1>11 DEF KeepsTime

\* Every step keeps the timetable.
LEMMA TimeStep ==
  ASSUME TypeInv, NEW st \in Starts, KeepsTime(st), [Next]_vars
  PROVE  KeepsTime(st)'
<1>1. CASE Elapse
  BY <1>1, TimeElapse
<1>2. ASSUME NEW k \in Invokers, Invoker(k)
      PROVE  KeepsTime(st)'
  BY <1>2, TimeConnect, TimeRestOver, TimeListen, TimeAccept, TimeAcceptEnd,
     TimeExchange, Zenon DEF Invoker
<1>3. ASSUME NEW k \in Invokers, Ends(k)
      PROVE  KeepsTime(st)'
  BY <1>3, TimeEnds
<1>4. CASE UNCHANGED vars
  <2>1. UNCHANGED <<now, loopVars, sockVars, qpVars, netVars, killed>>
    BY <1>4 DEF vars
  <2>2. PICK k \in Invokers : TRUE
    BY MeshAssumption DEF Invokers
  <2>3. /\ \A y \in Invokers : cur_sock'[y] = cur_sock[y]
        /\ \A n \in Invokers :
             /\ Came(n)' = Came(n)
             /\ \A r \in 0 .. Came(n) - 1 : Arrival(n, r)' = Arrival(n, r)
    BY <2>1, ArrivalKept DEF sockVars, netVars
  <2>4. now' = now /\ pc' = pc /\ wake' = wake /\ i' = i
    BY <2>1 DEF loopVars
  <2>5. Punctual(st, k) /\ Complete(st, k)
    BY DEF KeepsTime
  <2>6. Punctual(st, k)' /\ Complete(st, k)'
    BY <2>3, <2>4, <2>5, PunctualKept, CompleteKept
  <2> QED BY <2>3, <2>4, <2>6, TimeLocal
<1> QED BY <1>1, <1>2, <1>3, <1>4, Zenon DEF Next

-----------------------------------------------------------------------------
(* Nobody is refused. *)

\* An invoker that connects, on time, finds its server listening.
LEMMA ServerListens ==
  ASSUME TypeInv, NEW st \in Starts, KeepsTime(st), NEW k \in Invokers,
         pc[k] = "connect", Awake(k), pc[i[k]] # "exit"
  PROVE  listening[i[k]]
<1> USE MeshAssumption
<1>1. PICK s \in Others(k) : s = i[k]
  BY ServerValue
<1>2. /\ s \in Invokers /\ k \in Invokers \ {s} /\ s \in Nat
      /\ Punctual(st, k) /\ Punctual(st, s) /\ Position(s)
      /\ i[s] \in Invokers /\ i[s] \in Nat
      /\ now \in Nat /\ wake[s] \in Nat
  BY <1>1, TimeTypes DEF Others, Invokers, KeepsTime, TypeInv, TypeOK
<1>3. Opens(st, s) < now /\ Opens(st, s) \in Nat
  <2>1. now = Meets(st, k, s)
    BY <1>1, <1>2, OnTime DEF Punctual
  <2> QED BY <2>1, <1>2, OpensFirst
<1> SUFFICES ASSUME ~listening[s]
             PROVE  FALSE
  BY <1>1
<1>4. pc[s] \in {"connect", "rest", "listen"} /\ now <= wake[s]
  <2>1. pc[s] \in {"connect", "rest", "listen", "accept", "exchange", "done", "exit"}
    BY <1>2 DEF TypeInv, TypeOK
  <2> QED BY <2>1, <1>1, <1>2 DEF Position, Punctual
<1>5. pc[s] \in {"connect", "rest"} => i[s] < s
  BY <1>2 DEF Position
<1>6. CASE pc[s] = "connect"
  <2>1. wake[s] = Meets(st, s, i[s]) /\ i[s] < s
    BY <1>2, <1>5, <1>6 DEF Punctual
  <2>2. wake[s] <= Opens(st, s)
    BY <2>1, <1>2, MeetsBeforeTurn
  <2> QED BY <2>2, <1>2, <1>3, <1>4
<1>7. CASE pc[s] = "rest"
  <2>1. /\ wake[s] + sleep_time(s) = Meets(st, s, i[s] + 1)
        /\ i[s] < s /\ i[s] + 1 # s
    BY <1>2, <1>5, <1>7 DEF Punctual, Position
  <2>2. i[s] + 1 \in Invokers /\ i[s] + 1 < s
    BY <2>1, <1>2 DEF Invokers
  <2>3. wake[s] + sleep_time(s) <= Opens(st, s)
    BY <2>1, <2>2, <1>2, MeetsBeforeTurn
  <2> QED BY <2>3, <1>2, <1>3, <1>4, Sleeps
<1>8. CASE pc[s] = "listen"
  <2>1. wake[s] = Opens(st, s)
    BY <1>2, <1>8 DEF Punctual
  <2> QED BY <2>1, <1>2, <1>3, <1>4
<1> QED BY <1>4, <1>6, <1>7, <1>8

\* The starts of the run's own beginning, and the timetable made of them.
Timetable == \E st \in Starts : (CloseGaps => Close(st)) /\ KeepsTime(st)

\* The times at which the invokers sleep and connect are fixed by their starts, for any
\* gaps and whoever is killed.
THEOREM TimetableHolds == Spec => []Timetable
<1>1. Init => Timetable
  <2> SUFFICES ASSUME Init
               PROVE  Timetable
    OBVIOUS
  <2>1. PICK gap \in Gaps :
          wake = [k \in Invokers |-> StartOf(gap)[k] + Delay(k, 0)]
    BY Zenon DEF Init, StartOf, Gaps
  <2>2. StartOf(gap) \in Starts /\ (CloseGaps => Close(StartOf(gap)))
    BY StartsFollow
  <2>3. KeepsTime(StartOf(gap))
    BY <2>1, <2>2, TimeInit
  <2> QED BY <2>2, <2>3, Zenon DEF Timetable
<1>2. TypeInv /\ Timetable /\ [Next]_vars => Timetable'
  <2> SUFFICES ASSUME TypeInv, Timetable, [Next]_vars
               PROVE  Timetable'
    OBVIOUS
  <2>1. PICK st \in Starts : (CloseGaps => Close(st)) /\ KeepsTime(st)
    BY DEF Timetable
  <2>2. KeepsTime(st)'
    BY <2>1, TimeStep
  <2>3. Starts' = Starts /\ CloseGaps' = CloseGaps /\ Close(st)' = Close(st)
    BY DEF Starts, CloseGaps, Close, Invokers, LastInvoker
  <2> QED BY <2>1, <2>2, Zenon DEF Timetable
<1> QED BY <1>1, <1>2, PositionHolds, PTL DEF Spec

\* An action of invoker k leaves the places of the others alone.
LEMMA OthersStay ==
  ASSUME TypeInv, NEW k \in Invokers, Invoker(k), NEW n \in Invokers, n # k
  PROVE  pc'[n] = pc[n] /\ i'[n] = i[n] /\ wake'[n] = wake[n] /\ sent'[n] = sent[n]
<1>1. /\ \A v : [pc EXCEPT ![k] = v][n] = pc[n]
      /\ \A v : [i EXCEPT ![k] = v][n] = i[n]
      /\ \A v : [wake EXCEPT ![k] = v][n] = wake[n]
      /\ \A v : [sent EXCEPT ![k] = v][n] = sent[n]
  BY DEF TypeInv, TypeOK
<1>2. pc' = pc \/ \E v : pc' = [pc EXCEPT ![k] = v]
  BY Zenon DEF Invoker, Connect, RestOver, Listen, Accept, AcceptEnd, Write, Read,
     GoTo, NextInfo, loopVars
<1>3. i' = i \/ \E v : i' = [i EXCEPT ![k] = v]
  BY Zenon DEF Invoker, Connect, RestOver, Listen, Accept, AcceptEnd, Write, Read,
     GoTo, NextInfo, loopVars
<1>4. wake' = wake \/ \E v : wake' = [wake EXCEPT ![k] = v]
  BY Zenon DEF Invoker, Connect, RestOver, Listen, Accept, AcceptEnd, Write, Read,
     GoTo, NextInfo, loopVars
<1>5. sent' = sent \/ \E v : sent' = [sent EXCEPT ![k] = v]
  BY Zenon DEF Invoker, Connect, RestOver, Listen, Accept, AcceptEnd, Write, Read, qpVars
<1> QED BY <1>1, <1>2, <1>3, <1>4, <1>5

\* What an action of invoker k does to the end of an invoker: nothing, unless it is a
\* connection refused.
LEMMA StaysUp ==
  ASSUME TypeInv, NEW k \in Invokers,
         RestOver(k) \/ Listen(k) \/ Accept(k) \/ AcceptEnd(k) \/ Write(k) \/ Read(k)
  PROVE  /\ pc[k] # "exit" /\ pc'[k] # "exit" /\ killed' = killed
         /\ \A n \in Others(k) : pc'[n] = pc[n] /\ cur_sock'[n] = cur_sock[n]
<1> USE MeshAssumption
<1>1. /\ i[k] \in Invokers /\ i[k] + 1 \in 1 .. total_invoker_num
      /\ pc \in [Invokers ->
           {"connect", "rest", "listen", "accept", "exchange", "done", "exit"}]
  <2>1. /\ i[k] \in Invokers
        /\ pc \in [Invokers ->
             {"connect", "rest", "listen", "accept", "exchange", "done", "exit"}]
    BY DEF TypeInv, TypeOK
  <2> QED BY <2>1 DEF Invokers
<1>2. \A m \in 1 .. total_invoker_num : Turn(k, m) # "exit"
  BY DEF Turn
<1>3. CASE RestOver(k) \/ AcceptEnd(k)
  <2>1. /\ GoTo(k, i[k] + 1) /\ pc[k] \in {"rest", "accept"}
        /\ killed' = killed /\ cur_sock' = cur_sock
    BY <1>3 DEF RestOver, AcceptEnd, sockVars
  <2>2. /\ pc'[k] = Turn(k, i[k] + 1)
        /\ \A j \in Others(k) : pc'[j] = pc[j]
    BY <1>1, <2>1, GoToValue
  <2> QED BY <1>1, <1>2, <2>1, <2>2
<1>4. CASE Listen(k)
  <2>1. /\ pc' = [pc EXCEPT ![k] = "accept"] /\ pc[k] = "listen"
        /\ killed' = killed /\ cur_sock' = cur_sock
    BY <1>4 DEF Listen, sockVars
  <2> QED BY <1>1, <2>1 DEF Others
<1>5. CASE Accept(k)
  BY <1>5 DEF Accept, loopVars
<1>6. CASE Write(k)
  <2>1. /\ pc[k] = "exchange" /\ killed' = killed /\ cur_sock' = cur_sock
        /\ NextInfo(k) \/ UNCHANGED <<pc, i>>
    BY <1>6 DEF Write, sockVars
  <2>2. \/ /\ pc'[k] \in {"done", pc[k]}
           /\ \A j \in Others(k) : pc'[j] = pc[j]
        \/ pc' = pc
    BY <2>1, NextInfoValue
  <2> QED BY <2>1, <2>2
<1>7. CASE Read(k)
  <2>1. /\ pc[k] = "exchange" /\ killed' = killed /\ cur_sock' = cur_sock /\ NextInfo(k)
    BY <1>7 DEF Read, sockVars
  <2>2. /\ pc'[k] \in {"done", pc[k]}
        /\ \A j \in Others(k) : pc'[j] = pc[j]
    BY <2>1, NextInfoValue
  <2> QED BY <2>1, <2>2
<1> QED BY <1>3, <1>4, <1>5, <1>6, <1>7

\* Invoker n stopped at a server that has ended.
StoppedAtEnd(n) == \E p \in Invokers : p = peer_inv_ips(n)[cur_sock[n]] /\ pc[p] = "exit"

SomeoneOut == \E p \in Invokers : pc[p] = "exit"

\* An invoker that ends stays so, and where it was; and it ends for one of the two reasons.
LEMMA EndsForCause ==
  ASSUME TypeInv, Timetable, [Next]_vars, NEW n \in Invokers
  PROVE  /\ pc[n] = "exit" => pc'[n] = "exit" /\ cur_sock'[n] = cur_sock[n]
         /\ n \in killed => n \in killed'
         /\ pc[n] # "exit" /\ pc'[n] = "exit" =>
              n \in killed' \/ (StoppedAtEnd(n)' /\ SomeoneOut)
<1>1. CASE Elapse \/ UNCHANGED vars
  BY <1>1 DEF Elapse, vars, loopVars, sockVars
<1>2. ASSUME NEW k \in Invokers, Ends(k)
      PROVE  /\ pc[n] = "exit" => pc'[n] = "exit" /\ cur_sock'[n] = cur_sock[n]
             /\ n \in killed => n \in killed'
             /\ pc[n] # "exit" /\ pc'[n] = "exit" => n \in killed'
  <2>1. /\ killed' = killed \cup {k} /\ pc' = [pc EXCEPT ![k] = "exit"]
        /\ cur_sock' = cur_sock
    BY <1>2 DEF Ends, sockVars
  <2>2. pc'[k] = "exit" /\ \A j \in Invokers : j # k => pc'[j] = pc[j]
    BY <2>1 DEF TypeInv, TypeOK
  <2> QED BY <2>1, <2>2
<1>3. ASSUME NEW k \in Invokers,
             RestOver(k) \/ Listen(k) \/ Accept(k) \/ AcceptEnd(k) \/ Write(k) \/ Read(k)
      PROVE  /\ pc[n] = "exit" => pc'[n] = "exit" /\ cur_sock'[n] = cur_sock[n]
             /\ n \in killed => n \in killed'
             /\ ~(pc[n] # "exit" /\ pc'[n] = "exit")
  BY <1>3, StaysUp DEF Others
<1>4. ASSUME NEW k \in Invokers, Connect(k)
      PROVE  /\ pc[n] = "exit" => pc'[n] = "exit" /\ cur_sock'[n] = cur_sock[n]
             /\ n \in killed => n \in killed'
             /\ pc[n] # "exit" /\ pc'[n] = "exit" =>
                  StoppedAtEnd(n)' /\ SomeoneOut
  <2>1. pc[k] = "connect" /\ Awake(k)
    BY <1>4 DEF Connect
  <2>2. PICK s \in Others(k) : s = i[k] /\ s = peer_inv_ips(k)[cur_sock[k]]
    BY <2>1, ServerValue
  <2>3. /\ s \in Invokers /\ s # k
        /\ pc \in [Invokers ->
             {"connect", "rest", "listen", "accept", "exchange", "done", "exit"}]
        /\ cur_sock \in [Invokers -> 0 .. total_invoker_num - 1]
    BY <2>2 DEF Others, TypeInv, TypeOK
  <2>4. CASE listening[s] /\ pc[s] # "exit"
    <3>1. /\ cur_sock' = [cur_sock EXCEPT ![k] = @ + 1] /\ killed' = killed
          /\ IF k = s + 1 THEN GoTo(k, s + 1) ELSE pc' = [pc EXCEPT ![k] = "rest"]
      BY <1>4, <2>2, <2>4, ConnectValue
    <3>2. pc'[k] # "exit" /\ \A j \in Others(k) : pc'[j] = pc[j]
      <4>1. CASE k = s + 1
        <5>1. GoTo(k, k) /\ k \in 1 .. total_invoker_num
          BY <2>3, <3>1, <4>1, MeshAssumption DEF Invokers
        <5> QED BY <5>1, GoToValue, TurnValue
      <4>2. CASE k # s + 1
        BY <2>3, <3>1, <4>2 DEF Others
      <4> QED BY <4>1, <4>2
    <3>3. \A j \in Others(k) : cur_sock'[j] = cur_sock[j]
      BY <2>3, <3>1 DEF Others
    <3> QED BY <2>1, <3>1, <3>2, <3>3 DEF Others
  <2>5. CASE ~(listening[s] /\ pc[s] # "exit")
    <3>1. pc' = [pc EXCEPT ![k] = "exit"] /\ cur_sock' = cur_sock /\ killed' = killed
      BY <1>4, <2>2, <2>5, RefusedValue DEF sockVars
    <3>2. pc[s] = "exit"
      BY <2>1, <2>2, <2>5, ServerListens DEF Timetable
    <3>3. pc'[k] = "exit" /\ pc'[s] = "exit" /\ \A j \in Others(k) : pc'[j] = pc[j]
      BY <2>3, <3>1, <3>2 DEF Others
    <3>4. StoppedAtEnd(k)'
      BY <2>2, <2>3, <3>1, <3>3 DEF StoppedAtEnd, peer_inv_ips
    <3>5. CASE n = k
      BY <2>3, <3>1, <3>2, <3>3, <3>4, <3>5 DEF SomeoneOut
    <3>6. CASE n # k
      BY <3>1, <3>3, <3>6 DEF Others
    <3> QED BY <3>5, <3>6
  <2> QED BY <2>4, <2>5
<1>5. Next => \/ Elapse
              \/ \E k \in Invokers : Ends(k)
              \/ \E k \in Invokers : Connect(k)
              \/ \E k \in Invokers : RestOver(k) \/ Listen(k) \/ Accept(k) \/ AcceptEnd(k)
                                     \/ Write(k) \/ Read(k)
  BY Zenon DEF Next, Invoker
<1> QED BY <1>1, <1>2, <1>3, <1>4, <1>5

\* Whoever stops with "connect error" was killed or came to a server that has ended,
\* for any number of invokers, any sleep, any gaps: the sleeps always have the server
\* listening first (invoker.cpp:306-329).
THEOREM NoneRefusedHolds == Spec => []NoneRefused
<1> DEFINE IInv == \A n \in Invokers : pc[n] = "exit" => n \in killed \/ StoppedAtEnd(n)
<1>1. Init => IInv
  <2>1. \A k \in Invokers : Turn(k, 0) # "exit"
    BY DEF Turn
  <2> QED BY <2>1 DEF Init
<1>2. TypeInv /\ Timetable /\ IInv /\ [Next]_vars => IInv'
  <2> SUFFICES ASSUME TypeInv, Timetable, IInv, [Next]_vars, NEW n \in Invokers,
                      pc'[n] = "exit"
               PROVE  n \in killed' \/ StoppedAtEnd(n)'
    BY DEF Invokers
  <2>1. ASSUME pc[n] = "exit", StoppedAtEnd(n)
        PROVE  StoppedAtEnd(n)'
    <3>1. PICK p \in Invokers : p = peer_inv_ips(n)[cur_sock[n]] /\ pc[p] = "exit"
      BY <2>1 DEF StoppedAtEnd
    <3>2. pc'[p] = "exit" /\ cur_sock'[n] = cur_sock[n]
      BY <2>1, <3>1, EndsForCause
    <3> QED BY <3>1, <3>2 DEF StoppedAtEnd, peer_inv_ips, Invokers
  <2> QED BY <2>1, EndsForCause
<1>3. IInv => NoneRefused
  BY DEF NoneRefused, StoppedAtEnd
<1> QED BY <1>1, <1>2, <1>3, PositionHolds, TimetableHolds, PTL DEF Spec

-----------------------------------------------------------------------------
(* The order of arrival is that of the numbers. *)

\* Whoever comes later has a higher number; written with places, so that it says by how
\* much at least.
InTurn(k) ==
  \A r \in 0 .. Came(k) - 1 :
    /\ r <= Rank(k, Arrival(k, r))
    /\ \A q \in 0 .. r - 1 : Rank(k, Arrival(k, q)) + (r - q) <= Rank(k, Arrival(k, r))

\* The order stays while nobody comes.
LEMMA InTurnKept ==
  ASSUME NEW k, InTurn(k), Came(k)' = Came(k), Came(k) \in Nat,
         \A r \in 0 .. Came(k) - 1 : Arrival(k, r)' = Arrival(k, r)
  PROVE  InTurn(k)'
<1> SUFFICES ASSUME NEW r \in 0 .. Came(k) - 1, NEW q \in 0 .. r - 1
             PROVE  q \in 0 .. Came(k) - 1
  BY DEF InTurn, Rank
<1> QED OBVIOUS

\* Most steps bring nobody and file nobody.
LEMMA NobodyComes ==
  ASSUME Elapse \/ UNCHANGED vars \/ \E k \in Invokers :
           \/ Ends(k) \/ RestOver(k) \/ Listen(k) \/ AcceptEnd(k) \/ Write(k) \/ Read(k)
  PROVE  UNCHANGED <<slot, server_socks, backlog, cur_sock, inv_sockfd>>
BY Zenon DEF Elapse, vars, Ends, RestOver, Listen, AcceptEnd, Write, Read, sockVars, netVars

\* A connection keeps the order: k comes now, the others came by now, and the timetable
\* has the lower number first.
LEMMA OrderConnect ==
  ASSUME TypeInv, NEW st \in Starts, Close(st), KeepsTime(st), NEW k \in Invokers,
         Connect(k), NEW s \in Invokers, s = i[k], listening[s], pc[s] # "exit",
         InTurn(s)
  PROVE  InTurn(s)'
<1> DEFINE c == Came(s)
           A(r) == Arrival(s, r)
<1>1. /\ Came(s)' = c + 1
      /\ \A r \in 0 .. c - 1 : Arrival(s, r)' = A(r)
      /\ \A r : r = c => Arrival(s, r)' = k
  BY ConnectArrival
<1>2. /\ c \in Nat /\ now \in Nat /\ cur_sock[k] \in Nat
      /\ \A r \in 0 .. c - 1 : A(r) \in Others(s)
  BY ArrivalType, TimeTypes
<1>3. pc[k] = "connect" /\ Awake(k)
  BY DEF Connect
<1>4. k \in Others(s) /\ s \in Others(k) /\ cur_sock[k] = Rank(k, s) /\ now = Meets(st, k, s)
  <2>1. s \in Others(k) /\ cur_sock[k] = Rank(k, s)
    BY <1>3, ServerValue
  <2>2. Punctual(st, k)
    BY DEF KeepsTime
  <2>3. now = Meets(st, k, s)
    BY <1>3, <2>2, OnTime DEF Punctual
  <2> QED BY <2>1, <2>3 DEF Others
<1>5. ASSUME NEW r \in 0 .. c - 1
      PROVE  A(r) < k
  <2>1. Guests(st, s)
    BY DEF KeepsTime
  <2>2. /\ cur_sock[A(r)] > Rank(A(r), s)
        /\ Meets(st, A(r), s) <= now
    BY <2>1 DEF Guests
  <2>3. A(r) \in Others(s)
    BY <1>2
  <2> HIDE DEF A
  <2>4. A(r) # k
    BY <1>2, <1>4, <2>2
  <2>5. ~(k < A(r))
    <3>1. k < A(r) => Meets(st, k, s) < Meets(st, A(r), s)
      BY <1>4, <2>3, MeetsInOrder
    <3>2. Meets(st, A(r), s) \in Nat
      BY <2>3, MeetsType
    <3> QED BY <3>1, <3>2, <2>2, <1>2, <1>4
  <2> QED BY <2>3, <2>4, <2>5, <1>4, MeshAssumption DEF Others, Invokers
<1>6. ASSUME NEW r \in 0 .. c - 1
      PROVE  Rank(s, A(r)) + 1 <= Rank(s, k) /\ Rank(s, A(r)) \in Nat
  <2>1. A(r) \in Others(s) /\ A(r) < k
    BY <1>2, <1>5
  <2> HIDE DEF A
  <2> QED BY <2>1, <1>4, MeshAssumption DEF Others, Invokers, Rank
<1>7. Rank(s, k) \in Nat
  BY <1>4, RankOfPeer
<1>8. \A r \in 0 .. c - 1 :
        /\ r <= Rank(s, A(r))
        /\ \A q \in 0 .. r - 1 : Rank(s, A(q)) + (r - q) <= Rank(s, A(r))
  BY DEF InTurn
<1>9. \A q \in 0 .. c - 1 : Rank(s, A(q)) + (c - q) <= Rank(s, k)
  <2> SUFFICES ASSUME NEW q \in 0 .. c - 1
               PROVE  Rank(s, A(q)) + (c - q) <= Rank(s, k)
    OBVIOUS
  <2>1. /\ c - 1 \in 0 .. c - 1 /\ q \in Nat
    BY <1>2
  <2>2. /\ Rank(s, A(c - 1)) + 1 <= Rank(s, k) /\ Rank(s, A(c - 1)) \in Nat
        /\ Rank(s, A(q)) \in Nat
    BY <1>6, <2>1
  <2>3. q = c - 1 \/ Rank(s, A(q)) + (c - 1 - q) <= Rank(s, A(c - 1))
    <3>1. q = c - 1 \/ q \in 0 .. (c - 1) - 1
      BY <1>2
    <3> QED BY <1>8, <2>1, <3>1
  <2> HIDE DEF A, c
  <2> QED BY <1>2, <1>7, <2>1, <2>2, <2>3
<1>10. c <= Rank(s, k)
  <2>1. CASE c = 0
    BY <1>7, <2>1
  <2>2. CASE c # 0
    <3>1. c - 1 \in 0 .. c - 1 /\ 0 \in 0 .. c - 1
      BY <1>2, <2>2
    <3>2. Rank(s, A(0)) + (c - 0) <= Rank(s, k) /\ Rank(s, A(0)) \in Nat
      BY <1>6, <1>9, <3>1
    <3> HIDE DEF A, c
    <3> QED BY <3>2, <1>2, <1>7
  <2> QED BY <2>1, <2>2
<1> SUFFICES ASSUME NEW r \in 0 .. c
             PROVE  /\ r <= Rank(s, Arrival(s, r)')
                    /\ \A q \in 0 .. r - 1 :
                         Rank(s, Arrival(s, q)') + (r - q) <= Rank(s, Arrival(s, r)')
  <2>1. (c + 1) - 1 = c
    BY <1>2
  <2> HIDE DEF c
  <2> QED BY <1>1, <2>1 DEF InTurn, Rank
<1>11. CASE r = c
  <2>1. Arrival(s, r)' = k /\ \A q \in 0 .. r - 1 : Arrival(s, q)' = A(q)
    BY <1>1, <1>11
  <2> HIDE DEF A, c
  <2> QED BY <2>1, <1>9, <1>10, <1>11
<1>12. CASE r # c
  <2>1. r \in 0 .. c - 1 /\ \A q \in 0 .. r - 1 : q \in 0 .. c - 1
    BY <1>2, <1>12
  <2>2. Arrival(s, r)' = A(r) /\ \A q \in 0 .. r - 1 : Arrival(s, q)' = A(q)
    BY <1>1, <2>1
  <2> HIDE DEF A, c
  <2> QED BY <2>1, <2>2, <1>8
<1> QED BY <1>11, <1>12

\* So does every other step.
LEMMA OrderStep ==
  ASSUME TypeInv, NEW st \in Starts, Close(st), KeepsTime(st), [Next]_vars,
         \A n \in Invokers : InTurn(n), NEW n \in Invokers
  PROVE  InTurn(n)'
<1>1. Came(n) \in Nat /\ InTurn(n)
  BY ArrivalType
<1>2. CASE UNCHANGED <<slot, server_socks, backlog>>
  BY <1>1, <1>2, ArrivalKept, InTurnKept
<1>3. ASSUME NEW k \in Invokers, Accept(k)
      PROVE  InTurn(n)'
  BY <1>1, <1>3, AcceptArrival, InTurnKept
<1>4. ASSUME NEW k \in Invokers, Connect(k)
      PROVE  InTurn(n)'
  <2>1. PICK s \in Invokers : s = i[k]
    BY DEF TypeInv, TypeOK
  <2>2. CASE listening[s] /\ pc[s] # "exit"
    <3>1. CASE n = s
      BY <1>1, <1>4, <2>1, <2>2, <3>1, OrderConnect
    <3>2. CASE n # s
      <4>1. Came(n)' = Came(n) /\ \A r : Arrival(n, r)' = Arrival(n, r)
        BY <1>4, <2>1, <2>2, <3>2, ConnectArrival DEF Others
      <4> QED BY <1>1, <4>1, InTurnKept
    <3> QED BY <3>1, <3>2
  <2>3. CASE ~(listening[s] /\ pc[s] # "exit")
    <3>1. UNCHANGED <<slot, server_socks, backlog>>
      BY <1>4, <2>1, <2>3, RefusedValue DEF sockVars, netVars
    <3> QED BY <1>2, <3>1
  <2> QED BY <2>2, <2>3
<1>5. Next => \/ \E k \in Invokers : Connect(k)
              \/ \E k \in Invokers : Accept(k)
              \/ Elapse \/ \E k \in Invokers : Ends(k) \/ RestOver(k) \/ Listen(k)
                             \/ AcceptEnd(k) \/ Write(k) \/ Read(k)
  BY Zenon DEF Next, Invoker
<1>6. CASE Elapse \/ UNCHANGED vars \/ \E k \in Invokers : Ends(k) \/ RestOver(k)
             \/ Listen(k) \/ AcceptEnd(k) \/ Write(k) \/ Read(k)
  BY <1>2, <1>6, NobodyComes
<1> QED BY <1>3, <1>4, <1>5, <1>6

\* All have come, each after one with a lower number: then each is in its own place.
LEMMA AllInPlace ==
  ASSUME TypeInv, NEW k \in Invokers, InTurn(k), slot_next(k) = total_invoker_num,
         NEW j \in Others(k)
  PROVE  server_socks[k][j] = j
<1> USE MeshAssumption
<1> DEFINE r == Rank(k, j)
           a == Arrival(k, r)
           l == total_invoker_num - 2
<1>1. /\ r \in 0 .. l /\ peer_inv_ips(k)[r] = j /\ l \in Nat
  BY RankOfPeer
<1>2. /\ Taken(k) = l + 1 /\ Came(k) \in Nat /\ l + 1 <= Came(k)
      /\ \A m \in 0 .. Came(k) - 1 : Arrival(k, m) \in Others(k)
  BY ArrivalType DEF Came
<1>3. r \in 0 .. Came(k) - 1 /\ l \in 0 .. Came(k) - 1 /\ r < Taken(k)
  BY <1>1, <1>2
<1>4. a = server_socks[k][j]
  BY <1>1, <1>3 DEF Arrival
<1>5. /\ a \in Others(k) /\ Rank(k, a) \in 0 .. l /\ peer_inv_ips(k)[Rank(k, a)] = a
      /\ Rank(k, Arrival(k, l)) \in 0 .. l
  BY <1>2, <1>3, RankOfPeer
<1>6. r <= Rank(k, a)
  BY <1>3 DEF InTurn
<1>7. r = l \/ Rank(k, a) + (l - r) <= Rank(k, Arrival(k, l))
  <2>1. r = l \/ r \in 0 .. l - 1
    BY <1>1
  <2> QED BY <2>1, <1>3 DEF InTurn
<1>8. Rank(k, a) = r
  <2> HIDE DEF a, r, l
  <2> QED BY <1>1, <1>5, <1>6, <1>7
<1> QED BY <1>1, <1>4, <1>5, <1>8

\* An invoker that comes out of accept has filed the connection of every other under that
\* one's number, for any number of invokers, if they start close enough together.
THEOREM PeerOrderHolds ==
  ASSUME CloseGaps
  PROVE  Spec => []PeerOrder
<1> DEFINE IInv == \E st \in Starts : Close(st) /\ KeepsTime(st)
                                      /\ \A n \in Invokers : InTurn(n)
<1>1. Init => IInv
  <2> SUFFICES ASSUME Init
               PROVE  IInv
    OBVIOUS
  <2>1. PICK gap \in Gaps :
          wake = [k \in Invokers |-> StartOf(gap)[k] + Delay(k, 0)]
    BY Zenon DEF Init, StartOf, Gaps
  <2>2. StartOf(gap) \in Starts /\ Close(StartOf(gap))
    BY StartsFollow
  <2>3. KeepsTime(StartOf(gap))
    BY <2>1, <2>2, TimeInit
  <2>4. ASSUME NEW n \in Invokers
        PROVE  InTurn(n)
    <3>1. slot[n] = 0 /\ backlog[n] = << >> /\ 0 <= n
      BY DEF Init, Invokers
    <3>2. Came(n) = 0
      BY <3>1 DEF Came, Taken
    <3> QED BY <3>2 DEF InTurn
  <2> QED BY <2>2, <2>3, <2>4, Zenon
<1>2. TypeInv /\ IInv /\ [Next]_vars => IInv'
  <2> SUFFICES ASSUME TypeInv, IInv, [Next]_vars
               PROVE  IInv'
    OBVIOUS
  <2>1. PICK st \in Starts : Close(st) /\ KeepsTime(st) /\ \A n \in Invokers : InTurn(n)
    OBVIOUS
  <2>2. KeepsTime(st)'
    BY <2>1, TimeStep
  <2>3. \A n \in Invokers : InTurn(n)'
    BY <2>1, OrderStep
  <2>4. Starts' = Starts /\ Close(st)' = Close(st) /\ Invokers' = Invokers
    BY DEF Starts, Close, Invokers, LastInvoker
  <2> QED BY <2>1, <2>2, <2>3, <2>4, Zenon
<1>3. TypeInv /\ IInv => PeerOrder
  BY AllInPlace DEF PeerOrder
<1> HIDE DEF IInv
<1> QED BY <1>1, <1>2, <1>3, PositionHolds, PTL DEF Spec

-----------------------------------------------------------------------------
(* The tables agree. *)

\* What invoker k holds for invoker j is right; or j ended, and it is the garbage of a
\* read that came to the end of the connection.
GoodKey(k, j) ==
  \/ keys[k][IndexFor(k, j)] = [from |-> j, qp |-> IndexFor(j, k)]
  \/ keys[k][IndexFor(k, j)] = Garbage /\ pc[j] = "exit"

\* Between k and j: k's connection goes where it should, what j sent to k is about the
\* queue pair it keeps for k, and what k has read of it is in its place.
PairAgrees(k, j) ==
  /\ Rank(k, j) < cur_sock[k] => inv_sockfd[k][j] = j
  /\ \A n \in 1 .. Len(chan[j][k]) : chan[j][k][n] = [from |-> j, qp |-> IndexFor(j, k)]
  /\ IndexFor(k, j) < qp_num[k] => GoodKey(k, j)

Tables ==
  \A k \in Invokers :
    /\ DOMAIN keys[k] = QP_START .. QP_START + total_invoker_num - 2
    /\ \A j \in Others(k) : PairAgrees(k, j)

\* The index of the queue pair for invoker j counts the others before j.
LEMMA IndexIsRank ==
  ASSUME NEW k \in Invokers, NEW j \in Others(k)
  PROVE  /\ IndexFor(k, j) = QP_START + Rank(k, j)
         /\ Rank(k, j) \in 0 .. total_invoker_num - 2
         /\ IndexFor(k, j) \in Nat
<1>1. IndexFor(k, j) = QP_START + Rank(k, j)
  BY DEF IndexFor, Rank
<1>2. Rank(k, j) \in 0 .. total_invoker_num - 2
  BY RankOfPeer
<1> QED BY <1>1, <1>2, MeshAssumption

\* What PairAgrees is about.
LEMMA PairKept ==
  ASSUME NEW k, NEW j, PairAgrees(k, j), cur_sock'[k] = cur_sock[k],
         inv_sockfd'[k] = inv_sockfd[k], chan'[j][k] = chan[j][k],
         qp_num'[k] = qp_num[k], keys'[k] = keys[k], pc[j] = "exit" => pc'[j] = "exit"
  PROVE  PairAgrees(k, j)'
BY DEF PairAgrees, GoodKey, IndexFor, Rank

\* The connection is noted under the number of the server.
LEMMA TablesConnect ==
  ASSUME TypeInv, Tables, NEW k \in Invokers, Connect(k),
         listening[i[k]], pc[i[k]] # "exit",
         \A n \in Invokers : pc[n] = "exit" => pc'[n] = "exit"
  PROVE  Tables'
<1>1. PICK s \in Others(k) : s = i[k] /\ cur_sock[k] = Rank(k, s)
  BY ServerValue DEF Connect
<1>2. /\ inv_sockfd' = [inv_sockfd EXCEPT ![k][s] = s]
      /\ cur_sock' = [cur_sock EXCEPT ![k] = @ + 1]
      /\ qp_num' = qp_num /\ keys' = keys /\ chan' = chan
  BY <1>1, ConnectValue DEF qpVars
<1>3. /\ inv_sockfd \in [Invokers -> [Invokers -> Invokers \cup {None}]]
      /\ cur_sock \in [Invokers -> 0 .. total_invoker_num - 1]
      /\ s \in Invokers
  BY <1>1 DEF TypeInv, TypeOK, Others
<1>4. /\ inv_sockfd'[k][s] = s /\ cur_sock'[k] = Rank(k, s) + 1
      /\ \A j \in Invokers : j # s => inv_sockfd'[k][j] = inv_sockfd[k][j]
      /\ \A n \in Invokers : n # k =>
           inv_sockfd'[n] = inv_sockfd[n] /\ cur_sock'[n] = cur_sock[n]
  BY <1>1, <1>2, <1>3
<1>5. ASSUME NEW n \in Invokers, NEW j \in Others(n)
      PROVE  PairAgrees(n, j)'
  <2>1. PairAgrees(n, j) /\ j \in Invokers
    BY DEF Tables, Others
  <2>2. CASE n # k
    BY <1>2, <1>4, <2>1, <2>2, PairKept
  <2>3. CASE n = k
    <3>1. Rank(k, j) < Rank(k, s) + 1 => inv_sockfd'[k][j] = j
      <4>1. CASE j = s
        BY <1>4, <4>1
      <4>2. CASE j # s
        <5>1. Rank(k, j) # Rank(k, s) /\ Rank(k, j) \in Nat /\ Rank(k, s) \in Nat
          BY <1>1, <2>3, <4>2, RankOfPeer
        <5>2. Rank(k, j) < Rank(k, s) => inv_sockfd[k][j] = j
          BY <1>1, <2>1, <2>3 DEF PairAgrees
        <5>3. inv_sockfd'[k][j] = inv_sockfd[k][j]
          BY <1>4, <2>1, <4>2
        <5> QED BY <5>1, <5>2, <5>3
      <4> QED BY <4>1, <4>2
    <3>2. GoodKey(k, j) => GoodKey(k, j)'
      BY <1>2, <2>1 DEF GoodKey, IndexFor
    <3> QED BY <1>2, <1>4, <2>1, <2>3, <3>1, <3>2 DEF PairAgrees, IndexFor, Rank
  <2> QED BY <2>2, <2>3
<1>6. keys' = keys
  BY <1>2
<1> QED BY <1>5, <1>6 DEF Tables, Invokers, Others

\* What is written goes over the connection to the invoker written about.
LEMMA WriteTo ==
  ASSUME TypeInv, Tables, NEW w \in Invokers, Write(w)
  PROVE  \E t \in Others(w) :
           /\ Rank(w, t) = sent[w]
           /\ chan' = [chan EXCEPT ![w][t] =
                         Append(@, [from |-> w, qp |-> IndexFor(w, t)])]
<1> USE MeshAssumption
<1>1. /\ pc[w] = "exchange" /\ i[w] = w
      /\ chan' = [chan EXCEPT ![w][inv_sockfd[w][peer_inv_ips(w)[sent[w]]]] =
                    Append(@, [from |-> w, qp |-> send_qp_num[w]])]
  BY DEF Write
<1>2. /\ cur_sock[w] = total_invoker_num - 1 /\ sent[w] \in 0 .. total_invoker_num - 2
      /\ send_qp_num[w] = QP_START + sent[w]
  <2>1. Position(w) /\ sent[w] \in Nat
    BY DEF TypeInv, TypeOK
  <2>2. w \in Nat
    BY DEF Invokers
  <2>3. /\ pc[w] = "exchange" => cur_sock[w] = total_invoker_num - 1
        /\ pc[w] = "exchange" /\ i[w] = w => sent[w] < total_invoker_num - 1
        /\ send_qp_num[w] = QP_START + sent[w]
    BY <2>1, Zenon DEF Position
  <2>4. pc[w] = "exchange" /\ i[w] = w
    BY <1>1
  <2> QED BY <2>1, <2>2, <2>3, <2>4
<1>3. PICK t \in Others(w) : t = peer_inv_ips(w)[sent[w]] /\ Rank(w, t) = sent[w]
  BY <1>2, RankOfPeer
<1>4. inv_sockfd[w][t] = t
  <2>1. PairAgrees(w, t)
    BY DEF Tables
  <2>2. Rank(w, t) < cur_sock[w]
    BY <1>2, <1>3
  <2> QED BY <2>1, <2>2 DEF PairAgrees
<1>5. IndexFor(w, t) = send_qp_num[w]
  BY <1>2, <1>3, IndexIsRank
<1>6. chan' = [chan EXCEPT ![w][t] = Append(@, [from |-> w, qp |-> IndexFor(w, t)])]
  BY <1>1, <1>3, <1>4, <1>5, Zenon
<1> QED BY <1>3, <1>6

\* What is written goes to whom it is about.
LEMMA TablesWrite ==
  ASSUME TypeInv, Tables, NEW w \in Invokers, Write(w),
         \A n \in Invokers : pc[n] = "exit" => pc'[n] = "exit"
  PROVE  Tables'
<1> USE MeshAssumption
<1>1. cur_sock' = cur_sock /\ inv_sockfd' = inv_sockfd /\ qp_num' = qp_num /\ keys' = keys
  BY DEF Write, sockVars
<1>2. chan \in [Invokers -> [Invokers -> Seq(Info)]]
  BY DEF TypeInv, TypeOK
<1>3. PICK t \in Others(w) :
        chan' = [chan EXCEPT ![w][t] = Append(@, [from |-> w, qp |-> IndexFor(w, t)])]
  BY WriteTo
<1> DEFINE x == [from |-> w, qp |-> IndexFor(w, t)]
           c == chan[w][t]
<1>5. /\ chan' = [chan EXCEPT ![w][t] = Append(c, x)]
      /\ t \in Invokers /\ c \in Seq(Info)
  <2>1. t \in Invokers
    BY DEF Others
  <2>2. chan[w][t] \in Seq(Info)
    BY <1>2, <2>1
  <2> QED BY <1>3, <2>1, <2>2
<1>6. /\ chan'[w][t] = Append(c, x)
      /\ \A j, k \in Invokers : <<j, k>> # <<w, t>> => chan'[j][k] = chan[j][k]
  <2> HIDE DEF c, x
  <2> QED BY <1>2, <1>5
<1>7. ASSUME NEW k \in Invokers, NEW j \in Others(k)
      PROVE  PairAgrees(k, j)'
  <2>1. PairAgrees(k, j) /\ j \in Invokers
    BY DEF Tables, Others
  <2>2. CASE <<j, k>> # <<w, t>>
    BY <1>1, <1>6, <2>1, <2>2, PairKept
  <2>3. CASE j = w /\ k = t
    <3>1. \A n \in 1 .. Len(c) : c[n] = x
      BY <2>1, <2>3 DEF PairAgrees
    <3>2. \A n \in 1 .. Len(Append(c, x)) : Append(c, x)[n] = x
      <4> HIDE DEF x, c
      <4>1. x \in Info => Append(c, x) \in Seq(Info)
        BY <1>5, AppendProperties
      <4>2. /\ Len(Append(c, x)) = Len(c) + 1 /\ Append(c, x)[Len(c) + 1] = x
            /\ \A n \in 1 .. Len(c) : Append(c, x)[n] = c[n]
            /\ Len(c) \in Nat
        BY <1>5, LenProperties
      <4> QED BY <4>2, <3>1
    <3>3. \A n \in 1 .. Len(chan'[j][k]) :
            chan'[j][k][n] = [from |-> j, qp |-> IndexFor(j, k)]
      <4>1. chan'[j][k] = Append(c, x) /\ x = [from |-> j, qp |-> IndexFor(j, k)]
        BY <1>6, <2>3
      <4> HIDE DEF x, c
      <4> QED BY <4>1, <3>2
    <3>4. GoodKey(k, j) => GoodKey(k, j)'
      BY <1>1, <2>1 DEF GoodKey, IndexFor
    <3> QED BY <1>1, <2>1, <3>3, <3>4 DEF PairAgrees, IndexFor, Rank
  <2> QED BY <2>2, <2>3
<1> QED BY <1>1, <1>7 DEF Tables, Invokers, Others

\* Whom invoker k reads from in a turn is the invoker whose turn it is, and the index
\* counted by reads is that of the queue pair for it.
LEMMA SourceInTurn ==
  ASSUME TypeInv, PeerOrder, NEW k \in Invokers, pc[k] = "exchange", i[k] # k
  PROVE  /\ i[k] \in Others(k) /\ server_socks[k][i[k]] = i[k]
         /\ qp_num[k] = IndexFor(k, i[k])
<1>1. Position(k) /\ i[k] \in Others(k)
  BY DEF TypeInv, TypeOK, Others
<1>2. server_socks[k][i[k]] = i[k]
  <2>1. slot_next(k) = total_invoker_num
    BY <1>1 DEF Position
  <2> QED BY <1>1, <2>1 DEF PeerOrder
<1>3. qp_num[k] = QP_START + Rank(k, i[k])
  <2>1. qp_num[k] = QP_START + (IF i[k] <= k THEN i[k] ELSE i[k] - 1)
    BY <1>1 DEF Position
  <2>2. i[k] \in Nat /\ k \in Nat
    BY <1>1 DEF Others, Invokers
  <2> QED BY <2>1, <2>2 DEF Rank
<1> QED BY <1>1, <1>2, <1>3, IndexIsRank

\* What is read goes to its place: the connection filed under j is j's, so the index
\* counted by reads is that of the queue pair for j.
LEMMA TablesRead ==
  ASSUME TypeInv, PeerOrder, Tables, NEW k \in Invokers, Read(k),
         \A n \in Invokers : pc[n] = "exit" => pc'[n] = "exit"
  PROVE  Tables'
<1> USE MeshAssumption
<1>1. /\ pc[k] = "exchange" /\ i[k] # k /\ Readable(k, server_socks[k][i[k]])
      /\ cur_sock' = cur_sock /\ inv_sockfd' = inv_sockfd
  BY DEF Read, sockVars
<1>2. PICK p \in Others(k) : /\ p = i[k] /\ server_socks[k][i[k]] = p
                             /\ qp_num[k] = IndexFor(k, p)
  BY <1>1, SourceInTurn
<1> DEFINE c == chan[p][k]
           v == IF c # << >> THEN Head(c) ELSE Garbage
           rest == IF c # << >> THEN Tail(c) ELSE c
           q == qp_num[k]
<1>3. /\ keys' = [keys EXCEPT ![k][q] = v]
      /\ chan' = [chan EXCEPT ![p][k] = rest]
      /\ qp_num' = [qp_num EXCEPT ![k] = @ + 1]
  BY <1>2 DEF Read
<1>4. /\ p \in Invokers /\ DOMAIN keys = Invokers /\ q \in Nat
      /\ qp_num \in [Invokers -> QP_START .. QP_START + total_invoker_num - 1]
      /\ chan \in [Invokers -> [Invokers -> Seq(Info)]]
      /\ DOMAIN keys[k] = QP_START .. QP_START + total_invoker_num - 2
  <2>1. /\ p \in Invokers /\ DOMAIN keys = Invokers
        /\ qp_num \in [Invokers -> QP_START .. QP_START + total_invoker_num - 1]
        /\ chan \in [Invokers -> [Invokers -> Seq(Info)]]
    BY DEF Others, TypeInv, TypeOK
  <2>2. DOMAIN keys[k] = QP_START .. QP_START + total_invoker_num - 2
    BY DEF Tables
  <2> QED BY <2>1, <2>2
<1>5. q = IndexFor(k, p) /\ q \in QP_START .. QP_START + total_invoker_num - 2
  BY <1>2, IndexIsRank
<1>6. c \in Seq(Info)
  BY <1>4
<1> HIDE DEF q, v, rest, c
<1>7. /\ keys'[k][q] = v /\ DOMAIN keys'[k] = DOMAIN keys[k]
      /\ \A n : n \in DOMAIN keys[k] /\ n # q => keys'[k][n] = keys[k][n]
      /\ \A n \in Invokers : n # k => keys'[n] = keys[n]
  BY <1>3, <1>4, <1>5
<1>8. /\ chan'[p][k] = rest
      /\ \A j, n \in Invokers : <<j, n>> # <<p, k>> => chan'[j][n] = chan[j][n]
  BY <1>3, <1>4
<1>9. /\ qp_num'[k] = q + 1 /\ \A n \in Invokers : n # k => qp_num'[n] = qp_num[n]
  BY <1>3, <1>4 DEF q
<1>10. \A n \in 1 .. Len(c) : c[n] = [from |-> p, qp |-> IndexFor(p, k)]
  BY DEF Tables, PairAgrees, c
<1>11. /\ \A n \in 1 .. Len(rest) : rest[n] = [from |-> p, qp |-> IndexFor(p, k)]
       /\ c # << >> => v = [from |-> p, qp |-> IndexFor(p, k)]
  <2>1. CASE c = << >>
    BY <1>10, <2>1 DEF rest
  <2>2. CASE c # << >>
    <3>1. /\ Len(Tail(c)) = Len(c) - 1 /\ Len(c) \in Nat /\ Len(c) >= 1
          /\ c[1] = Head(c)
          /\ \A n \in 1 .. Len(c) - 1 : Tail(c)[n] = c[n + 1]
      <4>1. Len(c) \in Nat /\ Len(c) # 0
        BY <1>6, <2>2, LenProperties, EmptySeq
      <4> QED BY <4>1, <1>6, <2>2, HeadTailProperties
    <3>2. v = Head(c) /\ rest = Tail(c)
      BY <2>2 DEF v, rest
    <3>3. \A n \in 1 .. Len(c) - 1 : n + 1 \in 1 .. Len(c)
      BY <3>1
    <3> QED BY <3>1, <3>2, <3>3, <1>10
  <2> QED BY <2>1, <2>2
<1>12. c = << >> => v = Garbage /\ pc[p] = "exit"
  BY <1>1, <1>2 DEF Readable, c, v
<1>13. ASSUME NEW n \in Invokers, NEW j \in Others(n)
       PROVE  PairAgrees(n, j)'
  <2>1. PairAgrees(n, j) /\ j \in Invokers
    BY DEF Tables, Others
  <2>2. CASE n # k
    <3>1. <<j, n>> # <<p, k>>
      BY <2>2
    <3>2. chan'[j][n] = chan[j][n]
      BY <1>8, <2>1, <3>1
    <3> QED BY <1>1, <1>7, <1>9, <2>1, <2>2, <3>2, PairKept
  <2>3. CASE n = k
    <3>1. \A m \in 1 .. Len(chan'[j][k]) :
            chan'[j][k][m] = [from |-> j, qp |-> IndexFor(j, k)]
      <4>1. CASE j = p
        BY <1>8, <1>11, <4>1
      <4>2. CASE j # p
        <5>1. chan'[j][k] = chan[j][k]
          BY <1>8, <2>1, <4>2
        <5> QED BY <2>1, <2>3, <5>1 DEF PairAgrees
      <4> QED BY <4>1, <4>2
    <3>2. IndexFor(k, j) < q + 1 => GoodKey(k, j)'
      <4>1. CASE j = p
        <5>1. pc[p] = "exit" => pc'[p] = "exit"
          BY <1>4
        <5>2. \/ v = [from |-> p, qp |-> IndexFor(p, k)]
              \/ v = Garbage /\ pc'[p] = "exit"
          BY <1>11, <1>12, <5>1
        <5>3. keys'[k][IndexFor(k, j)] = v
          BY <1>5, <1>7, <4>1
        <5> QED BY <4>1, <5>2, <5>3 DEF GoodKey, IndexFor
      <4>2. CASE j # p
        <5> SUFFICES ASSUME IndexFor(k, j) < q + 1
                     PROVE  GoodKey(k, j)'
          OBVIOUS
        <5>1. /\ IndexFor(k, j) = QP_START + Rank(k, j)
              /\ Rank(k, j) \in 0 .. total_invoker_num - 2
              /\ IndexFor(k, p) = QP_START + Rank(k, p)
              /\ Rank(k, p) \in 0 .. total_invoker_num - 2
              /\ Rank(k, j) # Rank(k, p)
          BY <2>3, <4>2, IndexIsRank, RankOfPeer
        <5>2. IndexFor(k, j) < q /\ IndexFor(k, j) # q
              /\ IndexFor(k, j) \in QP_START .. QP_START + total_invoker_num - 2
          BY <1>5, <5>1
        <5>3. GoodKey(k, j)
          BY <2>1, <2>3, <5>2 DEF PairAgrees, q
        <5>4. keys'[k][IndexFor(k, j)] = keys[k][IndexFor(k, j)]
          BY <1>4, <1>7, <5>2
        <5> QED BY <2>1, <5>3, <5>4 DEF GoodKey, IndexFor
      <4> QED BY <4>1, <4>2
    <3>3. Rank(k, j) < cur_sock'[k] => inv_sockfd'[k][j] = j
      BY <1>1, <2>1, <2>3 DEF PairAgrees
    <3> QED BY <1>9, <2>3, <3>1, <3>2, <3>3 DEF PairAgrees, IndexFor, Rank
  <2> QED BY <2>2, <2>3
<1>14. \A n \in Invokers :
         DOMAIN keys'[n] = QP_START .. QP_START + total_invoker_num - 2
  BY <1>7 DEF Tables
<1> QED BY <1>13, <1>14 DEF Tables, Invokers, Others

\* The tables are right, if the invokers start close enough together.
LEMMA TablesHold ==
  ASSUME CloseGaps
  PROVE  Spec => []Tables
<1> USE MeshAssumption
<1>1. Init => Tables
  <2>1. ASSUME Init, NEW k \in Invokers
        PROVE  /\ DOMAIN keys[k] = QP_START .. QP_START + total_invoker_num - 2
               /\ cur_sock[k] = 0 /\ qp_num[k] = QP_START
               /\ \A j \in Invokers : chan[j][k] = << >>
    BY <2>1 DEF Init
  <2>2. ASSUME Init, NEW k \in Invokers, NEW j \in Others(k)
        PROVE  PairAgrees(k, j)
    <3>1. cur_sock[k] = 0 /\ qp_num[k] = QP_START /\ chan[j][k] = << >>
      BY <2>1, <2>2 DEF Others
    <3>2. Rank(k, j) \in Nat /\ IndexFor(k, j) = QP_START + Rank(k, j)
      BY IndexIsRank
    <3> QED BY <3>1, <3>2 DEF PairAgrees
  <2> QED BY <2>1, <2>2 DEF Tables
<1>2. TypeInv /\ Timetable /\ PeerOrder /\ Tables /\ [Next]_vars => Tables'
  <2> SUFFICES ASSUME TypeInv, Timetable, PeerOrder, Tables, [Next]_vars
               PROVE  Tables'
    OBVIOUS
  <2>1. \A n \in Invokers : pc[n] = "exit" => pc'[n] = "exit"
    BY EndsForCause
  <2>2. CASE UNCHANGED <<cur_sock, inv_sockfd, chan, qp_num, keys>>
    BY <2>1, <2>2, PairKept DEF Tables, Invokers, Others
  <2>3. ASSUME NEW k \in Invokers, Connect(k)
        PROVE  Tables'
    <3>1. CASE listening[i[k]] /\ pc[i[k]] # "exit"
      BY <2>1, <2>3, <3>1, TablesConnect
    <3>2. CASE ~(listening[i[k]] /\ pc[i[k]] # "exit")
      BY <2>2, <2>3, <3>2, RefusedValue DEF sockVars, qpVars, netVars
    <3> QED BY <3>1, <3>2
  <2>4. ASSUME NEW k \in Invokers, Write(k)
        PROVE  Tables'
    BY <2>1, <2>4, TablesWrite
  <2>5. ASSUME NEW k \in Invokers, Read(k)
        PROVE  Tables'
    BY <2>1, <2>5, TablesRead
  <2>6. ASSUME Elapse \/ UNCHANGED vars \/ \E k \in Invokers :
                 Ends(k) \/ RestOver(k) \/ Listen(k) \/ Accept(k) \/ AcceptEnd(k)
        PROVE  Tables'
    <3>1. UNCHANGED <<cur_sock, inv_sockfd, chan, qp_num, keys>>
      BY <2>6 DEF Elapse, vars, Ends, RestOver, Listen, Accept, AcceptEnd, sockVars,
                  qpVars, netVars
    <3> QED BY <2>2, <3>1
  <2>7. Next => \/ \E k \in Invokers : Connect(k)
                \/ \E k \in Invokers : Write(k)
                \/ \E k \in Invokers : Read(k)
                \/ Elapse \/ \E k \in Invokers :
                     Ends(k) \/ RestOver(k) \/ Listen(k) \/ Accept(k) \/ AcceptEnd(k)
    BY Zenon DEF Next, Invoker
  <2> QED BY <2>3, <2>4, <2>5, <2>6, <2>7
<1> QED BY <1>1, <1>2, PositionHolds, TimetableHolds, PeerOrderHolds, PTL DEF Spec

\* A pair of invokers agrees about the two queue pairs they keep for each other, for any
\* number of invokers, if they start close enough together.
THEOREM TablesAgreeHolds ==
  ASSUME CloseGaps
  PROVE  Spec => []TablesAgree
<1> USE MeshAssumption
<1>1. TypeInv /\ Tables => TablesAgree
  <2> SUFFICES ASSUME TypeInv, Tables, NEW k \in Invokers, pc[k] = "done",
                      NEW j \in Others(k)
               PROVE  GoodKey(k, j)
    BY DEF TablesAgree, GoodKey
  <2>1. qp_num[k] = QP_START + total_invoker_num - 1
    BY DEF TypeInv, Position
  <2>2. IndexFor(k, j) < qp_num[k]
    BY <2>1, IndexIsRank
  <2> QED BY <2>2 DEF Tables, PairAgrees
<1> QED BY <1>1, PositionHolds, TablesHold, PTL

-----------------------------------------------------------------------------
(* Nobody waits for somebody who waits. *)

\* No invoker is out that was not killed, or had a server that was.
NobodyOut == killed = {} => \A n \in Invokers : pc[n] # "exit"

\* Whoever has connected to server k is among those who came to it.
EveryGuest(k) ==
  \A y \in Others(k) :
    Rank(y, k) < cur_sock[y] => \E r \in 0 .. Came(k) - 1 : Arrival(k, r) = y

\* What m has sent to k and k has not read is on its way.
Delivered(k, m) ==
  sent[m] > Rank(m, k) /\ qp_num[k] <= IndexFor(k, m) => chan[m][k] # << >>

Provided ==
  /\ NobodyOut
  /\ \A k \in Invokers : EveryGuest(k)
  /\ \A k \in Invokers : \A m \in Others(k) : Delivered(k, m)

\* As long as nobody is killed and not all are through, somebody can go on, or sleeps and
\* so will: nobody waits in accept or in read for somebody who waits
\* (invoker.cpp:306-372).
NobodyStuck ==
  killed = {} /\ (\E k \in Invokers : pc[k] # "done") =>
    \E k \in Invokers : CanGoOn(k) \/ Sleeping(k)

\* Nobody goes out by itself: only whoever is refused does, by a server that is out.
LEMMA NobodyOutKept ==
  ASSUME TypeInv, Timetable, [Next]_vars, NobodyOut
  PROVE  NobodyOut'
<1> SUFFICES ASSUME killed' = {}, NEW n \in Invokers, pc'[n] = "exit"
             PROVE  FALSE
  BY DEF NobodyOut, Invokers
<1>1. killed = {}
  <2>1. \A k \in Invokers : k \in killed => k \in killed'
    BY EndsForCause
  <2> QED BY <2>1 DEF TypeInv, TypeOK
<1>2. \A p \in Invokers : pc[p] # "exit"
  BY <1>1 DEF NobodyOut
<1>3. SomeoneOut
  BY <1>2, EndsForCause
<1> QED BY <1>2, <1>3 DEF SomeoneOut

\* The guests stay guests, as long as nobody connects.
LEMMA EveryGuestKept ==
  ASSUME NEW k \in Invokers, EveryGuest(k), Came(k)' = Came(k),
         \A r \in 0 .. Came(k) - 1 : Arrival(k, r)' = Arrival(k, r),
         \A y \in Others(k) : cur_sock'[y] = cur_sock[y]
  PROVE  EveryGuest(k)'
<1> SUFFICES ASSUME NEW y \in Others(k), Rank(y, k) < cur_sock'[y]
             PROVE  \E r \in 0 .. Came(k) - 1 : Arrival(k, r)' = y
  BY DEF EveryGuest, Others, Invokers, Rank
<1>1. PICK r \in 0 .. Came(k) - 1 : Arrival(k, r) = y
  BY DEF EveryGuest
<1> QED BY <1>1

\* Invoker c connects to s: it is a guest of s now, and of no other that it was not.
LEMMA EveryGuestConnect ==
  ASSUME TypeInv, NEW c \in Invokers, Connect(c), NEW s \in Invokers, s = i[c],
         listening[s], pc[s] # "exit", NEW k \in Invokers, EveryGuest(k)
  PROVE  EveryGuest(k)'
<1> SUFFICES ASSUME NEW y \in Others(k), Rank(y, k) < cur_sock'[y]
             PROVE  \E r \in 0 .. Came(k)' - 1 : Arrival(k, r)' = y
  BY DEF EveryGuest, Others, Invokers, Rank
<1>1. /\ s \in Others(c) /\ cur_sock[c] = Rank(c, s) /\ c \in Others(s)
      /\ cur_sock' = [cur_sock EXCEPT ![c] = @ + 1]
      /\ cur_sock \in [Invokers -> 0 .. total_invoker_num - 1]
  <2>1. pc[c] = "connect"
    BY DEF Connect
  <2>2. s \in Others(c) /\ cur_sock[c] = Rank(c, s)
    BY <2>1, ServerValue
  <2>3. cur_sock' = [cur_sock EXCEPT ![c] = @ + 1]
    BY ConnectValue
  <2> QED BY <2>2, <2>3 DEF Others, TypeInv, TypeOK
<1>2. Came(k) \in Nat
  BY ArrivalType
<1>3. ASSUME Rank(y, k) < cur_sock[y]
      PROVE  \E r \in 0 .. Came(k)' - 1 : Arrival(k, r)' = y
  <2>1. PICK r \in 0 .. Came(k) - 1 : Arrival(k, r) = y
    BY <1>3 DEF EveryGuest
  <2>2. Arrival(k, r)' = y /\ Came(k)' \in {Came(k), Came(k) + 1}
    <3>1. CASE k = s
      BY <2>1, <3>1, ConnectArrival
    <3>2. CASE k # s
      BY <2>1, <3>2, ConnectArrival DEF Others
    <3> QED BY <3>1, <3>2
  <2>3. r \in 0 .. Came(k)' - 1
    BY <1>2, <2>2
  <2> QED BY <2>2, <2>3
<1>4. CASE y # c
  BY <1>1, <1>3, <1>4 DEF Others
<1>5. CASE y = c /\ k # s
  <2>1. /\ Rank(c, k) < Rank(c, s) + 1
        /\ Rank(c, k) \in Nat /\ Rank(c, s) \in Nat /\ Rank(c, k) # Rank(c, s)
    <3>1. cur_sock'[c] = cur_sock[c] + 1 /\ k \in Others(c)
      BY <1>1, <1>5 DEF Others
    <3>2. /\ Rank(c, k) \in 0 .. total_invoker_num - 2
          /\ Rank(c, s) \in 0 .. total_invoker_num - 2
          /\ peer_inv_ips(c)[Rank(c, k)] = k /\ peer_inv_ips(c)[Rank(c, s)] = s
      BY <1>1, <3>1, RankOfPeer
    <3> QED BY <1>1, <1>5, <3>1, <3>2
  <2> QED BY <1>1, <1>3, <1>5, <2>1
<1>6. CASE y = c /\ k = s
  <2>1. PICK r \in Nat : r = Came(s)
    BY <1>2, <1>6
  <2>2. Came(s)' = r + 1 /\ Arrival(s, r)' = c
    BY <2>1, ConnectArrival
  <2>3. r \in 0 .. Came(k)' - 1
    BY <1>6, <2>2
  <2> QED BY <1>6, <2>2, <2>3
<1> QED BY <1>4, <1>5, <1>6

\* So it is with every step.
LEMMA EveryGuestStep ==
  ASSUME TypeInv, [Next]_vars, NEW k \in Invokers, EveryGuest(k)
  PROVE  EveryGuest(k)'
<1>1. CASE UNCHANGED <<slot, server_socks, backlog, cur_sock>>
  BY <1>1, ArrivalKept, EveryGuestKept
<1>2. ASSUME NEW n \in Invokers, Accept(n)
      PROVE  EveryGuest(k)'
  <2>1. cur_sock' = cur_sock
    BY <1>2 DEF Accept
  <2> QED BY <1>2, <2>1, AcceptArrival, EveryGuestKept
<1>3. ASSUME NEW n \in Invokers, Connect(n)
      PROVE  EveryGuest(k)'
  <2>1. PICK s \in Invokers : s = i[n]
    BY DEF TypeInv, TypeOK
  <2>2. CASE listening[s] /\ pc[s] # "exit"
    BY <1>3, <2>1, <2>2, EveryGuestConnect
  <2>3. CASE ~(listening[s] /\ pc[s] # "exit")
    <3>1. UNCHANGED <<slot, server_socks, backlog, cur_sock>>
      BY <1>3, <2>1, <2>3, RefusedValue DEF sockVars, netVars
    <3> QED BY <1>1, <3>1
  <2> QED BY <2>2, <2>3
<1>4. Next => \/ \E n \in Invokers : Connect(n)
              \/ \E n \in Invokers : Accept(n)
              \/ Elapse \/ \E n \in Invokers : Ends(n) \/ RestOver(n) \/ Listen(n)
                             \/ AcceptEnd(n) \/ Write(n) \/ Read(n)
  BY Zenon DEF Next, Invoker
<1>5. CASE Elapse \/ UNCHANGED vars \/ \E n \in Invokers : Ends(n) \/ RestOver(n)
             \/ Listen(n) \/ AcceptEnd(n) \/ Write(n) \/ Read(n)
  BY <1>1, <1>5, NobodyComes
<1> QED BY <1>2, <1>3, <1>4, <1>5

\* What is written is on its way, and to nobody else.
LEMMA DeliveredWrite ==
  ASSUME TypeInv, Tables, NEW w \in Invokers, Write(w), NEW k \in Invokers,
         NEW m \in Others(k), Delivered(k, m)
  PROVE  Delivered(k, m)'
<1> SUFFICES ASSUME sent'[m] > Rank(m, k), qp_num'[k] <= IndexFor(k, m)
             PROVE  chan'[m][k] # << >>
  BY DEF Delivered, Rank, IndexFor
<1>1. /\ sent' = [sent EXCEPT ![w] = @ + 1] /\ qp_num' = qp_num
      /\ sent \in [Invokers -> 0 .. total_invoker_num - 1]
      /\ chan \in [Invokers -> [Invokers -> Seq(Info)]]
      /\ m \in Invokers
  BY DEF Write, TypeInv, TypeOK, Others
<1>2. PICK t \in Others(w) :
        /\ Rank(w, t) = sent[w]
        /\ chan' = [chan EXCEPT ![w][t] =
                      Append(@, [from |-> w, qp |-> IndexFor(w, t)])]
  BY WriteTo
<1> DEFINE x == [from |-> w, qp |-> IndexFor(w, t)]
<1>3. CASE m = w /\ k = t
  <2>1. chan'[w][t] = Append(chan[w][t], x) /\ chan[w][t] \in Seq(Info)
    BY <1>1, <1>2 DEF Others
  <2>2. x \in Info
    <3>1. w \in Nat /\ t \in Nat /\ t # w /\ QP_START \in Nat
      BY MeshAssumption DEF Others, Invokers
    <3>2. IndexFor(w, t) \in Nat
      BY <3>1 DEF IndexFor
    <3>3. w \in Invokers
      OBVIOUS
    <3> QED BY <3>2, <3>3, Zenon DEF Info
  <2> HIDE DEF x
  <2>3. Append(chan[w][t], x) # << >>
    <3>1. PICK q \in Seq(Info) : q = chan[w][t]
      BY <2>1
    <3>2. Append(q, x) # << >>
      BY <2>2, AppendProperties
    <3> QED BY <3>1, <3>2, Zenon
  <2> QED BY <1>3, <2>1, <2>3
<1>4. CASE ~(m = w /\ k = t)
  <2>1. chan'[m][k] = chan[m][k]
    <3> HIDE DEF x
    <3> QED BY <1>1, <1>2, <1>4 DEF Others
  <2>2. sent[m] > Rank(m, k)
    <3>1. CASE m # w
      BY <1>1, <3>1
    <3>2. CASE m = w
      <4>1. k \in Others(w) /\ k # t
        BY <1>4, <3>2 DEF Others
      <4>2. /\ Rank(w, k) \in 0 .. total_invoker_num - 2
            /\ peer_inv_ips(w)[Rank(w, k)] = k /\ peer_inv_ips(w)[Rank(w, t)] = t
        BY <4>1, RankOfPeer
      <4>3. Rank(w, k) # sent[w] /\ sent'[w] = sent[w] + 1
        BY <1>1, <1>2, <4>1, <4>2
      <4> QED BY <1>1, <3>2, <4>2, <4>3
    <3> QED BY <3>1, <3>2
  <2> QED BY <1>1, <2>1, <2>2 DEF Delivered
<1> QED BY <1>3, <1>4

\* What is read was on its way, and nothing else is taken.
LEMMA DeliveredRead ==
  ASSUME TypeInv, PeerOrder, NEW n \in Invokers, Read(n), NEW k \in Invokers,
         NEW m \in Others(k), Delivered(k, m)
  PROVE  Delivered(k, m)'
<1> SUFFICES ASSUME sent'[m] > Rank(m, k), qp_num'[k] <= IndexFor(k, m)
             PROVE  chan'[m][k] # << >>
  BY DEF Delivered, Rank, IndexFor
<1>1. /\ pc[n] = "exchange" /\ i[n] # n /\ sent' = sent
      /\ qp_num' = [qp_num EXCEPT ![n] = @ + 1]
      /\ qp_num \in [Invokers -> QP_START .. QP_START + total_invoker_num - 1]
      /\ chan \in [Invokers -> [Invokers -> Seq(Info)]]
      /\ m \in Invokers
  BY DEF Read, TypeInv, TypeOK, Others
<1>2. PICK p \in Others(n) : /\ p = i[n] /\ server_socks[n][i[n]] = p
                             /\ qp_num[n] = IndexFor(n, p)
  BY <1>1, SourceInTurn
<1>3. chan' = [chan EXCEPT ![p][n] = IF @ # << >> THEN Tail(@) ELSE @]
  BY <1>2 DEF Read
<1>4. ~(k = n /\ m = p)
  <2>1. QP_START \in Nat /\ IndexFor(n, p) \in Nat
    BY <1>2, MeshAssumption, IndexIsRank
  <2> QED BY <1>1, <1>2, <2>1
<1>5. chan'[m][k] = chan[m][k]
  BY <1>1, <1>3, <1>4 DEF Others
<1>6. qp_num[k] <= IndexFor(k, m)
  <2>1. IndexFor(k, m) \in Nat /\ QP_START \in Nat
    BY MeshAssumption, IndexIsRank
  <2> QED BY <1>1, <2>1
<1> QED BY <1>1, <1>5, <1>6 DEF Delivered

\* All three are kept.
LEMMA ProvidedStep ==
  ASSUME TypeInv, Timetable, PeerOrder, Tables, [Next]_vars, Provided
  PROVE  Provided'
<1>1. NobodyOut'
  BY NobodyOutKept DEF Provided
<1>2. \A k \in Invokers : EveryGuest(k)'
  BY EveryGuestStep DEF Provided
<1>3. ASSUME NEW k \in Invokers, NEW m \in Others(k)
      PROVE  Delivered(k, m)'
  <2>1. Delivered(k, m)
    BY DEF Provided
  <2>2. CASE UNCHANGED <<sent, qp_num, chan>>
    BY <2>1, <2>2 DEF Delivered, Rank, IndexFor
  <2>3. ASSUME Elapse \/ UNCHANGED vars \/ \E n \in Invokers :
                 \/ Ends(n) \/ Connect(n) \/ RestOver(n) \/ Listen(n) \/ Accept(n)
                 \/ AcceptEnd(n)
        PROVE  UNCHANGED <<sent, qp_num, chan>>
    BY <2>3 DEF Elapse, vars, Ends, Connect, RestOver, Listen, Accept, AcceptEnd, qpVars,
                netVars
  <2>4. Next => \/ \E n \in Invokers : Write(n)
                \/ \E n \in Invokers : Read(n)
                \/ Elapse \/ \E n \in Invokers :
                     \/ Ends(n) \/ Connect(n) \/ RestOver(n) \/ Listen(n) \/ Accept(n)
                     \/ AcceptEnd(n)
    BY Zenon DEF Next, Invoker
  <2>5. CASE \E n \in Invokers : Write(n)
    BY <2>1, <2>5, DeliveredWrite
  <2>6. CASE \E n \in Invokers : Read(n)
    BY <2>1, <2>6, DeliveredRead
  <2> QED BY <2>2, <2>3, <2>4, <2>5, <2>6
<1> QED BY <1>1, <1>2, <1>3 DEF Provided, Invokers, Others

\* If everybody else has connected to server k, as many have come as there are others
\* (pigeonholes).
LEMMA AllConnected ==
  ASSUME TypeInv, NEW k \in Invokers, EveryGuest(k),
         \A y \in Others(k) : Rank(y, k) < cur_sock[y]
  PROVE  Came(k) >= total_invoker_num - 1
<1> USE MeshAssumption
<1> DEFINE c == Came(k)
           R == 0 .. c - 1
           D == 0 .. total_invoker_num - 2
           f == [r \in R |-> Rank(k, Arrival(k, r))]
<1>1. c \in Nat /\ \A r \in R : Arrival(k, r) \in Others(k)
  BY ArrivalType
<1>2. f \in [R -> D]
  BY <1>1, RankOfPeer
<1>3. \A d \in D : \E r \in R : f[r] = d
  <2> SUFFICES ASSUME NEW d \in D
               PROVE  \E r \in R : f[r] = d
    OBVIOUS
  <2>1. PICK y \in Others(k) : Rank(k, y) = d
    BY RankOfPeer
  <2>2. PICK r \in R : Arrival(k, r) = y
    BY DEF EveryGuest
  <2> QED BY <2>1, <2>2
<1>4. f \in Surjection(R, D)
  <2> HIDE DEF f, R, D
  <2> QED BY <1>2, <1>3, Zenon DEF Surjection
<1>5. IsFiniteSet(R) /\ Cardinality(R) = IF 0 > c - 1 THEN 0 ELSE c - 1 - 0 + 1
  <2>1. 0 \in Int /\ c - 1 \in Int
    BY <1>1
  <2> HIDE DEF c
  <2> QED BY <2>1, FS_Interval, Zenon
<1>6. Cardinality(D) = total_invoker_num - 1
  BY FS_Interval
<1>7. Cardinality(D) <= Cardinality(R)
  <2> HIDE DEF f, R, D
  <2> QED BY <1>4, <1>5, FS_Surjection
<1> QED BY <1>1, <1>5, <1>6, <1>7

\* A server that all have connected to can go on: it has somebody to accept, or all.
LEMMA ServerGoesOn ==
  ASSUME TypeInv, NEW k \in Invokers, EveryGuest(k), pc[k] = "accept",
         \A y \in Others(k) : Rank(y, k) < cur_sock[y]
  PROVE  CanGoOn(k)
<1> SUFFICES ASSUME backlog[k] = << >>
             PROVE  slot_next(k) = total_invoker_num
  BY DEF CanGoOn
<1>1. Came(k) >= total_invoker_num - 1
  BY AllConnected
<1>2. /\ Taken(k) \in 0 .. total_invoker_num - 1 /\ Came(k) = Taken(k)
      /\ Taken(k) = total_invoker_num - 1 <=> slot_next(k) = total_invoker_num
  BY ArrivalType
<1> QED BY <1>1, <1>2, MeshAssumption

\* An element for which a measure is least.
LEMMA LeastElement ==
  ASSUME NEW S, S # {}, NEW m, \A x \in S : m[x] \in Nat
  PROVE  \E x \in S : \A y \in S : m[x] <= m[y]
<1> DEFINE T == {m[x] : x \in S}
<1>1. T \subseteq Nat /\ T # {}
  OBVIOUS
<1>2. PICK n \in T : \A v \in T : n <= v
  <2> HIDE DEF T
  <2> QED BY <1>1, LeastNat
<1> QED BY <1>2

\* What a run is provided with, if the starts are close together.
LEMMA ProvidedHolds ==
  ASSUME CloseGaps
  PROVE  Spec => []Provided
<1> USE MeshAssumption
<1>1. Init => Provided
  <2> SUFFICES ASSUME Init
               PROVE  Provided
    OBVIOUS
  <2>1. \A k \in Invokers : pc[k] # "exit" /\ cur_sock[k] = 0 /\ sent[k] = 0
    BY DEF Init, Turn
  <2>2. \A k \in Invokers : \A y \in Others(k) :
          ~(Rank(y, k) < cur_sock[y]) /\ ~(sent[y] > Rank(y, k))
    <3> SUFFICES ASSUME NEW k \in Invokers, NEW y \in Others(k)
                 PROVE  ~(Rank(y, k) < cur_sock[y]) /\ ~(sent[y] > Rank(y, k))
      OBVIOUS
    <3>1. y \in Invokers /\ k \in Others(y)
      BY DEF Others
    <3>2. Rank(y, k) \in Nat
      BY <3>1, RankOfPeer
    <3> QED BY <2>1, <3>1, <3>2
  <2> QED BY <2>1, <2>2 DEF Provided, NobodyOut, EveryGuest, Delivered
<1>2. TypeInv /\ Timetable /\ PeerOrder /\ Tables /\ Provided /\ [Next]_vars => Provided'
  BY ProvidedStep
<1>3. Spec => []Tables
  BY TablesHold
<1> QED BY <1>1, <1>2, <1>3, PositionHolds, TimetableHolds, PeerOrderHolds, PTL
    DEF Spec

\* When all are past their sleeps in the loop and nobody can go on, nobody is in accept: of
\* those that were, the one with the lowest number has had all the others.
LEMMA NobodyInAccept ==
  ASSUME TypeInv, Provided, killed = {}, \A k \in Invokers : ~CanGoOn(k),
         \A k \in Invokers : pc[k] \notin {"connect", "rest", "listen"}
  PROVE  \A k \in Invokers :
           /\ pc[k] \in {"exchange", "done"}
           /\ Position(k) /\ i[k] \in Invokers /\ i[k] \in Nat /\ k \in Nat
<1>1. \A k \in Invokers :
        /\ pc[k] \in {"accept", "exchange", "done"}
        /\ Position(k) /\ EveryGuest(k)
        /\ i[k] \in Invokers /\ i[k] \in Nat /\ k \in Nat
  <2> SUFFICES ASSUME NEW k \in Invokers
               PROVE  /\ pc[k] \in {"accept", "exchange", "done"}
                      /\ Position(k) /\ EveryGuest(k)
                      /\ i[k] \in Invokers /\ i[k] \in Nat /\ k \in Nat
    OBVIOUS
  <2>1. /\ pc[k] \in {"connect", "rest", "listen", "accept", "exchange", "done", "exit"}
        /\ pc[k] # "exit"
    BY DEF TypeInv, TypeOK, Provided, NobodyOut
  <2>2. Position(k) /\ EveryGuest(k) /\ i[k] \in Invokers
    BY DEF TypeInv, TypeOK, Provided
  <2> QED BY <2>1, <2>2 DEF Invokers
<1> DEFINE S == {k \in Invokers : pc[k] = "accept"}
<1> SUFFICES ASSUME S # {}
             PROVE  FALSE
  BY <1>1
<1>2. PICK k \in S : \A n \in S : k <= n
  <2>1. S \subseteq Nat
    BY <1>1
  <2> HIDE DEF S
  <2> QED BY <2>1, LeastNat
<1>3. ASSUME NEW y \in Others(k)
      PROVE  Rank(y, k) < cur_sock[y]
  <2>1. /\ y \in Invokers /\ k \in Others(y) /\ y # k /\ y \in Nat /\ k \in Nat
        /\ pc[y] \in {"accept", "exchange", "done"} /\ Position(y)
    BY <1>1, <1>2 DEF Others
  <2>2. CASE pc[y] = "accept"
    <3>1. cur_sock[y] = y /\ k <= y
      BY <1>2, <2>1, <2>2 DEF Position
    <3> QED BY <2>1, <3>1 DEF Rank
  <2>3. CASE pc[y] \in {"exchange", "done"}
    <3>1. cur_sock[y] = total_invoker_num - 1
      BY <2>1, <2>3 DEF Position
    <3>2. Rank(y, k) \in 0 .. total_invoker_num - 2
      BY <2>1, RankOfPeer
    <3> QED BY <3>1, <3>2, MeshAssumption
  <2> QED BY <2>1, <2>2, <2>3
<1>4. CanGoOn(k)
  BY <1>1, <1>2, <1>3, ServerGoesOn
<1> QED BY <1>2, <1>4

\* Of those in the exchange, when nobody can go on, one is asleep in its own turn, and no
\* other is in an earlier one: whoever is in the earliest turn waits for the invoker whose
\* turn it is, and that has not written all it has to write.
LEMMA EarliestWrites ==
  ASSUME TypeInv, PeerOrder, Provided, \A k \in Invokers : ~CanGoOn(k),
         \A k \in Invokers :
           /\ pc[k] \in {"exchange", "done"}
           /\ Position(k) /\ i[k] \in Invokers /\ i[k] \in Nat /\ k \in Nat,
         NEW l \in Invokers, pc[l] = "exchange"
  PROVE  \E m \in Invokers :
           /\ pc[m] = "exchange" /\ i[m] = m /\ Sleeping(m)
           /\ \A n \in Invokers : pc[n] = "exchange" => m <= i[n]
<1> USE MeshAssumption
<1>1. PICK k \in Invokers : /\ pc[k] = "exchange"
                            /\ \A n \in Invokers : pc[n] = "exchange" => i[k] <= i[n]
  <2> DEFINE S == {k \in Invokers : pc[k] = "exchange"}
  <2>1. l \in S /\ \A k \in S : i[k] \in Nat
    OBVIOUS
  <2>2. PICK k \in S : \A n \in S : i[k] <= i[n]
    <3> HIDE DEF S
    <3> QED BY <2>1, LeastElement, Zenon
  <2> QED BY <2>2
<1>2. ASSUME NEW n \in Invokers, pc[n] = "exchange", i[n] = n
      PROVE  Sleeping(n)
  BY <1>2 DEF CanGoOn, Sleeping, AfterSleep
<1>3. CASE i[k] = k
  BY <1>1, <1>2, <1>3
<1>4. CASE i[k] # k
  <2>1. PICK m \in Others(k) : /\ m = i[k] /\ server_socks[k][i[k]] = m
                               /\ qp_num[k] = IndexFor(k, m)
    BY <1>1, <1>4, SourceInTurn
  <2>2. /\ m \in Invokers /\ k \in Others(m) /\ Position(m) /\ m \in Nat /\ i[m] \in Nat
        /\ pc[m] \in {"exchange", "done"}
        /\ pc[m] = "exchange" => m <= i[m]
    <3>1. m \in Invokers /\ k \in Others(m)
      BY DEF Others
    <3>2. pc[m] = "exchange" => m <= i[m]
      BY <1>1, <2>1, <3>1
    <3> QED BY <3>1, <3>2
  <2>3. CASE pc[m] = "exchange" /\ i[m] = m
    BY <1>1, <1>2, <2>1, <2>2, <2>3
  <2>4. CASE ~(pc[m] = "exchange" /\ i[m] = m)
    <3>1. sent[m] = total_invoker_num - 1
      BY <2>2, <2>4 DEF Position
    <3>2. Rank(m, k) \in 0 .. total_invoker_num - 2 /\ IndexFor(k, m) \in Nat
      BY <2>2, RankOfPeer, IndexIsRank
    <3>3. Delivered(k, m)
      BY DEF Provided
    <3>4. chan[m][k] # << >>
      BY <2>1, <3>1, <3>2, <3>3 DEF Delivered
    <3>5. CanGoOn(k)
      BY <1>1, <1>4, <2>1, <3>4 DEF CanGoOn, Readable
    <3> QED BY <3>5
  <2> QED BY <2>3, <2>4
<1> QED BY <1>3, <1>4

\* Nobody waits for somebody who waits, for any number of invokers, if they start close
\* enough together.  Of those in accept the one with the lowest number has had all the
\* others; of those in the exchange one is in the earliest turn, and the invoker whose
\* turn it is has written to it, or sleeps before it does.
THEOREM NobodyStuckHolds ==
  ASSUME CloseGaps
  PROVE  Spec => []NobodyStuck
<1>1. TypeInv /\ PeerOrder /\ Provided => NobodyStuck
  <2> SUFFICES ASSUME TypeInv, PeerOrder, Provided, killed = {},
                      NEW l \in Invokers, pc[l] # "done",
                      \A k \in Invokers : ~CanGoOn(k) /\ ~Sleeping(k)
               PROVE  FALSE
    BY DEF NobodyStuck
  <2>1. \A k \in Invokers : pc[k] \notin {"connect", "rest", "listen"}
    BY DEF CanGoOn, Sleeping, AfterSleep
  <2>2. \A k \in Invokers :
          /\ pc[k] \in {"exchange", "done"}
          /\ Position(k) /\ i[k] \in Invokers /\ i[k] \in Nat /\ k \in Nat
    BY <2>1, NobodyInAccept
  <2>3. pc[l] = "exchange"
    BY <2>2
  <2>4. \E m \in Invokers : Sleeping(m)
    BY <2>2, <2>3, EarliestWrites
  <2> QED BY <2>4
<1> QED BY <1>1, ProvidedHolds, PositionHolds, PeerOrderHolds, PTL

-----------------------------------------------------------------------------
(* The mesh comes to an end. *)

\* How far an invoker is: the turns behind it, the step it is at in the turn, and what it
\* has filed, written and read.
Turns(k) == IF pc[k] \in {"exchange", "done"} THEN total_invoker_num ELSE i[k]
Stage(k) == IF pc[k] \in {"rest", "accept"} THEN 1 ELSE 0
Counts(k) == slot[k] + sent[k] + (qp_num[k] - QP_START)
Place(k) == IF pc[k] = "exit" THEN 6 * total_invoker_num - 1
            ELSE 3 * Turns(k) + Stage(k) + Counts(k)

PlacesBounded == \A k \in Invokers : Place(k) \in 0 .. 6 * total_invoker_num - 1

\* Every step takes time on, or an invoker; nobody goes back.
StepsAhead ==
  /\ now <= now' /\ \A k \in Invokers : Place(k) <= Place(k)'
  /\ now < now' \/ \E k \in Invokers : Place(k) < Place(k)'

\* What Place is made of: numbers, and at an end the last place.
LEMMA PlaceFacts ==
  ASSUME TypeInv, NEW k \in Invokers
  PROVE  /\ i[k] \in Nat /\ i[k] + 1 \in 1 .. total_invoker_num
         /\ slot[k] \in Nat /\ sent[k] \in Nat /\ qp_num[k] \in Nat
         /\ Counts(k) \in Nat
         /\ Place(k) \in 0 .. 6 * total_invoker_num - 1
         /\ pc[k] # "exit" => Place(k) < 6 * total_invoker_num - 1
<1> USE MeshAssumption
<1>1. /\ i[k] \in 0 .. total_invoker_num - 1
      /\ slot[k] \in 0 .. total_invoker_num
      /\ sent[k] \in 0 .. total_invoker_num - 1
      /\ qp_num[k] \in QP_START .. QP_START + total_invoker_num - 1
  BY DEF TypeInv, TypeOK, Invokers
<1>2. Counts(k) \in 0 .. total_invoker_num + 2 * (total_invoker_num - 1)
  BY <1>1 DEF Counts
<1>3. CASE pc[k] \in {"exchange", "done"}
  BY <1>1, <1>2, <1>3 DEF Place, Turns, Stage
<1>4. CASE pc[k] \notin {"exchange", "done"}
  BY <1>1, <1>2, <1>4 DEF Place, Turns, Stage
<1> QED BY <1>1, <1>2, <1>3, <1>4

\* An invoker to which nothing is done stays where it is.
LEMMA PlaceKept ==
  ASSUME NEW k, pc'[k] = pc[k], i'[k] = i[k], slot'[k] = slot[k], sent'[k] = sent[k],
         qp_num'[k] = qp_num[k]
  PROVE  Place(k)' = Place(k)
BY DEF Place, Turns, Stage, Counts

\* A turn further is further, from any step of the turn before.
LEMMA GoToAhead ==
  ASSUME TypeInv, NEW k \in Invokers, pc[k] \in {"connect", "rest", "accept"},
         GoTo(k, i[k] + 1),
         slot'[k] = slot[k], sent'[k] = sent[k], qp_num'[k] = qp_num[k]
  PROVE  Place(k) < Place(k)'
<1> USE MeshAssumption
<1>1. i[k] \in Nat /\ i[k] + 1 \in 1 .. total_invoker_num /\ Counts(k) \in Nat
  BY PlaceFacts
<1>2. Counts(k)' = Counts(k)
  BY DEF Counts
<1>3. /\ pc'[k] = Turn(k, i[k] + 1)
      /\ i'[k] = IF i[k] + 1 = total_invoker_num THEN 0 ELSE i[k] + 1
  BY <1>1, GoToValue
<1>4. Place(k) <= 3 * i[k] + 1 + Counts(k)
  BY <1>1 DEF Place, Turns, Stage
<1>5. Place(k)' = 3 * (i[k] + 1) + Counts(k)
  <2>1. CASE i[k] + 1 = total_invoker_num
    <3>1. pc'[k] = "exchange"
      BY <1>3, <2>1 DEF Turn
    <3> QED BY <1>1, <1>2, <2>1, <3>1 DEF Place, Turns, Stage
  <2>2. CASE i[k] + 1 # total_invoker_num
    <3>1. pc'[k] \in {"connect", "listen"} /\ i'[k] = i[k] + 1
      BY <1>3, <2>2 DEF Turn
    <3> QED BY <1>1, <1>2, <3>1 DEF Place, Turns, Stage
  <2> QED BY <2>1, <2>2
<1>6. Place(k) \in Nat
  BY PlaceFacts
<1> QED BY <1>1, <1>4, <1>5, <1>6

\* The connection loop: each step takes its invoker on and leaves the others alone.
LEMMA LoopAhead ==
  ASSUME TypeInv, NEW k \in Invokers,
         Connect(k) \/ RestOver(k) \/ Listen(k) \/ Accept(k) \/ AcceptEnd(k)
  PROVE  /\ Place(k) < Place(k)'
         /\ \A n \in Others(k) : Place(n)' = Place(n)
<1> USE MeshAssumption
<1>1. /\ i[k] \in Nat /\ i[k] + 1 \in 1 .. total_invoker_num
      /\ slot[k] \in Nat /\ sent[k] \in Nat /\ qp_num[k] \in Nat
      /\ Counts(k) \in Nat /\ Place(k) \in 0 .. 6 * total_invoker_num - 1
      /\ pc[k] # "exit" => Place(k) < 6 * total_invoker_num - 1
  BY PlaceFacts
<1>2. /\ pc \in [Invokers ->
           {"connect", "rest", "listen", "accept", "exchange", "done", "exit"}]
      /\ slot \in [Invokers -> 0 .. total_invoker_num]
  BY DEF TypeInv, TypeOK
<1>3. sent' = sent /\ qp_num' = qp_num
  BY DEF Connect, RestOver, Listen, Accept, AcceptEnd, qpVars
<1>4. CASE RestOver(k) \/ AcceptEnd(k)
  <2>1. GoTo(k, i[k] + 1) /\ slot' = slot /\ pc[k] \in {"rest", "accept"}
    BY <1>4 DEF RestOver, AcceptEnd, sockVars
  <2>2. \A n \in Others(k) : pc'[n] = pc[n] /\ i'[n] = i[n]
    BY <1>1, <2>1, GoToValue
  <2> QED BY <1>3, <2>1, <2>2, GoToAhead, PlaceKept
<1>5. CASE Listen(k)
  <2>1. /\ pc[k] = "listen" /\ pc' = [pc EXCEPT ![k] = "accept"]
        /\ i' = i /\ slot' = slot
    BY <1>5 DEF Listen, sockVars
  <2>2. pc'[k] = "accept" /\ \A n \in Others(k) : pc'[n] = pc[n]
    BY <1>2, <2>1 DEF Others
  <2>3. Place(k)' = Place(k) + 1
    BY <1>1, <1>3, <2>1, <2>2 DEF Place, Turns, Stage, Counts
  <2> QED BY <1>1, <1>3, <2>1, <2>2, <2>3, PlaceKept
<1>6. CASE Accept(k)
  <2>1. /\ pc[k] = "accept" /\ pc' = pc /\ i' = i
        /\ slot' = [slot EXCEPT ![k] = slot_next(k) + 1]
    BY <1>6 DEF Accept, loopVars
  <2>2. slot'[k] = slot_next(k) + 1 /\ \A n \in Others(k) : slot'[n] = slot[n]
    BY <1>2, <2>1 DEF Others
  <2>3. slot_next(k) \in Nat /\ slot[k] < slot'[k] /\ slot'[k] \in Nat
    BY <2>2, SlotNext
  <2>4. Counts(k) < Counts(k)' /\ Counts(k)' \in Int
    BY <1>1, <1>3, <2>3 DEF Counts
  <2>5. Place(k) < Place(k)'
    BY <1>1, <2>1, <2>4 DEF Place, Turns, Stage
  <2> QED BY <1>3, <2>1, <2>2, <2>5, PlaceKept
<1>7. CASE Connect(k)
  <2>1. pc[k] = "connect" /\ slot' = slot
    BY <1>7 DEF Connect
  <2>2. CASE listening[i[k]] /\ pc[i[k]] # "exit"
    <3>1. IF k = i[k] + 1
          THEN GoTo(k, i[k] + 1)
          ELSE pc' = [pc EXCEPT ![k] = "rest"] /\ i' = i
      BY <1>7, <2>2, ConnectValue
    <3>2. CASE GoTo(k, i[k] + 1)
      <4>1. \A n \in Others(k) : pc'[n] = pc[n] /\ i'[n] = i[n]
        BY <1>1, <3>2, GoToValue
      <4> QED BY <1>3, <2>1, <3>2, <4>1, GoToAhead, PlaceKept
    <3>3. CASE pc' = [pc EXCEPT ![k] = "rest"] /\ i' = i
      <4>1. pc'[k] = "rest" /\ \A n \in Others(k) : pc'[n] = pc[n]
        BY <1>2, <3>3 DEF Others
      <4>2. Place(k)' = Place(k) + 1
        BY <1>1, <1>3, <2>1, <3>3, <4>1 DEF Place, Turns, Stage, Counts
      <4> QED BY <1>1, <1>3, <2>1, <3>3, <4>1, <4>2, PlaceKept
    <3> QED BY <3>1, <3>2, <3>3
  <2>3. CASE ~(listening[i[k]] /\ pc[i[k]] # "exit")
    <3>1. pc' = [pc EXCEPT ![k] = "exit"] /\ i' = i
      BY <1>7, <2>3, RefusedValue
    <3>2. pc'[k] = "exit" /\ \A n \in Others(k) : pc'[n] = pc[n]
      BY <1>2, <3>1 DEF Others
    <3>3. Place(k)' = 6 * total_invoker_num - 1
      BY <3>2 DEF Place
    <3> QED BY <1>1, <1>3, <2>1, <3>1, <3>2, <3>3, PlaceKept
  <2> QED BY <2>2, <2>3
<1> QED BY <1>4, <1>5, <1>6, <1>7

\* So does the exchange, one structure further each time.
LEMMA ExchangeAhead ==
  ASSUME TypeInv, NEW k \in Invokers, Write(k) \/ Read(k)
  PROVE  /\ Place(k) < Place(k)'
         /\ \A n \in Others(k) : Place(n)' = Place(n)
<1> USE MeshAssumption
<1>1. /\ i[k] \in Nat /\ slot[k] \in Nat /\ sent[k] \in Nat /\ qp_num[k] \in Nat
      /\ Counts(k) \in Nat
  BY PlaceFacts
<1>2. /\ sent \in [Invokers -> 0 .. total_invoker_num - 1]
      /\ qp_num \in [Invokers -> QP_START .. QP_START + total_invoker_num - 1]
  BY DEF TypeInv, TypeOK
<1>3. /\ pc[k] = "exchange" /\ slot' = slot
      /\ NextInfo(k) \/ UNCHANGED <<pc, i>>
      /\ \/ sent' = [sent EXCEPT ![k] = @ + 1] /\ qp_num' = qp_num
         \/ sent' = sent /\ qp_num' = [qp_num EXCEPT ![k] = @ + 1]
  BY Zenon DEF Write, Read, sockVars
<1>4. /\ pc'[k] \in {"exchange", "done"}
      /\ \A n \in Others(k) : pc'[n] = pc[n] /\ i'[n] = i[n]
  <2>1. CASE NextInfo(k)
    BY <1>3, <2>1, NextInfoValue
  <2>2. CASE UNCHANGED <<pc, i>>
    BY <1>3, <2>2
  <2> QED BY <1>3, <2>1, <2>2
<1>5. /\ Counts(k)' = Counts(k) + 1
      /\ \A n \in Others(k) : sent'[n] = sent[n] /\ qp_num'[n] = qp_num[n]
  <2>1. CASE sent' = [sent EXCEPT ![k] = @ + 1] /\ qp_num' = qp_num
    <3>1. sent'[k] = sent[k] + 1 /\ \A n \in Others(k) : sent'[n] = sent[n]
      BY <1>2, <2>1 DEF Others
    <3> QED BY <1>1, <1>3, <2>1, <3>1 DEF Counts
  <2>2. CASE sent' = sent /\ qp_num' = [qp_num EXCEPT ![k] = @ + 1]
    <3>1. qp_num'[k] = qp_num[k] + 1 /\ \A n \in Others(k) : qp_num'[n] = qp_num[n]
      BY <1>2, <2>2 DEF Others
    <3> QED BY <1>1, <1>3, <2>2, <3>1 DEF Counts
  <2> QED BY <1>3, <2>1, <2>2
<1>6. Place(k)' = Place(k) + 1 /\ Place(k) \in Int
  BY <1>1, <1>3, <1>4, <1>5 DEF Place, Turns, Stage
<1> QED BY <1>3, <1>4, <1>5, <1>6, PlaceKept

\* The mesh comes to an end, for any gaps and whoever is killed: an invoker makes at most
\* 6 * total_invoker_num - 1 steps, its end included, and no step takes anybody back or
\* time; how long they can sleep is what WindowBounded says (invoker.cpp:306-372).
THEOREM MeshEnds == Spec => []PlacesBounded /\ [][StepsAhead]_vars
<1>1. TypeInv => PlacesBounded
  BY PlaceFacts DEF PlacesBounded
<1>2. PlacesBounded' => \A n \in Invokers : Place(n)' \in Int
  BY DEF PlacesBounded, Invokers
<1>3. TypeInv /\ PlacesBounded' /\ [Next]_vars => [StepsAhead]_vars
  <2> SUFFICES ASSUME TypeInv, PlacesBounded', Next
               PROVE  StepsAhead
    OBVIOUS
  <2>1. \A n \in Invokers : Place(n) \in Int /\ Place(n)' \in Int
    BY <1>2, PlaceFacts
  <2>2. CASE Elapse
    <3>1. now < now' /\ now' \in Nat
      <4> DEFINE S == {wake[k] : k \in {j \in Invokers : Sleeping(j)}}
      <4>1. S \subseteq Nat /\ S # {} /\ now' = Min(S)
        BY <2>2, TimeTypes DEF Elapse
      <4>2. now' \in S
        <5> HIDE DEF S
        <5> QED BY <4>1, MinIsLeast
      <4>3. PICK j \in Invokers : Sleeping(j) /\ now' = wake[j]
        BY <4>2
      <4> QED BY <4>3, TimeTypes DEF Sleeping, Awake
    <3>2. \A n \in Invokers : Place(n)' = Place(n)
      BY <2>2, PlaceKept DEF Elapse, loopVars, sockVars, qpVars
    <3> QED BY <2>1, <3>1, <3>2, TimeTypes DEF StepsAhead
  <2>3. ASSUME NEW k \in Invokers, now' = now, Place(k) < Place(k)',
               \A n \in Others(k) : Place(n)' = Place(n)
        PROVE  StepsAhead
    <3>1. \A n \in Invokers : n = k \/ n \in Others(k)
      BY DEF Others
    <3>2. Place(k) <= Place(k)'
      BY <2>1, <2>3
    <3>3. \A n \in Invokers : Place(n) <= Place(n)'
      BY <2>1, <2>3, <3>1, <3>2
    <3> QED BY <2>3, <3>3, TimeTypes DEF StepsAhead
  <2>4. ASSUME NEW k \in Invokers, Invoker(k)
        PROVE  StepsAhead
    <3>1. now' = now
      BY <2>4, Zenon DEF Invoker, Connect, RestOver, Listen, Accept, AcceptEnd, Write, Read
    <3>2. Place(k) < Place(k)' /\ \A n \in Others(k) : Place(n)' = Place(n)
      BY <2>4, LoopAhead, ExchangeAhead, Zenon DEF Invoker
    <3> QED BY <2>3, <3>1, <3>2
  <2>5. ASSUME NEW k \in Invokers, Ends(k)
        PROVE  StepsAhead
    <3>1. /\ pc[k] # "exit" /\ pc' = [pc EXCEPT ![k] = "exit"] /\ now' = now
          /\ i' = i /\ slot' = slot /\ sent' = sent /\ qp_num' = qp_num
      BY <2>5 DEF Ends, sockVars, qpVars
    <3>2. pc'[k] = "exit" /\ \A n \in Others(k) : pc'[n] = pc[n]
      BY <3>1 DEF TypeInv, TypeOK, Others
    <3>3. Place(k) < Place(k)'
      BY <3>1, <3>2, PlaceFacts DEF Place
    <3>4. \A n \in Others(k) : Place(n)' = Place(n)
      BY <3>1, <3>2, PlaceKept
    <3> QED BY <2>3, <3>1, <3>3, <3>4
  <2> QED BY <2>2, <2>4, <2>5 DEF Next
<1> QED BY <1>1, <1>3, PositionHolds, PTL DEF Spec

-----------------------------------------------------------------------------
(* The window in which the controller writes and nobody receives (EventStart). *)

\* What the controller and the adapters do leaves the mesh alone.
THEOREM StartIsMesh == StartSpec => Spec
<1>1. StartInit => Init
  BY DEF StartInit
<1>2. [StartNext]_allVars => [Next]_vars
  <2>1. StartNext => Next \/ UNCHANGED vars
    BY Zenon DEF StartNext, StartElapse, Unblocked, StartInvoker, StartEnds, Next
  <2>2. UNCHANGED allVars => UNCHANGED vars
    BY DEF allVars
  <2> QED BY <2>1, <2>2
<1> QED BY <1>1, <1>2, PTL DEF StartSpec, Spec

\* When the writes of the first t invokers are done, of one after the other.
WriteEnd(st, t) == MeshEnd(st) + t * ((total_invoker_num - 1) * write_sleep_time)

\* Who has all its peers' connections to come is in the mesh; who is in turn t of the
\* exchange is not later than the writes up to t; and who writes sleeps no longer than its
\* writes so far allow.
Pace(st, k) ==
  /\ pc[k] = "accept" => now <= MeshEnd(st)
  /\ pc[k] = "exchange" => now <= WriteEnd(st, i[k] + 1)
  /\ pc[k] = "exchange" /\ i[k] = k =>
       /\ now <= wake[k]
       /\ wake[k] <= WriteEnd(st, k) + (sent[k] + 1) * write_sleep_time

KeepsPace(st) == killed = {} => \A k \in Invokers : Pace(st, k)

\* The sums and products of WriteEnd.
LEMMA WriteEnds ==
  ASSUME NEW st \in Starts
  PROVE  /\ MeshEnd(st) \in Nat /\ write_sleep_time \in Nat
         /\ WriteEnd(st, 0) = MeshEnd(st)
         /\ \A t \in Nat :
              /\ WriteEnd(st, t) \in Nat /\ MeshEnd(st) <= WriteEnd(st, t)
              /\ WriteEnd(st, t + 1)
                   = WriteEnd(st, t) + (total_invoker_num - 1) * write_sleep_time
         /\ \A t, u \in Nat : t <= u => WriteEnd(st, t) <= WriteEnd(st, u)
         /\ (0 + 1) * write_sleep_time = write_sleep_time
         /\ \A r \in Nat :
              /\ (r + 1) * write_sleep_time \in Nat
              /\ ((r + 1) + 1) * write_sleep_time
                   = (r + 1) * write_sleep_time + write_sleep_time
              /\ r + 1 <= total_invoker_num - 1 =>
                   (r + 1) * write_sleep_time <= (total_invoker_num - 1) * write_sleep_time
<1> USE MeshAssumption
<1> DEFINE w == write_sleep_time
           l == total_invoker_num - 1
           c == l * w
<1>1. MeshEnd(st) \in Nat /\ w \in Nat /\ l \in Nat
  <2>1. \E y \in Invokers : TRUE
    BY DEF Invokers
  <2> QED BY <2>1, MeetsEnds
<1> HIDE DEF w, l
<1>2. c \in Nat
  BY <1>1, Times
<1>3. \A r \in Nat : /\ (r + 1) * w \in Nat
                     /\ ((r + 1) + 1) * w = (r + 1) * w + w
                     /\ r + 1 <= l => (r + 1) * w <= l * w
  <2> SUFFICES ASSUME NEW r \in Nat
               PROVE  /\ (r + 1) * w \in Nat
                      /\ ((r + 1) + 1) * w = (r + 1) * w + w
                      /\ r + 1 <= l => (r + 1) * w <= l * w
    OBVIOUS
  <2>1. r + 1 \in Nat
    OBVIOUS
  <2> QED BY <2>1, <1>1, Times
<1>4. (0 + 1) * w = w
  BY <1>1
<1> HIDE DEF c
<1>5. \A t \in Nat : t * c \in Nat /\ (t + 1) * c = t * c + c
  BY <1>2, Times
<1>6. \A t, u \in Nat : t <= u => t * c <= u * c
  BY <1>2, Times
<1>7. 0 * c = 0
  BY <1>2
<1>8. \A t : WriteEnd(st, t) = MeshEnd(st) + t * c
  BY DEF WriteEnd, c, w, l
<1>9. /\ WriteEnd(st, 0) = MeshEnd(st)
      /\ \A t \in Nat :
           /\ WriteEnd(st, t) \in Nat /\ MeshEnd(st) <= WriteEnd(st, t)
           /\ WriteEnd(st, t + 1) = WriteEnd(st, t) + c
      /\ \A t, u \in Nat : t <= u => WriteEnd(st, t) <= WriteEnd(st, u)
  BY <1>1, <1>2, <1>5, <1>6, <1>7, <1>8
<1> QED BY <1>1, <1>3, <1>4, <1>9 DEF c, w, l

\* The pace of an invoker after a step, in the values it has then.
LEMMA PaceThen ==
  ASSUME NEW st, NEW k,
         pc'[k] = "accept" => now' <= MeshEnd(st),
         pc'[k] = "exchange" => now' <= WriteEnd(st, i'[k] + 1),
         pc'[k] = "exchange" /\ i'[k] = k =>
           /\ now' <= wake'[k]
           /\ wake'[k] <= WriteEnd(st, k) + (sent'[k] + 1) * write_sleep_time
  PROVE  Pace(st, k)'
BY DEF Pace, WriteEnd, MeshEnd, tot_sleep_time, LastInvoker

\* An invoker to which nothing is done keeps its pace.
LEMMA PaceKept ==
  ASSUME NEW st, NEW k, Pace(st, k), now' = now, pc'[k] = pc[k], i'[k] = i[k],
         wake'[k] = wake[k], sent'[k] = sent[k]
  PROVE  Pace(st, k)'
BY PaceThen DEF Pace

\* A step of the loop: whoever comes to the exchange comes before the end of the mesh.
LEMMA PaceLoop ==
  ASSUME TypeInv, NEW st \in Starts, KeepsTime(st), NEW k \in Invokers, Pace(st, k),
         Connect(k) \/ RestOver(k) \/ Listen(k) \/ Accept(k) \/ AcceptEnd(k)
  PROVE  Pace(st, k)'
<1> USE MeshAssumption
<1>1. /\ MeshEnd(st) \in Nat /\ write_sleep_time \in Nat /\ now \in Nat /\ wake[k] \in Nat
      /\ WriteEnd(st, 0) = MeshEnd(st) /\ (0 + 1) * write_sleep_time = write_sleep_time
      /\ WriteEnd(st, 0 + 1) \in Nat /\ MeshEnd(st) <= WriteEnd(st, 0 + 1)
  BY WriteEnds, TimeTypes
<1>2. /\ i[k] \in Invokers /\ Position(k) /\ i[k] + 1 \in 1 .. total_invoker_num
  <2>1. i[k] \in Invokers /\ Position(k)
    BY DEF TypeInv, TypeOK
  <2> QED BY <2>1 DEF Invokers
<1>3. now' = now /\ sent' = sent
  BY Zenon DEF Connect, RestOver, Listen, Accept, AcceptEnd, qpVars
<1>4. ASSUME GoTo(k, i[k] + 1), now <= MeshEnd(st), pc[k] \in {"connect", "rest", "accept"}
      PROVE  Pace(st, k)'
  <2>1. /\ pc'[k] = Turn(k, i[k] + 1) /\ wake'[k] = now + Delay(k, i[k] + 1)
        /\ i'[k] = IF i[k] + 1 = total_invoker_num THEN 0 ELSE i[k] + 1
    BY <1>2, <1>4, GoToValue
  <2>2. CASE i[k] + 1 = total_invoker_num
    <3>1. i'[k] = 0 /\ pc'[k] = "exchange" /\ wake'[k] = now + WriteDelay(k, 0)
      BY <2>1, <2>2, <1>2, TurnValue
    <3>2. sent[k] = 0
      BY <1>2, <1>4 DEF Position
    <3>3. now' <= WriteEnd(st, i'[k] + 1)
      BY <1>1, <1>3, <1>4, <3>1
    <3>4. k = 0 => /\ now' <= wake'[k]
                   /\ wake'[k] <= WriteEnd(st, k) + (sent'[k] + 1) * write_sleep_time
      <4> SUFFICES ASSUME k = 0
                   PROVE  /\ now' <= wake'[k]
                          /\ wake'[k] <= WriteEnd(st, 0) + (0 + 1) * write_sleep_time
        BY <1>3, <3>2
      <4>1. wake'[k] = now + write_sleep_time
        BY <3>1 DEF WriteDelay
      <4> QED BY <4>1, <1>1, <1>3, <1>4
    <3> QED BY <3>1, <3>3, <3>4, PaceThen
  <2>3. CASE i[k] + 1 # total_invoker_num
    <3>1. pc'[k] \in {"connect", "listen"}
      BY <2>1, <2>3 DEF Turn
    <3> QED BY <3>1, PaceThen
  <2> QED BY <2>2, <2>3
<1>5. pc[k] \in {"connect", "rest", "listen"} => now <= MeshEnd(st)
  BY <1>1, SleepEnds
<1>6. CASE RestOver(k)
  BY <1>4, <1>5, <1>6 DEF RestOver
<1>7. CASE AcceptEnd(k)
  BY <1>4, <1>7 DEF AcceptEnd, Pace
<1>8. CASE Listen(k)
  <2>1. pc[k] = "listen" /\ pc' = [pc EXCEPT ![k] = "accept"]
    BY <1>8 DEF Listen
  <2>2. pc'[k] = "accept"
    BY <2>1 DEF TypeInv, TypeOK
  <2> QED BY <2>1, <2>2, <1>3, <1>5, PaceThen
<1>9. CASE Accept(k)
  BY <1>3, <1>9, PaceKept DEF Accept, loopVars
<1>10. CASE Connect(k)
  <2>1. pc[k] = "connect"
    BY <1>10 DEF Connect
  <2>2. CASE listening[i[k]] /\ pc[i[k]] # "exit"
    <3>1. IF k = i[k] + 1
          THEN GoTo(k, i[k] + 1)
          ELSE pc' = [pc EXCEPT ![k] = "rest"]
      BY <1>10, <2>2, ConnectValue
    <3>2. CASE pc' = [pc EXCEPT ![k] = "rest"]
      <4>1. pc'[k] = "rest"
        BY <3>2 DEF TypeInv, TypeOK
      <4> QED BY <4>1, PaceThen
    <3> QED BY <2>1, <3>1, <3>2, <1>4, <1>5
  <2>3. CASE ~(listening[i[k]] /\ pc[i[k]] # "exit")
    <3>1. pc' = [pc EXCEPT ![k] = "exit"]
      BY <1>10, <2>3, RefusedValue
    <3>2. pc'[k] = "exit"
      BY <3>1 DEF TypeInv, TypeOK
    <3> QED BY <3>2, PaceThen
  <2> QED BY <2>2, <2>3
<1> QED BY <1>6, <1>7, <1>8, <1>9, <1>10

\* A write: the next sleep begins when the last one ends.
LEMMA PaceWrite ==
  ASSUME TypeInv, NEW st \in Starts, NEW k \in Invokers, Pace(st, k), Write(k)
  PROVE  Pace(st, k)'
<1> USE MeshAssumption
<1> DEFINE w == write_sleep_time
           s == sent[k]
<1>1. /\ pc[k] = "exchange" /\ i[k] = k /\ Awake(k) /\ now' = now
      /\ sent' = [sent EXCEPT ![k] = @ + 1]
      /\ IF s + 1 = total_invoker_num - 1
         THEN NextInfo(k)
         ELSE /\ wake' = [wake EXCEPT ![k] = now + w]
              /\ UNCHANGED <<pc, i>>
  BY DEF Write
<1>2. /\ s \in Nat /\ s + 1 <= total_invoker_num - 1 /\ sent'[k] = s + 1 /\ k \in Nat
      /\ wake[k] \in Nat /\ now \in Nat
  <2>1. /\ Position(k) /\ sent[k] \in 0 .. total_invoker_num - 1
        /\ sent \in [Invokers -> 0 .. total_invoker_num - 1]
    BY DEF TypeInv, TypeOK
  <2>2. sent[k] < total_invoker_num - 1
    BY <1>1, <2>1 DEF Position
  <2>3. k \in Nat
    BY DEF Invokers
  <2> QED BY <1>1, <2>1, <2>2, <2>3, TimeTypes
<1>3. now <= WriteEnd(st, k) + (s + 1) * w
  <2>1. wake[k] <= WriteEnd(st, k) + (s + 1) * w /\ now <= wake[k]
    BY <1>1 DEF Pace
  <2>2. WriteEnd(st, k) \in Nat /\ (s + 1) * w \in Nat
    BY <1>2, WriteEnds
  <2> HIDE DEF s, w
  <2> QED BY <2>1, <2>2, <1>2
<1>4. CASE s + 1 = total_invoker_num - 1
  <2>1. /\ i'[k] = i[k] + 1 \/ pc'[k] = "done"
    BY <1>1, <1>4, NextInfoValue
  <2>2. WriteEnd(st, k + 1) = WriteEnd(st, k) + (s + 1) * w
    BY <1>2, <1>4, WriteEnds
  <2>3. WriteEnd(st, k + 1) <= WriteEnd(st, (k + 1) + 1) /\ WriteEnd(st, k + 1) \in Nat
        /\ WriteEnd(st, (k + 1) + 1) \in Nat
    BY <1>2, WriteEnds
  <2>4. now' <= WriteEnd(st, (k + 1) + 1)
    BY <2>2, <2>3, <1>1, <1>2, <1>3
  <2>5. k + 1 # k
    BY <1>2
  <2>6. CASE pc'[k] = "done"
    BY <2>6, PaceThen
  <2>7. CASE i'[k] = k + 1 /\ pc'[k] # "done"
    <3>1. pc'[k] = "exchange"
      BY <2>7, <1>1, <1>4, NextInfoValue
    <3> QED BY <3>1, <2>4, <2>5, <2>7, PaceThen
  <2> QED BY <2>1, <2>6, <2>7, <1>1
<1>5. CASE s + 1 # total_invoker_num - 1
  <2>1. pc'[k] = "exchange" /\ i'[k] = k /\ wake'[k] = now + w
    <3>1. /\ wake' = [wake EXCEPT ![k] = now + w] /\ pc' = pc /\ i' = i
      BY <1>1, <1>5, Zenon
    <3> QED BY <3>1, <1>1 DEF TypeInv, TypeOK
  <2>2. now' <= WriteEnd(st, i'[k] + 1)
    BY <2>1, <1>1 DEF Pace
  <2>3. /\ WriteEnd(st, k) \in Nat /\ w \in Nat
        /\ ((s + 1) + 1) * w = (s + 1) * w + w
        /\ (s + 1) * w \in Nat
    BY <1>2, WriteEnds
  <2>4. now' <= wake'[k] /\ wake'[k] <= WriteEnd(st, k) + (sent'[k] + 1) * w
    <3> HIDE DEF s, w
    <3> QED BY <2>1, <2>3, <1>1, <1>2, <1>3
  <2> QED BY <2>1, <2>2, <2>4, PaceThen
<1> QED BY <1>4, <1>5

\* A read: it brings the invoker to a turn it is early for.
LEMMA PaceRead ==
  ASSUME TypeInv, NEW st \in Starts, NEW k \in Invokers, Pace(st, k), Read(k)
  PROVE  Pace(st, k)'
<1> USE MeshAssumption
<1>1. pc[k] = "exchange" /\ i[k] # k /\ NextInfo(k) /\ now' = now /\ sent' = sent
  BY DEF Read
<1>2. /\ i[k] \in Nat /\ k \in Nat /\ now \in Nat /\ Position(k)
  BY TimeTypes DEF TypeInv, TypeOK, Invokers
<1>3. CASE pc'[k] = "done"
  BY <1>3, PaceThen
<1>4. CASE /\ pc'[k] = pc[k] /\ i'[k] = i[k] + 1
           /\ wake'[k] = now + WriteDelay(k, i[k] + 1)
  <2>1. /\ WriteEnd(st, i[k] + 1) <= WriteEnd(st, (i[k] + 1) + 1)
        /\ WriteEnd(st, i[k] + 1) \in Nat /\ WriteEnd(st, (i[k] + 1) + 1) \in Nat
    <3>1. i[k] + 1 \in Nat /\ (i[k] + 1) + 1 \in Nat /\ i[k] + 1 <= (i[k] + 1) + 1
      BY <1>2
    <3> HIDE DEF Pace
    <3> QED BY <3>1, WriteEnds
  <2>2. now <= WriteEnd(st, i[k] + 1)
    BY <1>1 DEF Pace
  <2>3. now' <= WriteEnd(st, i'[k] + 1)
    BY <2>1, <2>2, <1>1, <1>2, <1>4
  <2>4. ASSUME i'[k] = k
        PROVE  /\ now' <= wake'[k]
               /\ wake'[k] <= WriteEnd(st, k) + (sent'[k] + 1) * write_sleep_time
    <3>1. i[k] + 1 = k /\ i[k] < k /\ wake'[k] = now + write_sleep_time
      BY <2>4, <1>2, <1>4 DEF WriteDelay
    <3>2. sent'[k] = 0
      BY <3>1, <1>1, <1>2 DEF Position
    <3>3. now <= WriteEnd(st, k) /\ WriteEnd(st, k) \in Nat
      BY <2>1, <2>2, <3>1
    <3>4. write_sleep_time \in Nat /\ (0 + 1) * write_sleep_time = write_sleep_time
      BY WriteEnds
    <3>5. wake'[k] <= WriteEnd(st, k) + (0 + 1) * write_sleep_time /\ now' <= wake'[k]
      BY <3>1, <3>3, <3>4, <1>1, <1>2
    <3> QED BY <3>2, <3>5
  <2>5. pc'[k] = "exchange"
    BY <1>1, <1>4
  <2> QED BY <2>3, <2>4, <2>5, PaceThen
<1> QED BY <1>1, <1>3, <1>4, NextInfoValue

\* Time passes: to the end of a sleep of the loop, which is within the mesh, or to the next
\* write of the invoker whose turn it is.
LEMMA PaceElapse ==
  ASSUME TypeInv, NEW st \in Starts, KeepsTime(st), PeerOrder, Provided, KeepsPace(st),
         killed = {}, Elapse, NEW k \in Invokers
  PROVE  Pace(st, k)'
<1> USE MeshAssumption
<1> DEFINE S == {wake[n] : n \in {j \in Invokers : Sleeping(j)}}
<1>1. /\ \A n \in Invokers : ~CanGoOn(n)
      /\ now' = Min(S)
      /\ pc' = pc /\ i' = i /\ wake' = wake /\ sent' = sent
  BY DEF Elapse, loopVars, qpVars
<1>2. S \subseteq Nat /\ S # {}
  BY TimeTypes DEF Elapse
<1>3. \A n \in Invokers : Sleeping(n) => wake[n] \in S
  OBVIOUS
<1> HIDE DEF S
<1>4. now' \in Nat /\ \A n \in Invokers : Sleeping(n) => now' <= wake[n]
  BY <1>1, <1>2, <1>3, MinIsLeast
<1>5. \A n \in Invokers : AfterSleep(n) => Sleeping(n)
  BY <1>1 DEF CanGoOn, Sleeping
<1>6. Pace(st, k) /\ k \in Nat /\ i[k] \in Nat /\ i[k] + 1 \in Nat
  <2>1. Pace(st, k)
    BY DEF KeepsPace
  <2>2. i[k] \in Invokers
    BY DEF TypeInv, TypeOK
  <2> QED BY <2>1, <2>2 DEF Invokers
<1>7. pc[k] = "exchange" /\ i[k] = k =>
        /\ now' <= wake[k]
        /\ wake[k] <= WriteEnd(st, k) + (sent[k] + 1) * write_sleep_time
  BY <1>4, <1>5, <1>6 DEF Pace, AfterSleep
<1>8. CASE \E j \in Invokers : pc[j] \in {"connect", "rest", "listen"}
  <2>1. PICK j \in Invokers : pc[j] \in {"connect", "rest", "listen"}
    BY <1>8
  <2>2. now' <= wake[j] /\ wake[j] <= MeshEnd(st)
    BY <2>1, <1>4, <1>5, SleepEnds DEF AfterSleep
  <2>3. /\ MeshEnd(st) \in Nat /\ wake[j] \in Nat
        /\ WriteEnd(st, i[k] + 1) \in Nat /\ MeshEnd(st) <= WriteEnd(st, i[k] + 1)
    BY <1>6, WriteEnds, TimeTypes
  <2>4. now' <= MeshEnd(st) /\ now' <= WriteEnd(st, i[k] + 1)
    BY <2>2, <2>3, <1>4
  <2> QED BY <2>4, <1>1, <1>7, PaceThen
<1>9. CASE \A j \in Invokers : pc[j] \notin {"connect", "rest", "listen"}
  <2>1. \A n \in Invokers :
          /\ pc[n] \in {"exchange", "done"}
          /\ Position(n) /\ i[n] \in Invokers /\ i[n] \in Nat /\ n \in Nat
    BY <1>1, <1>9, NobodyInAccept
  <2>2. CASE pc[k] = "exchange"
    <3>1. PICK m \in Invokers :
            /\ pc[m] = "exchange" /\ i[m] = m /\ Sleeping(m)
            /\ \A n \in Invokers : pc[n] = "exchange" => m <= i[n]
      BY <1>1, <2>1, <2>2, EarliestWrites
    <3>2. /\ now' <= wake[m]
          /\ wake[m] <= WriteEnd(st, m) + (sent[m] + 1) * write_sleep_time
      BY <3>1, <1>4 DEF KeepsPace, Pace
    <3>3. sent[m] \in Nat /\ sent[m] + 1 <= total_invoker_num - 1 /\ m \in Nat
      <4>1. sent[m] \in 0 .. total_invoker_num - 1
        BY DEF TypeInv, TypeOK
      <4>2. sent[m] < total_invoker_num - 1
        BY <2>1, <3>1 DEF Position
      <4> QED BY <2>1, <4>1, <4>2
    <3>4. /\ (sent[m] + 1) * write_sleep_time <= (total_invoker_num - 1) * write_sleep_time
          /\ (sent[m] + 1) * write_sleep_time \in Nat
          /\ WriteEnd(st, m) \in Nat /\ WriteEnd(st, m + 1) \in Nat
          /\ WriteEnd(st, m + 1)
               = WriteEnd(st, m) + (total_invoker_num - 1) * write_sleep_time
      <4>1. m + 1 \in Nat
        BY <3>3
      <4> QED BY <3>3, <4>1, WriteEnds
    <3>5. WriteEnd(st, m + 1) <= WriteEnd(st, i[k] + 1) /\ WriteEnd(st, i[k] + 1) \in Nat
      <4>1. m + 1 \in Nat /\ i[k] + 1 \in Nat /\ m + 1 <= i[k] + 1
        BY <1>6, <2>2, <3>1, <3>3
      <4> QED BY <4>1, WriteEnds
    <3>6. now' <= WriteEnd(st, m + 1)
      <4> DEFINE a == (sent[m] + 1) * write_sleep_time
                 b == (total_invoker_num - 1) * write_sleep_time
                 c == WriteEnd(st, m)
      <4>1. /\ now' <= wake[m] /\ wake[m] <= c + a /\ a <= b /\ a \in Nat /\ c \in Nat
            /\ WriteEnd(st, m + 1) = c + b /\ WriteEnd(st, m + 1) \in Nat
        BY <3>2, <3>4
      <4>2. wake[m] \in Nat /\ b \in Nat
        BY <3>3, TimeTypes, Times
      <4> HIDE DEF a, b, c
      <4> QED BY <4>1, <4>2, <1>4
    <3>7. now' <= WriteEnd(st, i[k] + 1)
      <4>1. WriteEnd(st, m + 1) \in Nat
        BY <3>4
      <4> QED BY <3>5, <3>6, <4>1, <1>4
    <3> QED BY <2>2, <3>7, <1>1, <1>7, PaceThen
  <2>3. CASE pc[k] = "done"
    BY <2>3, <1>1, PaceThen
  <2> QED BY <2>1, <2>2, <2>3
<1> QED BY <1>8, <1>9

\* Every step keeps the pace.
LEMMA PaceStep ==
  ASSUME TypeInv, NEW st \in Starts, KeepsTime(st), PeerOrder, Provided, KeepsPace(st),
         [Next]_vars
  PROVE  KeepsPace(st)'
<1>1. ASSUME NEW k \in Invokers, Invoker(k), killed' = {}, NEW n \in Invokers
      PROVE  Pace(st, n)'
  <2>1. now' = now /\ killed' = killed
    BY <1>1, Zenon DEF Invoker, Connect, RestOver, Listen, Accept, AcceptEnd, Write, Read
  <2>2. Pace(st, n)
    BY <1>1, <2>1 DEF KeepsPace
  <2>3. CASE n = k
    <3>1. CASE Connect(k) \/ RestOver(k) \/ Listen(k) \/ Accept(k) \/ AcceptEnd(k)
      BY <2>2, <2>3, <3>1, PaceLoop
    <3>2. CASE Write(k)
      BY <2>2, <2>3, <3>2, PaceWrite
    <3>3. CASE Read(k)
      BY <2>2, <2>3, <3>3, PaceRead
    <3> QED BY <1>1, <3>1, <3>2, <3>3, Zenon DEF Invoker
  <2>4. CASE n # k
    <3>1. /\ pc'[n] = pc[n] /\ i'[n] = i[n] /\ wake'[n] = wake[n] /\ sent'[n] = sent[n]
      BY <1>1, <2>4, OthersStay
    <3> QED BY <2>1, <2>2, <3>1, PaceKept
  <2> QED BY <2>3, <2>4
<1>2. ASSUME NEW k \in Invokers, Ends(k)
      PROVE  KeepsPace(st)'
  BY <1>2 DEF Ends, KeepsPace
<1>3. CASE Elapse
  <2>1. killed' = killed
    BY <1>3 DEF Elapse
  <2> QED BY <1>3, <2>1, PaceElapse DEF KeepsPace, Invokers
<1>4. CASE UNCHANGED vars
  <2>1. killed' = killed /\ now' = now /\ pc' = pc /\ i' = i /\ wake' = wake /\ sent' = sent
    BY <1>4 DEF vars, loopVars, qpVars
  <2> QED BY <2>1, PaceKept DEF KeepsPace, Invokers
<1>5. ASSUME NEW k \in Invokers, Invoker(k)
      PROVE  KeepsPace(st)'
  BY <1>1, <1>5 DEF KeepsPace, Invokers
<1> QED BY <1>2, <1>3, <1>4, <1>5, Zenon DEF Next

\* The timetable of a run in which the controller writes: it is done when the last invoker
\* starts.
StartTimetable ==
  \E st \in Starts : KeepsTime(st) /\ KeepsPace(st) /\ st[LastInvoker] = cstart

\* What the controller's steps are to the mesh; when it was done stays.
LEMMA StartSteps ==
  ASSUME [StartNext]_allVars
  PROVE  [Next]_vars /\ cstart' = cstart
<1>1. StartNext => (Next \/ UNCHANGED vars) /\ cstart' = cstart
  BY Zenon DEF StartNext, StartElapse, Unblocked, StartInvoker, StartEnds, Next, startVars
<1>2. UNCHANGED allVars => UNCHANGED vars /\ cstart' = cstart
  BY DEF allVars, startVars
<1> QED BY <1>1, <1>2

\* The timetable and the pace are kept with the controller writing.
LEMMA StartTimetableHolds ==
  ASSUME CloseGaps
  PROVE  StartSpec => []StartTimetable
<1>1. StartInit => StartTimetable
  <2> SUFFICES ASSUME StartInit
               PROVE  StartTimetable
    OBVIOUS
  <2>1. Init /\ cstart = wake[LastInvoker] - Delay(LastInvoker, 0)
    BY DEF StartInit
  <2>2. PICK gap \in Gaps :
          wake = [k \in Invokers |-> StartOf(gap)[k] + Delay(k, 0)]
    BY <2>1, Zenon DEF Init, StartOf, Gaps
  <2>3. PICK st \in Starts : st = StartOf(gap)
    BY StartsFollow
  <2>4. KeepsTime(st)
    BY <2>1, <2>2, <2>3, TimeInit
  <2>5. /\ LastInvoker \in Invokers /\ st[LastInvoker] \in Nat
        /\ Delay(LastInvoker, 0) \in Nat
    <3>1. LastInvoker \in Invokers
      BY MeshAssumption DEF LastInvoker, Invokers
    <3>2. st[LastInvoker] \in Nat
      BY <3>1 DEF Starts
    <3>3. Delay(LastInvoker, 0) \in Nat
      BY <3>1, Sleeps, MeshAssumption DEF Delay, WriteDelay
    <3> QED BY <3>1, <3>2, <3>3
  <2>6. wake[LastInvoker] = st[LastInvoker] + Delay(LastInvoker, 0)
    BY <2>2, <2>3, <2>5
  <2>7. st[LastInvoker] = cstart
    BY <2>1, <2>5, <2>6
  <2>8. KeepsPace(st)
    <3> SUFFICES ASSUME NEW k \in Invokers
                 PROVE  Pace(st, k)
      BY DEF KeepsPace
    <3>1. pc[k] = Turn(k, 0) /\ 0 # total_invoker_num
      BY <2>1, MeshAssumption DEF Init
    <3>2. pc[k] \in {"connect", "listen"}
      BY <3>1, Zenon DEF Turn
    <3> QED BY <3>2 DEF Pace
  <2> QED BY <2>4, <2>7, <2>8, Zenon DEF StartTimetable
<1>2. TypeInv /\ PeerOrder /\ Provided /\ StartTimetable /\ [StartNext]_allVars
        => StartTimetable'
  <2> SUFFICES ASSUME TypeInv, PeerOrder, Provided, StartTimetable, [StartNext]_allVars
               PROVE  StartTimetable'
    OBVIOUS
  <2>1. PICK st \in Starts : KeepsTime(st) /\ KeepsPace(st) /\ st[LastInvoker] = cstart
    BY DEF StartTimetable
  <2>2. [Next]_vars /\ cstart' = cstart
    BY StartSteps
  <2>3. KeepsTime(st)' /\ KeepsPace(st)'
    BY <2>1, <2>2, TimeStep, PaceStep
  <2>4. Starts' = Starts /\ LastInvoker' = LastInvoker
    BY DEF Starts, Invokers, LastInvoker
  <2> QED BY <2>1, <2>2, <2>3, <2>4, Zenon DEF StartTimetable
<1>3. StartSpec => []TypeInv /\ []PeerOrder /\ []Provided
  BY StartIsMesh, PositionHolds, PeerOrderHolds, ProvidedHolds, PTL
<1> QED BY <1>1, <1>2, <1>3, PTL DEF StartSpec

\* The window is what its parts add up to.
LEMMA WindowValue ==
  ASSUME NEW st \in Starts, cstart = st[LastInvoker]
  PROVE  /\ cstart + Window = WriteEnd(st, total_invoker_num)
         /\ Window \in Nat /\ cstart \in Nat
<1> USE MeshAssumption
<1> DEFINE a == total_invoker_num * ((total_invoker_num + 1) * per_inv_sleep_time)
           b == total_invoker_num * ((total_invoker_num - 1) * write_sleep_time)
<1>1. a \in Nat /\ b \in Nat
  <2>1. /\ (total_invoker_num + 1) * per_inv_sleep_time \in Nat
        /\ (total_invoker_num - 1) * write_sleep_time \in Nat
    <3>1. total_invoker_num + 1 \in Nat /\ total_invoker_num - 1 \in Nat
      OBVIOUS
    <3> QED BY <3>1, Times
  <2> QED BY <2>1, Times
<1>2. cstart \in Nat
  BY DEF Starts, LastInvoker, Invokers
<1>3. Window = a + b /\ WriteEnd(st, total_invoker_num) = (cstart + a) + b
  BY DEF Window, WriteEnd, MeshEnd, tot_sleep_time
<1> HIDE DEF a, b
<1> QED BY <1>1, <1>2, <1>3

\* If no invoker is killed the mesh is over when its sleeps are: those of the loop, a turn
\* for everybody after the start of the last invoker, which is when the controller is
\* done, and those before the writes of everybody in turn (invoker.cpp:306-329, 359).
\* The starts are to be close together, so that everybody reads from whom it means to.
THEOREM WindowBoundedHolds ==
  ASSUME CloseGaps
  PROVE  StartSpec => []WindowBounded
<1> USE MeshAssumption
<1>1. TypeInv /\ Provided /\ StartTimetable => WindowBounded
  <2> SUFFICES ASSUME TypeInv, Provided, StartTimetable, killed = {},
                      NEW k \in Invokers, pc[k] # "done"
               PROVE  now <= cstart + Window
    BY DEF WindowBounded
  <2>1. PICK st \in Starts : KeepsTime(st) /\ KeepsPace(st) /\ st[LastInvoker] = cstart
    BY DEF StartTimetable
  <2>2. Pace(st, k)
    BY <2>1 DEF KeepsPace
  <2>3. /\ now \in Nat /\ MeshEnd(st) \in Nat /\ wake[k] \in Nat
        /\ WriteEnd(st, total_invoker_num) \in Nat
        /\ MeshEnd(st) <= WriteEnd(st, total_invoker_num)
    BY <2>1, TimeTypes, WriteEnds
  <2>4. cstart + Window = WriteEnd(st, total_invoker_num)
    BY <2>1, WindowValue
  <2>5. pc[k] \in {"connect", "rest", "listen", "accept", "exchange"}
    <3>1. pc[k] \in {"connect", "rest", "listen", "accept", "exchange", "done", "exit"}
      BY DEF TypeInv, TypeOK
    <3> QED BY <3>1 DEF Provided, NobodyOut
  <2>6. CASE pc[k] \in {"connect", "rest", "listen"}
    <3>1. now <= wake[k] /\ wake[k] <= MeshEnd(st)
      BY <2>1, <2>6, SleepEnds
    <3> QED BY <3>1, <2>3, <2>4
  <2>7. CASE pc[k] = "accept"
    BY <2>2, <2>3, <2>4, <2>7 DEF Pace
  <2>8. CASE pc[k] = "exchange"
    <3>1. now <= WriteEnd(st, i[k] + 1)
      BY <2>2, <2>8 DEF Pace
    <3>2. i[k] + 1 \in Nat /\ i[k] + 1 <= total_invoker_num
      <4>1. i[k] \in Invokers
        BY DEF TypeInv, TypeOK
      <4> QED BY <4>1 DEF Invokers
    <3>3. /\ WriteEnd(st, i[k] + 1) <= WriteEnd(st, total_invoker_num)
          /\ WriteEnd(st, i[k] + 1) \in Nat
      BY <2>1, <3>2, WriteEnds
    <3> QED BY <3>1, <3>3, <2>3, <2>4
  <2> QED BY <2>5, <2>6, <2>7, <2>8
<1>2. StartSpec => []TypeInv /\ []Provided
  BY StartIsMesh, PositionHolds, ProvidedHolds, PTL
<1> QED BY <1>1, <1>2, StartTimetableHolds, PTL

\* The writes the controller makes in the longest window there can be.
WritesInWindow == WRITES_PER_UNIT * Window

\* The writes that wait are those made since the controller was done, as long as nobody is
\* killed and invoker 0 has posted no receive.
Waiting ==
  killed = {} =>
    /\ cpc = "write"
    /\ NotYetReceiving =>
         unsent = IF now <= cstart THEN 0 ELSE WRITES_PER_UNIT * (now - cstart)

\* Max is what it says, on two numbers (WritesIn).
LEMMA MaxOfTwo ==
  ASSUME NEW a \in Nat, NEW b \in Nat
  PROVE  Max({a, b}) = IF a <= b THEN b ELSE a
<1>1. \E m \in {a, b} : \A n \in {a, b} : m >= n
  OBVIOUS
<1>2. Max({a, b}) \in {a, b} /\ \A n \in {a, b} : Max({a, b}) >= n
  BY <1>1 DEF Max
<1> QED BY <1>2

\* What is written up to one time and from it to a later one is what is written up to the
\* later one.
LEMMA WritesAddUp ==
  ASSUME NEW s \in Nat, NEW t \in Nat, cstart \in Nat, s <= t
  PROVE  (IF s <= cstart THEN 0 ELSE WRITES_PER_UNIT * (s - cstart)) + WritesIn(s, t)
           = IF t <= cstart THEN 0 ELSE WRITES_PER_UNIT * (t - cstart)
<1> USE StartAssumption
<1>1. CASE t <= cstart
  BY <1>1 DEF WritesIn
<1>2. CASE s <= cstart /\ ~(t <= cstart)
  <2>1. Max({s, cstart}) = cstart
    BY <1>2, MaxOfTwo
  <2>2. WritesIn(s, t) = WRITES_PER_UNIT * (t - cstart)
    BY <2>1, <1>2 DEF WritesIn
  <2>3. WRITES_PER_UNIT * (t - cstart) \in Int
    OBVIOUS
  <2> QED BY <2>2, <2>3, <1>2
<1>3. CASE ~(s <= cstart)
  <2>1. Max({s, cstart}) = s /\ ~(t <= cstart)
    BY <1>3, MaxOfTwo
  <2>2. WritesIn(s, t) = WRITES_PER_UNIT * (t - s)
    BY <2>1 DEF WritesIn
  <2>3. PICK a \in Nat, b \in Nat : a = s - cstart /\ b = t - s
    <3>1. s - cstart \in Nat /\ t - s \in Nat
      BY <1>3
    <3> QED BY <3>1
  <2>4. t - cstart = a + b
    BY <2>3
  <2>5. WRITES_PER_UNIT * (a + b) = WRITES_PER_UNIT * a + WRITES_PER_UNIT * b
    OBVIOUS
  <2> QED BY <2>1, <2>2, <2>3, <2>4, <2>5, <1>3
<1> QED BY <1>1, <1>2, <1>3

\* The writes made up to the end of the window are no more than the longest one has.
LEMMA WindowRoom ==
  ASSUME WritesInWindow <= MAX_SEND_WR, NEW c \in Nat, NEW t \in Nat,
         Window \in Nat, t <= c + Window
  PROVE  (IF t <= c THEN 0 ELSE WRITES_PER_UNIT * (t - c)) <= MAX_SEND_WR
<1> USE MeshAssumption, StartAssumption
<1> DEFINE T == Window
<1>1. T \in Nat /\ t <= c + T
  OBVIOUS
<1>2. WRITES_PER_UNIT * T <= MAX_SEND_WR
  BY DEF WritesInWindow
<1> SUFFICES ASSUME ~(t <= c)
             PROVE  WRITES_PER_UNIT * (t - c) <= MAX_SEND_WR
  OBVIOUS
<1> HIDE DEF T
<1>3. PICK d \in Nat : d = t - c
  <2>1. t - c \in Nat
    OBVIOUS
  <2> QED BY <2>1
<1>4. d <= T
  BY <1>3, <1>1
<1>5. d * WRITES_PER_UNIT <= T * WRITES_PER_UNIT
  BY <1>4, <1>1, Times
<1>6. /\ d * WRITES_PER_UNIT = WRITES_PER_UNIT * d
      /\ T * WRITES_PER_UNIT = WRITES_PER_UNIT * T
      /\ WRITES_PER_UNIT * d \in Nat /\ WRITES_PER_UNIT * T \in Nat
  BY <1>1
<1> QED BY <1>3, <1>5, <1>6, <1>2

\* Where the send queue has room for the window, every step keeps Waiting.
LEMMA WaitingStep ==
  ASSUME WritesInWindow <= MAX_SEND_WR,
         TypeInv, cstart \in Nat, Window \in Nat, Waiting, WindowBounded',
         [StartNext]_allVars
  PROVE  Waiting'
<1> USE MeshAssumption, StartAssumption
<1> DEFINE Since(t) == IF t <= cstart THEN 0 ELSE WRITES_PER_UNIT * (t - cstart)
<1>1. 0 \in Invokers /\ now \in Nat
  BY DEF Invokers, TypeInv, TypeOK
<1>2. ASSUME StartElapse
      PROVE  Waiting'
  <2>1. /\ Elapse /\ cstart' = cstart /\ pc' = pc /\ killed' = killed
    BY <1>2 DEF StartElapse, Elapse, loopVars
  <2>2. now' \in Nat /\ now <= now'
    <3> DEFINE S == {wake[k] : k \in {j \in Invokers : Sleeping(j)}}
    <3>1. now' = Min(S) /\ S # {}
      BY <2>1 DEF Elapse
    <3>2. S \subseteq Nat /\ \A t \in S : ~(t <= now)
      BY TimeTypes DEF Sleeping, Awake
    <3> HIDE DEF S
    <3>3. now' \in S
      BY <3>1, <3>2, MinIsLeast
    <3> QED BY <3>2, <3>3, <1>1
  <2>3. CASE killed = {} /\ NotYetReceiving
    <3>1. cpc = "write" /\ unsent = Since(now)
      BY <2>3 DEF Waiting
    <3>2. unsent + WritesIn(now, now') = Since(now')
      BY <3>1, <1>1, <2>2, WritesAddUp
    <3>3. now' <= cstart + Window
      BY <2>1, <2>3, <1>1 DEF WindowBounded, NotYetReceiving, Window
    <3>4. Since(now') <= MAX_SEND_WR
      BY <3>3, <2>2, WindowRoom
    <3>5. unsent' = Since(now') /\ cpc' = "write"
      BY <1>2, <2>3, <3>1, <3>2, <3>4 DEF StartElapse
    <3> QED BY <3>5, <2>1 DEF Waiting
  <2>4. CASE killed = {} /\ ~NotYetReceiving
    <3>1. cpc' = cpc /\ cpc = "write" /\ ~NotYetReceiving'
      BY <1>2, <2>1, <2>4 DEF StartElapse, Waiting, NotYetReceiving
    <3> QED BY <3>1 DEF Waiting
  <2> QED BY <2>1, <2>3, <2>4 DEF Waiting
<1>3. ASSUME Unblocked
      PROVE  Waiting'
  <2>1. ~NotYetReceiving /\ pc' = pc /\ killed' = killed /\ cpc' = cpc
    BY <1>3 DEF Unblocked, vars, loopVars
  <2> QED BY <2>1 DEF Waiting, NotYetReceiving
<1>4. ASSUME NEW k \in Invokers, StartInvoker(k)
      PROVE  Waiting'
  <2>1. /\ Invoker(k) /\ cstart' = cstart /\ cpc' = cpc /\ unsent' = unsent
        /\ now' = now /\ killed' = killed
    BY <1>4, Zenon DEF StartInvoker, startVars, Invoker, Connect, RestOver, Listen, Accept,
       AcceptEnd, Write, Read
  <2>2. NotYetReceiving' => NotYetReceiving
    <3> SUFFICES ASSUME pc[0] \in {"done", "exit"}
                 PROVE  pc'[0] = pc[0]
      BY DEF NotYetReceiving
    <3>1. k # 0
      <4>1. pc[k] \in {"connect", "rest", "listen", "accept", "exchange"}
        BY <2>1, Zenon
           DEF Invoker, Connect, RestOver, Listen, Accept, AcceptEnd, Write, Read
      <4> QED BY <4>1
    <3>2. \A v : [pc EXCEPT ![k] = v][0] = pc[0]
      BY <3>1, <1>1 DEF TypeInv, TypeOK
    <3>3. pc' = pc \/ \E v : pc' = [pc EXCEPT ![k] = v]
      BY <2>1, Zenon DEF Invoker, Connect, RestOver, Listen, Accept, AcceptEnd, Write, Read,
         GoTo, NextInfo, loopVars
    <3> QED BY <3>2, <3>3
  <2> QED BY <2>1, <2>2 DEF Waiting
<1>5. ASSUME NEW k \in Invokers, StartEnds(k)
      PROVE  Waiting'
  <2>1. killed' = killed \cup {k}
    BY <1>5 DEF StartEnds, Ends
  <2> QED BY <2>1 DEF Waiting
<1>6. ASSUME UNCHANGED allVars
      PROVE  Waiting'
  <2>1. /\ cstart' = cstart /\ cpc' = cpc /\ unsent' = unsent
        /\ now' = now /\ killed' = killed /\ pc' = pc
    BY <1>6 DEF allVars, vars, startVars, loopVars
  <2> QED BY <2>1 DEF Waiting, NotYetReceiving
<1> QED BY <1>2, <1>3, <1>4, <1>5, <1>6 DEF StartNext

\* Where the send queue has room for the writes of the window, the controller's post is not
\* refused (controller.cpp:137) before somebody is killed: with the sizes and sleeps of the
\* code (10 writes in 10 ms, 2048 places, 300 ms and 10 ms) that is so for two invokers,
\* and for no more.
THEOREM WritesOutlastMeshHolds ==
  ASSUME CloseGaps, WritesInWindow <= MAX_SEND_WR
  PROVE  StartSpec => [](killed = {} => WritesOutlastMesh)
<1>1. StartTimetable => cstart \in Nat /\ Window \in Nat
  BY WindowValue DEF StartTimetable
<1>2. StartInit /\ cstart \in Nat => Waiting
  <2>1. StartInit => cpc = "write" /\ unsent = 0 /\ now = 0
    BY DEF StartInit, Init
  <2> QED BY <2>1 DEF Waiting
<1>3. TypeInv /\ cstart \in Nat /\ Window \in Nat /\ Waiting /\ WindowBounded'
        /\ [StartNext]_allVars => Waiting'
  BY WaitingStep
<1>4. Waiting => (killed = {} => WritesOutlastMesh)
  BY DEF Waiting, WritesOutlastMesh
<1>5. StartSpec => []TypeInv
  BY StartIsMesh, PositionHolds, PTL
<1> QED BY <1>1, <1>2, <1>3, <1>4, <1>5, StartTimetableHolds, WindowBoundedHolds, PTL
        DEF StartSpec

=============================================================================
