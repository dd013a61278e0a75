---------------------------- MODULE MCCodecProofs ----------------------------
(***************************************************************************)
(* The properties of MCCodec for every value of the constants.             *)
(***************************************************************************)
EXTENDS MCCodec, ImmCodecProofs, SequenceTheorems, NaturalsInduction, WellFoundedInduction

-----------------------------------------------------------------------------
(* Pairs of an invoker and a slot. *)

PairsUsed == one \in Pairs /\ two \in Pairs

\* Only pairs of an invoker id and a slot index are ever used.
LEMMA PairsUsedInvariant == CodecSpec => []PairsUsed
<1>1. CodecInit => PairsUsed
  BY LayoutAssumption, SMT DEF CodecInit, Init, PairsUsed, Pairs, InvokerIds, SlotIndexes
<1>2. PairsUsed /\ [CodecNext]_<<one, two, entries, table, name>> => PairsUsed'
  <2>1. CodecNext => Use \/ UNCHANGED <<one, two>>
    <3>1. UsePair => Use
      BY Zenon DEF UsePair
    <3>2. UseEntries => UNCHANGED <<one, two>>
      BY Zenon DEF UseEntries
    <3>3. UseName => UNCHANGED <<one, two>>
      BY Zenon DEF UseName
    <3> QED BY <3>1, <3>2, <3>3, Zenon DEF CodecNext
  <2>2. PairsUsed /\ (Use \/ UNCHANGED <<one, two>>) => PairsUsed'
    BY DEF PairsUsed, Use
  <2> QED BY <2>1, <2>2
<1> QED BY <1>1, <1>2, PTL DEF CodecSpec

\* The immediate round trip, for any pair the system has.
THEOREM RoundTripHolds == CodecSpec => []RoundTrip
<1>1. PairsUsed => RoundTrip
  <2>1. ASSUME PairsUsed
        PROVE  two[1] \in Nat /\ two[2] \in SlotIndexes
    BY <2>1, SMT DEF PairsUsed, Pairs, InvokerIds
  <2> QED BY <2>1, PairRoundTrips DEF RoundTrip
<1> QED BY <1>1, PairsUsedInvariant, PTL

\* Slots never overlap, for any layout (invoker.cpp:170-174).
THEOREM SlotsApartHolds == CodecSpec => []SlotsApart
<1>1. PairsUsed => SlotsApart
  <2> SUFFICES ASSUME PairsUsed, <<one[1], one[2]>> # <<two[1], two[2]>>
               PROVE  SlotsApart
    BY DEF SlotsApart, Apart
  <2>1. /\ one[1] \in Nat /\ one[2] \in SlotIndexes
        /\ two[1] \in Nat /\ two[2] \in SlotIndexes
    BY SMT DEF PairsUsed, Pairs, InvokerIds
  <2> QED BY <2>1, SlotsDisjoint DEF SlotsApart, Apart
<1> QED BY <1>1, PairsUsedInvariant, PTL

\* Every slot lies in the registered region, for any number of invokers, when a
\* buffer is no larger than the table is long (setup.cpp:46, 66).
THEOREM SlotInsideHolds == CodecSpec => []SlotInside
<1>1. PairsUsed => SlotInside
  <2> SUFFICES ASSUME PairsUsed PROVE SlotInside
    OBVIOUS
  <2>1. two[1] \in InvokerIds /\ two[2] \in SlotIndexes
    BY SMT DEF PairsUsed, Pairs
  <2>2. /\ EventOffset(two[1], two[2]) \in Nat
        /\ EventOffset(two[1], two[2]) + MSG_SIZE <= NumInvokers * PER_INV_BUF_SIZE
    BY <2>1, SlotsInside
  <2>3. NumInvokers * PER_INV_BUF_SIZE <= NumInvokers * 65536
    BY LayoutAssumption, RegionAssumption, SMT DEF PER_INV_BUF_SIZE
  <2>4. NumInvokers * 65536 <= TOTAL_SIZE
    BY LayoutAssumption, SMT DEF TOTAL_SIZE, CACHE_SIZE, CACHE_ENTRY_SIZE, CACHE_ENTRY_NUM,
         SCORE_ENTRY_SIZE, LAT_MSG_SIZE, FUNC_NAME_SIZE, WARM_SCORE_SIZE, COLD_SCORE_SIZE
  <2>5. NumInvokers * PER_INV_BUF_SIZE \in Int /\ TOTAL_SIZE \in Int
    BY LayoutAssumption, SMT DEF PER_INV_BUF_SIZE, TOTAL_SIZE, CACHE_SIZE, CACHE_ENTRY_SIZE,
         CACHE_ENTRY_NUM, SCORE_ENTRY_SIZE, LAT_MSG_SIZE, FUNC_NAME_SIZE, WARM_SCORE_SIZE,
         COLD_SCORE_SIZE
  <2> QED BY <2>2, <2>3, <2>4, <2>5, LayoutAssumption, SMT DEF SlotInside, Inside
<1> QED BY <1>1, PairsUsedInvariant, PTL

\* Controller and invoker compute the same address, for every slot.
THEOREM AddressesMeetHolds == CodecSpec => []AddressesMeet
<1>1. PairsUsed => AddressesMeet
  <2>1. ASSUME PairsUsed PROVE two[2] \in SlotIndexes
    BY <2>1, SMT DEF PairsUsed, Pairs
  <2> QED BY <2>1, SlotMeets DEF AddressesMeet
<1> QED BY <1>1, PairsUsedInvariant, PTL

-----------------------------------------------------------------------------
(* Sums and products step by step. *)

\* A set of numbers that is not empty has a least one.
LEMMA LeastNat ==
  ASSUME NEW S, S \subseteq Nat, S # {}
  PROVE  \E m \in S : \A n \in S : m <= n
<1> DEFINE R == OpToRel(<, Nat)
<1>1. IsWellFoundedOn(R, Nat)
  BY NatLessThanWellFounded
<1>2. \A x, y \in Nat : x < y => <<x, y>> \in R
  BY DEF OpToRel
<1> HIDE DEF R
<1>3. PICK m \in S : \A n \in S : ~(<<n, m>> \in R)
  BY <1>1, WFMin, Zenon
<1>4. \A n \in S : ~(n < m)
  BY <1>2, <1>3
<1> QED BY <1>4

\* A set of numbers that holds zero and every successor of its elements up to top
\* holds all up to top.
LEMMA UpTo ==
  ASSUME NEW top \in Nat, NEW S,
         0 \in S, \A n \in 0 .. top - 1 : n \in S => n + 1 \in S
  PROVE  0 .. top \subseteq S
<1> SUFFICES ASSUME NEW x \in 0 .. top, x \notin S
             PROVE  FALSE
  OBVIOUS
<1> DEFINE Missing == {n \in 0 .. top : n \notin S}
<1>1. PICK m \in Missing : \A n \in Missing : m <= n
  <2>1. Missing \subseteq Nat /\ Missing # {}
    OBVIOUS
  <2> HIDE DEF Missing
  <2> QED BY <2>1, LeastNat
<1>2. m # 0
  BY <1>1
<1>3. m - 1 \in 0 .. top - 1 /\ m - 1 \notin Missing
  BY <1>1, <1>2
<1> QED BY <1>1, <1>3

\* A function that a recursion over the numbers up to n defines.
Solution(f, n, base, step) ==
  /\ f \in [0 .. n -> Int] /\ f[0] = base
  /\ \A k \in 1 .. n : f[k] = step[f[k - 1]][k]

Steps(step, n) == \A v \in Int, k \in 1 .. n : step[v][k] \in Int

\* A recursion over the numbers up to n has a solution: it is built step by step.
LEMMA RecursionSolved ==
  ASSUME NEW n \in Nat, NEW base \in Int,
         NEW step, Steps(step, n)
  PROVE  \E f : Solution(f, n, base, step)
<1> USE DEF Solution, Steps
<1> DEFINE Solves(f, m) == Solution(f, m, base, step)
           S == {m \in Nat : \E f : Solves(f, m)}
<1>1. 0 \in S
  <2>1. Solves([k \in 0 .. 0 |-> base], 0)
    OBVIOUS
  <2> QED BY <2>1
<1>2. ASSUME NEW m \in 0 .. n - 1, m \in S
      PROVE  m + 1 \in S
  <2>1. PICK f : Solves(f, m)
    BY <1>2
  <2>2. m \in Nat /\ m + 1 \in 1 .. n /\ f[m] \in Int
    BY <2>1
  <2> DEFINE g == [k \in 0 .. m + 1 |-> IF k = m + 1 THEN step[f[m]][m + 1] ELSE f[k]]
  <2>3. step[f[m]][m + 1] \in Int
    BY <2>2
  <2>4. g \in [0 .. m + 1 -> Int] /\ g[0] = base
    BY <2>1, <2>2, <2>3
  <2>5. \A k \in 1 .. m + 1 : g[k] = step[g[k - 1]][k]
    <3>1. ASSUME NEW k \in 1 .. m
          PROVE  g[k] = f[k] /\ g[k - 1] = f[k - 1] /\ f[k] = step[f[k - 1]][k]
      <4>1. f[k] = step[f[k - 1]][k]
        BY <2>1
      <4>2. k \in 0 .. m + 1 /\ k - 1 \in 0 .. m + 1 /\ k # m + 1 /\ k - 1 # m + 1
        BY <2>2
      <4> QED BY <4>1, <4>2
    <3>2. g[m + 1] = step[f[m]][m + 1] /\ g[(m + 1) - 1] = f[m]
      BY <2>2
    <3>3. \A k \in 1 .. m + 1 : k \in 1 .. m \/ k = m + 1
      BY <2>2
    <3> HIDE DEF g
    <3> QED BY <3>1, <3>2, <3>3
  <2>6. \E h : Solves(h, m + 1)
    <3>1. Solves(g, m + 1)
      <4> HIDE DEF g
      <4> QED BY <2>4, <2>5
    <3> HIDE DEF g, Solves
    <3> QED BY <3>1
  <2> HIDE DEF Solves
  <2> QED BY <2>6, <2>2
<1>3. n \in S
  <2> HIDE DEF S
  <2>1. 0 .. n \subseteq S
    BY <1>1, <1>2, UpTo
  <2> QED BY <2>1
<1> QED BY <1>3

-----------------------------------------------------------------------------
(* The hash. *)

\* The name has characters only.
NameOfChars == name \in Seq(Int)

\* A name is made of characters.
LEMMA NameInvariant == CodecSpec => []NameOfChars
<1>1. CodecInit => NameOfChars
  BY DEF CodecInit, NameOfChars
<1>2. NameOfChars /\ [CodecNext]_<<one, two, entries, table, name>> => NameOfChars'
  <2> SUFFICES ASSUME NameOfChars, [CodecNext]_<<one, two, entries, table, name>>
               PROVE  NameOfChars'
    OBVIOUS
  <2>1. CASE UseName
    <3>1. PICK c \in Chars : name' = Append(name, c)
      BY <2>1 DEF UseName
    <3>2. c \in Int
      BY DEF Chars
    <3> QED BY <3>1, <3>2, AppendProperties DEF NameOfChars
  <2>2. CASE name' = name
    BY <2>2 DEF NameOfChars
  <2> QED BY <2>1, <2>2 DEF CodecNext, UsePair, UseEntries
<1> QED BY <1>1, <1>2, PTL DEF CodecSpec

\* The number of entries is a number, and the hash starts below it.
LEMMA EntriesEnough ==
  CACHE_ENTRY_NUM \in Nat \ {0} /\ EMPTY_HASH \in Nat /\ EMPTY_HASH < CACHE_ENTRY_NUM
BY SMT DEF CACHE_ENTRY_NUM, EMPTY_HASH

\* Equal but for a multiple of m.
Congruent(a, b, m) == \E q \in Int : a = b + q * m

\* A remainder is congruent to what it is the remainder of.
LEMMA RemainderCongruent ==
  ASSUME NEW m \in Nat \ {0}, NEW a \in Int
  PROVE  /\ a % m \in Int /\ 0 <= a % m /\ a % m < m
         /\ Congruent(a % m, a, m)
<1>1. /\ a % m \in Int /\ 0 <= a % m /\ a % m < m
      /\ a = m * (a \div m) + (a % m) /\ a \div m \in Int
  BY SMT
<1>2. PICK d \in Int : d = a \div m
  BY <1>1
<1>3. PICK q \in Int : q = - d
  OBVIOUS
<1>4. q * m = - (m * d)
  BY <1>3, SMT
<1>5. a % m = a + q * m
  BY <1>1, <1>2, <1>4, SMT
<1> QED BY <1>1, <1>5 DEF Congruent

\* There is only one.
LEMMA RemainderUnique ==
  ASSUME NEW t \in Int, NEW m \in Nat, NEW r \in Int, NEW a \in Int,
         0 <= a, a < m, t = r * m + a
  PROVE  t % m = a
BY SMT

\* The wrap of an unsigned long leaves the remainder by the number of entries as it is.
LEMMA WrapKeepsRemainder ==
  \A v \in Int : /\ (v % ULONG_SIZE) % CACHE_ENTRY_NUM \in Int
                  /\ (v % ULONG_SIZE) % CACHE_ENTRY_NUM = v % CACHE_ENTRY_NUM
<1> SUFFICES ASSUME NEW v \in Int
             PROVE  /\ (v % ULONG_SIZE) % CACHE_ENTRY_NUM \in Int
                    /\ (v % ULONG_SIZE) % CACHE_ENTRY_NUM = v % CACHE_ENTRY_NUM
  OBVIOUS
<1>1. PICK m \in Nat \ {0}, u \in Nat \ {0} :
        m = CACHE_ENTRY_NUM /\ u = ULONG_SIZE /\ u % m = 0
  BY EntriesEnough, HashAssumption
<1>2. PICK d \in Int : u = m * d
  <2>1. u = m * (u \div m) + (u % m) /\ u \div m \in Int
    BY SMT
  <2>2. PICK e \in Int : e = u \div m
    BY <2>1
  <2> QED BY <1>1, <2>1, <2>2, SMT
<1>3. PICK w \in Int, q \in Int : w = v % u /\ w = v + q * u
  BY RemainderCongruent DEF Congruent
<1>4. PICK a \in Int, r \in Int : a = w % m /\ 0 <= a /\ a < m /\ a = w + r * m
  BY RemainderCongruent DEF Congruent
<1>5. PICK t \in Int : t = - (q * d + r)
  OBVIOUS
<1>6. v = t * m + a
  <2>1. PICK x \in Int, y \in Int : x = (q * d) * m /\ y = r * m
    OBVIOUS
  <2>2. q * u = x
    BY <1>2, <2>1, SMT
  <2>3. t * m = - (x + y)
    BY <1>5, <2>1, SMT
  <2> QED BY <1>3, <1>4, <2>1, <2>2, <2>3
<1>7. v % m = a
  BY <1>4, <1>6, RemainderUnique
<1> QED BY <1>1, <1>3, <1>4, <1>7

\* One step of the hash, weighted with what is to come: the sum grows by the term of the
\* character.
LEMMA CongruentStep ==
  ASSUME NEW m \in Nat, NEW h \in Int, NEW h1 \in Int, NEW p \in Int, NEW p1 \in Int,
         NEW s \in Int, NEW c \in Int,
         Congruent(h1, h * 33 + c, m), Congruent(p, p1 * 33, m), Congruent(h * p, s, m)
  PROVE  Congruent(h1 * p1, s + c * p1, m)
<1>1. PICK q \in Int : h1 = (h * 33 + c) + q * m
  BY DEF Congruent
<1>2. PICK r \in Int : p = p1 * 33 + r * m
  BY DEF Congruent
<1>3. PICK t \in Int : h * p = s + t * m
  BY DEF Congruent
<1>4. PICK u \in Int : u = t - h * r + q * p1
  OBVIOUS
<1>5. PICK x \in Int, y \in Int, z \in Int, w \in Int :
        x = h * (p1 * 33) /\ y = c * p1 /\ z = (q * p1) * m /\ w = (h * r) * m
  OBVIOUS
<1>6. h1 * p1 = x + y + z
  <2>1. h1 * p1 = (h * 33 + c) * p1 + (q * m) * p1
    BY <1>1, SMT
  <2>2. (h * 33 + c) * p1 = (h * 33) * p1 + c * p1
    BY SMT
  <2>3. (h * 33) * p1 = h * (p1 * 33) /\ (q * m) * p1 = (q * p1) * m
    BY SMT
  <2> QED BY <1>5, <2>1, <2>2, <2>3
<1>7. h * p = x + w
  <2>1. PICK a \in Int, b \in Int : a = p1 * 33 /\ b = r * m
    OBVIOUS
  <2>2. p = a + b
    BY <1>2, <2>1
  <2>3. h * p = h * a + h * b
    <3>1. h * (a + b) = h * a + h * b
      BY SMT
    <3> QED BY <2>2, <3>1, Zenon
  <2>4. h * b = (h * r) * m
    BY <2>1, SMT
  <2> QED BY <1>5, <2>1, <2>3, <2>4
<1>8. u * m = t * m - w + z
  BY <1>4, <1>5, SMT
<1>9. PICK v \in Int : v = t * m
  OBVIOUS
<1>10. x + w = s + v
  BY <1>3, <1>7, <1>9
<1>11. h1 * p1 = (s + c * p1) + u * m
  <2>1. PICK d \in Int : d = u * m
    OBVIOUS
  <2>2. x + y + z = (s + y) + d
    BY <1>8, <1>9, <1>10, <2>1
  <2> QED BY <1>5, <1>6, <2>1, <2>2
<1> QED BY <1>11 DEF Congruent

\* The powers of 33 that the sum takes.
Powers(f, n) ==
  f = [k \in 0 .. n |-> IF k = 0 THEN 1 ELSE (f[k - 1] * 33) % CACHE_ENTRY_NUM]

\* The powers of 33, the terms of the sum and the hash are what their recursions say.
LEMMA PowersSolved ==
  ASSUME NEW n \in Nat
  PROVE  \E f : Powers(f, n)
<1> DEFINE step == [x \in Int |-> [k \in 1 .. n |-> (x * 33) % CACHE_ENTRY_NUM]]
<1>1. \A v \in Int : (v * 33) % CACHE_ENTRY_NUM \in Int
  BY EntriesEnough, SMT
<1>2. Steps(step, n)
  BY <1>1 DEF Steps
<1>3. \A v \in Int, k \in 1 .. n : step[v][k] = (v * 33) % CACHE_ENTRY_NUM
  OBVIOUS
<1> HIDE DEF step
<1>4. PICK f \in [0 .. n -> Int] : f[0] = 1 /\ \A k \in 1 .. n : f[k] = step[f[k - 1]][k]
  <2>1. PICK first \in Int : first = 1
    OBVIOUS
  <2>2. \E f : Solution(f, n, first, step)
    BY <1>2, RecursionSolved, Zenon
  <2> QED BY <2>1, <2>2 DEF Solution
<1>5. ASSUME NEW k \in 1 .. n
      PROVE  f[k] = (f[k - 1] * 33) % CACHE_ENTRY_NUM
  <2>1. k - 1 \in 0 .. n
    OBVIOUS
  <2>2. f[k - 1] \in Int
    BY <1>4, <2>1
  <2> QED BY <1>3, <1>4, <2>2
<1>6. \A k \in 0 .. n : k # 0 => k \in 1 .. n
  OBVIOUS
<1>7. \A k \in 0 .. n : f[k] = IF k = 0 THEN 1 ELSE (f[k - 1] * 33) % CACHE_ENTRY_NUM
  BY <1>4, <1>5, <1>6
<1> QED BY <1>4, <1>7 DEF Powers

\* The powers of 33 are numbers.
LEMMA PowersValues ==
  ASSUME NEW n \in Nat, NEW p, Powers(p, n)
  PROVE  /\ p[0] = 1
         /\ \A k \in 1 .. n : p[k] = (p[k - 1] * 33) % CACHE_ENTRY_NUM
         /\ \A k \in 0 .. n : p[k] \in Int
<1>1. p[0] = 1 /\ \A k \in 1 .. n : p[k] = (p[k - 1] * 33) % CACHE_ENTRY_NUM
  BY SMT DEF Powers
<1> DEFINE S == {k \in Nat : p[k] \in Int}
<1>2. 0 \in S /\ \A k \in 0 .. n - 1 : k \in S => k + 1 \in S
  <2>1. 0 \in S
    BY <1>1
  <2>2. ASSUME NEW k \in 0 .. n - 1, p[k] \in Int
        PROVE  p[k + 1] \in Int
    <3>1. PICK a \in Int : a = p[k]
      BY <2>2
    <3>2. p[k + 1] = (a * 33) % CACHE_ENTRY_NUM
      <4>1. k + 1 \in 1 .. n /\ (k + 1) - 1 = k
        OBVIOUS
      <4> QED BY <1>1, <3>1, <4>1
    <3> QED BY <3>2, EntriesEnough, SMT
  <2> QED BY <2>1, <2>2
<1> HIDE DEF S
<1>3. 0 .. n \subseteq S
  BY <1>2, UpTo
<1> QED BY <1>1, <1>3 DEF S

\* The whole sum, term by term.
Sums(f, text, p, n) ==
  f = [k \in 0 .. n |-> IF k = 0 THEN EMPTY_HASH * p[n] ELSE f[k - 1] + text[k] * p[n - k]]

\* The terms of the sum.
LEMMA SumsSolved ==
  ASSUME NEW n \in Nat, NEW text, \A k \in 1 .. n : text[k] \in Int,
         NEW p, \A k \in 0 .. n : p[k] \in Int
  PROVE  \E f : Sums(f, text, p, n)
<1> DEFINE term == [k \in 1 .. n |-> text[k] * p[n - k]]
           step == [x \in Int |-> [k \in 1 .. n |-> x + term[k]]]
<1>1. \A k \in 1 .. n : term[k] \in Int /\ term[k] = text[k] * p[n - k]
  OBVIOUS
<1> HIDE DEF term
<1>2. Steps(step, n)
  BY <1>1 DEF Steps
<1>3. \A v \in Int, k \in 1 .. n : step[v][k] = v + term[k]
  OBVIOUS
<1> HIDE DEF step
<1>4. EMPTY_HASH * p[n] \in Int
  BY EntriesEnough, SMT
<1>5. PICK f \in [0 .. n -> Int] :
        f[0] = EMPTY_HASH * p[n] /\ \A k \in 1 .. n : f[k] = step[f[k - 1]][k]
  <2>1. PICK first \in Int : first = EMPTY_HASH * p[n]
    BY <1>4
  <2>2. PICK f : Solution(f, n, first, step)
    BY <1>2, RecursionSolved, Zenon
  <2>3. /\ f \in [0 .. n -> Int] /\ f[0] = first
        /\ \A k \in 1 .. n : f[k] = step[f[k - 1]][k]
    BY <2>2 DEF Solution
  <2> QED BY <2>1, <2>3, Zenon
<1>6. ASSUME NEW k \in 1 .. n
      PROVE  f[k] = f[k - 1] + text[k] * p[n - k]
  <2>1. k - 1 \in 0 .. n
    OBVIOUS
  <2>2. f[k - 1] \in Int
    BY <1>5, <2>1
  <2>3. f[k] = step[f[k - 1]][k] /\ step[f[k - 1]][k] = f[k - 1] + term[k]
    BY <1>3, <1>5, <2>2
  <2>4. term[k] = text[k] * p[n - k]
    BY <1>1
  <2> QED BY <2>3, <2>4
<1>7. \A k \in 0 .. n : k # 0 => k \in 1 .. n
  OBVIOUS
<1>8. \A k \in 0 .. n : f[k] = IF k = 0 THEN EMPTY_HASH * p[n] ELSE f[k - 1] + text[k] * p[n - k]
  BY <1>5, <1>6, <1>7, SMT
<1>9. f = [k \in 0 .. n |-> f[k]]
  BY <1>5
<1> QED BY <1>8, <1>9, Zenon DEF Sums

\* The hash, character by character.
Hashes(f, text) ==
  f = [k \in 0 .. Len(text) |->
         IF k = 0 THEN EMPTY_HASH ELSE ((f[k - 1] * 33 + text[k]) % ULONG_SIZE) % CACHE_ENTRY_NUM]

\* The hash, character by character.
LEMMA HashesSolved ==
  ASSUME NEW text, Len(text) \in Nat, \A k \in 1 .. Len(text) : text[k] \in Int
  PROVE  \E f : Hashes(f, text)
<1> DEFINE n == Len(text)
           wrapped(x, k) == ((x * 33 + text[k]) % ULONG_SIZE) % CACHE_ENTRY_NUM
           step == [x \in Int |-> [k \in 1 .. n |-> wrapped(x, k)]]
<1>1. \A v \in Int, k \in 1 .. n : wrapped(v, k) \in Int
  <2>1. \A v \in Int, k \in 1 .. n : v * 33 + text[k] \in Int
    OBVIOUS
  <2>2. ASSUME NEW v \in Int, NEW k \in 1 .. n
        PROVE  wrapped(v, k) \in Int
    <3>1. PICK y \in Int : y = v * 33 + text[k]
      BY <2>1
    <3> QED BY <3>1, WrapKeepsRemainder
  <2> HIDE DEF wrapped
  <2> QED BY <2>2
<1>2. Steps(step, n)
  BY <1>1 DEF Steps
<1>3. \A v \in Int, k \in 1 .. n : step[v][k] = wrapped(v, k)
  OBVIOUS
<1> HIDE DEF step
<1>4. PICK f \in [0 .. n -> Int] : f[0] = EMPTY_HASH /\ \A k \in 1 .. n : f[k] = step[f[k - 1]][k]
  <2>1. PICK first \in Int : first = EMPTY_HASH
    BY EntriesEnough
  <2>2. \E f : Solution(f, n, first, step)
    BY <1>2, RecursionSolved, Zenon
  <2> QED BY <2>1, <2>2, SMT DEF Solution
<1>5. ASSUME NEW k \in 1 .. n
      PROVE  f[k] = ((f[k - 1] * 33 + text[k]) % ULONG_SIZE) % CACHE_ENTRY_NUM
  <2>1. k - 1 \in 0 .. n
    OBVIOUS
  <2>2. f[k - 1] \in Int
    BY <1>4, <2>1, SMT
  <2>3. f[k] = step[f[k - 1]][k]
    BY <1>4
  <2>4. step[f[k - 1]][k] = wrapped(f[k - 1], k)
    BY <1>3, <2>2
  <2> QED BY <2>3, <2>4
<1>6. \A k \in 0 .. n : k # 0 => k \in 1 .. n
  OBVIOUS
<1>7. \A k \in 0 .. n :
        f[k] = IF k = 0 THEN EMPTY_HASH ELSE ((f[k - 1] * 33 + text[k]) % ULONG_SIZE) % CACHE_ENTRY_NUM
  BY <1>4, <1>5, <1>6, SMT
<1> QED BY <1>4, <1>7, SMT DEF Hashes

\* The hash of the first k characters, weighted with what is to come, is the sum of the
\* first k terms but for a multiple of the number of entries m; so is the hash of all.
LEMMA WeightedHash ==
  ASSUME NEW text, Len(text) \in Nat, \A k \in 1 .. Len(text) : text[k] \in Int,
         NEW p, Powers(p, Len(text)), NEW s, Sums(s, text, p, Len(text)),
         NEW h, Hashes(h, text)
  PROVE  h[Len(text)] % CACHE_ENTRY_NUM = s[Len(text)] % CACHE_ENTRY_NUM
<1> DEFINE n == Len(text)
<1>1. PICK m \in Nat, first \in Nat :
        m = CACHE_ENTRY_NUM /\ first = EMPTY_HASH /\ first < m
  BY EntriesEnough, SMT
<1>2. h[0] = first /\ \A k \in 1 .. n : h[k] = ((h[k - 1] * 33 + text[k]) % ULONG_SIZE) % m
  <2>1. \A k \in 0 .. n : h[k] = IF k = 0 THEN EMPTY_HASH
           ELSE ((h[k - 1] * 33 + text[k]) % ULONG_SIZE) % CACHE_ENTRY_NUM
    BY DEF Hashes
  <2>2. 0 \in 0 .. n /\ \A k \in 1 .. n : k \in 0 .. n /\ k # 0
    OBVIOUS
  <2> QED BY <1>1, <2>1, <2>2
<1>3. /\ p[0] = 1 /\ \A k \in 1 .. n : p[k] = (p[k - 1] * 33) % m
      /\ \A k \in 0 .. n : p[k] \in Int
  BY <1>1, PowersValues
<1>4. s[0] = first * p[n] /\ \A k \in 1 .. n : s[k] = s[k - 1] + text[k] * p[n - k]
  <2>1. \A k \in 0 .. n : s[k] = IF k = 0 THEN EMPTY_HASH * p[n]
                                 ELSE s[k - 1] + text[k] * p[n - k]
    BY DEF Sums
  <2>2. 0 \in 0 .. n /\ \A k \in 1 .. n : k \in 0 .. n /\ k # 0
    OBVIOUS
  <2> QED BY <1>1, <2>1, <2>2
<1>5. n \in Nat /\ \A k \in 1 .. n : text[k] \in Int
  OBVIOUS
<1> HIDE DEF n
<1> DEFINE S == {k \in Nat : /\ h[k] \in Int /\ 0 <= h[k] /\ h[k] < m /\ s[k] \in Int
                             /\ Congruent(h[k] * p[n - k], s[k], m)}
<1>6. 0 \in S
  <2>1. PICK a \in Int : a = p[n]
    BY <1>3, <1>5
  <2>2. PICK v \in Int : v = first * a
    OBVIOUS
  <2>3. 0 \in Int /\ v = v + 0 * m
    OBVIOUS
  <2>4. Congruent(v, v, m)
    BY <2>3, Zenon DEF Congruent
  <2> QED BY <1>1, <1>2, <1>4, <1>5, <2>1, <2>2, <2>4
<1>7. ASSUME NEW k \in 0 .. n - 1, k \in S
      PROVE  k + 1 \in S
  <2>1. k + 1 \in 1 .. n /\ n - k \in 1 .. n /\ n - (k + 1) \in 0 .. n /\ (k + 1) - 1 = k
        /\ (n - k) - 1 = n - (k + 1)
    BY <1>5
  <2>2. PICK h0 \in Int, c \in Int, p1 \in Int, s0 \in Int :
          h0 = h[k] /\ c = text[k + 1] /\ p1 = p[n - (k + 1)] /\ s0 = s[k]
    BY <1>3, <1>5, <1>7, <2>1
  <2>3. PICK h1 \in Int : /\ h1 = h[k + 1] /\ 0 <= h1 /\ h1 < m
                          /\ Congruent(h1, h0 * 33 + c, m)
    <3>1. h[k + 1] = ((h0 * 33 + c) % ULONG_SIZE) % m
      BY <1>2, <2>1, <2>2
    <3>2. h0 * 33 + c \in Int /\ m \in Nat \ {0}
      BY <1>1
    <3>3. PICK v \in Int : v = h0 * 33 + c
      OBVIOUS
    <3>5. h[k + 1] = v % m
      BY <1>1, <3>1, <3>3, WrapKeepsRemainder
    <3>4. v % m \in Int /\ 0 <= v % m /\ v % m < m /\ Congruent(v % m, v, m)
      BY <3>2, RemainderCongruent
    <3> QED BY <3>3, <3>4, <3>5
  <2>4. PICK p0 \in Int : p0 = p[n - k] /\ Congruent(p0, p1 * 33, m)
    <3>1. p[n - k] = (p1 * 33) % m
      BY <1>3, <2>1, <2>2
    <3>2. p1 * 33 \in Int /\ m \in Nat \ {0}
      BY <1>1
    <3>3. PICK v \in Int : v = p1 * 33
      OBVIOUS
    <3>4. v % m \in Int /\ Congruent(v % m, v, m)
      BY <3>2, RemainderCongruent
    <3> QED BY <3>1, <3>3, <3>4
  <2>5. Congruent(h0 * p0, s0, m)
    <3> QED BY <1>7, <2>2, <2>4
  <2>6. Congruent(h1 * p1, s0 + c * p1, m)
    BY <2>3, <2>4, <2>5, CongruentStep, Zenon
  <2>7. s[k + 1] = s0 + c * p1 /\ s0 + c * p1 \in Int
    <3>1. s[k + 1] = s[(k + 1) - 1] + text[k + 1] * p[n - (k + 1)]
      BY <1>4, <2>1
    <3>2. PICK v \in Int : v = c * p1
      OBVIOUS
    <3> QED BY <2>1, <2>2, <3>1, <3>2
  <2> QED BY <2>1, <2>2, <2>3, <2>6, <2>7
<1>8. n \in S
  <2> HIDE DEF S
  <2>1. 0 .. n \subseteq S
    BY <1>5, <1>6, <1>7, UpTo
  <2> QED BY <1>5, <2>1
<1>9. PICK q \in Int : h[n] * p[n - n] = s[n] + q * m
  BY <1>8 DEF Congruent
<1>10. PICK a \in Int, t \in Int : /\ a = h[n] /\ 0 <= a /\ a < m
                                  /\ t = s[n] /\ p[n - n] = 1
  BY <1>3, <1>5, <1>8
<1>11. PICK r \in Int : a = t + q * m /\ r = - q
  BY <1>9, <1>10
<1>12. t = r * m + a
  BY <1>11, SMT
<1>13. t % m = a
  BY <1>10, <1>12, RemainderUnique
<1>14. a % m = a
  <2>1. 0 \in Int /\ a = 0 * m + a
    OBVIOUS
  <2> QED BY <1>10, <2>1, RemainderUnique
<1> QED BY <1>1, <1>10, <1>13, <1>14 DEF n

\* The remainder taken at every character is the remainder of the whole sum, for a name
\* of any length (utils.cpp:18-27).
THEOREM HashIsRemainderHolds == CodecSpec => []HashIsRemainder
<1>1. ASSUME NameOfChars
      PROVE  HashIsRemainder
  <2>1. Len(name) \in Nat /\ \A k \in 1 .. Len(name) : name[k] \in Int
    BY <1>1, LenProperties, ElementOfSeq DEF NameOfChars
  <2> DEFINE P == CHOOSE f : Powers(f, Len(name))
             T == CHOOSE f : Sums(f, name, P, Len(name))
             H == CHOOSE f : Hashes(f, name)
  <2>2. Powers(P, Len(name))
    BY <2>1, PowersSolved, Zenon
  <2>3. Sums(T, name, P, Len(name))
    <3>1. \A k \in 0 .. Len(name) : P[k] \in Int
      <4> HIDE DEF P
      <4> QED BY <2>1, <2>2, PowersValues
    <3> HIDE DEF P
    <3> QED BY <2>1, <3>1, SumsSolved, Zenon
  <2>4. Hashes(H, name)
    BY <2>1, HashesSolved, Zenon
  <2>5. H[Len(name)] % CACHE_ENTRY_NUM = T[Len(name)] % CACHE_ENTRY_NUM
    <3> HIDE DEF P, T, H
    <3> QED BY <2>1, <2>2, <2>3, <2>4, WeightedHash, Zenon
  <2>6. djb2_hash(name) = H[Len(name)] % CACHE_ENTRY_NUM
    BY Zenon DEF djb2_hash, Hashes
  <2>7. djb2_hash(name) = T[Len(name)] % CACHE_ENTRY_NUM
    <3> HIDE DEF T, H
    <3> QED BY <2>5, <2>6
  <2> HIDE DEF H
  <2> QED BY <2>7, Zenon DEF HashIsRemainder, Powers, Sums
<1> QED BY <1>1, NameInvariant, PTL
-----------------------------------------------------------------------------
(* The scores. *)

\* The powers that the texts of an entry need.
LEMMA SmallPowers ==
  /\ PowerOf10[0] = 1 /\ PowerOf10[1] = 10 /\ PowerOf10[2] = 100
  /\ PowerOf10[3] = 1000 /\ PowerOf10[4] = 10000 /\ PowerOf10[5] = 100000
BY SMT DEF PowerOf10

\* The width of a number of up to five digits: no more than five, and the least if the
\* number fits it.
LEMMA WidthFits ==
  ASSUME NEW n \in Nat, NEW least \in 1 .. 5, n < PowerOf10[5]
  PROVE  /\ Width(n, least) \in least .. 5
         /\ n < PowerOf10[Width(n, least)]
         /\ n < PowerOf10[least] => Width(n, least) = least
<1> DEFINE Fits(w) == n < PowerOf10[w]
           Chosen(w) == w \in least .. 9 /\ Fits(w) /\ \A v \in least .. w - 1 : n >= PowerOf10[v]
           W == {w \in least .. 5 : Fits(w)}
<1>1. PICK w \in W : \A v \in W : w <= v
  <2>1. 5 \in W /\ W \subseteq Nat
    OBVIOUS
  <2> HIDE DEF W
  <2> QED BY <2>1, LeastNat
<1>2. \A v \in 0 .. 5 : PowerOf10[v] \in Nat
  BY SmallPowers, SMT
<1>3. Chosen(w)
  <2>1. \A v \in least .. w - 1 : v \in least .. 5 /\ v \in 0 .. 5 /\ ~(w <= v)
    OBVIOUS
  <2>2. \A v \in least .. w - 1 : ~Fits(v)
    BY <1>1, <2>1
  <2> QED BY <1>1, <1>2, <2>1, <2>2
<1>4. Width(n, least) = CHOOSE v : Chosen(v)
  BY DEF Width
<1>5. PICK c : c = Width(n, least) /\ Chosen(c)
  <2> HIDE DEF Chosen
  <2> QED BY <1>3, <1>4, Zenon
<1>6. c <= 5
  <2>1. ~(5 \in least .. c - 1)
    BY <1>2, <1>5
  <2> QED BY <1>5, <2>1
<1>7. Fits(least) => c = least
  <2> SUFFICES ASSUME Fits(least)
               PROVE  ~(least \in least .. c - 1)
    BY <1>5
  <2> QED BY <1>2, <1>5
<1> QED BY <1>5, <1>6, <1>7

\* The number of a text, digit by digit.
LEMMA NumberSteps ==
  ASSUME NEW text, Len(text) \in Nat, \A k \in 1 .. Len(text) : text[k] \in Int
  PROVE  \E f : /\ Number(text) = f[Len(text)]
                /\ f[0] = 0
                /\ \A k \in 1 .. Len(text) : f[k] = f[k - 1] * 10 + text[k]
                /\ \A k \in 0 .. Len(text) : f[k] \in Int
<1> DEFINE n == Len(text)
           Adds(f) == f = [k \in 0 .. n |-> IF k = 0 THEN 0 ELSE f[k - 1] * 10 + text[k]]
           step == [x \in Int |-> [k \in 1 .. n |-> x * 10 + text[k]]]
<1>1. \A v \in Int, k \in 1 .. n : step[v][k] = v * 10 + text[k]
  OBVIOUS
<1> HIDE DEF step
<1>2. Steps(step, n) /\ 0 \in Int
  BY <1>1 DEF Steps
<1>3. PICK f : Solution(f, n, 0, step)
  BY <1>2, RecursionSolved, Zenon
<1>4. /\ f \in [0 .. n -> Int] /\ f[0] = 0
      /\ \A k \in 1 .. n : f[k] = step[f[k - 1]][k]
  BY <1>3 DEF Solution
<1>5. ASSUME NEW k \in 1 .. n
      PROVE  f[k] = f[k - 1] * 10 + text[k]
  <2>1. k - 1 \in 0 .. n
    OBVIOUS
  <2>2. f[k - 1] \in Int
    BY <1>4, <2>1
  <2> QED BY <1>1, <1>4, <2>2
<1>6. \A k \in 0 .. n : k # 0 => k \in 1 .. n
  OBVIOUS
<1>7. \A k \in 0 .. n : f[k] = IF k = 0 THEN 0 ELSE f[k - 1] * 10 + text[k]
  BY <1>4, <1>5, <1>6
<1>8. f = [k \in 0 .. n |-> f[k]]
  BY <1>4
<1>9. Adds(f)
  BY <1>7, <1>8, Zenon
<1> DEFINE g == CHOOSE h : Adds(h)
<1>10. Adds(g)
  <2> HIDE DEF Adds
  <2> QED BY <1>9, Zenon
<1>11. Number(text) = g[n]
  BY Zenon DEF Number
<1> HIDE DEF g
<1>12. g[0] = 0 /\ \A k \in 1 .. n : g[k] = g[k - 1] * 10 + text[k]
  <2>1. \A k \in 0 .. n : g[k] = IF k = 0 THEN 0 ELSE g[k - 1] * 10 + text[k]
    BY <1>10
  <2>2. 0 \in 0 .. n /\ \A k \in 1 .. n : k \in 0 .. n /\ k # 0
    OBVIOUS
  <2> QED BY <2>1, <2>2
<1>13. \A k \in 0 .. n : g[k] \in Int
  <2> DEFINE S == {k \in Nat : g[k] \in Int}
  <2>1. 0 \in S
    BY <1>12
  <2>2. \A k \in 0 .. n - 1 : k \in S => k + 1 \in S
    <3> SUFFICES ASSUME NEW k \in 0 .. n - 1, g[k] \in Int
                 PROVE  g[k + 1] \in Int
      OBVIOUS
    <3>1. k + 1 \in 1 .. n /\ (k + 1) - 1 = k
      OBVIOUS
    <3> QED BY <1>12, <3>1
  <2>3. 0 .. n \subseteq S
    <3> HIDE DEF S
    <3> QED BY <2>1, <2>2, UpTo
  <2> QED BY <2>3
<1> QED BY <1>11, <1>12, <1>13

\* A number of up to five digits is the number of its text; its digits are numbers.
LEMMA NumberOfDigits ==
  ASSUME NEW n \in Nat, NEW least \in 1 .. 5, n < PowerOf10[5]
  PROVE  /\ Digits(n, least) \in Seq(Nat)
         /\ Len(Digits(n, least)) = Width(n, least)
         /\ Number(Digits(n, least)) = n
<1>1. PICK w \in 1 .. 5 : w = Width(n, least) /\ n < PowerOf10[w]
  BY WidthFits
<1> DEFINE t == [k \in 1 .. w |-> (n \div PowerOf10[w - k]) % 10]
<1>2. Digits(n, least) = t
  BY <1>1, Zenon DEF Digits
<1>3. \A k \in 1 .. w : t[k] = (n \div PowerOf10[w - k]) % 10 /\ t[k] \in Nat
  <2> SUFFICES ASSUME NEW k \in 1 .. w
               PROVE  t[k] = (n \div PowerOf10[w - k]) % 10 /\ t[k] \in Nat
    OBVIOUS
  <2>1. PICK p \in Nat \ {0} : p = PowerOf10[w - k]
    <3>1. w - k \in 0 .. 5
      OBVIOUS
    <3> QED BY <3>1, SmallPowers, SMT
  <2>2. (n \div p) % 10 \in Nat
    BY SMT
  <2> QED BY <2>1, <2>2
<1>4. t \in [1 .. w -> Nat] /\ w \in Nat
  BY <1>3
<1>5. t \in Seq(Nat) /\ Len(t) = w
  <2> HIDE DEF t
  <2>1. t \in Seq(Nat)
    BY <1>4, SeqDef
  <2>2. DOMAIN t = 1 .. w /\ DOMAIN t = 1 .. Len(t) /\ Len(t) \in Nat
    BY <1>4, <2>1, LenProperties
  <2> QED BY <1>4, <2>1, <2>2
<1> HIDE DEF t
<1>6. PICK f : /\ Number(t) = f[w] /\ f[0] = 0
               /\ \A k \in 1 .. w : f[k] = f[k - 1] * 10 + t[k]
               /\ \A k \in 0 .. w : f[k] \in Int
  <2>1. Len(t) \in Nat /\ \A k \in 1 .. Len(t) : t[k] \in Int
    BY <1>3, <1>5
  <2>2. \E f : /\ Number(t) = f[Len(t)] /\ f[0] = 0
               /\ \A k \in 1 .. Len(t) : f[k] = f[k - 1] * 10 + t[k]
               /\ \A k \in 0 .. Len(t) : f[k] \in Int
    BY <2>1, NumberSteps
  <2> QED BY <1>5, <2>2
<1>7. f[w] = n
  <2>1. CASE w = 1
    <3>1. n < 10
      BY <1>1, <2>1, SmallPowers
    <3>2. t[1] = (n \div 1) % 10
      BY <1>3, <2>1, SmallPowers, SMT
    <3>3. f[1] = t[1]
      BY <1>3, <1>6, <2>1
    <3> QED BY <2>1, <3>1, <3>2, <3>3, SMT
  <2>2. CASE w = 2
    <3>1. n < 100
      BY <1>1, <2>2, SmallPowers
    <3>2. /\ t[1] = (n \div 10) % 10 /\ t[2] = (n \div 1) % 10
      BY <1>3, <2>2, SmallPowers, SMT
    <3>3. /\ f[1] = t[1] /\ f[2] = f[1] * 10 + t[2]
      BY <1>3, <1>6, <2>2
    <3> QED BY <2>2, <3>1, <3>2, <3>3, SMT
  <2>3. CASE w = 3
    <3>1. n < 1000
      BY <1>1, <2>3, SmallPowers
    <3>2. /\ t[1] = (n \div 100) % 10 /\ t[2] = (n \div 10) % 10
          /\ t[3] = (n \div 1) % 10
      BY <1>3, <2>3, SmallPowers, SMT
    <3>3. /\ f[1] = t[1] /\ f[2] = f[1] * 10 + t[2]
          /\ f[3] = f[2] * 10 + t[3]
      BY <1>3, <1>6, <2>3
    <3> QED BY <2>3, <3>1, <3>2, <3>3, SMT
  <2>4. CASE w = 4
    <3>1. n < 10000
      BY <1>1, <2>4, SmallPowers
    <3>2. /\ t[1] = (n \div 1000) % 10 /\ t[2] = (n \div 100) % 10
          /\ t[3] = (n \div 10) % 10 /\ t[4] = (n \div 1) % 10
      BY <1>3, <2>4, SmallPowers, SMT
    <3>3. /\ f[1] = t[1] /\ f[2] = f[1] * 10 + t[2]
          /\ f[3] = f[2] * 10 + t[3] /\ f[4] = f[3] * 10 + t[4]
      BY <1>3, <1>6, <2>4
    <3> QED BY <2>4, <3>1, <3>2, <3>3, SMT
  <2>5. CASE w = 5
    <3>1. n < 100000
      BY <1>1, <2>5, SmallPowers
    <3>2. /\ t[1] = (n \div 10000) % 10 /\ t[2] = (n \div 1000) % 10
          /\ t[3] = (n \div 100) % 10 /\ t[4] = (n \div 10) % 10
          /\ t[5] = (n \div 1) % 10
      BY <1>3, <2>5, SmallPowers, SMT
    <3>3. /\ f[1] = t[1] /\ f[2] = f[1] * 10 + t[2]
          /\ f[3] = f[2] * 10 + t[3] /\ f[4] = f[3] * 10 + t[4]
          /\ f[5] = f[4] * 10 + t[5]
      BY <1>3, <1>6, <2>5
    <3> QED BY <2>5, <3>1, <3>2, <3>3, SMT
  <2>6. w = 1 \/ w = 2 \/ w = 3 \/ w = 4 \/ w = 5
    OBVIOUS
  <2> QED BY <2>1, <2>2, <2>3, <2>4, <2>5, <2>6
<1> QED BY <1>1, <1>2, <1>5, <1>6, <1>7

\* A text put together comes apart at the joint.
LEMMA PartsOfConcat ==
  ASSUME NEW s \in Seq(Nat), NEW t \in Seq(Nat)
  PROVE  /\ s \o t \in Seq(Nat) /\ Len(s \o t) = Len(s) + Len(t)
         /\ SubSeq(s \o t, 1, Len(s)) = s
         /\ From(s \o t, Len(s)) = t
<1> DEFINE u == s \o t
           l == Len(s)
           m == Len(t)
<1>1. /\ u \in Seq(Nat) /\ Len(u) = l + m
      /\ \A k \in 1 .. l + m : u[k] = IF k <= l THEN s[k] ELSE t[k - l]
  BY ConcatProperties
<1>2. l \in Nat /\ m \in Nat
  BY LenProperties
<1>3. \A k \in 1 .. l + m : u[k] \in Nat
  BY <1>1, ElementOfSeq
<1> HIDE DEF u, l, m
<1>4. SubSeq(u, 1, l) = s
  <2>1. \A k \in 1 .. l : u[k] \in Nat
    BY <1>2, <1>3
  <2>2. /\ SubSeq(u, 1, l) \in Seq(Nat)
        /\ Len(SubSeq(u, 1, l)) = IF 1 <= l THEN l - 1 + 1 ELSE 0
        /\ \A k \in 1 .. l - 1 + 1 : SubSeq(u, 1, l)[k] = u[1 + k - 1]
    BY <1>2, <2>1, SubSeqProperties
  <2>3. Len(SubSeq(u, 1, l)) = l
    BY <1>2, <2>2
  <2>4. \A k \in 1 .. l : SubSeq(u, 1, l)[k] = s[k]
    <3> SUFFICES ASSUME NEW k \in 1 .. l
                 PROVE  SubSeq(u, 1, l)[k] = s[k]
      OBVIOUS
    <3>1. k \in 1 .. l - 1 + 1 /\ 1 + k - 1 = k /\ k \in 1 .. l + m /\ k <= l
      BY <1>2
    <3> QED BY <1>1, <2>2, <3>1
  <2> QED BY <2>2, <2>3, <2>4, SeqEqual DEF l
<1>5. SubSeq(u, l + 1, l + m) = t
  <2>1. \A k \in l + 1 .. l + m : u[k] \in Nat
    BY <1>2, <1>3
  <2>2. l + 1 \in Int /\ l + m \in Int
    BY <1>2
  <2>3. /\ SubSeq(u, l + 1, l + m) \in Seq(Nat)
        /\ Len(SubSeq(u, l + 1, l + m)) =
             IF l + 1 <= l + m THEN (l + m) - (l + 1) + 1 ELSE 0
        /\ \A k \in 1 .. (l + m) - (l + 1) + 1 :
             SubSeq(u, l + 1, l + m)[k] = u[(l + 1) + k - 1]
    BY <2>1, <2>2, SubSeqProperties
  <2>4. Len(SubSeq(u, l + 1, l + m)) = m
    BY <1>2, <2>3
  <2>5. \A k \in 1 .. m : SubSeq(u, l + 1, l + m)[k] = t[k]
    <3> SUFFICES ASSUME NEW k \in 1 .. m
                 PROVE  SubSeq(u, l + 1, l + m)[k] = t[k]
      OBVIOUS
    <3>1. /\ k \in 1 .. (l + m) - (l + 1) + 1 /\ (l + 1) + k - 1 = l + k
          /\ l + k \in 1 .. l + m /\ ~(l + k <= l) /\ (l + k) - l = k
      BY <1>2
    <3> QED BY <1>1, <2>3, <3>1
  <2> QED BY <2>3, <2>4, <2>5, SeqEqual DEF m
<1>6. From(u, l) = SubSeq(u, l + 1, l + m)
  BY <1>1 DEF From
<1> QED BY <1>1, <1>4, <1>5, <1>6 DEF u, l, m

\* A warm score in whole numbers and ten-thousandths, what is beyond them cut off.
Whole(score) == score \div PARTS
Decimals(score) == ((score % PARTS) * PowerOf10[4]) \div PARTS
Warm(score) == Whole(score) * PowerOf10[4] + Decimals(score)

\* The parts of a score: its size, and what the decimals keep of it.
LEMMA ScoreParts ==
  ASSUME NEW a \in Nat, a < MaxScore * PARTS
  PROVE  /\ Whole(a) \in Nat /\ Whole(a) < PowerOf10[2]
         /\ Decimals(a) \in Nat /\ Decimals(a) < PowerOf10[4]
         /\ Warm(a) \in Nat
         /\ Warm(a) * PARTS <= a * PowerOf10[4] /\ a * PowerOf10[4] < (Warm(a) + 1) * PARTS
<1>1. PICK p \in Nat \ {0} : p = PARTS
  BY ScoreAssumption
<1>2. PICK ten \in Nat \ {0} : ten = PowerOf10[4]
  BY SmallPowers, SMT
<1>3. PICK w \in Nat, r \in Nat : w = Whole(a) /\ r = a % p /\ a = w * p + r /\ r < p
  <2>1. a \div p \in Nat /\ a % p \in Nat /\ a = (a \div p) * p + (a % p) /\ a % p < p
    BY SMT
  <2> QED BY <1>1, <2>1 DEF Whole
<1>4. PICK v \in Nat, d \in Nat : v = r * ten /\ d = v \div p /\ d = Decimals(a)
  <2>1. r * ten \in Nat
    BY SMT
  <2>2. \A x \in Nat : x \div p \in Nat
    BY SMT
  <2> QED BY <1>1, <1>2, <1>3, <2>1, <2>2 DEF Decimals
<1>5. d * p <= v /\ v < (d + 1) * p
  <2>1. v = (v \div p) * p + (v % p) /\ v % p \in Nat /\ v % p < p
    BY SMT
  <2>2. (d + 1) * p = d * p + p /\ d * p \in Nat
    BY SMT
  <2> QED BY <1>4, <2>1, <2>2
<1>6. w < 100
  <2>1. PICK m \in Nat : m = MaxScore /\ m <= 100
    BY SizesAssumption, SmallPowers, SMT
  <2>2. a < m * p
    BY <1>1, <2>1
  <2>3. ~(w >= m)
    <3> SUFFICES ASSUME w >= m
                 PROVE  FALSE
      OBVIOUS
    <3>1. m * p <= w * p
      BY SMT
    <3>2. m * p \in Nat /\ w * p \in Nat
      BY SMT
    <3> QED BY <1>3, <2>2, <3>1, <3>2
  <2> QED BY <2>1, <2>3
<1>7. d < ten
  <2> SUFFICES ASSUME d >= ten
               PROVE  FALSE
    OBVIOUS
  <2>1. ten * p <= d * p /\ r * ten < p * ten
    BY <1>3, SMT
  <2>2. ten * p = p * ten /\ p * ten \in Nat /\ d * p \in Nat /\ r * ten \in Nat
    BY SMT
  <2> QED BY <1>4, <1>5, <2>1, <2>2
<1>8. PICK b \in Nat : b = w * ten + d /\ b = Warm(a)
  <2>1. w * ten + d \in Nat
    BY SMT
  <2> QED BY <1>2, <1>3, <1>4, <2>1 DEF Warm
<1>9. b * p <= a * ten /\ a * ten < (b + 1) * p
  <2>1. PICK x \in Nat, y \in Nat : x = (w * p) * ten /\ y = d * p
    OBVIOUS
  <2>2. a * ten = x + v
    <3>1. (w * p + r) * ten = (w * p) * ten + r * ten
      BY SMT
    <3> QED BY <1>3, <1>4, <2>1, <3>1
  <2>3. b * p = x + y
    <3>1. (w * ten + d) * p = (w * ten) * p + d * p /\ (w * ten) * p = (w * p) * ten
      BY SMT
    <3> QED BY <1>8, <2>1, <3>1
  <2>4. (b + 1) * p = b * p + p /\ (d + 1) * p = d * p + p
    BY SMT
  <2> QED BY <1>5, <2>1, <2>2, <2>3, <2>4
<1>10. Whole(a) \in Nat /\ Whole(a) < PowerOf10[2]
  BY <1>3, <1>6, SmallPowers
<1>11. Decimals(a) \in Nat /\ Decimals(a) < PowerOf10[4]
  BY <1>2, <1>4, <1>7
<1>12. /\ Warm(a) * PARTS <= a * PowerOf10[4]
       /\ a * PowerOf10[4] < (Warm(a) + 1) * PARTS
  BY <1>1, <1>2, <1>8, <1>9, Zenon
<1> QED BY <1>8, <1>10, <1>11, <1>12, Zenon

\* An entry is decoded to the scores it was made from.
LEMMA EntryDecoded ==
  ASSUME NEW a \in Nat, a < MaxScore * PARTS, NEW cold \in Nat, cold < PowerOf10[5]
  PROVE  /\ EntryText(<<a, cold>>) \in Seq(Nat)
         /\ Len(EntryText(<<a, cold>>)) \in 7 .. 11
         /\ decode_score_from_entry(EntryText(<<a, cold>>)) =
              <<Warm(a), cold>>
<1> DEFINE s == Digits(Whole(a), 2)
           t == Digits(Decimals(a), 4)
           u == Digits(cold, 1)
<1>1. EntryText(<<a, cold>>) = (s \o t) \o u
  <2>1. EntryText(<<a, cold>>) = encode_warm_score(a) \o Digits(cold, 1)
    BY DEF EntryText
  <2>2. WARM_SCORE_SIZE - 2 = 4
    BY DEF WARM_SCORE_SIZE
  <2>3. encode_warm_score(a) = Digits(Whole(a), 2) \o Digits(Decimals(a), 4)
    BY <2>2, Zenon DEF encode_warm_score, Whole, Decimals
  <2> QED BY <2>1, <2>3, Zenon
<1>2. s \in Seq(Nat) /\ Len(s) = 2 /\ Number(s) = Whole(a)
  <2>1. Whole(a) \in Nat /\ Whole(a) < PowerOf10[2] /\ 2 \in 1 .. 5
    BY ScoreParts
  <2>2. Whole(a) < PowerOf10[5]
    BY <2>1, SmallPowers
  <2>3. Width(Whole(a), 2) = 2
    BY <2>1, <2>2, WidthFits
  <2>4. s \in Seq(Nat) /\ Len(s) = Width(Whole(a), 2) /\ Number(s) = Whole(a)
    BY <2>1, <2>2, NumberOfDigits
  <2> QED BY <2>3, <2>4
<1>3. t \in Seq(Nat) /\ Len(t) = 4 /\ Number(t) = Decimals(a)
  <2>1. Decimals(a) \in Nat /\ Decimals(a) < PowerOf10[4] /\ 4 \in 1 .. 5
    BY ScoreParts
  <2>2. Decimals(a) < PowerOf10[5]
    BY <2>1, SmallPowers
  <2>3. Width(Decimals(a), 4) = 4
    BY <2>1, <2>2, WidthFits
  <2>4. t \in Seq(Nat) /\ Len(t) = Width(Decimals(a), 4) /\ Number(t) = Decimals(a)
    BY <2>1, <2>2, NumberOfDigits
  <2> QED BY <2>3, <2>4
<1>4. u \in Seq(Nat) /\ Len(u) \in 1 .. 5 /\ Number(u) = cold
  <2>1. 1 \in 1 .. 5
    OBVIOUS
  <2>2. Width(cold, 1) \in 1 .. 5
    BY <2>1, WidthFits
  <2>3. u \in Seq(Nat) /\ Len(u) = Width(cold, 1) /\ Number(u) = cold
    BY <2>1, NumberOfDigits
  <2> QED BY <2>2, <2>3
<1> HIDE DEF s, t, u
<1>5. /\ s \o t \in Seq(Nat) /\ Len(s \o t) = 6
      /\ SubSeq(s \o t, 1, 2) = s /\ From(s \o t, 2) = t
  <2>1. /\ s \o t \in Seq(Nat) /\ Len(s \o t) = Len(s) + Len(t)
        /\ SubSeq(s \o t, 1, Len(s)) = s /\ From(s \o t, Len(s)) = t
    BY <1>2, <1>3, PartsOfConcat
  <2> QED BY <1>2, <1>3, <2>1
<1>6. /\ (s \o t) \o u \in Seq(Nat) /\ Len((s \o t) \o u) = 6 + Len(u)
      /\ SubSeq((s \o t) \o u, 1, 6) = s \o t /\ From((s \o t) \o u, 6) = u
  <2>1. PICK v \in Seq(Nat) : v = s \o t
    BY <1>5
  <2>2. /\ v \o u \in Seq(Nat) /\ Len(v \o u) = Len(v) + Len(u)
        /\ SubSeq(v \o u, 1, Len(v)) = v /\ From(v \o u, Len(v)) = u
    BY <1>4, PartsOfConcat
  <2>3. Len(v) = 6
    BY <1>5, <2>1
  <2> QED BY <2>1, <2>2, <2>3, Zenon
<1>7. Len((s \o t) \o u) \in 7 .. 11 /\ (s \o t) \o u # << >>
  <2>1. PICK n \in 1 .. 5 : n = Len(u)
    BY <1>4
  <2>2. PICK e \in Seq(Nat) : e = (s \o t) \o u /\ Len(e) = 6 + n
    BY <1>6, <2>1
  <2>3. Len(e) \in 7 .. 11 /\ e # << >>
    BY <2>2
  <2> QED BY <2>2, <2>3
<1>8. decode_score_from_entry((s \o t) \o u) =
        <<Number(s) * PowerOf10[4] + Number(t), Number(u)>>
  <2> DEFINE e == (s \o t) \o u
  <2>1. WARM_SCORE_SIZE = 6
    BY DEF WARM_SCORE_SIZE
  <2>2. decode_score_from_entry(e) =
          << decode_warm_score(SubSeq(e, 1, 6)), Number(From(e, 6)) >>
    BY <1>7, <2>1 DEF decode_score_from_entry
  <2>3. decode_warm_score(s \o t) = Number(s) * PowerOf10[4] + Number(t)
    BY <1>5 DEF decode_warm_score
  <2> QED BY <1>6, <2>2, <2>3
<1> QED BY <1>1, <1>2, <1>3, <1>4, <1>6, <1>7, <1>8 DEF Warm
-----------------------------------------------------------------------------
(* The table. *)

\* The bytes of an entry, and the number of bytes.
LEMMA TableBytes ==
  ASSUME NEW scores, NEW k \in InvokerIds
  PROVE  /\ Len(Table(scores)) = SCORE_ENTRY_SIZE * NumInvokers
         /\ SCORE_ENTRY_SIZE * k \in Nat
         /\ SCORE_ENTRY_SIZE * k + SCORE_ENTRY_SIZE <= SCORE_ENTRY_SIZE * NumInvokers
         /\ \A p \in 1 .. SCORE_ENTRY_SIZE :
              Table(scores)[SCORE_ENTRY_SIZE * k + p] = EntryByte(TextOf(k, scores), p)
<1>1. SCORE_ENTRY_SIZE = 12
  BY DEF SCORE_ENTRY_SIZE, WARM_SCORE_SIZE, COLD_SCORE_SIZE
<1>2. /\ NumInvokers \in Nat /\ k \in Nat /\ k < NumInvokers
  BY LayoutAssumption DEF InvokerIds
<1> DEFINE top == SCORE_ENTRY_SIZE * NumInvokers
           byte == [a \in 1 .. top |->
                      EntryByte(TextOf((a - 1) \div SCORE_ENTRY_SIZE, scores),
                                ((a - 1) % SCORE_ENTRY_SIZE) + 1)]
           Bytes == {byte[a] : a \in 1 .. top}
<1>3. Table(scores) = byte
  BY Zenon DEF Table
<1>4. Len(byte) = top
  <2>1. top \in Nat
    BY <1>1, <1>2
  <2>2. DOMAIN byte = 1 .. top /\ byte \in [1 .. top -> Bytes]
    OBVIOUS
  <2> HIDE DEF top, byte, Bytes
  <2>3. byte \in Seq(Bytes)
    BY <2>1, <2>2, SeqDef
  <2>4. Len(byte) \in Nat /\ DOMAIN byte = 1 .. Len(byte)
    BY <2>3, LenProperties
  <2> QED BY <2>1, <2>2, <2>4
<1>5. ASSUME NEW p \in 1 .. SCORE_ENTRY_SIZE
      PROVE  byte[SCORE_ENTRY_SIZE * k + p] = EntryByte(TextOf(k, scores), p)
  <2>1. PICK a \in Nat : a = 12 * k + p /\ p \in Nat /\ 1 <= p /\ p <= 12
    BY <1>1, <1>2
  <2>2. (a - 1) \div 12 = k /\ ((a - 1) % 12) + 1 = p
    BY <1>2, <2>1, SMT
  <2>3. a \in 1 .. top
    BY <1>1, <1>2, <2>1
  <2>4. byte[a] = EntryByte(TextOf((a - 1) \div SCORE_ENTRY_SIZE, scores),
                            ((a - 1) % SCORE_ENTRY_SIZE) + 1)
    BY <2>3, Zenon
  <2> HIDE DEF byte
  <2> QED BY <1>1, <2>1, <2>2, <2>4
<1>6. SCORE_ENTRY_SIZE * k \in Nat /\ SCORE_ENTRY_SIZE * k + SCORE_ENTRY_SIZE <= top
  BY <1>1, <1>2
<1> HIDE DEF byte, Bytes
<1> QED BY <1>3, <1>4, <1>5, <1>6

\* The text found in the table at an invoker's entry is the one put there: it is shorter
\* than the entry, and a digit is no NUL.
LEMMA TextFound ==
  ASSUME NEW scores, NEW k \in InvokerIds, NEW t \in Seq(Nat), t = TextOf(k, scores),
         Len(t) < SCORE_ENTRY_SIZE
  PROVE  TextAt(Table(scores), SCORE_ENTRY_SIZE * k) = t
<1> DEFINE l == Len(t)
           c == Table(scores)
<1>1. PICK size \in Nat, ptr \in Nat :
        size = SCORE_ENTRY_SIZE /\ ptr = SCORE_ENTRY_SIZE * k
  <2>1. SCORE_ENTRY_SIZE \in Nat
    BY DEF SCORE_ENTRY_SIZE, WARM_SCORE_SIZE, COLD_SCORE_SIZE
  <2> QED BY <2>1, TableBytes
<1>2. l \in Nat /\ l < size /\ \A p \in 1 .. l : t[p] \in Nat
  BY <1>1, LenProperties, ElementOfSeq
<1>3. /\ Len(c) \in Nat /\ ptr + size <= Len(c)
      /\ \A p \in 1 .. size : c[ptr + p] = IF p <= l THEN t[p] ELSE NUL
  <2>1. /\ Len(c) = SCORE_ENTRY_SIZE * NumInvokers
        /\ ptr + size <= SCORE_ENTRY_SIZE * NumInvokers
        /\ \A p \in 1 .. size : c[ptr + p] = EntryByte(t, p)
    BY <1>1, TableBytes
  <2>2. SCORE_ENTRY_SIZE * NumInvokers \in Nat
    BY <1>1, LayoutAssumption
  <2> QED BY <2>1, <2>2 DEF EntryByte
<1> HIDE DEF l, c
<1>4. ASSUME NEW p \in 1 .. l
      PROVE  c[ptr + p] = t[p] /\ c[ptr + p] \in Nat
  <2>1. p \in 1 .. size /\ p <= l
    BY <1>2
  <2> QED BY <1>2, <1>3, <2>1
<1>5. c[ptr + l + 1] = NUL
  <2>1. l + 1 \in 1 .. size /\ ~(l + 1 <= l) /\ ptr + (l + 1) = ptr + l + 1
    BY <1>2
  <2> QED BY <1>3, <2>1
<1> DEFINE Ends(e) == c[e + 1] = NUL /\ \A p \in ptr .. e - 1 : c[p + 1] # NUL
           end == CHOOSE e \in ptr .. Len(c) : Ends(e)
<1>6. \A n \in ptr .. (ptr + l) - 1 : c[n + 1] # NUL
  <2> SUFFICES ASSUME NEW n \in ptr .. (ptr + l) - 1
               PROVE  c[n + 1] # NUL
    OBVIOUS
  <2>1. PICK p \in 1 .. l : ptr + p = n + 1
    <3>1. n + 1 - ptr \in 1 .. l /\ ptr + (n + 1 - ptr) = n + 1
      BY <1>2
    <3> QED BY <3>1
  <2>2. c[ptr + p] \in Nat
    BY <1>4
  <2>3. PICK b \in Nat : b = c[n + 1]
    BY <2>1, <2>2
  <2>4. b # NUL
    BY DEF NUL
  <2> QED BY <2>3, <2>4
<1>7. ptr + l \in ptr .. Len(c) /\ Ends(ptr + l)
  <2>1. ptr + l \in ptr .. Len(c)
    BY <1>2, <1>3
  <2>2. \A p \in ptr .. (ptr + l) - 1 : c[p + 1] # NUL
    BY <1>6
  <2>3. c[(ptr + l) + 1] = NUL
    BY <1>5
  <2> QED BY <2>1, <2>2, <2>3, Zenon
<1>8. end \in ptr .. Len(c) /\ Ends(end)
  <2> HIDE DEF Ends
  <2> QED BY <1>7, Zenon
<1>9. TextAt(c, ptr) = SubSeq(c, ptr + 1, end)
  BY Zenon DEF TextAt
<1> HIDE DEF end
<1>10. end = ptr + l
  <2>1. end \in Int /\ end >= ptr
    BY <1>8
  <2>2. ~(end < ptr + l)
    <3> SUFFICES ASSUME end < ptr + l
                 PROVE  FALSE
      OBVIOUS
    <3>1. end \in ptr .. (ptr + l) - 1
      BY <1>2, <2>1
    <3> QED BY <1>6, <1>8, <3>1
  <2>3. ~(ptr + l < end)
    <3> SUFFICES ASSUME ptr + l < end
                 PROVE  FALSE
      OBVIOUS
    <3>1. ptr + l \in ptr .. end - 1
      BY <1>2, <2>1
    <3> QED BY <1>5, <1>8, <3>1
  <2> QED BY <1>2, <2>1, <2>2, <2>3
<1>11. SubSeq(c, ptr + 1, ptr + l) = t
  <2>1. \A n \in ptr + 1 .. ptr + l : c[n] \in Nat
    <3> SUFFICES ASSUME NEW n \in ptr + 1 .. ptr + l
                 PROVE  c[n] \in Nat
      OBVIOUS
    <3>1. PICK p \in 1 .. l : ptr + p = n
      <4>1. n - ptr \in 1 .. l /\ ptr + (n - ptr) = n
        BY <1>2
      <4> QED BY <4>1
    <3> QED BY <1>4, <3>1
  <2>2. ptr + 1 \in Int /\ ptr + l \in Int
    BY <1>2
  <2>3. /\ SubSeq(c, ptr + 1, ptr + l) \in Seq(Nat)
        /\ Len(SubSeq(c, ptr + 1, ptr + l)) =
             IF ptr + 1 <= ptr + l THEN (ptr + l) - (ptr + 1) + 1 ELSE 0
        /\ \A n \in 1 .. (ptr + l) - (ptr + 1) + 1 :
             SubSeq(c, ptr + 1, ptr + l)[n] = c[(ptr + 1) + n - 1]
    BY <2>1, <2>2, SubSeqProperties
  <2>4. Len(SubSeq(c, ptr + 1, ptr + l)) = l
    BY <1>2, <2>3
  <2>5. \A n \in 1 .. l : SubSeq(c, ptr + 1, ptr + l)[n] = t[n]
    <3> SUFFICES ASSUME NEW n \in 1 .. l
                 PROVE  SubSeq(c, ptr + 1, ptr + l)[n] = t[n]
      OBVIOUS
    <3>1. n \in 1 .. (ptr + l) - (ptr + 1) + 1 /\ (ptr + 1) + n - 1 = ptr + n
      BY <1>2
    <3> QED BY <1>4, <2>3, <3>1
  <2> QED BY <2>3, <2>4, <2>5, SeqEqual DEF l
<1> QED BY <1>1, <1>9, <1>10, <1>11, Zenon DEF c

\* The scores in the table are of the sizes of the texts, and the table holds them.
TableHolds ==
  entries # << >> =>
    \E a, b \in 0 .. MaxScore * PARTS - 1, cold \in Colds :
      entries = << <<a, cold>>, <<b, cold>> >> /\ table = Table(entries)

\* The table holds the scores that were put in it.
LEMMA TableInvariant == CodecSpec => []TableHolds
<1>1. CodecInit => TableHolds
  BY DEF CodecInit, TableHolds
<1>2. TableHolds /\ [CodecNext]_<<one, two, entries, table, name>> => TableHolds'
  <2> SUFFICES ASSUME TableHolds, [CodecNext]_<<one, two, entries, table, name>>
               PROVE  TableHolds'
    OBVIOUS
  <2>1. CASE UseEntries
    <3>1. PICK a \in 0 .. MaxScore * PARTS - 1, b \in {0, MaxScore * PARTS - 1},
               cold \in Colds :
            /\ entries' = << <<a, cold>>, <<b, cold>> >>
            /\ table' = Table(<< <<a, cold>>, <<b, cold>> >>)
      BY <2>1, Zenon DEF UseEntries
    <3>2. b \in 0 .. MaxScore * PARTS - 1
      <4>1. MaxScore * PARTS \in Nat
        BY SizesAssumption, ScoreAssumption, SMT
      <4> QED BY <3>1, <4>1
    <3>3. table' = Table(entries')
      BY <3>1
    <3>4. (\E x, y \in 0 .. MaxScore * PARTS - 1, z \in Colds :
             entries = << <<x, z>>, <<y, z>> >> /\ table = Table(entries))'
      <4>1. table' = Table(entries)'
        BY <3>3 DEF Table, TextOf, EntryText, EntryByte, encode_warm_score, Digits, Width
      <4> QED BY <3>1, <3>2, <4>1
    <3> QED BY <3>4 DEF TableHolds
  <2>2. CASE UNCHANGED <<entries, table>>
    <3>1. entries' = entries /\ table' = table
      BY <2>2
    <3>2. Table(entries)' = Table(entries)
      BY <3>1 DEF Table, TextOf, EntryText, EntryByte, encode_warm_score, Digits, Width
    <3> QED BY <3>1, <3>2, Zenon DEF TableHolds
  <2> QED BY <2>1, <2>2 DEF CodecNext, UsePair, UseName
<1> QED BY <1>1, <1>2, PTL DEF CodecSpec

\* The scores come back from the table, for any number of invokers, any fineness of the
\* scores and all scores of two digits before the point and five digits (utils.cpp:29-73).
THEOREM ScoresComeBackHolds == CodecSpec => []ScoresComeBack
<1>1. ASSUME TableHolds
      PROVE  ScoresComeBack
  <2> SUFFICES ASSUME entries # << >>
               PROVE  /\ IsBack(decode_score_from_cache(table)[0], entries[1])
                      /\ IsBack(decode_score_from_cache(table)[NumInvokers - 1], entries[2])
                      /\ \A i \in 1 .. NumInvokers - 2 :
                           decode_score_from_cache(table)[i] = <<-1, -1>>
    BY Zenon DEF ScoresComeBack
  <2>1. PICK a \in Nat, b \in Nat, cold \in Nat :
          /\ a < MaxScore * PARTS /\ b < MaxScore * PARTS /\ cold < PowerOf10[5]
          /\ entries = << <<a, cold>>, <<b, cold>> >> /\ table = Table(entries)
    <3>1. PICK a \in 0 .. MaxScore * PARTS - 1, b \in 0 .. MaxScore * PARTS - 1,
               cold \in Colds :
            entries = << <<a, cold>>, <<b, cold>> >> /\ table = Table(entries)
      BY <1>1 DEF TableHolds
    <3>2. MaxScore * PARTS \in Nat
      BY SizesAssumption, ScoreAssumption, SMT
    <3>3. cold \in Nat /\ cold < PowerOf10[5]
      BY SizesAssumption DEF COLD_SCORE_SIZE
    <3> QED BY <3>1, <3>2, <3>3
  <2>2. NumInvokers \in Nat /\ NumInvokers > 1 /\ SCORE_ENTRY_SIZE = 12
    BY LayoutAssumption, SizesAssumption
    DEF SCORE_ENTRY_SIZE, WARM_SCORE_SIZE, COLD_SCORE_SIZE
  <2>3. ASSUME NEW k \in InvokerIds, NEW t \in Seq(Nat), t = TextOf(k, entries), Len(t) <= 11
        PROVE  decode_score_from_cache(table)[k] = decode_score_from_entry(t)
    <3>1. Len(t) < SCORE_ENTRY_SIZE
      BY <2>2, <2>3, LenProperties
    <3>2. TextAt(table, SCORE_ENTRY_SIZE * k) = t
      BY <2>1, <2>3, <3>1, TextFound
    <3> QED BY <3>2, Zenon DEF decode_score_from_cache
  <2>4. ASSUME NEW s \in Nat, s < MaxScore * PARTS, NEW k \in InvokerIds,
               TextOf(k, entries) = EntryText(<<s, cold>>)
        PROVE  IsBack(decode_score_from_cache(table)[k], <<s, cold>>)
    <3>1. PICK t \in Seq(Nat) : /\ t = EntryText(<<s, cold>>) /\ Len(t) \in 7 .. 11
                                /\ decode_score_from_entry(t) = <<Warm(s), cold>>
      BY <2>1, <2>4, EntryDecoded
    <3>4. Len(t) <= 11
      <4>1. PICK n \in 7 .. 11 : n = Len(t)
        BY <3>1
      <4>2. n <= 11
        BY SMT
      <4> QED BY <4>1, <4>2, Zenon
    <3>2. decode_score_from_cache(table)[k] = <<Warm(s), cold>>
      BY <2>3, <2>4, <3>1, <3>4
    <3>3. /\ Warm(s) * PARTS <= s * PowerOf10[4]
          /\ s * PowerOf10[4] < (Warm(s) + 1) * PARTS
      BY <2>4, ScoreParts
    <3>5. <<Warm(s), cold>>[1] = Warm(s) /\ <<Warm(s), cold>>[2] = cold
          /\ <<s, cold>>[1] = s /\ <<s, cold>>[2] = cold
      OBVIOUS
    <3> QED BY <3>2, <3>3, <3>5, Zenon DEF IsBack
  <2>5. IsBack(decode_score_from_cache(table)[0], entries[1])
    <3>1. 0 \in InvokerIds /\ entries[1] = <<a, cold>>
      BY <2>1, <2>2 DEF InvokerIds
    <3>2. TextOf(0, entries) = EntryText(entries[1])
      BY DEF TextOf
    <3> QED BY <2>1, <2>4, <3>1, <3>2
  <2>6. IsBack(decode_score_from_cache(table)[NumInvokers - 1], entries[2])
    <3>1. /\ NumInvokers - 1 \in InvokerIds /\ NumInvokers - 1 # 0
          /\ entries[2] = <<b, cold>>
      BY <2>1, <2>2 DEF InvokerIds
    <3>2. TextOf(NumInvokers - 1, entries) = EntryText(<<b, cold>>)
      BY <3>1 DEF TextOf
    <3> QED BY <2>1, <2>4, <3>1, <3>2
  <2>7. ASSUME NEW i \in 1 .. NumInvokers - 2
        PROVE  decode_score_from_cache(table)[i] = <<-1, -1>>
    <3>1. i \in InvokerIds /\ i # 0 /\ i # NumInvokers - 1
      BY <2>2 DEF InvokerIds
    <3>2. TextOf(i, entries) = << >>
      BY <3>1 DEF TextOf
    <3>3. << >> \in Seq(Nat) /\ Len(<< >>) <= 11
      BY EmptySeq
    <3>4. decode_score_from_entry(<< >>) = <<-1, -1>>
      BY DEF decode_score_from_entry
    <3> QED BY <2>3, <3>1, <3>2, <3>3, <3>4
  <2> QED BY <2>5, <2>6, <2>7
<1> QED BY <1>1, TableInvariant, PTL
=============================================================================
