--------------------------- MODULE ImmCodecProofs ---------------------------
(***************************************************************************)
(* The packing of the immediate and the slot layout, for every padding,    *)
(* slot size, number of slots and number of invokers the layout allows.    *)
(***************************************************************************)
EXTENDS ImmCodec, TLAPS

\* Division and remainder recover a quotient and a remainder below the divisor:
\* what decode_imm relies on (utils.cpp:88-93).
LEMMA DivModUnique ==
  ASSUME NEW d \in Nat \ {0}, NEW q \in Nat, NEW r \in 0 .. d - 1
  PROVE  /\ (q * d + r) \div d = q
         /\ (q * d + r) % d = r
BY SMT

\* ntohl undoes htonl: the immediate survives the wire (ib.cpp:139, invoker.cpp:166).
LEMMA OctetsRoundTrip ==
  ASSUME NEW x \in Nat
  PROVE  ntohl(htonl(x)) = x
<1> DEFINE a == x \div 256
           b == a \div 256
           c == b \div 256
<1>1. /\ a \in Nat /\ b \in Nat /\ c \in Nat
      /\ x = a * 256 + (x % 256)
      /\ a = b * 256 + (a % 256)
      /\ b = c * 256 + (b % 256)
  BY SMT
<1>2. htonl(x) = <<c, b % 256, a % 256, x % 256>>
  BY SMT DEF htonl
<1> HIDE DEF a, b, c
<1> QED BY <1>1, <1>2, SMT DEF ntohl

\* decode_imm undoes encode_imm while the index stays below PADDING (utils.cpp:83-93).
LEMMA DecodeEncode ==
  ASSUME NEW i \in Nat, NEW k \in 0 .. PADDING - 1
  PROVE  decode_imm(encode_imm(i, k)) = <<i, k>>
BY DivModUnique, LayoutAssumption DEF decode_imm, encode_imm

\* Two pairs never share a byte of the cache buffer (invoker.cpp:170).
LEMMA SlotsDisjoint ==
  ASSUME NEW i \in Nat, NEW j \in Nat, NEW k \in SlotIndexes, NEW m \in SlotIndexes,
         <<i, k>> # <<j, m>>
  PROVE  \/ EventOffset(i, k) + MSG_SIZE <= EventOffset(j, m)
         \/ EventOffset(j, m) + MSG_SIZE <= EventOffset(i, k)
<1> DEFINE u == NUM_BUF_SLOT * i + k
           v == NUM_BUF_SLOT * j + m
<1>1. u \in Nat /\ v \in Nat
  BY LayoutAssumption, SMT DEF SlotIndexes
<1>2. EventOffset(i, k) = MSG_SIZE * u /\ EventOffset(j, m) = MSG_SIZE * v
  BY LayoutAssumption, SMT DEF EventOffset, PER_INV_BUF_SIZE, SlotIndexes
<1>3. u # v
  <2>1. u = i * NUM_BUF_SLOT + k /\ v = j * NUM_BUF_SLOT + m
    BY LayoutAssumption, SMT DEF SlotIndexes
  <2>2. /\ u \div NUM_BUF_SLOT = i /\ u % NUM_BUF_SLOT = k
        /\ v \div NUM_BUF_SLOT = j /\ v % NUM_BUF_SLOT = m
    BY <2>1, DivModUnique, LayoutAssumption DEF SlotIndexes
  <2> QED BY <2>2
<1> HIDE DEF u, v
<1>4. u + 1 <= v => MSG_SIZE * u + MSG_SIZE <= MSG_SIZE * v
  BY <1>1, LayoutAssumption, SMT
<1>5. v + 1 <= u => MSG_SIZE * v + MSG_SIZE <= MSG_SIZE * u
  BY <1>1, LayoutAssumption, SMT
<1> QED BY <1>1, <1>2, <1>3, <1>4, <1>5, SMT

\* The slots of all invokers fit in NumInvokers buffers of PER_INV_BUF_SIZE, which
\* is PER_INV_IB_BUF_SIZE (config.hpp:32-33).
LEMMA SlotsInside ==
  ASSUME NEW i \in InvokerIds, NEW k \in SlotIndexes
  PROVE  /\ EventOffset(i, k) \in Nat
         /\ EventOffset(i, k) + MSG_SIZE <= NumInvokers * PER_INV_BUF_SIZE
<1> DEFINE u == NUM_BUF_SLOT * i + k
<1>1. /\ u \in Nat 
      /\ EventOffset(i, k) = MSG_SIZE * u
  BY LayoutAssumption, SMT DEF InvokerIds, SlotIndexes, EventOffset, PER_INV_BUF_SIZE
<1>2. u + 1 <= NUM_BUF_SLOT * NumInvokers
  BY LayoutAssumption, SMT DEF InvokerIds, SlotIndexes
<1>3. NumInvokers * PER_INV_BUF_SIZE = MSG_SIZE * (NUM_BUF_SLOT * NumInvokers)
  BY LayoutAssumption, SMT DEF PER_INV_BUF_SIZE
<1> HIDE DEF u
<1> QED BY <1>1, <1>2, <1>3, LayoutAssumption, SMT

\* What travels as the immediate of a write is decoded to the pair it encodes.
THEOREM PairRoundTrips ==
  ASSUME NEW i \in Nat, NEW k \in SlotIndexes
  PROVE  RoundTrips(i, k)
<1>1. k \in 0 .. PADDING - 1
  BY LayoutAssumption, SMT DEF SlotIndexes
<1>2. encode_imm(i, k) \in Nat
  BY <1>1, LayoutAssumption, SMT DEF encode_imm
<1> QED BY <1>1, <1>2, DecodeEncode, OctetsRoundTrip DEF RoundTrips

\* The address the controller computes for slot k is the one the invoker computes
\* from the decoded immediate (controller.cpp:133, invoker.cpp:170).
THEOREM SlotMeets ==
  ASSUME NEW k \in SlotIndexes
  PROVE  Meets(k)
<1>1. decode_imm(ntohl(htonl(encode_imm(0, k)))) = <<0, k>>
  BY PairRoundTrips DEF RoundTrips
<1>2. WriteOffset(k) = EventOffset(0, k)
  BY LayoutAssumption, SMT DEF WriteOffset, EventOffset, PER_INV_BUF_SIZE, SlotIndexes
<1> QED BY <1>1, <1>2 DEF Meets
=============================================================================
