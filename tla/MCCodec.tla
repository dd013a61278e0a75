------------------------------ MODULE MCCodec -------------------------------
(***************************************************************************)
(* The conversions over bounded inputs, one at a time: pairs of pairs of   *)
(* the immediate (MCImmCodec), the scores of an entry, the hash of a name. *)
(***************************************************************************)
EXTENDS MCImmCodec, ScoreCodec

CONSTANTS
  MaxScore,       \* bound: warm scores below this, in whole numbers
  Colds,          \* cold scores tried
  MaxName         \* bound: length of a name

\* The sizes of the texts: two digits before the point, five of a cold score
\* (config.hpp:60-61).
ASSUME SizesAssumption ==
  /\ NumInvokers > 1
  /\ MaxScore \in Nat /\ MaxScore <= PowerOf10[2]
  /\ Colds \subseteq Nat /\ \A cold \in Colds : cold < PowerOf10[COLD_SCORE_SIZE]

\* Characters of a name: letters, and the ends of a signed char.
Chars == {-128, -1, 97, 122, 127}

VARIABLES
  entries,        \* the scores in the table: none, or the first invoker's and the last's
  table,          \* its bytes
  name            \* a name to hash

Fresh == one = <<0, 0>> /\ two = <<0, 0>> /\ entries = << >> /\ name = << >>

CodecInit == Init /\ entries = << >> /\ table = << >> /\ name = << >>

\* The table config.hpp lays out (config.hpp:64-68): SCORE_ENTRY_SIZE bytes to an
\* invoker, of which those not used are NUL.
EntryText(e) == encode_warm_score(e[1]) \o Digits(e[2], 1)
TextOf(i, scores) ==
  IF i = 0 THEN EntryText(scores[1])
  ELSE IF i = NumInvokers - 1 THEN EntryText(scores[2]) ELSE << >>
EntryByte(text, p) == IF p <= Len(text) THEN text[p] ELSE NUL
Table(scores) ==
  [a \in 1 .. SCORE_ENTRY_SIZE * NumInvokers |->
     EntryByte(TextOf((a - 1) \div SCORE_ENTRY_SIZE, scores),
               ((a - 1) % SCORE_ENTRY_SIZE) + 1)]

UsePair == /\ entries = << >> /\ name = << >>
           /\ Use
           /\ UNCHANGED <<entries, table, name>>

\* Scores a to the first invoker and b to the last.
UseEntries ==
  /\ Fresh
  /\ \E a \in 0 .. MaxScore * PARTS - 1, b \in {0, MaxScore * PARTS - 1}, cold \in Colds :
       LET scores == << <<a, cold>>, <<b, cold>> >>
       IN  entries' = scores /\ table' = Table(scores)
  /\ UNCHANGED <<one, two, name>>

UseName ==
  /\ one = <<0, 0>> /\ two = <<0, 0>> /\ entries = << >>
  /\ Len(name) < MaxName
  /\ \E c \in Chars : name' = Append(name, c)
  /\ UNCHANGED <<one, two, entries, table>>

CodecNext == UsePair \/ UseEntries \/ UseName

CodecSpec == CodecInit /\ [][CodecNext]_<<one, two, entries, table, name>>

-----------------------------------------------------------------------------
\* What is read is the entry: the cold score as it was, the warm one cut to four
\* decimals.
IsBack(read, e) ==
  /\ read[2] = e[2]
  /\ read[1] * PARTS <= e[1] * PowerOf10[4]
  /\ e[1] * PowerOf10[4] < (read[1] + 1) * PARTS

\* The scores come back, each at its own invoker, with nothing at those that have none
\* (utils.cpp:29-73).
ScoresComeBack ==
  entries # << >> =>
    LET read == decode_score_from_cache(table)
    IN  /\ IsBack(read[0], entries[1]) /\ IsBack(read[NumInvokers - 1], entries[2])
        /\ \A i \in 1 .. NumInvokers - 2 : read[i] = <<-1, -1>>

\* The remainder taken at every character is the remainder of the whole djb2 sum:
\* 5381 * 33^n + c1 * 33^(n-1) + ... + cn (utils.cpp:18-27).
HashIsRemainder ==
  LET n == Len(name)
      PowerOf33[k \in 0 .. n] ==
        IF k = 0 THEN 1 ELSE (PowerOf33[k - 1] * 33) % CACHE_ENTRY_NUM
      Sum[k \in 0 .. n] ==
        IF k = 0 THEN EMPTY_HASH * PowerOf33[n] ELSE Sum[k - 1] + name[k] * PowerOf33[n - k]
  IN  djb2_hash(name) = Sum[n] % CACHE_ENTRY_NUM
=============================================================================
