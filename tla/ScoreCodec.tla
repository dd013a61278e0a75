----------------------------- MODULE ScoreCodec -----------------------------
(***************************************************************************)
(* The texts of the cache table: how a score is put in an entry and taken  *)
(* out again, and which entry a function's name hashes to.  A text is the  *)
(* sequence of its digits.  A warm score is a float; it is given here as a *)
(* whole number of parts, PARTS of them to one, PARTS a power of two.      *)
(***************************************************************************)
EXTENDS ImmCodec

CONSTANTS
  PARTS,
  ULONG_SIZE      \* how many values an unsigned long has

ASSUME ScoreAssumption == PARTS \in Nat \ {0}

\* Both are powers of two.
ASSUME HashAssumption == ULONG_SIZE \in Nat \ {0} /\ ULONG_SIZE % CACHE_ENTRY_NUM = 0

\* The byte that ends a text: no digit.
NUL == -1

\* pow(10, n), for numbers of up to nine digits.
PowerOf10 == [n \in 0 .. 9 |-> <<1, 10, 100, 1000, 10000, 100000, 1000000, 10000000,
                                 100000000, 1000000000>>[n + 1]]

\* "%0<least>d", and stoi.
Width(n, least) ==
  CHOOSE w \in least .. 9 : n < PowerOf10[w] /\ \A v \in least .. w - 1 : n >= PowerOf10[v]
Digits(n, least) ==
  LET w == Width(n, least) IN [k \in 1 .. w |-> (n \div PowerOf10[w - k]) % 10]
Number(text) ==
  LET number[k \in 0 .. Len(text)] == IF k = 0 THEN 0 ELSE number[k - 1] * 10 + text[k]
  IN  number[Len(text)]

From(text, n) == SubSeq(text, n + 1, Len(text))

\* Two digits and four decimals; what is beyond the decimals is cut off.
encode_warm_score(score) ==
  LET float_part == ((score % PARTS) * PowerOf10[WARM_SCORE_SIZE - 2]) \div PARTS
  IN  Digits(score \div PARTS, 2) \o Digits(float_part, 4)

\* In ten-thousandths.
decode_warm_score(text) ==
  Number(SubSeq(text, 1, 2)) * PowerOf10[4] + Number(From(text, 2))

\* A warm score and a cold one, or <<-1, -1>> for an entry that is empty.
decode_score_from_entry(text) ==
  IF text = << >> THEN <<-1, -1>>
  ELSE << decode_warm_score(SubSeq(text, 1, WARM_SCORE_SIZE)),
          Number(From(text, WARM_SCORE_SIZE)) >>

\* The text that begins at an address ends before the next NUL.
TextAt(cache, ptr) ==
  LET end == CHOOSE e \in ptr .. Len(cache) : cache[e + 1] = NUL
                                           /\ \A p \in ptr .. e - 1 : cache[p + 1] # NUL
  IN  SubSeq(cache, ptr + 1, end)

\* Variant: entries of the two scores alone, without the byte that ends them.
decode_score_from_cache_packed(cache) ==
  [i \in InvokerIds |->
     decode_score_from_entry(TextAt(cache, (WARM_SCORE_SIZE + COLD_SCORE_SIZE) * i))]

\* One entry to an invoker.
decode_score_from_cache(cache) ==
  [i \in InvokerIds |-> decode_score_from_entry(TextAt(cache, SCORE_ENTRY_SIZE * i))]

\* The hash of no characters.
EMPTY_HASH == 5381

\* Variant: the hash itself is not added.
djb2_hash_shifted(in) ==
  LET hash[k \in 0 .. Len(in)] ==
        IF k = 0 THEN EMPTY_HASH
        ELSE ((hash[k - 1] * 32 + in[k]) % ULONG_SIZE) % CACHE_ENTRY_NUM
  IN  hash[Len(in)] % CACHE_ENTRY_NUM

\* A char is signed: a sum below zero wraps around to the top of an unsigned long.
djb2_hash(in) ==
  LET hash[k \in 0 .. Len(in)] ==
        IF k = 0 THEN EMPTY_HASH
        ELSE ((hash[k - 1] * 33 + in[k]) % ULONG_SIZE) % CACHE_ENTRY_NUM
  IN  hash[Len(in)] % CACHE_ENTRY_NUM
=============================================================================
