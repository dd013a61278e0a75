----------------------------- MODULE SockProofs ------------------------------
(***************************************************************************)
(* The transfer of one structure for every length, every room in the       *)
(* connection and every number of interrupted calls.                       *)
(***************************************************************************)
EXTENDS SockIO, SequenceTheorems, TLAPS

-----------------------------------------------------------------------------
\* Facts about size_t.

\* What the additions to the counters come to in 0 .. SIZE_MOD - 1.
LEMMA WrapUp ==
  ASSUME NEW a \in 0 .. SIZE_MOD - 1, a < SIZE_MOD - 1
  PROVE  (a - (SIZE_MOD - 1)) % SIZE_MOD = a + 1
<1>1. SIZE_MOD \in Nat \ {0}
  BY SockAssumption, SMT
<1> QED BY <1>1, SMT

\* Adding what -1 is as a size_t takes one away, around zero.
LEMMA WrapDown ==
  ASSUME NEW a \in 0 .. SIZE_MOD - 1
  PROVE  (a + (SIZE_MOD - 1)) % SIZE_MOD = IF a = 0 THEN SIZE_MOD - 1 ELSE a - 1
<1>1. SIZE_MOD \in Nat \ {0}
  BY SockAssumption, SMT
<1> QED BY <1>1, SMT

\* A sum of two counts wraps once at most.
LEMMA WrapSum ==
  ASSUME NEW a \in 0 .. SIZE_MOD - 1, NEW b \in 0 .. SIZE_MOD - 1
  PROVE  (a + b) % SIZE_MOD = IF a + b < SIZE_MOD THEN a + b ELSE a + b - SIZE_MOD
<1>1. SIZE_MOD \in Nat \ {0}
  BY SockAssumption, SMT
<1> QED BY <1>1, SMT

-----------------------------------------------------------------------------
\* Facts about the bytes on their way.

\* The bytes of one write.
LEMMA PieceFacts ==
  ASSUME NEW nw \in 1 .. LEN
  PROVE  /\ [n \in 1 .. nw |-> n - 1] \in Seq(Bytes)
         /\ Len([n \in 1 .. nw |-> n - 1]) = nw
<1> DEFINE piece == [n \in 1 .. nw |-> n - 1]
<1>1. nw \in Nat
  BY SockAssumption, SMT
<1>2. \A n \in 1 .. nw : n - 1 \in Bytes
  BY SockAssumption, SMT DEF Bytes
<1>3. piece \in [1 .. nw -> Bytes]
  BY <1>2
<1>4. piece \in Seq(Bytes)
  BY <1>1, <1>3, SeqDef
<1>5. Len(piece) = nw
  <2> DEFINE l == Len(piece)
  <2>1. l \in Nat /\ DOMAIN piece = 1 .. l
    BY <1>4, LenProperties
  <2>2. DOMAIN piece = 1 .. nw
    OBVIOUS
  <2> HIDE DEF l, piece
  <2>3. 1 .. l = 1 .. nw
    BY <2>1, <2>2
  <2>4. l = nw
    BY <1>1, <2>1, <2>3, SMT
  <2> QED BY <2>4 DEF l
<1> QED BY <1>4, <1>5

\* A write makes what is on its way longer by what it wrote.
LEMMA SentFacts ==
  ASSUME stream \in Seq(Bytes), NEW nw \in 1 .. LEN
  PROVE  /\ stream \o [n \in 1 .. nw |-> n - 1] \in Seq(Bytes)
         /\ Len(stream \o [n \in 1 .. nw |-> n - 1]) = Len(stream) + nw
<1> DEFINE piece == [n \in 1 .. nw |-> n - 1]
<1>1. piece \in Seq(Bytes) /\ Len(piece) = nw
  BY PieceFacts
<1> HIDE DEF piece
<1>2. /\ stream \o piece \in Seq(Bytes)
      /\ Len(stream \o piece) = Len(stream) + Len(piece)
  BY <1>1, ConcatProperties
<1>3. Len(stream \o piece) = Len(stream) + nw
  BY <1>1, <1>2
<1> QED BY <1>2, <1>3 DEF piece

\* What a read leaves, and what a reset leaves.
LEMMA CutFacts ==
  ASSUME NEW s \in Seq(Bytes), NEW k \in 0 .. Len(s)
  PROVE  /\ SubSeq(s, k + 1, Len(s)) \in Seq(Bytes)
         /\ Len(SubSeq(s, k + 1, Len(s))) = Len(s) - k
         /\ SubSeq(s, 1, k) \in Seq(Bytes)
         /\ Len(SubSeq(s, 1, k)) = k
<1>1. Len(s) \in Nat
  BY LenProperties
<1>2. \A i \in 1 .. Len(s) : s[i] \in Bytes
  BY ElementOfSeq
<1>3. k \in Int /\ k + 1 \in Int /\ Len(s) \in Int /\ k <= Len(s) /\ 1 \in Int
  BY <1>1, SMT
<1>4. (\A i \in k + 1 .. Len(s) : s[i] \in Bytes) /\ (\A i \in 1 .. k : s[i] \in Bytes)
  BY <1>1, <1>2, SMT
<1> DEFINE rest == SubSeq(s, k + 1, Len(s))
           kept == SubSeq(s, 1, k)
<1>5. /\ rest \in Seq(Bytes)
      /\ Len(rest) = IF k + 1 <= Len(s) THEN Len(s) - (k + 1) + 1 ELSE 0
  BY <1>3, <1>4, SubSeqProperties
<1>6. /\ kept \in Seq(Bytes)
      /\ Len(kept) = IF 1 <= k THEN k - 1 + 1 ELSE 0
  BY <1>3, <1>4, SubSeqProperties
<1> DEFINE lr == Len(rest)
           lk == Len(kept)
<1>7. lr = (IF k + 1 <= Len(s) THEN Len(s) - (k + 1) + 1 ELSE 0)
      /\ lk = (IF 1 <= k THEN k - 1 + 1 ELSE 0)
  BY <1>5, <1>6
<1> HIDE DEF lr, lk
<1>8. lr = Len(s) - k /\ lk = k
  BY <1>1, <1>7, SMT
<1> QED BY <1>5, <1>6, <1>8 DEF lr, lk

\* The least of two numbers.
LEMMA LeastFacts ==
  ASSUME NEW a \in Int, NEW b \in Int, NEW n \in 1 .. Least(a, b)
  PROVE  n \in Int /\ 1 <= n /\ n <= a /\ n <= b
BY SMT DEF Least

-----------------------------------------------------------------------------
\* The account of the bytes.

\* Reads that failed, and the bytes the others brought.
Failed == readEintr + (IF reset = "seen" THEN 1 ELSE 0)
Got == LEN + Failed - len

\* The two counters move together, whatever a call returns.
Counters ==
  /\ len <= LEN + Failed
  /\ tot_read = IF len <= LEN THEN LEN - len ELSE LEN - len + SIZE_MOD

\* Every byte written was brought or is on its way, until a reset loses some.
Balance ==
  rpc # "ended" => /\ Got + Len(stream) <= tot_written
                   /\ reset = "no" => Got + Len(stream) = tot_written

\* A reader that returned before its time had nothing more to come.
Returned ==
  /\ reset # "no" => wpc = "ended"
  /\ rpc = "returned" =>
       len = 0 \/ (stream = << >> /\ wpc = "ended" /\ reset # "pending")

SockInv == TypeOK /\ Counters /\ Balance /\ Returned

\* The account needs no more than this of the types.
LEMMA Numbers ==
  ASSUME TypeOK
  PROVE  /\ LEN \in Nat /\ LEN >= 1 /\ ROOM \in Nat /\ ROOM >= 1
         /\ SIZE_MOD \in Nat /\ SIZE_MOD > LEN + MaxReadEintr + 1
         /\ MaxReadEintr \in Nat /\ MaxWriteEintr \in Nat
         /\ len \in Nat /\ tot_read \in Nat /\ tot_written \in Nat /\ tot_written <= LEN
         /\ readEintr \in Nat /\ readEintr <= MaxReadEintr
         /\ Len(stream) \in Nat /\ Len(stream) <= ROOM
         /\ Failed \in Nat /\ Failed >= readEintr
<1>1. Len(stream) \in Nat
  BY LenProperties DEF TypeOK
<1> QED BY <1>1, SockAssumption, SMT DEF TypeOK, Failed

\* The accounts are balanced before the first call.
LEMMA SockInvInit == Init => SockInv
<1> SUFFICES ASSUME Init PROVE SockInv
  OBVIOUS
<1>1. << >> \in Seq(Bytes) /\ Len(<< >>) = 0
  BY EmptySeq
<1>2. tmp \in [Bytes -> Bytes \cup {Unset}]
  BY DEF Init
<1>3. /\ 0 \in 0 .. LEN /\ 0 \in 0 .. SIZE_MOD - 1 /\ LEN \in 0 .. SIZE_MOD - 1
      /\ 0 \in 0 .. MaxWriteEintr /\ 0 \in 0 .. MaxReadEintr /\ 0 <= ROOM
  BY SockAssumption, SMT
<1>4. TypeOK
  BY <1>1, <1>2, <1>3 DEF Init, TypeOK
<1>5. len = LEN /\ tot_read = 0 /\ tot_written = 0 /\ readEintr = 0 /\ reset = "no"
  BY DEF Init
<1>6. Len(stream) = 0
  BY <1>1 DEF Init
<1>7. Counters /\ Balance
  BY <1>5, <1>6, SockAssumption, SMT DEF Counters, Balance, Got, Failed
<1>8. Returned
  BY DEF Returned, Init
<1> QED BY <1>4, <1>7, <1>8 DEF SockInv

\* A write keeps them: what it adds to the stream it adds to its count.
LEMMA WriteStep ==
  ASSUME SockInv, Write
  PROVE  SockInv'
<1> USE DEF SockInv
<1> DEFINE now == Len(stream)
           l == Len(stream')
<1>0. /\ LEN \in Nat /\ ROOM \in Nat /\ now \in Nat /\ now <= ROOM
      /\ tot_written \in Nat /\ tot_written <= LEN
      /\ Failed \in Nat /\ len \in Nat
  BY Numbers
<1> HIDE DEF now, l
<1>1. /\ wpc = "write" /\ wpc' \in {"write", "returned"}
      /\ UNCHANGED <<writeEintr, reset, rpc, len, tot_read, tmp, readEintr>>
  BY DEF Write, readerVars
<1>2. PICK nw \in 1 .. Least(LEN - tot_written, ROOM - now) :
        Sent(nw) /\ tot_written' = tot_written + nw
  BY DEF Write, now
<1>3. nw \in Nat /\ nw \in 1 .. LEN /\ tot_written + nw \in 0 .. LEN /\ now + nw <= ROOM
  <2>1. LEN - tot_written \in Int /\ ROOM - now \in Int
    BY <1>0, SMT
  <2>2. nw \in Int /\ 1 <= nw /\ nw <= LEN - tot_written /\ nw <= ROOM - now
    BY <2>1, LeastFacts
  <2> QED BY <1>0, <2>2, SMT
<1>4. /\ stream' \in Seq(Bytes)
      /\ l = IF rpc = "ended" THEN now ELSE now + nw
  BY <1>2, <1>3, SentFacts DEF Sent, TypeOK, now, l
<1>5. l <= ROOM /\ tot_written' \in 0 .. LEN
  <2>1. l <= ROOM
    BY <1>0, <1>3, <1>4, SMT
  <2> QED BY <2>1, <1>2, <1>3
<1>6. TypeOK'
  BY <1>1, <1>4, <1>5, Zenon DEF TypeOK, l
<1>7. Failed' = Failed /\ Got' = Got /\ Counters'
  BY <1>1 DEF Failed, Got, Counters
<1>8. Balance'
  <2> SUFFICES ASSUME rpc' # "ended"
               PROVE  /\ Got' + l <= tot_written'
                      /\ reset' = "no" => Got' + l = tot_written'
    BY DEF Balance, l
  <2>1. rpc # "ended" /\ l = now + nw
    BY <1>1, <1>4
  <2>2. Got + now <= tot_written /\ (reset = "no" => Got + now = tot_written)
    BY <2>1 DEF Balance, now
  <2>3. Got \in Int
    BY <1>0, SMT DEF Got
  <2>4. /\ Got + (now + nw) <= tot_written + nw
        /\ reset = "no" => Got + (now + nw) = tot_written + nw
    BY <1>0, <1>3, <2>2, <2>3, SMT
  <2> QED BY <1>1, <1>2, <1>7, <2>1, <2>4
<1>9. Returned'
  BY <1>1 DEF Returned
<1> QED BY <1>6, <1>7, <1>8, <1>9

\* A read keeps them: what it takes from the stream it takes from len.
LEMMA ReadStep ==
  ASSUME SockInv, Read
  PROVE  SockInv'
<1> USE DEF SockInv
<1> DEFINE now == Len(stream)
           l == Len(stream')
<1>0. /\ LEN \in Nat /\ ROOM \in Nat /\ now \in Nat /\ now <= ROOM
      /\ tot_written \in Nat /\ tot_written <= LEN
      /\ readEintr \in Nat /\ MaxReadEintr \in Nat /\ readEintr <= MaxReadEintr
      /\ SIZE_MOD \in Nat /\ SIZE_MOD > LEN + MaxReadEintr + 1
      /\ Failed \in Nat /\ len \in Nat /\ tot_read \in Nat
  BY Numbers
<1> HIDE DEF now, l
<1>1. /\ rpc = "read" /\ rpc' = (IF len' # 0 THEN "read" ELSE "returned")
      /\ UNCHANGED <<readEintr, reset, wpc, tot_written, writeEintr>>
  BY DEF Read, writerVars
<1>2. PICK nr \in 1 .. Least(len, now) :
        /\ tmp' = Filled(nr)
        /\ stream' = SubSeq(stream, nr + 1, Len(stream))
        /\ len' = len - nr
        /\ tot_read' = (tot_read + nr) % SIZE_MOD
  BY DEF Read, now
<1>3. /\ nr \in Nat /\ 1 <= nr /\ nr <= len /\ nr <= now /\ nr \in 0 .. now
      /\ len - nr \in Nat
  <2>1. len \in Int /\ now \in Int
    BY <1>0, SMT
  <2>2. nr \in Int /\ 1 <= nr /\ nr <= len /\ nr <= now
    BY <2>1, LeastFacts
  <2> QED BY <1>0, <2>2, SMT
<1>4. stream' \in Seq(Bytes) /\ l = now - nr
  BY <1>2, <1>3, CutFacts DEF TypeOK, now, l
<1>5. l <= ROOM
  BY <1>0, <1>3, <1>4, SMT
<1>6. Failed' = Failed /\ Failed <= MaxReadEintr + 1
  <2>1. Failed' = Failed
    BY <1>1 DEF Failed
  <2> QED BY <1>0, <2>1, SMT DEF Failed
<1>7. Counters
  OBVIOUS
<1>8. tot_read \in 0 .. SIZE_MOD - 1 /\ nr \in 0 .. SIZE_MOD - 1
  BY <1>0, <1>3, <1>6, <1>7, SMT DEF Counters, TypeOK
<1>9. tot_read' = IF tot_read + nr < SIZE_MOD THEN tot_read + nr ELSE tot_read + nr - SIZE_MOD
  BY <1>2, <1>8, WrapSum
<1>10. Counters' /\ len' \in 0 .. SIZE_MOD - 1 /\ tot_read' \in 0 .. SIZE_MOD - 1
  <2>1. /\ len <= LEN + Failed
        /\ tot_read = IF len <= LEN THEN LEN - len ELSE LEN - len + SIZE_MOD
    BY <1>7 DEF Counters
  <2>2. len' = len - nr
    BY <1>2
  <2>3. /\ len' <= LEN + Failed
        /\ tot_read' = IF len' <= LEN THEN LEN - len' ELSE LEN - len' + SIZE_MOD
        /\ len' \in 0 .. SIZE_MOD - 1 /\ tot_read' \in 0 .. SIZE_MOD - 1
    BY <1>0, <1>3, <1>6, <1>9, <2>1, <2>2, SMT
  <2> QED BY <1>6, <2>3 DEF Counters
<1>11. tmp' \in [Bytes -> Bytes \cup {Unset}]
  <2>1. tmp \in [Bytes -> Bytes \cup {Unset}] /\ stream \in Seq(Bytes)
    BY DEF TypeOK
  <2>2. \A b \in Bytes : b < nr => b + 1 \in 1 .. now
    BY <1>0, <1>3, SMT DEF Bytes
  <2>3. \A i \in 1 .. now : stream[i] \in Bytes
    BY <2>1, ElementOfSeq DEF now
  <2>4. \A b \in Bytes : (IF b < nr THEN stream[b + 1] ELSE tmp[b]) \in Bytes \cup {Unset}
    BY <2>1, <2>2, <2>3
  <2> QED BY <1>2, <2>4 DEF Filled
<1>12. TypeOK'
  BY <1>1, <1>4, <1>5, <1>10, <1>11, Zenon DEF TypeOK, l
<1>13. Balance'
  <2>1. Got + now <= tot_written /\ (reset = "no" => Got + now = tot_written)
    BY <1>1 DEF Balance, now
  <2>2. Got' = Got + nr
    BY <1>0, <1>2, <1>3, <1>6, SMT DEF Got
  <2>3. Got \in Int
    BY <1>0, SMT DEF Got
  <2>4. /\ (Got + nr) + (now - nr) <= tot_written
        /\ reset = "no" => (Got + nr) + (now - nr) = tot_written
    BY <1>0, <1>3, <2>1, <2>3, SMT
  <2> QED BY <1>1, <1>4, <2>2, <2>4 DEF Balance, l
<1>14. Returned'
  BY <1>1 DEF Returned
<1> QED BY <1>10, <1>12, <1>13, <1>14

\* A read that fails moves the counters and nothing else.
LEMMA MinusOneCounters ==
  ASSUME SockInv, ReadMinusOne, rpc = "read", Failed <= MaxReadEintr, Failed' = Failed + 1
  PROVE  /\ Counters' /\ Got' = Got
         /\ len' \in 0 .. SIZE_MOD - 1 /\ tot_read' \in 0 .. SIZE_MOD - 1
         /\ len' # 0
<1> DEFINE now == Len(stream)
<1>0. /\ LEN \in Nat /\ ROOM \in Nat /\ now \in Nat /\ now <= ROOM
      /\ tot_written \in Nat /\ tot_written <= LEN
      /\ MaxReadEintr \in Nat
      /\ SIZE_MOD \in Nat /\ SIZE_MOD > LEN + MaxReadEintr + 1
      /\ Failed \in Nat /\ len \in Nat /\ tot_read \in Nat
  BY Numbers DEF SockInv
<1> HIDE DEF now
<1>1. /\ len <= LEN + Failed
      /\ tot_read = IF len <= LEN THEN LEN - len ELSE LEN - len + SIZE_MOD
  BY DEF SockInv, Counters
<1>2. len \in 0 .. SIZE_MOD - 1 /\ len < SIZE_MOD - 1 /\ tot_read \in 0 .. SIZE_MOD - 1
  BY <1>0, <1>1, SMT
<1>3. len' = len + 1
  BY <1>2, WrapUp DEF ReadMinusOne
<1>4. tot_read' = IF tot_read = 0 THEN SIZE_MOD - 1 ELSE tot_read - 1
  BY <1>2, WrapDown DEF ReadMinusOne
<1>5. /\ len' <= LEN + (Failed + 1)
      /\ tot_read' = IF len' <= LEN THEN LEN - len' ELSE LEN - len' + SIZE_MOD
      /\ len' \in 0 .. SIZE_MOD - 1 /\ tot_read' \in 0 .. SIZE_MOD - 1
      /\ len' # 0
  BY <1>0, <1>1, <1>3, <1>4, SMT
<1>6. Counters'
  BY <1>5 DEF Counters
<1>7. Got' = Got
  BY <1>0, <1>3, SMT DEF Got
<1> QED BY <1>5, <1>6, <1>7

\* An interrupted read keeps them: the failure counted is the one len is out by.
LEMMA ReadInterruptedStep ==
  ASSUME SockInv, ReadInterrupted
  PROVE  SockInv'
<1>1. /\ rpc = "read" /\ rpc' = (IF len' # 0 THEN "read" ELSE "returned")
      /\ readEintr < MaxReadEintr /\ readEintr' = readEintr + 1
      /\ UNCHANGED <<tmp, stream, reset, wpc, tot_written, writeEintr>>
  BY DEF ReadInterrupted, ReadMinusOne, writerVars
<1>2. /\ readEintr \in Nat /\ MaxReadEintr \in Nat
      /\ Failed \in Nat
  BY Numbers DEF SockInv
<1>3. Failed <= MaxReadEintr /\ Failed' = Failed + 1 /\ readEintr' \in 0 .. MaxReadEintr
  <2>1. Failed = readEintr + (IF reset = "seen" THEN 1 ELSE 0)
        /\ Failed' = readEintr' + (IF reset = "seen" THEN 1 ELSE 0)
    BY <1>1 DEF Failed
  <2> QED BY <1>1, <1>2, <2>1, SMT
<1>4. /\ Counters' /\ Got' = Got
      /\ len' \in 0 .. SIZE_MOD - 1 /\ tot_read' \in 0 .. SIZE_MOD - 1
      /\ len' # 0
  BY <1>1, <1>3, MinusOneCounters DEF ReadInterrupted
<1>5. TypeOK'
  BY <1>1, <1>3, <1>4, Zenon DEF TypeOK, SockInv
<1>6. Balance' /\ Returned'
  BY <1>1, <1>4 DEF SockInv, Balance, Returned
<1> QED BY <1>4, <1>5, <1>6 DEF SockInv

\* So does the read that reports a reset.
LEMMA ReadResetStep ==
  ASSUME SockInv, ReadReset
  PROVE  SockInv'
<1>1. /\ rpc = "read" /\ rpc' = (IF len' # 0 THEN "read" ELSE "returned")
      /\ reset = "pending" /\ reset' = "seen"
      /\ UNCHANGED <<tmp, stream, readEintr, wpc, tot_written, writeEintr>>
  BY DEF ReadReset, ReadMinusOne, writerVars
<1>2. readEintr \in Nat /\ MaxReadEintr \in Nat /\ readEintr <= MaxReadEintr
  BY Numbers DEF SockInv
<1>3. Failed <= MaxReadEintr /\ Failed' = Failed + 1
  <2>1. Failed = readEintr + 0 /\ Failed' = readEintr + 1
    BY <1>1 DEF Failed
  <2> QED BY <1>2, <2>1, SMT
<1>4. /\ Counters' /\ Got' = Got
      /\ len' \in 0 .. SIZE_MOD - 1 /\ tot_read' \in 0 .. SIZE_MOD - 1
      /\ len' # 0
  BY <1>1, <1>3, MinusOneCounters DEF ReadReset
<1>5. TypeOK'
  BY <1>1, <1>4, Zenon DEF TypeOK, SockInv
<1>6. Balance' /\ Returned'
  BY <1>1, <1>4 DEF SockInv, Balance, Returned
<1> QED BY <1>4, <1>5, <1>6 DEF SockInv

\* A read that finds the end keeps them: nothing more was to come.
LEMMA ReadEofStep ==
  ASSUME SockInv, ReadEof
  PROVE  SockInv'
<1>1. /\ stream = << >> /\ wpc = "ended" /\ reset # "pending"
      /\ rpc = "read" /\ rpc' = "returned"
      /\ UNCHANGED <<len, tot_read, tmp, readEintr, stream, reset, wpc, tot_written, writeEintr>>
  BY DEF ReadEof, writerVars
<1>2. TypeOK' /\ Counters'
  BY <1>1 DEF SockInv, TypeOK, Counters, Failed
<1>3. Balance'
  BY <1>1 DEF SockInv, Balance, Got, Failed
<1>4. Returned'
  BY <1>1 DEF SockInv, Returned
<1> QED BY <1>2, <1>3, <1>4 DEF SockInv

\* The writer's steps that move no byte, and the order in which processes end.
LEMMA QuietStep ==
  ASSUME SockInv, WriteInterrupted \/ WriteFails \/ WriterEnds
  PROVE  SockInv'
<1>1. /\ UNCHANGED <<tot_written, stream, reset, rpc, len, tot_read, tmp, readEintr>>
      /\ wpc' \in {"write", "failed", "ended"}
      /\ wpc = "ended" => wpc' = "ended"
  BY DEF WriteInterrupted, WriteFails, WriterEnds, readerVars
<1>2. writeEintr' \in 0 .. MaxWriteEintr
  <2>1. CASE WriteInterrupted
    BY <2>1, SockAssumption, SMT DEF WriteInterrupted, SockInv, TypeOK
  <2>2. CASE WriteFails \/ WriterEnds
    BY <2>2 DEF WriteFails, WriterEnds, SockInv, TypeOK
  <2> QED BY <2>1, <2>2
<1>3. TypeOK'
  BY <1>1, <1>2 DEF SockInv, TypeOK
<1>4. Counters' /\ Balance' /\ Returned'
  BY <1>1 DEF SockInv, Counters, Balance, Returned, Got, Failed
<1> QED BY <1>3, <1>4 DEF SockInv

\* A reset keeps them: from here on the stream may be short.
LEMMA WriterResetsStep ==
  ASSUME SockInv, WriterResets
  PROVE  SockInv'
<1> DEFINE now == Len(stream)
           l == Len(stream')
<1>0. /\ LEN \in Nat /\ ROOM \in Nat /\ now \in Nat /\ now <= ROOM
      /\ tot_written \in Nat /\ len \in Nat /\ Failed \in Nat
  BY Numbers DEF SockInv
<1> HIDE DEF now, l
<1>1. /\ wpc # "ended" /\ rpc # "ended" /\ wpc' = "ended" /\ reset' = "pending"
      /\ UNCHANGED <<tot_written, writeEintr, rpc, len, tot_read, tmp, readEintr>>
  BY DEF WriterResets, readerVars
<1>2. reset = "no"
  BY <1>1 DEF SockInv, Returned
<1>3. PICK kept \in 0 .. now : stream' = SubSeq(stream, 1, kept)
  BY DEF WriterResets, now
<1>4. stream' \in Seq(Bytes) /\ l = kept
  BY <1>3, CutFacts DEF SockInv, TypeOK, now, l
<1>5. kept \in Nat /\ kept <= now /\ l <= ROOM
  BY <1>0, <1>3, <1>4, SMT
<1>6. TypeOK'
  BY <1>1, <1>4, <1>5, Zenon DEF SockInv, TypeOK, l
<1>7. Failed' = Failed /\ Got' = Got /\ Counters'
  BY <1>1, <1>2 DEF SockInv, Counters, Failed, Got
<1>8. Balance'
  <2>1. Got + now <= tot_written
    BY <1>1 DEF SockInv, Balance, now
  <2>2. Got \in Int
    BY <1>0, SMT DEF Got
  <2>3. Got + kept <= tot_written
    BY <1>0, <1>5, <2>1, <2>2, SMT
  <2> QED BY <1>1, <1>4, <1>7, <2>3 DEF Balance, l
\* The writer had not ended, so the reader cannot have returned at an end of file.
<1>9. Returned'
  BY <1>1 DEF SockInv, Returned
<1> QED BY <1>6, <1>7, <1>8, <1>9 DEF SockInv

\* A reader that ends keeps them: nobody counts any more.
LEMMA ReaderEndsStep ==
  ASSUME SockInv, ReaderEnds
  PROVE  SockInv'
<1>1. /\ rpc' = "ended" /\ stream' = << >>
      /\ UNCHANGED <<len, tot_read, tmp, readEintr, reset, wpc, tot_written, writeEintr>>
  BY DEF ReaderEnds, writerVars
<1>2. << >> \in Seq(Bytes) /\ Len(<< >>) = 0 /\ 0 <= ROOM
  BY EmptySeq, SockAssumption, SMT
<1>3. TypeOK'
  BY <1>1, <1>2 DEF SockInv, TypeOK
<1>4. Counters' /\ Balance' /\ Returned'
  BY <1>1 DEF SockInv, Counters, Balance, Returned, Failed
<1> QED BY <1>3, <1>4 DEF SockInv

\* Every step keeps them.
LEMMA SockInvStep == SockInv /\ [Next]_vars => SockInv'
<1> SUFFICES ASSUME SockInv, [Next]_vars PROVE SockInv'
  OBVIOUS
<1>1. CASE Writer
  BY <1>1, WriteStep, QuietStep DEF Writer
<1>2. CASE Reader
  BY <1>2, ReadStep, ReadEofStep, ReadInterruptedStep, ReadResetStep DEF Reader
<1>3. CASE Ends
  BY <1>3, QuietStep, WriterResetsStep, ReaderEndsStep DEF Ends
<1>4. CASE UNCHANGED vars
  <2>1. UNCHANGED <<wpc, tot_written, writeEintr, stream, reset,
                    rpc, len, tot_read, tmp, readEintr>>
    BY <1>4 DEF vars, writerVars, readerVars
  <2> QED BY <2>1 DEF SockInv, TypeOK, Counters, Balance, Returned, Got, Failed
<1> QED BY <1>1, <1>2, <1>3, <1>4 DEF Next

\* They hold in every state.
LEMMA SockInvHolds == Spec => []SockInv
BY SockInvInit, SockInvStep, PTL DEF Spec

\* The state has its types: no failed read takes the counters out of size_t's range,
\* nor a write past the structure's length (sock.cpp:120-155).
THEOREM SockTypesHold == Spec => []TypeOK
<1>1. SockInv => TypeOK
  BY DEF SockInv
<1> QED BY <1>1, SockInvHolds, PTL

\* The count returned is the structure's length exactly if all of it was written and
\* no read failed, for every length and every way of splitting (sock.cpp:143-157).
THEOREM CountTellsLossHolds == Spec => []CountTellsLoss
<1>1. SockInv => CountTellsLoss
  <2> SUFFICES ASSUME SockInv, rpc = "returned"
               PROVE  tot_read = LEN <=> tot_written = LEN /\ readEintr = 0 /\ reset # "seen"
    BY DEF CountTellsLoss
  <2> DEFINE now == Len(stream)
  <2>1. /\ LEN \in Nat /\ now \in Nat
        /\ tot_written \in Nat /\ tot_written <= LEN
        /\ readEintr \in Nat /\ MaxReadEintr \in Nat /\ readEintr <= MaxReadEintr
        /\ SIZE_MOD \in Nat /\ SIZE_MOD > LEN + MaxReadEintr + 1
        /\ Failed \in Nat /\ len \in Nat
    BY Numbers DEF SockInv
  <2>2. Got + now <= tot_written /\ (reset = "no" => Got + now = tot_written)
    BY DEF SockInv, Balance
  <2> HIDE DEF now
  <2>3. /\ len <= LEN + Failed
        /\ tot_read = IF len <= LEN THEN LEN - len ELSE LEN - len + SIZE_MOD
    BY DEF SockInv, Counters
  <2>4. Failed = readEintr + (IF reset = "seen" THEN 1 ELSE 0)
    BY DEF Failed
  <2>5. Got = LEN + Failed - len
    BY DEF Got
  <2>6. reset \in {"no", "pending", "seen"}
    BY DEF SockInv, TypeOK
  <2>7. CASE len = 0
    <3>1. Failed = 0 /\ tot_written = LEN /\ tot_read = LEN
      BY <2>1, <2>2, <2>3, <2>5, <2>7, SMT
    <3>2. readEintr = 0 /\ reset # "seen"
      BY <2>1, <2>4, <3>1, SMT
    <3> QED BY <3>1, <3>2
  <2>8. CASE len # 0
    <3>1. now = 0 /\ reset # "pending"
      BY <2>8, EmptySeq DEF SockInv, Returned, now
    <3>2. Failed <= MaxReadEintr + 1
      BY <2>1, <2>4, SMT
    <3>3. tot_read # LEN
      BY <2>1, <2>3, <2>8, <3>2, SMT
    <3>4. CASE reset = "no"
      <4>1. Failed = readEintr
        BY <2>1, <2>4, <3>4, SMT
      <4>2. readEintr = 0 => tot_written # LEN
        BY <2>1, <2>2, <2>5, <2>8, <3>1, <3>4, <4>1, SMT
      <4> QED BY <3>3, <4>2
    <3> QED BY <2>6, <3>1, <3>3, <3>4
  <2> QED BY <2>7, <2>8
<1> QED BY <1>1, SockInvHolds, PTL
-----------------------------------------------------------------------------
\* Nobody waits in vain.

\* What a call of either side can do without the other.  (A call that fails or finds
\* the end of the data returns, too.)
CanWrite == wpc = "write" /\ tot_written < LEN /\ (Len(stream) < ROOM \/ rpc = "ended")
CanRead == rpc = "read" /\ (IF stream = << >> THEN wpc = "ended" ELSE len > 0)

\* Where the two are by what is left to do: one that is in its loop has something left,
\* and a write fails only where nobody reads.
Left ==
  /\ wpc = "write" => tot_written < LEN
  /\ wpc = "returned" => tot_written = LEN
  /\ wpc = "failed" => rpc = "ended"
  /\ rpc = "read" => len > 0

\* Every step keeps it.
LEMMA LeftStep == SockInv /\ Left /\ [Next]_vars => Left'
<1> SUFFICES ASSUME SockInv, Left, [Next]_vars PROVE Left'
  OBVIOUS
<1>0. /\ LEN \in Nat /\ tot_written \in Nat /\ tot_written <= LEN /\ len \in Nat
      /\ len' \in Nat /\ tot_written' \in Nat /\ tot_written' <= LEN
  <2>1. SockInv'
    BY SockInvStep
  <2> QED BY <2>1, Numbers, SockAssumption, SMT DEF SockInv, TypeOK
<1> USE DEF Left
<1>1. CASE Write
  <2>1. /\ wpc = "write" /\ UNCHANGED <<rpc, len>>
        /\ wpc' = IF tot_written' < LEN THEN "write" ELSE "returned"
    BY <1>1 DEF Write, readerVars
  <2> QED BY <1>0, <2>1, SMT
<1>2. CASE WriteInterrupted \/ WriteFails \/ WriterEnds \/ WriterResets
  BY <1>2 DEF WriteInterrupted, WriteFails, WriterEnds, WriterResets, readerVars
<1>3. CASE Read \/ ReadInterrupted \/ ReadReset
  <2>1. /\ rpc = "read" /\ UNCHANGED <<wpc, tot_written>>
        /\ rpc' = IF len' # 0 THEN "read" ELSE "returned"
    BY <1>3 DEF Read, ReadInterrupted, ReadReset, ReadMinusOne, writerVars
  <2> QED BY <1>0, <2>1, SMT
<1>4. CASE ReadEof \/ ReaderEnds
  <2>1. /\ rpc # "ended" /\ rpc' \in {"returned", "ended"}
        /\ UNCHANGED <<wpc, tot_written>>
    BY <1>4 DEF ReadEof, ReaderEnds, writerVars
  <2> QED BY <2>1
<1>5. CASE UNCHANGED vars
  BY <1>5 DEF vars, writerVars, readerVars
<1> QED BY <1>1, <1>2, <1>3, <1>4, <1>5 DEF Next, Writer, Reader, Ends

\* It holds in every state.
LEMMA LeftHolds == Spec => []Left
<1>1. Init => Left
  BY SockAssumption, SMT DEF Init, Left
<1> QED BY <1>1, LeftStep, SockInvHolds, PTL DEF Spec

\* Whoever is in its loop can go on, or the other one can: a writer never waits over
\* a full connection for a reader that has returned, and a reader none of whose calls
\* was interrupted never waits for bytes a writer that has returned believes it sent.
NobodyWaitsInVain ==
  /\ wpc = "write" => CanWrite \/ CanRead
  /\ rpc = "read" /\ readEintr = 0 => CanRead \/ CanWrite

\* The two loops never wait for each other, for every length and room, however the
\* transfer is split, interrupted or reset, and whoever ends (sock.cpp:120-155).
THEOREM NobodyWaitsInVainHolds == Spec => []NobodyWaitsInVain
<1>1. SockInv /\ Left => NobodyWaitsInVain
  <2> SUFFICES ASSUME SockInv, Left PROVE NobodyWaitsInVain
    OBVIOUS
  <2> DEFINE now == Len(stream)
  <2>1. /\ LEN \in Nat /\ ROOM \in Nat /\ ROOM >= 1 /\ now \in Nat
        /\ tot_written \in Nat /\ tot_written <= LEN
        /\ readEintr \in Nat /\ Failed \in Nat /\ len \in Nat
    BY Numbers DEF SockInv
  <2>2. rpc # "ended" => /\ Got + now <= tot_written
                         /\ reset = "no" => Got + now = tot_written
    BY DEF SockInv, Balance
  <2>3. stream = << >> <=> now = 0
    BY EmptySeq, SMT DEF SockInv, TypeOK
  <2>4. /\ reset # "no" => wpc = "ended"
        /\ rpc = "returned" => len = 0 \/ wpc = "ended"
    BY DEF SockInv, Returned
  <2>5. /\ wpc \in {"write", "returned", "failed", "ended"}
        /\ rpc \in {"read", "returned", "ended"}
        /\ reset \in {"no", "pending", "seen"}
    BY DEF SockInv, TypeOK
  <2>6. Got = LEN + Failed - len
    BY DEF Got
  <2>7. Failed = readEintr + (IF reset = "seen" THEN 1 ELSE 0)
    BY DEF Failed
  <2>8. CanWrite <=> wpc = "write" /\ tot_written < LEN /\ (now < ROOM \/ rpc = "ended")
    BY DEF CanWrite
  <2> HIDE DEF now
  <2>9. ASSUME wpc = "write", ~CanRead PROVE CanWrite
    <3>1. tot_written < LEN /\ reset = "no"
      BY <2>9, <2>4 DEF Left
    <3>2. CASE rpc = "returned"
      <4>1. len = 0 /\ Got + now = tot_written
        BY <2>2, <2>4, <2>9, <3>1, <3>2
      <4>2. FALSE
        BY <2>1, <2>6, <3>1, <4>1, SMT
      <4> QED BY <4>2
    <3>3. CASE rpc = "read"
      <4>1. stream = << >>
        BY <2>9, <3>3 DEF CanRead, Left
      <4> QED BY <2>1, <2>3, <2>8, <2>9, <3>1, <4>1, SMT
    <3>4. CASE rpc = "ended"
      BY <2>8, <2>9, <3>1, <3>4
    <3> QED BY <2>5, <3>2, <3>3, <3>4
  <2>10. ASSUME rpc = "read", readEintr = 0, ~CanRead PROVE CanWrite
    <3>1. stream = << >> /\ wpc # "ended" /\ len > 0
      BY <2>10 DEF CanRead, Left
    <3>2. reset = "no" /\ wpc # "failed"
      BY <2>4, <2>10, <3>1 DEF Left
    <3>3. Failed = 0 /\ now = 0
      BY <2>3, <2>7, <2>10, <3>1, <3>2, SMT
    <3>4. Got = tot_written
      BY <2>1, <2>2, <2>6, <2>10, <3>2, <3>3, SMT
    <3>5. tot_written # LEN
      BY <2>1, <2>6, <3>1, <3>3, <3>4, SMT
    <3>6. wpc = "write" /\ tot_written < LEN
      BY <2>5, <3>1, <3>2, <3>5 DEF Left
    <3> QED BY <2>1, <2>8, <3>3, <3>6, SMT
  <2> QED BY <2>9, <2>10 DEF NobodyWaitsInVain
<1> QED BY <1>1, LeftHolds, SockInvHolds, PTL

-----------------------------------------------------------------------------
\* The transfer comes to an end.

\* How far each thing has come that a step can move; none of them ever goes back.
WriterPlace == IF wpc = "write" THEN 0 ELSE IF wpc = "ended" THEN 2 ELSE 1
ReaderPlace == IF rpc = "read" THEN 0 ELSE IF rpc = "ended" THEN 2 ELSE 1
ResetPlace == IF reset = "no" THEN 0 ELSE IF reset = "seen" THEN 2 ELSE 1
Place == (tot_written + writeEintr + WriterPlace)
         + (Got + readEintr + ReaderPlace + ResetPlace)

\* The bytes that came are at most the structure, also when the reader has ended.
GotBounded == 0 <= Got /\ Got <= LEN

\* The most steps a transfer can make.
PlaceBounded == Place \in 0 .. 2 * LEN + MaxWriteEintr + MaxReadEintr + 6

\* Every step goes on.
StepsAhead == Place < Place'

\* What a step does to the bytes that came.
LEMMA GotStep ==
  ASSUME SockInv, SockInv', Next
  PROVE  /\ Got \in Int /\ Got' \in Int
         /\ Read => Got < Got'
         /\ ~Read => Got' = Got
<1>1. /\ LEN \in Nat /\ Failed \in Nat /\ len \in Nat /\ Failed' \in Nat /\ len' \in Nat
      /\ readEintr \in Nat /\ MaxReadEintr \in Nat /\ readEintr <= MaxReadEintr
      /\ Len(stream) \in Nat
  <2>1. readEintr' \in Nat /\ len' \in Nat
    BY SockAssumption, SMT DEF SockInv, TypeOK
  <2>2. Failed' = readEintr' + (IF reset' = "seen" THEN 1 ELSE 0)
    BY DEF Failed
  <2>3. \/ Failed' = readEintr' + 1
        \/ Failed' = readEintr' + 0
    BY <2>2
  <2>4. Failed' \in Nat
    <3> DEFINE f == Failed'
    <3>1. f = readEintr' + 1 \/ f = readEintr' + 0
      BY <2>3
    <3> HIDE DEF f
    <3>2. f \in Nat
      BY <2>1, <3>1, SMT
    <3> QED BY <3>2 DEF f
  <2> QED BY <2>1, <2>4, Numbers DEF SockInv
<1>2. Got \in Int /\ Got' \in Int
  BY <1>1, SMT DEF Got
<1>3. CASE Read
  <2>1. PICK nr \in 1 .. Least(len, Len(stream)) : len' = len - nr
    BY <1>3 DEF Read
  <2>2. nr \in Int /\ 1 <= nr
    <3>1. len \in Int /\ Len(stream) \in Int
      BY <1>1
    <3> QED BY <3>1, <2>1, LeastFacts
  <2>3. Failed' = Failed
    BY <1>3 DEF Read, Failed
  <2> QED BY <1>1, <1>2, <1>3, <2>1, <2>2, <2>3, SMT DEF Got
<1>4. CASE ReadInterrupted \/ ReadReset
  <2>1. Failed <= MaxReadEintr /\ Failed' = Failed + 1
    <3>1. CASE ReadInterrupted
      <4>1. readEintr < MaxReadEintr /\ readEintr' = readEintr + 1 /\ reset' = reset
        BY <3>1 DEF ReadInterrupted
      <4>2. /\ Failed = readEintr + (IF reset = "seen" THEN 1 ELSE 0)
            /\ Failed' = readEintr' + (IF reset = "seen" THEN 1 ELSE 0)
        BY <4>1 DEF Failed
      <4> QED BY <1>1, <4>1, <4>2, SMT
    <3>2. CASE ReadReset
      <4>1. reset = "pending" /\ reset' = "seen" /\ readEintr' = readEintr
        BY <3>2 DEF ReadReset
      <4>2. Failed = readEintr + 0 /\ Failed' = readEintr + 1
        BY <4>1 DEF Failed
      <4> QED BY <1>1, <4>2, SMT
    <3> QED BY <1>4, <3>1, <3>2
  <2>2. Got' = Got
    BY <1>4, <2>1, MinusOneCounters DEF ReadInterrupted, ReadReset, ReadMinusOne
  <2>3. ~Read
    <3>1. SUFFICES ASSUME Read PROVE FALSE
      OBVIOUS
    <3>2. len' < len
      <4>1. PICK nr \in 1 .. Least(len, Len(stream)) : len' = len - nr
        BY <3>1 DEF Read
      <4>2. len \in Int /\ Len(stream) \in Int
        BY <1>1
      <4>3. nr \in Int /\ 1 <= nr
        BY <4>1, <4>2, LeastFacts
      <4> QED BY <1>1, <4>1, <4>3, SMT
    <3>3. Got = LEN + Failed - len /\ Got' = LEN + (Failed + 1) - len'
      BY <2>1 DEF Got
    <3>4. LEN + Failed - len = LEN + (Failed + 1) - len'
      BY <2>2, <3>3
    <3> DEFINE f == Failed
               l == len
               l1 == len'
    <3>5. /\ LEN \in Nat /\ f \in Nat /\ l \in Nat /\ l1 \in Nat
          /\ l1 < l /\ LEN + f - l = LEN + (f + 1) - l1
      BY <1>1, <3>2, <3>4, Zenon
    <3> HIDE DEF f, l, l1
    <3> QED BY <3>5, SMT
  <2> QED BY <1>2, <2>2, <2>3
<1>5. CASE Writer \/ ReadEof \/ Ends
  <2>1. len' = len /\ readEintr' = readEintr
    BY <1>5 DEF Writer, Ends, Write, WriteInterrupted, WriteFails, WriterEnds, WriterResets,
                ReaderEnds, ReadEof, readerVars
  <2>2. reset' = reset \/ (reset = "no" /\ reset' = "pending")
    <3>1. WriterResets => reset = "no" /\ reset' = "pending"
      BY DEF WriterResets, SockInv, Returned
    <3>2. Writer \/ ReadEof \/ WriterEnds \/ ReaderEnds => reset' = reset
      BY DEF Writer, Write, WriteInterrupted, WriteFails, WriterEnds, ReaderEnds, ReadEof
    <3> QED BY <1>5, <3>1, <3>2 DEF Ends
  <2>3. Failed' = Failed
    BY <2>1, <2>2 DEF Failed
  <2>4. Got' = Got
    BY <2>1, <2>3 DEF Got
  <2>5. ~Read
    <3>1. SUFFICES ASSUME Read PROVE FALSE
      OBVIOUS
    <3>2. PICK nr \in 1 .. Least(len, Len(stream)) : len' = len - nr
      BY <3>1 DEF Read
    <3>3. len \in Int /\ Len(stream) \in Int
      BY <1>1
    <3>4. nr \in Int /\ 1 <= nr
      BY <3>2, <3>3, LeastFacts
    <3> QED BY <1>1, <2>1, <3>2, <3>4, SMT
  <2> QED BY <1>2, <2>4, <2>5
<1> QED BY <1>3, <1>4, <1>5 DEF Next, Reader

\* Every step goes on, and none past the end.
LEMMA AheadStep ==
  ASSUME SockInv, SockInv', Next
  PROVE  Place < Place'
<1>1. /\ Got \in Int /\ Got' \in Int
      /\ Read => Got < Got'
      /\ ~Read => Got' = Got
  BY GotStep
<1>2. /\ tot_written \in Nat /\ writeEintr \in Nat /\ readEintr \in Nat
      /\ tot_written' \in Nat /\ writeEintr' \in Nat /\ readEintr' \in Nat
  BY SockAssumption, SMT DEF SockInv, TypeOK
<1>3. /\ WriterPlace \in 0 .. 2 /\ ReaderPlace \in 0 .. 2 /\ ResetPlace \in 0 .. 2
      /\ WriterPlace' \in 0 .. 2 /\ ReaderPlace' \in 0 .. 2 /\ ResetPlace' \in 0 .. 2
  BY SMT DEF WriterPlace, ReaderPlace, ResetPlace
<1>4. tot_written <= tot_written' /\ writeEintr <= writeEintr' /\ readEintr <= readEintr'
  <2>1. CASE Write
    <3>1. PICK nw \in 1 .. Least(LEN - tot_written, ROOM - Len(stream)) :
            tot_written' = tot_written + nw
      BY <2>1 DEF Write
    <3>2. LEN - tot_written \in Int /\ ROOM - Len(stream) \in Int
      <4>1. LEN \in Nat /\ tot_written \in Nat /\ ROOM \in Nat /\ Len(stream) \in Nat
        BY Numbers DEF SockInv
      <4> QED BY <4>1, SMT
    <3>3. nw \in Int /\ 1 <= nw
      BY <3>1, <3>2, LeastFacts
    <3>4. UNCHANGED <<writeEintr, readEintr>>
      BY <2>1 DEF Write, readerVars
    <3> QED BY <1>2, <3>1, <3>3, <3>4, SMT
  <2>2. CASE ~Write
    BY <1>2, <2>2, SMT DEF Next, Writer, Reader, Ends, WriteInterrupted, WriteFails,
         WriterEnds, WriterResets, Read, ReadEof, ReadInterrupted, ReadReset, ReadMinusOne,
         ReaderEnds, readerVars, writerVars
  <2> QED BY <2>1, <2>2
<1>5. /\ WriterPlace <= WriterPlace' /\ ReaderPlace <= ReaderPlace'
      /\ ResetPlace <= ResetPlace'
  <2>1. WriterPlace <= WriterPlace'
    <3>1. \/ wpc' = wpc \/ (wpc = "write") \/ (wpc # "ended" /\ wpc' = "ended")
      BY DEF Next, Writer, Reader, Ends, Write, WriteInterrupted, WriteFails,
         WriterEnds, WriterResets, Read, ReadEof, ReadInterrupted, ReadReset, ReadMinusOne,
         ReaderEnds, readerVars, writerVars
    <3> QED BY <1>3, <3>1, SMT DEF WriterPlace
  <2>2. ReaderPlace <= ReaderPlace'
    <3>1. \/ rpc' = rpc \/ (rpc = "read") \/ (rpc # "ended" /\ rpc' = "ended")
      BY DEF Next, Writer, Reader, Ends, Write, WriteInterrupted, WriteFails,
         WriterEnds, WriterResets, Read, ReadEof, ReadInterrupted, ReadReset, ReadMinusOne,
         ReaderEnds, readerVars, writerVars
    <3> QED BY <1>3, <3>1, SMT DEF ReaderPlace
  <2>3. ResetPlace <= ResetPlace'
    <3>1. WriterResets => reset = "no"
      BY DEF WriterResets, SockInv, Returned
    <3>2. \/ reset' = reset \/ (reset = "no") \/ (reset = "pending" /\ reset' = "seen")
      BY <3>1 DEF Next, Writer, Reader, Ends, Write, WriteInterrupted, WriteFails,
         WriterEnds, WriterResets, Read, ReadEof, ReadInterrupted, ReadReset, ReadMinusOne,
         ReaderEnds, readerVars, writerVars
    <3> QED BY <1>3, <3>2, SMT DEF ResetPlace
  <2> QED BY <2>1, <2>2, <2>3
<1>6. \/ tot_written < tot_written' \/ writeEintr < writeEintr' \/ readEintr < readEintr'
      \/ Got < Got' \/ WriterPlace < WriterPlace' \/ ReaderPlace < ReaderPlace'
      \/ ResetPlace < ResetPlace'
  <2>1. CASE Write
    <3>1. PICK nw \in 1 .. Least(LEN - tot_written, ROOM - Len(stream)) :
            tot_written' = tot_written + nw
      BY <2>1 DEF Write
    <3>2. LEN - tot_written \in Int /\ ROOM - Len(stream) \in Int
      <4>1. LEN \in Nat /\ tot_written \in Nat /\ ROOM \in Nat /\ Len(stream) \in Nat
        BY Numbers DEF SockInv
      <4> QED BY <4>1, SMT
    <3>3. nw \in Int /\ 1 <= nw
      BY <3>1, <3>2, LeastFacts
    <3> QED BY <1>2, <3>1, <3>3, SMT
  <2>2. CASE WriteInterrupted \/ ReadInterrupted
    BY <1>2, <2>2, SMT DEF WriteInterrupted, ReadInterrupted
  <2>3. CASE WriteFails \/ WriterEnds \/ WriterResets
    <3>1. \/ wpc = "write" /\ wpc' = "failed"
          \/ wpc # "ended" /\ wpc' = "ended"
      BY <2>3 DEF WriteFails, WriterEnds, WriterResets
    <3> QED BY <3>1, SMT DEF WriterPlace
  <2>4. CASE ReadEof \/ ReaderEnds
    <3>1. \/ rpc = "read" /\ rpc' = "returned"
          \/ rpc # "ended" /\ rpc' = "ended"
      BY <2>4 DEF ReadEof, ReaderEnds
    <3> QED BY <3>1, SMT DEF ReaderPlace
  <2>5. CASE ReadReset
    BY <2>5, SMT DEF ReadReset, ResetPlace
  <2>6. CASE Read
    BY <1>1, <2>6
  <2> QED BY <2>1, <2>2, <2>3, <2>4, <2>5, <2>6 DEF Next, Writer, Reader, Ends
<1>7. Got <= Got'
  BY <1>1, SMT
<1> DEFINE p == WriterPlace   q == ReaderPlace   r == ResetPlace   g == Got
           p1 == WriterPlace' q1 == ReaderPlace' r1 == ResetPlace' g1 == Got'
<1>8. /\ Place = (tot_written + writeEintr + p) + (g + readEintr + q + r)
      /\ Place' = (tot_written' + writeEintr' + p1) + (g1 + readEintr' + q1 + r1)
  BY DEF Place
<1>9. /\ p \in Int /\ q \in Int /\ r \in Int /\ g \in Int
      /\ p1 \in Int /\ q1 \in Int /\ r1 \in Int /\ g1 \in Int
  BY <1>1, <1>3, SMT
<1>10. /\ p <= p1 /\ q <= q1 /\ r <= r1 /\ g <= g1
       /\ \/ tot_written < tot_written' \/ writeEintr < writeEintr' \/ readEintr < readEintr'
          \/ g < g1 \/ p < p1 \/ q < q1 \/ r < r1
  BY <1>5, <1>6, <1>7
<1> HIDE DEF p, q, r, g, p1, q1, r1, g1
<1>11. (tot_written + writeEintr + p) + (g + readEintr + q + r)
       < (tot_written' + writeEintr' + p1) + (g1 + readEintr' + q1 + r1)
  <2> DEFINE a == tot_written   b == writeEintr   c == readEintr
             a1 == tot_written' b1 == writeEintr' c1 == readEintr'
  <2>1. /\ a \in Int /\ b \in Int /\ c \in Int
        /\ a1 \in Int /\ b1 \in Int /\ c1 \in Int
        /\ a <= a1 /\ b <= b1 /\ c <= c1
        /\ \/ a < a1 \/ b < b1 \/ c < c1
           \/ g < g1 \/ p < p1 \/ q < q1 \/ r < r1
    BY <1>2, <1>4, <1>10, SMT
  <2> HIDE DEF a, b, c, a1, b1, c1
  <2>2. (a + b + p) + (g + c + q + r) < (a1 + b1 + p1) + (g1 + c1 + q1 + r1)
    BY <1>9, <1>10, <2>1, SMT
  <2> QED BY <2>2 DEF a, b, c, a1, b1, c1
<1> QED BY <1>8, <1>11

\* The bytes that came stay within the structure.
LEMMA GotBoundedHolds == Spec => []GotBounded
<1>1. Init => GotBounded
  BY SockAssumption, SMT DEF Init, GotBounded, Got, Failed
<1>2. SockInv /\ GotBounded /\ [Next]_vars => GotBounded'
  <2> SUFFICES ASSUME SockInv, GotBounded, [Next]_vars PROVE GotBounded'
    OBVIOUS
  <2>1. SockInv'
    BY SockInvStep
  <2>2. CASE UNCHANGED vars
    BY <2>2 DEF vars, writerVars, readerVars, GotBounded, Got, Failed
  <2>3. CASE Next /\ ~Read
    <3>1. Got' = Got
      BY <2>1, <2>3, GotStep
    <3> QED BY <3>1 DEF GotBounded
  <2>4. CASE Read
    <3>1. Got \in Int /\ Got' \in Int /\ Got < Got'
      BY <2>1, <2>4, GotStep DEF Next, Reader
    <3>2. rpc' # "ended"
      BY <2>4 DEF Read
    <3>3. Got' + Len(stream') <= tot_written' /\ Len(stream') \in Nat
      BY <2>1, <3>2, LenProperties DEF SockInv, Balance, TypeOK
    <3>4. LEN \in Nat /\ tot_written' \in Nat /\ tot_written' <= LEN
      BY <2>1, SockAssumption, SMT DEF SockInv, TypeOK
    <3>5. 0 <= Got
      BY DEF GotBounded
    <3> DEFINE g == Got'
               l == Len(stream')
               w == tot_written'
    <3> HIDE DEF g, l, w
    <3>6. 0 <= g /\ g <= LEN
      <4>1. g \in Int /\ l \in Nat /\ w \in Nat /\ w <= LEN /\ g + l <= w /\ Got < g
        BY <3>1, <3>3, <3>4 DEF g, l, w
      <4> QED BY <3>1, <3>4, <3>5, <4>1, SMT
    <3> QED BY <3>6 DEF GotBounded, g
  <2> QED BY <2>2, <2>3, <2>4 DEF Next
<1> QED BY <1>1, <1>2, SockInvHolds, PTL DEF Spec

\* No step takes anything back, and a transfer makes at most 2 * LEN + 6 steps and one
\* for each interrupt: with NobodyWaitsInVain, both calls return (sock.cpp:120-155).
THEOREM TransferEnds == Spec => []PlaceBounded /\ [][StepsAhead]_vars
<1>1. SockInv /\ GotBounded => PlaceBounded
  <2> SUFFICES ASSUME SockInv, GotBounded PROVE PlaceBounded
    OBVIOUS
  <2>1. /\ WriterPlace \in 0 .. 2 /\ ReaderPlace \in 0 .. 2 /\ ResetPlace \in 0 .. 2
    BY SMT DEF WriterPlace, ReaderPlace, ResetPlace
  <2>2. /\ LEN \in Nat /\ MaxReadEintr \in Nat /\ MaxWriteEintr \in Nat
        /\ tot_written \in 0 .. LEN /\ writeEintr \in 0 .. MaxWriteEintr
        /\ readEintr \in 0 .. MaxReadEintr
    BY SockAssumption DEF SockInv, TypeOK
  <2>3. Got \in 0 .. LEN
    <3>1. Failed \in Nat /\ len \in Nat /\ LEN \in Nat
      BY Numbers DEF SockInv
    <3>2. Got \in Int
      BY <3>1, SMT DEF Got
    <3> QED BY <3>1, <3>2, SMT DEF GotBounded
  <2> QED BY <2>1, <2>2, <2>3, SMT DEF PlaceBounded, Place
<1>2. SockInv /\ SockInv' /\ [Next]_vars => [StepsAhead]_vars
  BY AheadStep DEF StepsAhead
<1>3. Spec => []PlaceBounded
  BY <1>1, SockInvHolds, GotBoundedHolds, PTL
<1>4. Spec => [][StepsAhead]_vars
  BY <1>2, SockInvHolds, PTL DEF Spec
<1> QED BY <1>3, <1>4
=============================================================================
