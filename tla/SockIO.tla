------------------------------- MODULE SockIO --------------------------------
(***************************************************************************)
(* One struct qp_info sent over a TCP connection: sock_write on one side,  *)
(* sock_read on the other.                                                 *)
(*                                                                         *)
(* The connection is external: a bounded buffer of bytes from which a call *)
(* may take, and to which it may add, fewer bytes than it was asked to.    *)
(* Either process may end at any time.  The writer's end closes its side   *)
(* in order or resets the connection, which may cost the tail of what is   *)
(* on its way; the reader's end makes writes fail, after the first ones    *)
(* that have nowhere to go.  The reader's cursor is not part of the state  *)
(* because read is never given it: every call fills the structure from its *)
(* beginning, as every write sends from the beginning.                     *)
(***************************************************************************)
EXTENDS Integers, Sequences

CONSTANTS
  LEN,              \* sizeof(struct qp_info)
  ROOM,             \* bytes the connection holds
  SIZE_MOD,         \* size_t is unsigned: its values are 0 .. SIZE_MOD - 1
  MaxWriteEintr,    \* bound: writes a signal interrupts
  MaxReadEintr,     \* bound: reads a signal interrupts
  Unset             \* content of a byte of an uninitialised structure

ASSUME SockAssumption ==
  /\ LEN \in Nat \ {0}
  /\ ROOM \in Nat \ {0}
  /\ SIZE_MOD \in Nat /\ SIZE_MOD > LEN + MaxReadEintr + 1
  /\ MaxWriteEintr \in Nat /\ MaxReadEintr \in Nat
  /\ Unset \notin 0 .. LEN - 1

\* Byte n of the message is named n.
Bytes == 0 .. LEN - 1

VARIABLES
  wpc,            \* the writer: "write", "returned", "failed", or its process "ended"
  tot_written,
  stream,         \* bytes on their way
  reset,          \* "no", "pending" at the reader, or "seen" by it
  rpc,            \* the reader: "read", "returned", or its process "ended"
  len,            \* bytes sock_read still asks for
  tot_read,
  tmp,            \* the structure read into
  writeEintr, readEintr     \* interrupts so far

writerVars == <<wpc, tot_written, writeEintr>>
readerVars == <<rpc, len, tot_read, tmp, readEintr>>
vars == <<writerVars, stream, reset, readerVars>>

Least(a, b) == IF a <= b THEN a ELSE b

Init ==
  /\ wpc = "write" /\ tot_written = 0 /\ writeEintr = 0
  /\ stream = << >> /\ reset = "no"
  /\ rpc = "read" /\ len = LEN /\ tot_read = 0 /\ readEintr = 0
  /\ tmp = [b \in Bytes |-> Unset]

-----------------------------------------------------------------------------
\* nw bytes from the start of buf; to a reader that ended they go nowhere.
Sent(nw) ==
  stream' = IF rpc = "ended" THEN stream ELSE stream \o [n \in 1 .. nw |-> n - 1]

\* Variant: one call is taken to have written everything.
WriteOnce ==
  /\ wpc = "write"
  /\ \E nw \in 1 .. Least(LEN - tot_written, ROOM - Len(stream)) : Sent(nw)
  /\ tot_written' = LEN
  /\ wpc' = "returned"
  /\ UNCHANGED <<writeEintr, reset, readerVars>>

\* write(sock, buf, len - tot_written): some bytes, from the start of buf.
Write ==
  /\ wpc = "write"
  /\ \E nw \in 1 .. Least(LEN - tot_written, ROOM - Len(stream)) :
       /\ Sent(nw)
       /\ tot_written' = tot_written + nw
  /\ wpc' = IF tot_written' < LEN THEN "write" ELSE "returned"
  /\ UNCHANGED <<writeEintr, reset, readerVars>>

\* nw is signed: -1 with EINTR is seen, and the call is made again.
WriteInterrupted ==
  /\ wpc = "write" /\ writeEintr < MaxWriteEintr
  /\ writeEintr' = writeEintr + 1
  /\ UNCHANGED <<wpc, tot_written, stream, reset, readerVars>>

\* Any other -1: the reader is gone.  (The signal that comes with it ends the process
\* unless it is ignored: WriterEnds.)
WriteFails ==
  /\ wpc = "write" /\ rpc = "ended"
  /\ wpc' = "failed"
  /\ UNCHANGED <<tot_written, writeEintr, stream, reset, readerVars>>

\* The writer's process ends; what it wrote is still delivered.
WriterEnds ==
  /\ wpc # "ended"
  /\ wpc' = "ended"
  /\ UNCHANGED <<tot_written, writeEintr, stream, reset, readerVars>>

\* It ends with data of the other side unread: the connection is reset, and the tail
\* of what is on its way lost.
WriterResets ==
  /\ wpc # "ended" /\ rpc # "ended"
  /\ wpc' = "ended" /\ reset' = "pending"
  /\ \E kept \in 0 .. Len(stream) : stream' = SubSeq(stream, 1, kept)
  /\ UNCHANGED <<tot_written, writeEintr, readerVars>>

-----------------------------------------------------------------------------
Filled(nr) == [b \in Bytes |-> IF b < nr THEN stream[b + 1] ELSE tmp[b]]

\* Variant: what one call returns is taken to be everything.
ReadOnce ==
  /\ rpc = "read"
  /\ \E nr \in 1 .. Least(len, Len(stream)) :
       /\ tmp' = Filled(nr)
       /\ stream' = SubSeq(stream, nr + 1, Len(stream))
       /\ len' = len - nr
       /\ tot_read' = tot_read + nr
  /\ rpc' = "returned"
  /\ UNCHANGED <<readEintr, reset, writerVars>>

\* read(sock, buf, len): some bytes, to the start of buf.
Read ==
  /\ rpc = "read"
  /\ \E nr \in 1 .. Least(len, Len(stream)) :
       /\ tmp' = Filled(nr)
       /\ stream' = SubSeq(stream, nr + 1, Len(stream))
       /\ len' = len - nr
       /\ tot_read' = (tot_read + nr) % SIZE_MOD
  /\ rpc' = IF len' # 0 THEN "read" ELSE "returned"
  /\ UNCHANGED <<readEintr, reset, writerVars>>

\* read returns 0: nothing left and the other side closed.
ReadEof ==
  /\ rpc = "read"
  /\ stream = << >> /\ wpc = "ended" /\ reset # "pending"
  /\ rpc' = "returned"
  /\ UNCHANGED <<len, tot_read, tmp, readEintr, stream, reset, writerVars>>

\* read returns -1.  nr is a size_t, so `nr < 0` is false: errno is not looked at, and
\* the counters move by SIZE_MOD - 1.
ReadMinusOne ==
  /\ rpc = "read"
  /\ len' = (len - (SIZE_MOD - 1)) % SIZE_MOD
  /\ tot_read' = (tot_read + (SIZE_MOD - 1)) % SIZE_MOD
  /\ rpc' = IF len' # 0 THEN "read" ELSE "returned"
  /\ UNCHANGED <<tmp, stream, writerVars>>

\* EINTR.
ReadInterrupted ==
  /\ readEintr < MaxReadEintr
  /\ ReadMinusOne
  /\ readEintr' = readEintr + 1
  /\ UNCHANGED reset

\* ECONNRESET, once; the next read returns 0.
ReadReset ==
  /\ stream = << >> /\ reset = "pending"
  /\ ReadMinusOne
  /\ reset' = "seen"
  /\ UNCHANGED readEintr

\* The reader's process ends, whatever it has read.
ReaderEnds ==
  /\ rpc # "ended"
  /\ rpc' = "ended"
  /\ stream' = << >>
  /\ UNCHANGED <<len, tot_read, tmp, readEintr, reset, writerVars>>

-----------------------------------------------------------------------------
Writer == Write \/ WriteInterrupted \/ WriteFails
Reader == Read \/ ReadEof \/ ReadInterrupted \/ ReadReset
Ends == WriterEnds \/ WriterResets \/ ReaderEnds

Next == Writer \/ Reader \/ Ends

Spec == Init /\ [][Next]_vars

\* The two threads run and their calls do what they can; no signal need come and no
\* process need end.
FairSpec == Spec /\ WF_vars(Write \/ WriteFails) /\ WF_vars(Read \/ ReadEof \/ ReadReset)

-----------------------------------------------------------------------------
\* Types of the counters, and of the structure.
TypeOK ==
  /\ wpc \in {"write", "returned", "failed", "ended"}
  /\ tot_written \in 0 .. LEN
  /\ stream \in Seq(Bytes) /\ Len(stream) <= ROOM
  /\ reset \in {"no", "pending", "seen"}
  /\ rpc \in {"read", "returned", "ended"}
  /\ len \in 0 .. SIZE_MOD - 1 /\ tot_read \in 0 .. SIZE_MOD - 1
  /\ tmp \in [Bytes -> Bytes \cup {Unset}]
  /\ writeEintr \in 0 .. MaxWriteEintr /\ readEintr \in 0 .. MaxReadEintr

\* The count sock_read returns tells whether the transfer went well: it is the
\* structure's length exactly if the writer had written all of it and no read failed,
\* however the transfer is split and whoever ends; an error that is mistaken for a
\* large count never makes the length come out right (sock.cpp:143-157).
CountTellsLoss ==
  rpc = "returned" =>
    (tot_read = LEN <=> tot_written = LEN /\ readEintr = 0 /\ reset # "seen")

\* Both calls return or their processes are gone, however the transfer is split,
\* however often the write is interrupted and whoever ends; only an interrupted read
\* (see ReadMinusOne) may wait for ever.
BothReturn == <>(wpc # "write") /\ <>(rpc # "read" \/ readEintr > 0)

\* The structure read is the structure written ("need to write socket safely"):
\* holds of a transfer in one piece, and no other.
ReadAsWritten ==
  rpc = "returned" /\ tot_read = LEN => \A b \in Bytes : tmp[b] = b
=============================================================================
