------------------------------ MODULE ImmCodec ------------------------------
(***************************************************************************)
(* How a write with immediate names the buffer it went to.                 *)
(*                                                                         *)
(* The controller packs an invoker id and a slot index into the 32-bit     *)
(* immediate of an RDMA write (encode_imm, then htonl in post_write_imm);  *)
(* the invoker's event loop unpacks it (ntohl, then decode_imm) and finds  *)
(* the message in its own cache buffer from the pair.  The two programs    *)
(* agree only if the packing is invertible and the two address             *)
(* computations meet.                                                      *)
(***************************************************************************)
EXTENDS Integers, Sequences

CONSTANTS
  PADDING,        \* factor between invoker id and slot index (utils.hpp:4)
  MSG_SIZE,       \* bytes in a slot (config.hpp:30)
  NUM_BUF_SLOT,   \* slots an invoker has (config.hpp:31)
  NumInvokers     \* get_all_invokers().size()

ASSUME LayoutAssumption ==
  /\ PADDING \in Nat \ {0}
  /\ MSG_SIZE \in Nat \ {0}
  /\ NUM_BUF_SLOT \in Nat \ {0}
  /\ NUM_BUF_SLOT <= PADDING
  /\ NumInvokers \in Nat \ {0}

\* A table of 2^16 entries has room for the slots of an invoker.
ASSUME RegionAssumption == MSG_SIZE * NUM_BUF_SLOT <= 65536

\* `inv_id * PADDING` is a product of C ints: it must not overflow one.
ASSUME WidthAssumption == (NumInvokers - 1) * PADDING + NUM_BUF_SLOT <= 2147483647

InvokerIds == 0 .. NumInvokers - 1
SlotIndexes == 0 .. NUM_BUF_SLOT - 1

-----------------------------------------------------------------------------
\* Packing and unpacking.

encode_imm(inv_id, buf_index) == inv_id * PADDING + buf_index

\* Variant: the two fields taken the wrong way round.
decode_imm_swapped(imm) == <<imm % PADDING, imm \div PADDING>>

decode_imm(imm) == <<imm \div PADDING, imm % PADDING>>

\* htonl and ntohl: the four octets of a 32-bit value as they travel, most
\* significant first, and the value read back from them.
htonl(x) == << ((x \div 256) \div 256) \div 256,
               ((x \div 256) \div 256) % 256,
               (x \div 256) % 256,
               x % 256 >>

\* Variant: the octets read as a little-endian host would, unconverted.
ntohl_omitted(o) == ((o[4] * 256 + o[3]) * 256 + o[2]) * 256 + o[1]

ntohl(o) == ((o[1] * 256 + o[2]) * 256 + o[3]) * 256 + o[4]

-----------------------------------------------------------------------------
\* Where a message lives in the invoker's cache buffer, as a byte offset.

PER_INV_BUF_SIZE == MSG_SIZE * NUM_BUF_SLOT

\* The controller's side: write_raddr is the start of the invoker's buffer.
WriteOffset(imm) == MSG_SIZE * imm

\* Variant: an invoker is given the room of one slot.
EventOffset_one_slot(inv_id, buf_index) == MSG_SIZE * inv_id + MSG_SIZE * buf_index

\* The invoker's side, from the decoded pair.
EventOffset(inv_id, buf_index) ==
  PER_INV_BUF_SIZE * inv_id + MSG_SIZE * buf_index

\* The size of the registered region (TOTAL_SIZE): a table of CACHE_ENTRY_NUM
\* entries followed by one score per invoker.
WARM_SCORE_SIZE  == 6
COLD_SCORE_SIZE  == 5
LAT_MSG_SIZE     == 7
FUNC_NAME_SIZE   == 7

\* Variant: the smallest table among the settings config.hpp keeps commented out.
CACHE_ENTRY_NUM_least == 64
CACHE_ENTRY_NUM == 65536

SCORE_ENTRY_SIZE == WARM_SCORE_SIZE + COLD_SCORE_SIZE + 1
CACHE_ENTRY_SIZE == NumInvokers + LAT_MSG_SIZE + FUNC_NAME_SIZE + 1
CACHE_SIZE       == CACHE_ENTRY_SIZE * CACHE_ENTRY_NUM
TOTAL_SIZE       == CACHE_SIZE + SCORE_ENTRY_SIZE * NumInvokers

-----------------------------------------------------------------------------
\* What the two programs rely on, for the pair <<i, k>> (and <<j, m>>).

\* What the invoker decodes from the wire is what the controller encoded.
RoundTrips(i, k) == decode_imm(ntohl(htonl(encode_imm(i, k)))) = <<i, k>>

\* The slots of different pairs share no byte.
Apart(i, k, j, m) ==
  <<i, k>> = <<j, m>> \/ EventOffset(i, k) + MSG_SIZE <= EventOffset(j, m)
                     \/ EventOffset(j, m) + MSG_SIZE <= EventOffset(i, k)

\* A slot lies within the region the invoker registered.
Inside(i, k) == EventOffset(i, k) + MSG_SIZE <= TOTAL_SIZE

\* The controller writes slot k where the invoker, from the immediate that
\* comes with the write, looks for it.
Meets(k) == LET pair == decode_imm(ntohl(htonl(encode_imm(0, k))))
            IN  WriteOffset(k) = EventOffset(pair[1], pair[2])
=============================================================================
