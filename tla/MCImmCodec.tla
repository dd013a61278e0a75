----------------------------- MODULE MCImmCodec -----------------------------
(***************************************************************************)
(* The immediate and the slot layout over every two pairs of an invoker id *)
(* and a slot index: a controller uses one pair, then another.             *)
(***************************************************************************)
EXTENDS ImmCodec

VARIABLES one, two      \* the pair used before the last, and the last

Pairs == InvokerIds \X SlotIndexes

Init == one = <<0, 0>> /\ two = <<0, 0>>

Use == \E p \in Pairs : one' = two /\ two' = p

Spec == Init /\ [][Use]_<<one, two>>

\* The invoker decodes the pair the controller encoded (controller.cpp:132,
\* ib.cpp:139, invoker.cpp:166-169).
RoundTrip == RoundTrips(two[1], two[2])

\* Two messages meant for different slots never overlap in the invoker's cache
\* buffer, so flushing one does not damage the other (invoker.cpp:170-174).
SlotsApart == Apart(one[1], one[2], two[1], two[2])

\* Every slot lies in the region setup_ib registered for remote writes
\* (setup.cpp:46, 66), whose size comes from unrelated constants.
SlotInside == Inside(two[1], two[2])

\* The controller's own arithmetic for the address, which leaves the invoker's id
\* out, meets the invoker's, which decodes it (controller.cpp:133, invoker.cpp:170).
AddressesMeet == Meets(two[2])
=============================================================================
