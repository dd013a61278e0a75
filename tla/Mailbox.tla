------------------------------ MODULE Mailbox -------------------------------
(***************************************************************************)
(* What the controller's write loop and the invoker's event loop promise   *)
(* together: every slot index the controller posts is reported by the      *)
(* invoker, once, in the order posted.  Nothing is said of when.           *)
(***************************************************************************)
EXTENDS Naturals, Sequences

CONSTANT Index          \* the slot indexes a message may name

VARIABLES
  posted,               \* the indexes posted so far, in order
  reported              \* the indexes reported so far, in order

vars == <<posted, reported>>

Init == /\ posted = << >>
        /\ reported = << >>

Post == /\ \E k \in Index : posted' = Append(posted, k)
        /\ UNCHANGED reported

Report == /\ Len(reported) < Len(posted)
          /\ reported' = Append(reported, posted[Len(reported) + 1])
          /\ UNCHANGED posted

Next == Post \/ Report

Spec == Init /\ [][Next]_vars
=============================================================================
