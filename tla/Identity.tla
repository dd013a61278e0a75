------------------------------ MODULE Identity ------------------------------
(***************************************************************************)
(* How a process finds out who it is: main asks whether it is a controller,*)
(* who its peers are and, if it is an invoker, which number it has.  Each  *)
(* question probes the network interfaces anew for the machine's address   *)
(* and compares it with the lists of ip_config.json.                       *)
(***************************************************************************)
EXTENDS Integers, Sequences, SequencesExt

CONSTANTS
  Addresses,        \* addresses a list may hold
  Stray,            \* an address no list holds
  NumInterfaces,    \* names get_self_ip tries (6)
  MaxListed         \* bound: machines listed

ASSUME IdentityAssumption ==
  /\ Stray \notin Addresses
  /\ NumInterfaces \in Nat \ {0}
  /\ MaxListed \in Nat

VARIABLES
  controller, invoker,   \* the two lists of ip_config.json
  self, down,            \* the machine: its address, behind that many dead interfaces
  pc,                    \* where main is, or how it stopped
  is_cont, peers, id     \* what it found out

machine == <<controller, invoker, self, down>>
vars == <<machine, pc, is_cont, peers, id>>

\* No machine is listed twice, and there is at least one of each kind.
Lists == {s \in BoundedSeq(Addresses, MaxListed) : IsInjective(s)}
Configs == {c \in Lists \X Lists : /\ c[1] # << >> /\ c[2] # << >>
                                   /\ IsInjective(c[1] \o c[2])
                                   /\ Len(c[1] \o c[2]) <= MaxListed}

Init ==
  /\ \E c \in Configs : controller = c[1] /\ invoker = c[2]
  /\ self \in Addresses \cup {Stray}
  /\ down \in 0 .. NumInterfaces
  /\ pc = "role"
  /\ is_cont = FALSE
  /\ peers = [controller |-> << >>, invoker |-> << >>]
  /\ id = -1

-----------------------------------------------------------------------------
\* get_self_ip.  The names are tried until one answers.  If none does the address
\* is what the structure happened to hold.
fail_cnt == down
Stops == fail_cnt = 3
SelfIps == IF down = NumInterfaces THEN Addresses \cup {Stray} ELSE {self}

\* Variant: the whole list, the machine itself included.
get_peers_all(list, ip) == list

\* The loop of get_controller_ip and get_invoker_ip: a list without the machine itself.
get_peers(list, ip) ==
  LET ret[n \in 0 .. Len(list)] == IF n = 0 THEN << >>
                                   ELSE IF list[n] = ip THEN ret[n - 1]
                                   ELSE Append(ret[n - 1], list[n])
  IN  ret[Len(list)]

\* Variant: counted from one.
get_id_from_one(ip) ==
  LET at == {n \in 1 .. Len(invoker) : invoker[n] = ip}
  IN  IF at = {} THEN -1 ELSE Max(at)

\* get_invoker_id: the number of the last entry that matches.
get_id(ip) ==
  LET at == {n \in 1 .. Len(invoker) : invoker[n] = ip}
  IN  IF at = {} THEN -1 ELSE Max(at) - 1

\* main's number of peers, for which setup_ib makes queues.
peer_num == Len(peers.controller) + Len(peers.invoker)

ProbeFails(at) ==
  /\ pc = at /\ Stops
  /\ pc' = "no_address"
  /\ UNCHANGED <<machine, is_cont, peers, id>>

\* is_controller.
Role ==
  /\ pc = "role" /\ ~Stops
  /\ \E ip \in SelfIps : is_cont' = Contains(controller, ip)
  /\ pc' = "peers"
  /\ UNCHANGED <<machine, peers, id>>

\* get_peer_ips; then setup_ib for that many peers.
Peers ==
  /\ pc = "peers" /\ ~Stops
  /\ \E ip \in SelfIps :
       peers' = [controller |-> get_peers(controller, ip), invoker |-> get_peers(invoker, ip)]
  /\ pc' = IF is_cont THEN "run" ELSE "id"
  /\ UNCHANGED <<machine, is_cont, id>>

\* get_invoker_id; an unknown address is an error.
Id ==
  /\ pc = "id" /\ ~Stops
  /\ \E ip \in SelfIps : id' = get_id(ip)
  /\ pc' = IF id' = -1 THEN "unknown" ELSE "run"
  /\ UNCHANGED <<machine, is_cont, peers>>

Next == Role \/ Peers \/ Id \/ \E at \in {"role", "peers", "id"} : ProbeFails(at)

Spec == Init /\ [][Next]_vars

-----------------------------------------------------------------------------
\* Properties.

Answered == down < NumInterfaces

\* Types; a process that runs has a number exactly if it is an invoker.
TypeOK ==
  /\ pc \in {"role", "peers", "id", "run", "no_address", "unknown"}
  /\ is_cont \in BOOLEAN
  /\ peers \in [controller : Seq(Addresses), invoker : Seq(Addresses)]
  /\ id \in -1 .. Len(invoker) - 1
  /\ pc = "run" => (is_cont <=> id = -1)

\* An invoker that runs can walk the mesh: its list of peers, taken by the number of
\* connections made, leads to every number but its own in order, which is how
\* setup_invoker uses the two (invoker.cpp:310-316).
PeersFollowNumbers ==
  pc = "run" /\ ~is_cont /\ Answered =>
    /\ invoker[id + 1] = self
    /\ peers.invoker =
         [n \in 1 .. Len(invoker) - 1 |-> IF n <= id THEN invoker[n] ELSE invoker[n + 1]]

\* "ioctl() SIOCGIFADDR error." (config.cpp:77) says that no interface gave an address.
ErrorMeansNoAddress ==
  /\ pc = "no_address" => ~Answered
  /\ pc = "run" => Answered
=============================================================================
