-------------------------- MODULE AddressAllocator --------------------------
(***************************************************************************)
(* What the address pool of a virtual network promises to those who ask it *)
(* for an address: one that is usable and that nobody else has from it.    *)
(* Users give addresses back, and a crash ends users with the service.     *)
(***************************************************************************)
EXTENDS Integers

CONSTANTS
  Users,     \* who may ask for an address
  Networks,
  Low, High  \* network and broadcast address of each network

VARIABLE given  \* in each network, the addresses in use, each with its user

InUse(n) == {x[1] : x \in given[n]}

(* The addresses of a network that a device may have.                      *)
Hosts(n) == (Low[n] + 1) .. (High[n] - 1)

AInit == given = [n \in Networks |-> {}]

Give(n, u) ==
  \E a \in Hosts(n) \ InUse(n) : given' = [given EXCEPT ![n] = @ \cup {<<a, u>>}]

TakeBack(n) == \E x \in given[n] : given' = [given EXCEPT ![n] = @ \ {x}]

Crash == given' = [n \in Networks |-> {}]

ANext == Crash \/ \E n \in Networks : TakeBack(n) \/ \E u \in Users : Give(n, u)

ASpec == AInit /\ [][ANext]_given
=============================================================================
