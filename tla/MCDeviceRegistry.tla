-------------------------- MODULE MCDeviceRegistry --------------------------
(* A small instance of DeviceRegistry: networks of three hosts, the second *)
(* of which is the constant address.                                       *)
EXTENDS DeviceRegistry, TLC

CONSTANTS n1, n2

LowOf      == [n \in Networks |-> 0]
HighOf     == [n \in Networks |-> 4]
Symmetric  == Permutations(Handlers) \cup Permutations(Threads)\cup Permutations(PublicKeys)
OneUse     == [k \in Psks |-> 1]
=============================================================================
