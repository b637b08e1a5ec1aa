-------------------------- MODULE MCNatCoordinator --------------------------
(* A small instance of NatCoordinator: a device whose row says nothing of  *)
(* its NAT, or that it is behind a restricted one, and that reports two    *)
(* endpoints.                                                              *)
EXTENDS NatCoordinator, TLC

Symmetric == Permutations(Handlers) \cup Permutations(Endpoints) \cup Permutations(Devices)
=============================================================================
