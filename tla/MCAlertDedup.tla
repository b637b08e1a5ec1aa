---------------------------- MODULE MCAlertDedup ----------------------------
(* Instances of AlertDedup for TLC. *)
EXTENDS AlertDedup, TLC

(* Processes of one kind run the same code and alert ids are opaque.       *)
Symmetry == Permutations(Instances) \cup Permutations(Tasks) \cup Permutations(AlertIds)
=============================================================================
