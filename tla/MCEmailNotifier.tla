-------------------------- MODULE MCEmailNotifier --------------------------
(* Instances of EmailNotifier for TLC. *)
EXTENDS EmailNotifier, TLC

(* Emails differ in nothing the notifier looks at; workers run one code.   *)
Symmetry == Permutations(Emails) \cup Permutations(Workers)
=============================================================================
