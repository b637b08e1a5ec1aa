---------------------- MODULE MCNotificationScheduler ----------------------
(* Instances of NotificationScheduler for TLC. *)
EXTENDS NotificationScheduler, TLC

Symmetry == Permutations(Tasks) \cup Permutations(Workers)
=============================================================================
