--------------------------- MODULE MCNotification ---------------------------
(* An instance of Notification for TLC. *)
EXTENDS Notification, TLC

Symmetry == Permutations(Procs) \cup Permutations(Ids) \cup Permutations(Tokens)
=============================================================================
