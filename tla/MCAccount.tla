----------------------------- MODULE MCAccount -----------------------------
(* An instance of Account for TLC. *)
EXTENDS Account, TLC

Symmetry == Permutations(Procs) \cup Permutations(Ids)
=============================================================================
