----------------------------- MODULE MCTwoStep -----------------------------
(* Instances of TwoStep for TLC. *)
EXTENDS TwoStep, TLC

Symmetry == Permutations(Procs)
=============================================================================
