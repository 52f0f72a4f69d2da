------------------------------- MODULE MCOtp -------------------------------
(* Instances of Otp for TLC: the values of the constants are in the .cfg   *)
(* files.                                                                  *)
EXTENDS Otp, TLC

\* Requests are interchangeable.
Symmetry == Permutations(Procs)
=============================================================================
