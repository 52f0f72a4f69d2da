---------------------------- MODULE MCRateLimit ----------------------------
(* Values for TLC: token 1 is an address, token 2 an identity. *)
EXTENDS RateLimit, TLC

IpAndIdentity == [t \in Tokens |-> IF t = 1 THEN 2 ELSE 1]
NoRules == [t \in Tokens |-> 0]
IpOnly == [t \in Tokens |-> IF t = 1 THEN 1 ELSE 0]

OneStep == {[failures |-> 1, blockSec |-> 2]}
TwoSteps == {[failures |-> 1, blockSec |-> 2], [failures |-> 2, blockSec |-> 3]}
LateSteps == {[failures |-> 2, blockSec |-> 2], [failures |-> 3, blockSec |-> 3]}
NoSteps == {}

Symmetry == Permutations(Procs)
=============================================================================
