------------------------------ MODULE OneTime ------------------------------
(***************************************************************************)
(* What the passkey ceremonies promise of their challenges ("one-time use" *)
(* in UserTwoStepVerificationService): a challenge is issued once, is open *)
(* until it is used or void, and is used at most once.                     *)
(***************************************************************************)
EXTENDS Integers

CONSTANT Challenges

VARIABLE status   \* status[c]: "new", "open", "used" or "void"

Init == status = [c \in Challenges |-> "new"]

\* One challenge goes from a to b; a newer one or a failure may void others.
Turn(a, b) ==
    \E c \in Challenges, D \in SUBSET Challenges :
        /\ status[c] = a
        /\ \A d \in D : status[d] = "open"
        /\ status' = [d \in Challenges |-> IF d = c THEN b ELSE IF d \in D THEN "void" ELSE status[d]]

Issue == Turn("new", "open")
Use == Turn("open", "used")
Drop == Turn("open", "void")

Next == Issue \/ Use \/ Drop
Spec == Init /\ [][Next]_status
=============================================================================
