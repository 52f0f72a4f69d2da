----------------------------- MODULE Lifecycle -----------------------------
(***************************************************************************)
(* What the handlers of one account promise together: it is created, gets  *)
(* its role, and is deleted only while it has one and after a snapshot of  *)
(* it was stored; its id is never used again.                              *)
(***************************************************************************)
CONSTANT Ids

VARIABLES
    stage,     \* stage[i]: "absent", "created", "usable" (it has a role) or "deleted"
    archived   \* ids in "deleted_user"

TypeOK ==
    /\ stage \in [Ids -> {"absent", "created", "usable", "deleted"}]
    /\ archived \in SUBSET Ids

Init == stage = [i \in Ids |-> "absent"] /\ archived = {}

Move(i, from, to) ==
    /\ stage[i] = from
    /\ stage' = [stage EXCEPT ![i] = to]
    /\ UNCHANGED archived

Create(i) == Move(i, "absent", "created")
Grant(i) == Move(i, "created", "usable")
Delete(i) == i \in archived /\ Move(i, "usable", "deleted")

\* A deletion that lost the race against another one archives a row that is gone.
Archive(i) ==
    /\ stage[i] \in {"usable", "deleted"}
    /\ archived' = archived \cup {i}
    /\ UNCHANGED stage

Next == \E i \in Ids : Create(i) \/ Grant(i) \/ Archive(i) \/ Delete(i)

Spec == Init /\ [][Next]_<<stage, archived>>
=============================================================================
