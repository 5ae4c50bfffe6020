---------------------------- MODULE MCTaskQueue ----------------------------
(* Instances of TaskQueue for TLC: which disturbances each run allows, and *)
(* the symmetries of the sets of model values.                             *)
EXTENDS TaskQueue, TLC

Budgeted(kinds) == [k \in Disturbances |-> IF k \in kinds THEN 1 ELSE 0]

AnyDisturbance == Budgeted(Disturbances)
CancelAndCrash == Budgeted({"cancel", "worker_crash"})

Symmetry == Permutations(Users) \cup Permutations(Handlers)
            \cup Permutations(Workers) \cup Permutations(Tasks)
            \cup Permutations(Operations)

=============================================================================
