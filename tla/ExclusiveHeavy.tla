--------------------------- MODULE ExclusiveHeavy ---------------------------
(***************************************************************************)
(* What run_exclusive_heavy promises (services/concurrency.py:40): heavy   *)
(* operations exclude one another per user and share a global limit.       *)
(***************************************************************************)
EXTENDS Naturals, FiniteSets

CONSTANTS Users, Callers, Limit, None

VARIABLE serving    \* the user each caller is running an operation for

Init == serving = [c \in Callers |-> None]

Serving == {c \in Callers : serving[c] # None}

Begin(c, u) ==
    /\ serving[c] = None
    /\ \A d \in Callers : serving[d] # u
    /\ Cardinality(Serving) < Limit
    /\ serving' = [serving EXCEPT ![c] = u]

End(c) ==
    /\ serving[c] # None
    /\ serving' = [serving EXCEPT ![c] = None]

Next == \E c \in Callers : End(c) \/ \E u \in Users : Begin(c, u)

Spec == Init /\ [][Next]_serving
=============================================================================
