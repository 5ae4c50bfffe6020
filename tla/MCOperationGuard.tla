-------------------------- MODULE MCOperationGuard --------------------------
(* Small instances of OperationGuard.  With two slots and three users, two    *)
(* calls of one user can both be past the locked() check.                     *)
EXTENDS OperationGuard, TLC

Symmetry == Permutations(Callers) \cup Permutations(Users)

=============================================================================
