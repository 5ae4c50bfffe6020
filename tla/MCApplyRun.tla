----------------------------- MODULE MCApplyRun -----------------------------
(* Instances of ApplyRun for TLC. *)
EXTENDS ApplyRun, TLC

Symmetry == Permutations(Vacancies)
=============================================================================
