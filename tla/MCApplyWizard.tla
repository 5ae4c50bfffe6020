--------------------------- MODULE MCApplyWizard ---------------------------
(* Instances of ApplyWizard for TLC. *)
EXTENDS ApplyWizard, TLC

Symmetry == Permutations(Handlers)
=============================================================================
