--------------------------- MODULE MCConfigStore ---------------------------
(* An instance of ConfigStore for TLC. *)
EXTENDS ConfigStore, TLC

AllSetups == [backend : {"postgres", "filesystem"}, mode : {"inline", "celery"}]
Symmetry == Permutations(Handlers)
=============================================================================
