--------------------------- MODULE MCLoginSessions ---------------------------
(* A small instance of LoginSessions: two logins, so that one can be started   *)
(* while an earlier one has not ended.                                         *)
EXTENDS LoginSessions, TLC

Symmetry == Permutations(Sessions) \cup Permutations(Handlers)

=============================================================================
