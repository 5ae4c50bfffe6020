-------------------------- MODULE MCNegotiationRun --------------------------
(* Instances of NegotiationRun for TLC. *)
EXTENDS NegotiationRun

MCThresholds == {0, 1}
=============================================================================
