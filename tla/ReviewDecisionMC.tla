-------------------------- MODULE ReviewDecisionMC --------------------------
(* Instances of ReviewDecision for TLC. *)
EXTENDS ReviewDecision
=============================================================================
