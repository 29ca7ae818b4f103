------------------------- MODULE ProviderCircuitMC --------------------------
(* Instances of ProviderCircuit for TLC. *)
EXTENDS ProviderCircuit
=============================================================================
