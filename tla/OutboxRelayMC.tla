--------------------------- MODULE OutboxRelayMC ----------------------------
(* Instances of OutboxRelay for TLC. *)
EXTENDS OutboxRelay
=============================================================================
