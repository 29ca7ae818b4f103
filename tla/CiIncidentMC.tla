---------------------------- MODULE CiIncidentMC ----------------------------
(* Instances of CiIncident for TLC. *)
EXTENDS CiIncident
=============================================================================
