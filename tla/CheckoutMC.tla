----------------------------- MODULE CheckoutMC -----------------------------
(***************************************************************************)
(* The tools of a checkout for TLC: builds, the projections of the         *)
(* protocol, the documentation site, and the readers of the control plane. *)
(* No two of them share a file, so one of them moves in a behavior and the *)
(* others are at rest.                                                     *)
(***************************************************************************)
EXTENDS BuildPromotion, Projections, ControlPlane, TLC

VARIABLE tool  \* the one that moves

protocol == <<sources, trees>>

\* What rests is in one of its initial states.
CheckoutInit ==
  /\ tool \in {"build", "protocol", "site", "control"}
  /\ Init /\ (tool # "build" => dist = None)
  /\ DerivedInit /\ (tool # "site" => machine = CHOOSE m \in [Documents -> Paths] : Accepted(m))
  /\ ControlInit /\ (tool # "control" => position = CHOOSE p \in PhaseOrders : TRUE)

CheckoutNext ==
  /\ \/ tool = "build" /\ Next /\ UNCHANGED <<derivedVars, controlVars>>
     \/ tool = "protocol" /\ DerivedNext /\ UNCHANGED <<vars, site, controlVars>>
     \/ tool = "site" /\ DerivedNext /\ UNCHANGED <<vars, protocol, controlVars>>
     \/ tool = "control" /\ ControlNext /\ UNCHANGED <<vars, derivedVars>>
  /\ UNCHANGED tool

CheckoutSpec == CheckoutInit /\ [][CheckoutNext]_<<tool, vars, derivedVars, controlVars>>

BuildSymmetry == Permutations(Builds)
=============================================================================
