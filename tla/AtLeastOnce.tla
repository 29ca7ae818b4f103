----------------------------- MODULE AtLeastOnce -----------------------------
(***************************************************************************)
(* What the outbox promises its consumers, without leases, workers or      *)
(* retries: an event stays pending until it is acknowledged or given up;   *)
(* it is acknowledged only after it has reached the consumer; both ends    *)
(* are final.  Deliveries may repeat, even after the acknowledgement.      *)
(***************************************************************************)
CONSTANT Events

VARIABLES
  status,     \* what became of each event
  delivered   \* the events the consumer has seen

Init ==
  /\ status = [e \in Events |-> "pending"]
  /\ delivered = {}

Deliver(e) ==
  /\ delivered' = delivered \cup {e}
  /\ UNCHANGED status

Acknowledge(e) ==
  /\ status[e] = "pending" /\ e \in delivered
  /\ status' = [status EXCEPT ![e] = "published"]
  /\ UNCHANGED delivered

GiveUp(e) ==
  /\ status[e] = "pending"
  /\ status' = [status EXCEPT ![e] = "dead"]
  /\ UNCHANGED delivered

Next == \E e \in Events : Deliver(e) \/ Acknowledge(e) \/ GiveUp(e)

Spec == Init /\ [][Next]_<<status, delivered>>
=============================================================================
