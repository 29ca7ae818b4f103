------------------------------ MODULE CrmLedger ------------------------------
(***************************************************************************)
(* What a store of the CRM promises: an idempotency key has at most one    *)
(* effect, a command or a review, and at most one voice; an effect and its *)
(* event are one step; and the events of the deal count its versions       *)
(* without a gap.                                                          *)
(***************************************************************************)
EXTENDS Naturals, Sequences

CONSTANTS Keys, VoiceKeys

VARIABLES
  version,   \* of the deal
  customers, \* the keys that made a customer
  effects,   \* the effect of every key
  voiced,    \* the keys with a voice
  log        \* the events, in the order of the effects

Init ==
  /\ version = 1
  /\ customers = {}
  /\ effects = [k \in Keys |-> "none"]
  /\ voiced = {}
  /\ log = <<>>

Record(k, effect, v) == log' = Append(log, [key |-> k, effect |-> effect, version |-> v])

TakeEffect(k, effect, v) ==
  /\ effects[k] = "none"
  /\ effects' = [effects EXCEPT ![k] = effect]
  /\ version' = IF effect = "updated" THEN v ELSE version
  /\ customers' = IF effect = "created" THEN customers \cup {k} ELSE customers
  /\ Record(k, effect, v)
  /\ UNCHANGED voiced

Voice(v) ==
  /\ v \notin voiced
  /\ voiced' = voiced \cup {v}
  /\ Record(v, "asset", 0)
  /\ UNCHANGED <<version, customers, effects>>

Next ==
  \/ \E k \in Keys : \/ TakeEffect(k, "updated", version + 1)
                     \/ TakeEffect(k, "created", 1)
                     \/ TakeEffect(k, "needs_review", 0)
  \/ \E v \in VoiceKeys : Voice(v)

Spec == Init /\ [][Next]_<<version, customers, effects, voiced, log>>
=============================================================================
