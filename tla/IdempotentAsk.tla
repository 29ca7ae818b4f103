---------------------------- MODULE IdempotentAsk ----------------------------
(***************************************************************************)
(* What POST /v1/ask promises its clients, without interactions, handlers, *)
(* checkpoints, providers or speech.  The first request under a key claims *)
(* it for its content.  The key has at most one effect, taken in one step  *)
(* with its event, and one outcome, which is final: the answer that shows  *)
(* the effect, or a failure.  Nothing takes effect under a key after its   *)
(* outcome is settled.  A request is told once: the outcome of its key, if *)
(* it is about the content of the key, or some failure that does not bind  *)
(* anybody.  A key may never be settled, after a crash.                    *)
(***************************************************************************)
EXTENDS Naturals

CONSTANTS Requests, Keys, Payloads, Deals, Codes, None

VARIABLES
  key, payload,      \* what each request asks for
  claim,             \* the content a key stands for, or None
  effect,            \* the result of the effect of a key, or NoEffect
  outcome,           \* what is settled about a key
  told,              \* what a request was told
  deals, customers,  \* the CRM: versions of deals, customers made by a key
  events             \* events about the effect of a key

asks == <<key, payload>>
crm == <<effect, deals, customers, events>>

NoEffect == [action |-> "none", deal |-> None, version |-> 0]
Open == [status |-> "open"]
Failed(c) == [status |-> "failed", code |-> c]
EffectEvents == {"command.committed", "review.requested"}

Init ==
  /\ key \in [Requests -> Keys] /\ payload \in [Requests -> Payloads]
  /\ claim = [k \in Keys |-> None]
  /\ effect = [k \in Keys |-> NoEffect]
  /\ outcome = [k \in Keys |-> Open]
  /\ told = [r \in Requests |-> Open]
  /\ deals = [d \in Deals |-> 1]
  /\ customers = [k \in Keys |-> 0]
  /\ events = [k \in Keys |-> [type \in EffectEvents |-> 0]]

Tell(r, answer) == told' = [told EXCEPT ![r] = answer]

Refuse(r) ==
  /\ UNCHANGED <<asks, claim, outcome, crm>>
  /\ \E c \in Codes : Tell(r, Failed(c))

\* The client can be told of an error although its claim is on record.
Claim(r) ==
  /\ claim[key[r]] = None
  /\ claim' = [claim EXCEPT ![key[r]] = payload[r]]
  /\ UNCHANGED told \/ \E c \in Codes : Tell(r, Failed(c))
  /\ UNCHANGED <<asks, outcome, crm>>

IsPending(r) == claim[key[r]] = payload[r] /\ outcome[key[r]] = Open

TakeEffect(r, done, type) ==
  /\ IsPending(r) /\ effect[key[r]] = NoEffect
  /\ effect' = [effect EXCEPT ![key[r]] = done]
  /\ events' = [events EXCEPT ![key[r]][type] = @ + 1]
  /\ UNCHANGED <<asks, claim, outcome, told>>

UpdateStage(r, d) ==
  /\ TakeEffect(r, [action |-> "updated", deal |-> d, version |-> deals[d] + 1],
                "command.committed")
  /\ deals' = [deals EXCEPT ![d] = @ + 1]
  /\ UNCHANGED customers

CreateCustomer(r) ==
  /\ TakeEffect(r, [action |-> "created", deal |-> None, version |-> 1],
                "command.committed")
  /\ customers' = [customers EXCEPT ![key[r]] = @ + 1]
  /\ UNCHANGED deals

OnlyRead(r) ==
  /\ TakeEffect(r, [action |-> "read_only", deal |-> None, version |-> 0],
                "command.committed")
  /\ UNCHANGED <<deals, customers>>

RequestReview(r) ==
  /\ TakeEffect(r, [action |-> "needs_review", deal |-> None, version |-> 1],
                "review.requested")
  /\ UNCHANGED <<deals, customers>>

\* The one who settles a key is told in the same step, or not at all.
Settle(r, answer) ==
  /\ IsPending(r)
  /\ outcome' = [outcome EXCEPT ![key[r]] = answer]
  /\ UNCHANGED told \/ Tell(r, answer)
  /\ UNCHANGED <<asks, claim, crm>>

\* A success shows the effect of the key.
Succeed(r) ==
  /\ effect[key[r]] # NoEffect
  /\ LET done == effect[key[r]]
         status == IF done.action = "needs_review" THEN "needs_review" ELSE "completed"
     IN Settle(r, [by |-> r, status |-> status, result |-> done])

Fail(r) == \E c \in Codes : Settle(r, Failed(c))

Replay(r) ==
  /\ claim[key[r]] = payload[r] /\ outcome[key[r]] # Open
  /\ Tell(r, outcome[key[r]])
  /\ UNCHANGED <<asks, claim, outcome, crm>>

\* Whoever has been told is done with.
Serve(r) ==
  /\ told[r] = Open
  /\ \/ Refuse(r) \/ Claim(r)
     \/ \E d \in Deals : UpdateStage(r, d)
     \/ CreateCustomer(r) \/ OnlyRead(r) \/ RequestReview(r)
     \/ Succeed(r) \/ Fail(r) \/ Replay(r)

Next == \E r \in Requests : Serve(r)

Spec == Init /\ [][Next]_<<asks, claim, outcome, told, crm>>
=============================================================================
