----------------------------- MODULE MemoryStore -----------------------------
(***************************************************************************)
(* CrmStore of src/store.mjs, the store without a database, under the      *)
(* handlers of POST /v1/ask and POST /v1/tts/synthesize.  Its methods are  *)
(* synchronous, so a call is one step and the handlers interleave between  *)
(* calls; nothing outlives the process, so there is no crash.  What a call *)
(* can do wrong is to throw halfway: every event is validated against the  *)
(* published schema, and there is no transaction to roll back.  One tenant *)
(* and the one deal the constructor makes.                                 *)
(***************************************************************************)
EXTENDS Naturals, Sequences

CONSTANTS
  Requests,       \* executions of the ask handler
  Speeches,       \* executions of the tts handler
  Keys,           \* idempotency keys
  Payloads,       \* request contents, told apart by their fingerprint
  SpokenPayloads, \* the asks whose answer is also audio
  None

ASSUME SpokenAssumption == SpokenPayloads \subseteq Payloads
ASSUME NoneAssumption == None \notin Keys \cup Payloads \cup Requests \cup Speeches

VARIABLES
  asks,      \* what every ask is doing
  speeches,  \* what every tts request is doing
  rows,      \* #interactions
  commands,  \* #idempotency
  reviews,   \* #reviewIdempotency, and the review it names in #reviews
  voices,    \* #tts, and the asset it names in #assets
  deal,      \* version of the deal
  customers, \* the keys whose command made a customer in #customers
  events     \* #events; #outbox and #audits are pushed in the same call

crm == <<commands, reviews, deal, customers>>
vars == <<asks, speeches, rows, crm, voices, events>>

Intents == {"update", "update_unknown", "create", "read"}
Understandings == [intent : Intents, confirm : BOOLEAN]
NoUnderstanding == [intent |-> "read", confirm |-> FALSE]

Results == [effect : {"updated", "created", "read_only", "needs_review"}, version : Nat]
NoResult == [effect |-> "read_only", version |-> 0]

AskSteps == {"idle", "intent", "effect", "speak", "complete", "fail", "done", "failed"}
NoAsk == [step |-> "idle", key |-> None, payload |-> None,
          understood |-> NoUnderstanding, result |-> NoResult]
NoSpeech == [step |-> "idle", key |-> None, payload |-> None, asset |-> None]

NoRow == [status |-> "absent", payload |-> None, result |-> NoResult]
NoEntry == [payload |-> None, result |-> NoResult]
NoVoice == [payload |-> None, asset |-> None]

\* The audio of an ask has a key of its own, made from the ask's.
VoiceKeys == {"ask", "tts"} \X Keys

Init ==
  /\ asks = [r \in Requests |-> NoAsk]
  /\ speeches = [s \in Speeches |-> NoSpeech]
  /\ rows = [k \in Keys |-> NoRow]
  /\ commands = [k \in Keys |-> NoEntry]
  /\ reviews = [k \in Keys |-> NoEntry]
  /\ voices = [v \in VoiceKeys |-> NoVoice]
  /\ deal = 1
  /\ customers = {}
  /\ events = <<>>

-----------------------------------------------------------------------------
(* An ask up to its effect *)

Goto(r, step) == asks' = [asks EXCEPT ![r].step = step]
Throw(r) == asks' = [asks EXCEPT ![r].step = "fail", ![r].understood = NoUnderstanding,
                       ![r].result = NoResult]

\* Mutant: only an interaction with an answer is looked up.
PreviousAnswered(k) == rows[k].status \in {"completed", "needs_review"}

\* A row of this key, whatever became of it, keeps a second one from being begun.
Previous(k) == rows[k].status # "absent"

BeginInteraction(r) ==
  /\ asks[r].step = "idle"
  /\ \E k \in Keys, p \in Payloads :
       LET begun == [NoAsk EXCEPT !.key = k, !.payload = p]
       IN \/ /\ ~Previous(k)
             /\ rows' = [rows EXCEPT ![k] = [NoRow EXCEPT !.status = "processing", !.payload = p]]
             /\ asks' = [asks EXCEPT ![r] = [begun EXCEPT !.step = "intent"]]
          \/ /\ Previous(k)
             /\ asks' = [asks EXCEPT ![r] =
                  IF rows[k].payload = p /\ rows[k].status \in {"completed", "needs_review"}
                  THEN [begun EXCEPT !.step = "done", !.result = rows[k].result]
                  ELSE [begun EXCEPT !.step = "failed"]]
             /\ UNCHANGED rows
  /\ UNCHANGED <<speeches, crm, voices, events>>

\* The audio, the transcript and the understanding only add to what the row
\* remembers; the storage or a provider can fail.
Understand(r) ==
  /\ asks[r].step = "intent"
  /\ \/ \E u \in Understandings :
          asks' = [asks EXCEPT ![r].step = "effect", ![r].understood = u]
     \/ Throw(r)
  /\ UNCHANGED <<speeches, rows, crm, voices, events>>

-----------------------------------------------------------------------------
(* execute, createReview and recordTts *)

Return(r, result) ==
  asks' = [asks EXCEPT ![r].result = result, ![r].understood = NoUnderstanding,
             ![r].step = IF result.effect # "needs_review" /\ @ = "effect"
                            /\ asks[r].payload \in SpokenPayloads
                         THEN "speak" ELSE "complete"]

\* The same request is told what its key was used for, any other an error.
Replay(r, entry) ==
  /\ IF entry.payload = asks[r].payload THEN Return(r, entry.result) ELSE Throw(r)
  /\ UNCHANGED <<crm, events>>

Publish(k, effect, v) ==
  events' = Append(events, [key |-> k, effect |-> effect, version |-> v])

\* What both #commit and createReview do once their event is valid.
Entered(entries, r, result) ==
  /\ entries' = [entries EXCEPT ![asks[r].key] = [payload |-> asks[r].payload, result |-> result]]
  /\ Publish(asks[r].key, result.effect, result.version)
  /\ Return(r, result)

\* An event that is not valid: nothing has been published.
Invalid(r) == Throw(r) /\ UNCHANGED <<commands, reviews, events>>

\* Mutant: what execute had changed stays when the commit throws.
Kept(before, changed) == changed

\* execute takes its change back when the commit throws.
Restored(before, changed) == before

UpdateStage(r) ==
  /\ \/ /\ Entered(commands, r, [effect |-> "updated", version |-> deal + 1])
        /\ deal' = deal + 1 /\ UNCHANGED reviews
     \/ Invalid(r) /\ deal' = Restored(deal, deal + 1)
  /\ UNCHANGED customers

CreateCustomer(r) ==
  /\ LET made == customers \cup {asks[r].key}
     IN \/ /\ Entered(commands, r, [effect |-> "created", version |-> 1])
           /\ customers' = made /\ UNCHANGED reviews
        \/ Invalid(r) /\ customers' = Restored(customers, made)
  /\ UNCHANGED deal

\* A read leaves no entry behind, a deal that is not there is a conflict.
ChangeNothing(r) ==
  /\ IF asks[r].understood.intent = "read" THEN Return(r, NoResult) ELSE Throw(r)
  /\ UNCHANGED <<crm, events>>

Execute(r) ==
  /\ asks[r].step = "effect" /\ ~asks[r].understood.confirm
  /\ IF commands[asks[r].key] # NoEntry THEN Replay(r, commands[asks[r].key])
     ELSE CASE asks[r].understood.intent = "update" -> UpdateStage(r)
            [] asks[r].understood.intent = "create" -> CreateCustomer(r)
            [] OTHER -> ChangeNothing(r)
  /\ UNCHANGED <<speeches, rows, voices>>

CreateReview(r) ==
  /\ asks[r].step = "effect" /\ asks[r].understood.confirm
  /\ IF reviews[asks[r].key] # NoEntry THEN Replay(r, reviews[asks[r].key])
     ELSE /\ \/ Entered(reviews, r, [effect |-> "needs_review", version |-> 0]) /\ UNCHANGED commands
             \/ Invalid(r)
          /\ UNCHANGED <<deal, customers>>
  /\ UNCHANGED <<speeches, rows, voices>>

\* Mutant: the asset of a later call replaces the first one.
NewestVoice(v, voice) == voice

\* The voice of a key is the first one recorded.
FirstVoice(v, voice) == IF voices[v] # NoVoice THEN voices[v] ELSE voice

RecordTts(v, voice) ==
  /\ voices' = [voices EXCEPT ![v] = FirstVoice(v, voice)]
  /\ IF voices[v] = NoVoice THEN Publish(v, "asset", 0) ELSE UNCHANGED events

Speak(r) ==
  /\ asks[r].step = "speak"
  /\ \/ /\ RecordTts(<<"ask", asks[r].key>>, [payload |-> asks[r].payload, asset |-> r])
        /\ Goto(r, "complete")
     \/ Throw(r) /\ UNCHANGED <<voices, events>>
  /\ UNCHANGED <<speeches, rows, crm>>

-----------------------------------------------------------------------------
(* The end of an ask *)

\* The answer is validated, recorded and sent.
CompleteInteraction(r) ==
  /\ asks[r].step = "complete"
  /\ \/ /\ rows' = [rows EXCEPT ![asks[r].key].result = asks[r].result,
                      ![asks[r].key].status = IF asks[r].result.effect = "needs_review"
                                              THEN "needs_review" ELSE "completed"]
        /\ Goto(r, "done")
     \/ Throw(r) /\ UNCHANGED rows
  /\ UNCHANGED <<speeches, crm, voices, events>>

FailInteraction(r) ==
  /\ asks[r].step = "fail"
  /\ rows' = [rows EXCEPT ![asks[r].key].status = IF @ = "processing" THEN "failed" ELSE @]
  /\ Goto(r, "failed")
  /\ UNCHANGED <<speeches, crm, voices, events>>

-----------------------------------------------------------------------------
(* POST /v1/tts/synthesize *)

Tell(s, k, p, voice) ==
  speeches' = [speeches EXCEPT ![s] =
    IF voice.payload = p THEN [step |-> "done", key |-> k, payload |-> p, asset |-> voice.asset]
    ELSE [step |-> "failed", key |-> k, payload |-> p, asset |-> None]]

ReplayTts(s) ==
  /\ speeches[s].step = "idle"
  /\ \E k \in Keys, p \in Payloads :
       IF voices[<<"tts", k>>] # NoVoice THEN Tell(s, k, p, voices[<<"tts", k>>])
       ELSE speeches' = [speeches EXCEPT ![s] =
              [step |-> "speak", key |-> k, payload |-> p, asset |-> None]]
  /\ UNCHANGED <<asks, rows, crm, voices, events>>

\* Another request with this key can have been recorded in the meantime.
Synthesize(s) ==
  /\ speeches[s].step = "speak"
  /\ LET k == speeches[s].key
         p == speeches[s].payload
         made == [payload |-> p, asset |-> s]
     IN \/ /\ voices[<<"tts", k>>].payload \in {None, p}
           /\ RecordTts(<<"tts", k>>, made)
           /\ Tell(s, k, p, FirstVoice(<<"tts", k>>, made))
        \/ /\ speeches' = [speeches EXCEPT ![s].step = "failed"]
           /\ UNCHANGED <<voices, events>>
  /\ UNCHANGED <<asks, rows, crm>>

AskStep(r) ==
  \/ BeginInteraction(r) \/ Understand(r) \/ Execute(r) \/ CreateReview(r)
  \/ Speak(r) \/ CompleteInteraction(r) \/ FailInteraction(r)

\* Every request has been answered.
Terminated ==
  /\ \A r \in Requests : asks[r].step \in {"done", "failed"}
  /\ \A s \in Speeches : speeches[s].step \in {"done", "failed"}
  /\ UNCHANGED vars

Next ==
  \/ \E r \in Requests : AskStep(r)
  \/ \E s \in Speeches : ReplayTts(s) \/ Synthesize(s)
  \/ Terminated

Spec == Init /\ [][Next]_vars

-----------------------------------------------------------------------------
(* Properties *)

Entries == [payload : Payloads, result : Results]

TypeOK ==
  /\ asks \in [Requests -> [step : AskSteps, key : Keys \cup {None},
                            payload : Payloads \cup {None},
                            understood : Understandings, result : Results]]
  /\ speeches \in [Speeches -> [step : {"idle", "speak", "done", "failed"},
                                key : Keys \cup {None}, payload : Payloads \cup {None},
                                asset : Requests \cup Speeches \cup {None}]]
  /\ rows \in [Keys -> [status : {"absent", "processing", "completed", "needs_review", "failed"},
                        payload : Payloads \cup {None}, result : Results]]
  /\ commands \in [Keys -> Entries \cup {NoEntry}]
  /\ reviews \in [Keys -> Entries \cup {NoEntry}]
  /\ voices \in [VoiceKeys -> [payload : Payloads, asset : Requests \cup Speeches] \cup {NoVoice}]
  /\ deal \in Nat
  /\ customers \subseteq Keys
  /\ events \in Seq([key : Keys \cup VoiceKeys,
                     effect : {"updated", "created", "needs_review", "asset"}, version : Nat])

\* The store keeps what the ledger promises: whatever throws halfway and
\* however the handlers interleave, a key has one effect, the change and its
\* event are there together or not at all, and the deal's events count its
\* versions.
EffectOf(k) ==
  IF commands[k] # NoEntry THEN commands[k].result.effect
  ELSE IF reviews[k] # NoEntry THEN "needs_review" ELSE "none"

Ledger == INSTANCE CrmLedger WITH
  version <- deal, effects <- [k \in Keys |-> EffectOf(k)],
  voiced <- {v \in VoiceKeys : voices[v] # NoVoice}, log <- events

KeepsLedger == Ledger!Spec

\* All asks that are answered under one key sent the same and are told the
\* same, however they overlapped.
OneAnswerPerKey ==
  \A q, r \in Requests :
    asks[q].step = "done" /\ asks[r].step = "done" /\ asks[q].key = asks[r].key =>
      asks[q].payload = asks[r].payload /\ asks[q].result = asks[r].result

\* All tts requests that are answered under one key are given the same asset,
\* those too that looked for it before it was there and made another.
OneVoicePerKey ==
  \A s, t \in Speeches :
    speeches[s].step = "done" /\ speeches[t].step = "done"
      /\ speeches[s].key = speeches[t].key =>
        speeches[s].payload = speeches[t].payload /\ speeches[s].asset = speeches[t].asset
=============================================================================
