-------------------------- MODULE MemoryStoreProofs --------------------------
(* Theorems about MemoryStore, for any requests, keys and payloads.           *)
EXTENDS MemoryStore, TLAPS

Working == {"intent", "effect", "speak", "complete", "fail"}
Undecided == {"intent", "effect"}
Answered == {"completed", "needs_review"}

\* Whoever works on a key has begun its row and is the only one who has.
OneWorksOnAKey ==
  /\ \A r \in Requests : asks[r].step \in Working =>
       /\ asks[r].key \in Keys /\ asks[r].payload \in Payloads
       /\ rows[asks[r].key].status = "processing"
       /\ rows[asks[r].key].payload = asks[r].payload
  /\ \A q, r \in Requests :
       asks[q].step \in Working /\ asks[r].step \in Working /\ asks[q].key = asks[r].key => q = r

Unused(k) == commands[k] = NoEntry /\ reviews[k] = NoEntry

\* A key has no effect before its row is begun, nor until its ask decides.
NoEffectYet ==
  /\ \A k \in Keys : rows[k].status = "absent" => Unused(k)
  /\ \A r \in Requests : asks[r].step \in Undecided => Unused(asks[r].key)

\* An answer is the one in the row of its key.
AnswersAreRows ==
  \A r \in Requests : asks[r].step = "done" =>
    /\ asks[r].key \in Keys /\ rows[asks[r].key].status \in Answered
    /\ rows[asks[r].key].payload = asks[r].payload
    /\ rows[asks[r].key].result = asks[r].result

\* An asset handed out is the voice of its key.
VoicesAreRecorded ==
  \A s \in Speeches :
    /\ speeches[s].step = "speak" => speeches[s].key \in Keys /\ speeches[s].payload \in Payloads
    /\ speeches[s].step = "done" =>
         /\ speeches[s].key \in Keys /\ speeches[s].payload \in Payloads
         /\ voices[<<"tts", speeches[s].key>>] =
              [payload |-> speeches[s].payload, asset |-> speeches[s].asset]

IInv == TypeOK /\ OneWorksOnAKey /\ NoEffectYet /\ AnswersAreRows /\ VoicesAreRecorded

AskRecords == [step : AskSteps, key : Keys \cup {None}, payload : Payloads \cup {None},
               understood : Understandings, result : Results]

-----------------------------------------------------------------------------
\* Changing one field of an ask keeps the record typed and its other fields.
LEMMA FieldFacts ==
  ASSUME NEW ask \in AskRecords
  PROVE  /\ \A x \in AskSteps : LET new == [ask EXCEPT !.step = x]
            IN /\ new \in AskRecords /\ new.step = x /\ new.key = ask.key
               /\ new.payload = ask.payload /\ new.result = ask.result
         /\ \A x \in Understandings : LET new == [ask EXCEPT !.understood = x]
            IN /\ new \in AskRecords /\ new.step = ask.step /\ new.key = ask.key
               /\ new.payload = ask.payload /\ new.result = ask.result
         /\ \A x \in Results : LET new == [ask EXCEPT !.result = x]
            IN /\ new \in AskRecords /\ new.step = ask.step /\ new.key = ask.key
               /\ new.payload = ask.payload /\ new.result = x
BY DEF AskRecords

\* The values an ask starts from are of the types its record names.
LEMMA ConstantTypes ==
  /\ NoUnderstanding \in Understandings /\ NoResult \in Results
  /\ {"intent", "effect", "speak", "complete", "fail", "done", "failed"} \subseteq AskSteps
BY DEF NoUnderstanding, Understandings, Intents, NoResult, Results, AskSteps

\* An ask is only ever moved by its own steps, which keep its key and payload.
LEMMA ThrowFacts ==
  ASSUME TypeOK, NEW r \in Requests, Throw(r)
  PROVE  /\ asks' \in [Requests -> AskRecords]
         /\ \A q \in Requests : q # r => asks'[q] = asks[q]
         /\ asks'[r].key = asks[r].key /\ asks'[r].payload = asks[r].payload
         /\ asks'[r].step = "fail"
<1>1. asks \in [Requests -> AskRecords]
  BY DEF TypeOK, AskRecords
<1> DEFINE a == [asks[r] EXCEPT !.step = "fail"]
           b == [a EXCEPT !.understood = NoUnderstanding]
           c == [b EXCEPT !.result = NoResult]
<1>2. asks' = [asks EXCEPT ![r] = c]
  BY <1>1 DEF Throw
<1>3. a \in AskRecords /\ a.step = "fail" /\ a.key = asks[r].key /\ a.payload = asks[r].payload
  BY <1>1, FieldFacts, ConstantTypes
<1> HIDE DEF a
<1>4. b \in AskRecords /\ b.step = "fail" /\ b.key = asks[r].key /\ b.payload = asks[r].payload
  BY <1>3, FieldFacts, ConstantTypes
<1> HIDE DEF b
<1>5. c \in AskRecords /\ c.step = "fail" /\ c.key = asks[r].key /\ c.payload = asks[r].payload
  BY <1>4, FieldFacts, ConstantTypes
<1> HIDE DEF c
<1> QED BY <1>1, <1>2, <1>5

\* The same of an ask that goes on to its next await.
LEMMA GotoFacts ==
  ASSUME TypeOK, NEW r \in Requests, NEW step \in AskSteps, Goto(r, step)
  PROVE  /\ asks' \in [Requests -> AskRecords]
         /\ \A q \in Requests : q # r => asks'[q] = asks[q]
         /\ asks'[r].key = asks[r].key /\ asks'[r].payload = asks[r].payload
         /\ asks'[r].result = asks[r].result /\ asks'[r].step = step
BY DEF Goto, TypeOK, AskRecords

\* And of one that is given the result of its command.
LEMMA ReturnFacts ==
  ASSUME TypeOK, NEW r \in Requests, NEW result \in Results, Return(r, result)
  PROVE  /\ asks' \in [Requests -> AskRecords]
         /\ \A q \in Requests : q # r => asks'[q] = asks[q]
         /\ asks'[r].key = asks[r].key /\ asks'[r].payload = asks[r].payload
         /\ asks'[r].step \in {"speak", "complete"}
<1>1. asks \in [Requests -> AskRecords]
  BY DEF TypeOK, AskRecords
<1>2. PICK step \in {"speak", "complete"} :
        asks' = [asks EXCEPT ![r].result = result, ![r].understood = NoUnderstanding, ![r].step = step]
  BY DEF Return
<1> DEFINE a == [asks[r] EXCEPT !.result = result]
           b == [a EXCEPT !.understood = NoUnderstanding]
           c == [b EXCEPT !.step = step]
<1>3. asks' = [asks EXCEPT ![r] = c]
  BY <1>1, <1>2
<1>4. a \in AskRecords /\ a.key = asks[r].key /\ a.payload = asks[r].payload
  BY <1>1, FieldFacts
<1> HIDE DEF a
<1>5. b \in AskRecords /\ b.key = asks[r].key /\ b.payload = asks[r].payload
  BY <1>4, FieldFacts, ConstantTypes
<1> HIDE DEF b
<1>6. c \in AskRecords /\ c.step = step /\ c.key = asks[r].key /\ c.payload = asks[r].payload
  BY <1>5, FieldFacts, ConstantTypes
<1> HIDE DEF c
<1> QED BY <1>1, <1>3, <1>6

\* An ask that leaves the rows alone stays the one who works on its key.
LEMMA WorkGoesOn ==
  ASSUME IInv, TypeOK', NEW r \in Requests, asks[r].step \in Working,
         \A q \in Requests : q # r => asks'[q] = asks[q],
         asks'[r].key = asks[r].key, asks'[r].payload = asks[r].payload,
         asks'[r].step \in {"effect", "speak", "complete", "fail"},
         UNCHANGED <<rows, speeches>>,
         \A k \in Keys : k # asks[r].key \/ asks'[r].step \in Undecided =>
           commands'[k] = commands[k] /\ reviews'[k] = reviews[k],
         asks'[r].step \in Undecided => asks[r].step \in Undecided,
         \A v \in VoiceKeys : voices[v] # NoVoice => voices'[v] = voices[v]
  PROVE  IInv'
<1>1. OneWorksOnAKey'
  BY DEF IInv, OneWorksOnAKey, Working
<1>2. asks[r].key \in Keys /\ rows[asks[r].key].status = "processing"
  BY DEF IInv, OneWorksOnAKey
<1>3. NoEffectYet'
  <2>1. ASSUME NEW k \in Keys, rows[k].status = "absent" PROVE Unused(k)'
    BY <1>2, <2>1 DEF IInv, NoEffectYet, Unused
  <2>2. ASSUME NEW q \in Requests, asks'[q].step \in Undecided PROVE Unused(asks[q].key)'
    <3>1. CASE q = r
      BY <1>2, <2>2, <3>1 DEF IInv, NoEffectYet, Unused
    <3>2. CASE q # r
      <4>1. asks'[q] = asks[q] /\ asks[q].step \in Working /\ asks[q].key \in Keys
        BY <2>2, <3>2 DEF IInv, OneWorksOnAKey, Undecided, Working
      <4>2. asks[q].key # asks[r].key
        BY <3>2, <4>1 DEF IInv, OneWorksOnAKey
      <4> QED BY <2>2, <4>1, <4>2 DEF IInv, NoEffectYet, Unused
    <3> QED BY <3>1, <3>2
  <2> QED BY <2>1, <2>2 DEF NoEffectYet, Unused
<1>4. AnswersAreRows'
  BY DEF IInv, AnswersAreRows
<1>5. VoicesAreRecorded'
  BY NoneAssumption DEF IInv, VoicesAreRecorded, NoVoice, VoiceKeys
<1> QED BY <1>1, <1>3, <1>4, <1>5 DEF IInv

EventRecords == [key : Keys \cup VoiceKeys, effect : {"updated", "created", "needs_review", "asset"},
                 version : Nat]

\* An event that is published is of the type of the list.
LEMMA PublishFacts ==
  ASSUME TypeOK, NEW k \in Keys \cup VoiceKeys, NEW v \in Nat,
         NEW effect \in {"updated", "created", "needs_review", "asset"}, Publish(k, effect, v)
  PROVE  events' \in Seq(EventRecords)
<1>1. [key |-> k, effect |-> effect, version |-> v] \in EventRecords
  BY DEF EventRecords
<1>2. events \in Seq(EventRecords)
  BY DEF TypeOK, EventRecords
<1> QED BY <1>1, <1>2 DEF Publish

\* Only entries and results of their types are ever recorded.
LEMMA EntryTypes ==
  ASSUME NEW p \in Payloads, NEW result \in Results
  PROVE  /\ [payload |-> p, result |-> result] \in Entries
         /\ [payload |-> p, result |-> result] # NoEntry
BY NoneAssumption DEF Entries, NoEntry

\* Whoever decides works on a key that has had no effect.
LEMMA UndecidedFacts ==
  ASSUME IInv, NEW r \in Requests, asks[r].step \in Undecided
  PROVE  /\ asks[r].step \in Working /\ asks[r].key \in Keys /\ asks[r].payload \in Payloads
         /\ commands[asks[r].key] = NoEntry /\ reviews[asks[r].key] = NoEntry
         /\ EffectOf(asks[r].key) = "none"
BY DEF IInv, OneWorksOnAKey, NoEffectYet, Unused, Undecided, Working, EffectOf

-----------------------------------------------------------------------------
(* The abstract ledger.  Its variables are expressions over the store's, which *)
(* are named here as the instance defines them.                               *)

Effects == [k \in Keys |-> EffectOf(k)]
Voiced == {v \in VoiceKeys : voices[v] # NoVoice}
ledger == <<deal, customers, Effects, Voiced, events>>

\* An entry made under an unused key is an effect of the ledger.
LEMMA EntryTakesEffect ==
  ASSUME TypeOK, NEW k \in Keys, NEW effect, NEW v, EffectOf(k) = "none",
         \A j \in Keys : EffectOf(j)' = IF j = k THEN effect ELSE EffectOf(j),
         deal' = IF effect = "updated" THEN v ELSE deal,
         customers' = IF effect = "created" THEN customers \cup {k} ELSE customers,
         Publish(k, effect, v), UNCHANGED voices
  PROVE  Ledger!TakeEffect(k, effect, v)
<1>1. Effects[k] = "none"
  BY DEF Effects
<1>2. Effects' = [Effects EXCEPT ![k] = effect]
  <2>1. \A j \in Keys : Effects'[j] = IF j = k THEN effect ELSE Effects[j]
    BY DEF Effects
  <2>2. DOMAIN Effects = Keys /\ DOMAIN Effects' = Keys
    BY DEF Effects
  <2>3. Effects' = [j \in Keys |-> Effects'[j]]
    BY DEF Effects
  <2> QED BY <2>1, <2>2, <2>3
<1>3. UNCHANGED Voiced
  BY DEF Voiced
<1>4. events' = Append(events, [key |-> k, effect |-> effect, version |-> v])
  BY DEF Publish
<1> QED BY <1>1, <1>2, <1>3, <1>4 DEF Ledger!TakeEffect, Ledger!Record, Effects, Voiced

\* A voice that is recorded first is an effect of the ledger; later ones are none.
LEMMA VoiceIsRecorded ==
  ASSUME TypeOK, NEW v \in VoiceKeys, NEW voice, voice # NoVoice, RecordTts(v, voice),
         UNCHANGED crm
  PROVE  Ledger!Voice(v) \/ UNCHANGED ledger
<1>1. UNCHANGED <<deal, customers, Effects>>
  BY DEF crm, Effects, EffectOf
<1>2. CASE voices[v] # NoVoice
  <2>1. voices' = voices /\ UNCHANGED events
    BY <1>2 DEF RecordTts, FirstVoice, TypeOK
  <2> QED BY <1>1, <2>1 DEF ledger, Voiced
<1>3. CASE voices[v] = NoVoice
  <2>1. \A w \in VoiceKeys : voices'[w] = IF w = v THEN voice ELSE voices[w]
    BY <1>3 DEF RecordTts, FirstVoice, TypeOK
  <2>2. v \notin Voiced /\ Voiced' = Voiced \cup {v}
    BY <1>3, <2>1 DEF Voiced
  <2>3. events' = Append(events, [key |-> v, effect |-> "asset", version |-> 0])
    BY <1>3 DEF RecordTts, Publish
  <2> QED BY <1>1, <2>2, <2>3 DEF Ledger!Voice, Ledger!Record, Effects, Voiced
<1> QED BY <1>2, <1>3

LedgerStep == Ledger!Next \/ UNCHANGED ledger

-----------------------------------------------------------------------------
(* One lemma for each action: it keeps the invariant and is a step of the      *)
(* ledger, or none.                                                           *)

\* Understanding moves one ask and no map of the store.
LEMMA UnderstandKeeps ==
  ASSUME IInv, NEW r \in Requests, Understand(r)
  PROVE  IInv' /\ LedgerStep
<1>1. /\ asks[r].step = "intent" /\ UNCHANGED <<speeches, rows, crm, voices, events>>
      /\ asks \in [Requests -> AskRecords]
  BY DEF Understand, IInv, TypeOK, AskRecords
<1>2. /\ asks' \in [Requests -> AskRecords]
      /\ \A q \in Requests : q # r => asks'[q] = asks[q]
      /\ asks'[r].key = asks[r].key /\ asks'[r].payload = asks[r].payload
      /\ asks'[r].step \in {"effect", "fail"}
  <2>1. CASE Throw(r)
    BY <2>1, ThrowFacts DEF IInv
  <2>2. ASSUME NEW u \in Understandings,
               asks' = [asks EXCEPT ![r].step = "effect", ![r].understood = u]
        PROVE  <1>2!1 /\ <1>2!2 /\ <1>2!3 /\ <1>2!4
    <3> DEFINE a == [asks[r] EXCEPT !.step = "effect"]
               b == [a EXCEPT !.understood = u]
    <3>1. asks' = [asks EXCEPT ![r] = b]
      BY <1>1, <2>2
    <3>2. a \in AskRecords /\ a.step = "effect" /\ a.key = asks[r].key /\ a.payload = asks[r].payload
      BY <1>1, FieldFacts, ConstantTypes
    <3> HIDE DEF a
    <3>3. b \in AskRecords /\ b.step = "effect" /\ b.key = asks[r].key /\ b.payload = asks[r].payload
      BY <3>2, FieldFacts
    <3> HIDE DEF b
    <3> QED BY <1>1, <3>1, <3>3
  <2> QED BY <2>1, <2>2 DEF Understand
<1>3. TypeOK'
  BY <1>1, <1>2 DEF IInv, TypeOK, AskRecords, crm
<1>4. IInv'
  BY <1>1, <1>2, <1>3, WorkGoesOn DEF Working, Undecided, crm
<1>5. UNCHANGED ledger
  BY <1>1 DEF ledger, Effects, EffectOf, Voiced, crm
<1> QED BY <1>4, <1>5 DEF LedgerStep

\* The invariant after a decision: the ask goes on, and no entry but the one of
\* its key may have changed.
LEMMA DecisionKeeps ==
  ASSUME IInv, TypeOK', NEW r \in Requests, asks[r].step = "effect",
         \A q \in Requests : q # r => asks'[q] = asks[q],
         asks'[r].key = asks[r].key, asks'[r].payload = asks[r].payload,
         asks'[r].step \in {"speak", "complete", "fail"},
         UNCHANGED <<speeches, rows, voices>>,
         \A k \in Keys : k # asks[r].key => commands'[k] = commands[k] /\ reviews'[k] = reviews[k]
  PROVE  IInv'
BY WorkGoesOn DEF Working, Undecided

\* A decision that throws, or reads, changes nothing.
LEMMA NothingDecided ==
  ASSUME IInv, NEW r \in Requests, asks[r].step = "effect",
         Throw(r) \/ Return(r, NoResult), UNCHANGED <<speeches, rows, crm, voices, events>>
  PROVE  IInv' /\ LedgerStep
<1>1. /\ asks' \in [Requests -> AskRecords]
      /\ \A q \in Requests : q # r => asks'[q] = asks[q]
      /\ asks'[r].key = asks[r].key /\ asks'[r].payload = asks[r].payload
      /\ asks'[r].step \in {"speak", "complete", "fail"}
  BY ThrowFacts, ReturnFacts, ConstantTypes DEF IInv
<1>2. TypeOK'
  BY <1>1 DEF IInv, TypeOK, AskRecords, crm
<1>3. IInv'
  BY <1>1, <1>2, DecisionKeeps DEF crm
<1>4. UNCHANGED ledger
  BY DEF ledger, Effects, EffectOf, Voiced, crm
<1> QED BY <1>3, <1>4 DEF LedgerStep

\* An update or a new customer: the change, the entry and the event are there
\* together.
LEMMA CommandEntered ==
  ASSUME IInv, NEW r \in Requests, asks[r].step = "effect",
         NEW effect \in {"updated", "created"}, NEW v \in Nat,
         Entered(commands, r, [effect |-> effect, version |-> v]),
         deal' = IF effect = "updated" THEN v ELSE deal,
         customers' = IF effect = "created" THEN customers \cup {asks[r].key} ELSE customers,
         v = IF effect = "updated" THEN deal + 1 ELSE 1,
         UNCHANGED <<speeches, rows, reviews, voices>>
  PROVE  IInv' /\ LedgerStep
<1> DEFINE k == asks[r].key
           result == [effect |-> effect, version |-> v]
           entry == [payload |-> asks[r].payload, result |-> result]
<1>1. /\ k \in Keys /\ asks[r].payload \in Payloads /\ EffectOf(k) = "none"
      /\ result \in Results
  BY UndecidedFacts DEF Undecided, Results
<1>2. entry \in Entries /\ entry # NoEntry
  BY <1>1, EntryTypes
<1>3. /\ asks' \in [Requests -> AskRecords]
      /\ \A q \in Requests : q # r => asks'[q] = asks[q]
      /\ asks'[r].key = k /\ asks'[r].payload = asks[r].payload
      /\ asks'[r].step \in {"speak", "complete"}
  BY <1>1, ReturnFacts DEF Entered, IInv
<1>4. /\ commands' = [commands EXCEPT ![k] = entry] /\ Publish(k, effect, v)
      /\ \A j \in Keys : commands'[j] = IF j = k THEN entry ELSE commands[j]
  BY DEF Entered, IInv, TypeOK
<1>5. TypeOK'
  <2>1. events' \in Seq(EventRecords)
    BY <1>1, <1>4, PublishFacts DEF IInv
  <2>2. commands' \in [Keys -> Entries \cup {NoEntry}]
    BY <1>2, <1>4 DEF IInv, TypeOK
  <2>3. deal' \in Nat /\ customers' \subseteq Keys
    BY <1>1 DEF IInv, TypeOK
  <2> QED BY <1>3, <2>1, <2>2, <2>3 DEF IInv, TypeOK, AskRecords, EventRecords
<1>6. IInv'
  BY <1>3, <1>4, <1>5, DecisionKeeps
<1>7. \A j \in Keys : EffectOf(j)' = IF j = k THEN effect ELSE EffectOf(j)
  <2>1. ASSUME NEW j \in Keys, j = k PROVE EffectOf(j)' = effect
    BY <1>2, <1>4, <2>1 DEF EffectOf
  <2>2. ASSUME NEW j \in Keys, j # k PROVE EffectOf(j)' = EffectOf(j)
    BY <1>4, <2>2 DEF EffectOf
  <2> QED BY <2>1, <2>2
<1>8. Ledger!TakeEffect(k, effect, v)
  BY <1>1, <1>4, <1>7, EntryTakesEffect DEF IInv
<1> QED BY <1>1, <1>6, <1>8 DEF LedgerStep, Ledger!Next

\* A command takes effect once, under the key of the ask that works on it.
LEMMA ExecuteKeeps ==
  ASSUME IInv, NEW r \in Requests, Execute(r)
  PROVE  IInv' /\ LedgerStep
<1>1. /\ asks[r].step = "effect" /\ UNCHANGED <<speeches, rows, voices>>
      /\ commands[asks[r].key] = NoEntry /\ deal \in Nat
  BY UndecidedFacts DEF Execute, Undecided, IInv, TypeOK
<1>2. CASE ChangeNothing(r)
  <2>1. Throw(r) \/ Return(r, NoResult)
    BY <1>2 DEF ChangeNothing
  <2> QED BY <1>1, <1>2, <2>1, NothingDecided DEF ChangeNothing
<1>3. CASE UpdateStage(r)
  <2>1. CASE Invalid(r) /\ deal' = Restored(deal, deal + 1) /\ UNCHANGED customers
    BY <1>1, <2>1, NothingDecided DEF Invalid, Restored, crm
  <2>2. CASE /\ Entered(commands, r, [effect |-> "updated", version |-> deal + 1])
             /\ deal' = deal + 1 /\ UNCHANGED <<reviews, customers>>
    <3>1. deal + 1 \in Nat
      BY <1>1
    <3> QED BY <1>1, <2>2, <3>1, CommandEntered
  <2> QED BY <1>3, <2>1, <2>2 DEF UpdateStage
<1>4. CASE CreateCustomer(r)
  <2>1. CASE /\ Invalid(r) /\ UNCHANGED deal
             /\ customers' = Restored(customers, customers \cup {asks[r].key})
    BY <1>1, <2>1, NothingDecided DEF Invalid, Restored, crm
  <2>2. CASE /\ Entered(commands, r, [effect |-> "created", version |-> 1])
             /\ customers' = customers \cup {asks[r].key} /\ UNCHANGED <<reviews, deal>>
    BY <1>1, <2>2, CommandEntered
  <2> QED BY <1>4, <2>1, <2>2 DEF CreateCustomer
<1> QED BY <1>1, <1>2, <1>3, <1>4 DEF Execute

\* A review is an effect of its key as a command is.
LEMMA CreateReviewKeeps ==
  ASSUME IInv, NEW r \in Requests, CreateReview(r)
  PROVE  IInv' /\ LedgerStep
<1> DEFINE k == asks[r].key
           result == [effect |-> "needs_review", version |-> 0]
           entry == [payload |-> asks[r].payload, result |-> result]
<1>1. /\ asks[r].step = "effect" /\ UNCHANGED <<speeches, rows, voices, deal, customers>>
      /\ reviews[k] = NoEntry /\ commands[k] = NoEntry /\ EffectOf(k) = "none"
      /\ k \in Keys /\ asks[r].payload \in Payloads
  <2>1. asks[r].step \in Undecided
    BY DEF CreateReview, Undecided
  <2>2. reviews[k] = NoEntry /\ commands[k] = NoEntry /\ EffectOf(k) = "none"
        /\ k \in Keys /\ asks[r].payload \in Payloads
    BY <2>1, UndecidedFacts
  <2> QED BY <2>2 DEF CreateReview
<1>2. CASE Invalid(r)
  BY <1>1, <1>2, NothingDecided DEF Invalid, crm
<1>3. CASE Entered(reviews, r, result) /\ UNCHANGED commands
  <2>1. result \in Results /\ entry \in Entries /\ entry # NoEntry
    <3>1. result \in Results
      BY DEF Results
    <3> QED BY <1>1, <3>1, EntryTypes
  <2>2. /\ asks' \in [Requests -> AskRecords]
        /\ \A q \in Requests : q # r => asks'[q] = asks[q]
        /\ asks'[r].key = k /\ asks'[r].payload = asks[r].payload
        /\ asks'[r].step \in {"speak", "complete"}
    BY <1>3, <2>1, ReturnFacts DEF Entered, IInv
  <2>3. /\ reviews' = [reviews EXCEPT ![k] = entry] /\ Publish(k, "needs_review", 0)
        /\ \A j \in Keys : reviews'[j] = IF j = k THEN entry ELSE reviews[j]
    BY <1>3 DEF Entered, IInv, TypeOK
  <2>4. TypeOK'
    <3>1. events' \in Seq(EventRecords)
      BY <1>1, <2>3, PublishFacts DEF IInv
    <3>2. reviews' \in [Keys -> Entries \cup {NoEntry}]
      BY <2>1, <2>3 DEF IInv, TypeOK
    <3> QED BY <1>1, <1>3, <2>2, <3>1, <3>2 DEF IInv, TypeOK, AskRecords, EventRecords
  <2>5. IInv'
    BY <1>1, <1>3, <2>2, <2>3, <2>4, DecisionKeeps
  <2>6. \A j \in Keys : EffectOf(j)' = IF j = k THEN "needs_review" ELSE EffectOf(j)
    <3>1. ASSUME NEW j \in Keys, j = k PROVE EffectOf(j)' = "needs_review"
      BY <1>1, <1>3, <2>1, <2>3, <3>1 DEF EffectOf
    <3>2. ASSUME NEW j \in Keys, j # k PROVE EffectOf(j)' = EffectOf(j)
      BY <1>3, <2>3, <3>2 DEF EffectOf
    <3> QED BY <3>1, <3>2
  <2>7. Ledger!TakeEffect(k, "needs_review", 0)
    BY <1>1, <2>3, <2>6, EntryTakesEffect DEF IInv
  <2> QED BY <1>1, <2>5, <2>7 DEF LedgerStep, Ledger!Next
<1> QED BY <1>1, <1>2, <1>3 DEF CreateReview

\* An ask begins a row that is not there, or is told what the row says.
LEMMA BeginKeeps ==
  ASSUME IInv, NEW r \in Requests, BeginInteraction(r)
  PROVE  IInv' /\ LedgerStep
<1>1. /\ asks[r].step = "idle" /\ UNCHANGED <<speeches, crm, voices, events>>
      /\ asks \in [Requests -> AskRecords]
  BY DEF BeginInteraction, IInv, TypeOK, AskRecords
<1>2. UNCHANGED <<speeches, commands, reviews, deal, customers, voices, events>>
  BY <1>1 DEF crm
<1>3. PICK k \in Keys, p \in Payloads :
        LET begun == [NoAsk EXCEPT !.key = k, !.payload = p]
        IN \/ /\ ~Previous(k)
              /\ rows' = [rows EXCEPT ![k] = [NoRow EXCEPT !.status = "processing", !.payload = p]]
              /\ asks' = [asks EXCEPT ![r] = [begun EXCEPT !.step = "intent"]]
           \/ /\ Previous(k)
              /\ asks' = [asks EXCEPT ![r] =
                   IF rows[k].payload = p /\ rows[k].status \in {"completed", "needs_review"}
                   THEN [begun EXCEPT !.step = "done", !.result = rows[k].result]
                   ELSE [begun EXCEPT !.step = "failed"]]
              /\ UNCHANGED rows
  BY DEF BeginInteraction
<1>4. UNCHANGED ledger
  BY <1>2 DEF ledger, Effects, EffectOf, Voiced
<1>5. CASE Previous(k)
  <2> DEFINE told == rows[k].payload = p /\ rows[k].status \in {"completed", "needs_review"}
             ask == [step |-> IF told THEN "done" ELSE "failed", key |-> k, payload |-> p,
                     understood |-> NoUnderstanding, result |-> IF told THEN rows[k].result ELSE NoResult]
  <2>1. asks' = [asks EXCEPT ![r] = ask] /\ rows' = rows
    BY <1>3, <1>5 DEF NoAsk
  <2>2. ask \in AskRecords /\ ask.step \in {"done", "failed"} /\ ask.key = k /\ ask.payload = p
        /\ (ask.step = "done" => told /\ ask.result = rows[k].result)
    BY ConstantTypes DEF AskRecords, IInv, TypeOK
  <2> HIDE DEF ask
  <2>3. asks'[r] = ask /\ \A q \in Requests : q # r => asks'[q] = asks[q]
    BY <1>1, <2>1
  <2>4. TypeOK'
    BY <1>2, <2>1, <2>2 DEF IInv, TypeOK, AskRecords
  <2>5. OneWorksOnAKey' /\ NoEffectYet'
    BY <1>2, <2>1, <2>2, <2>3 DEF IInv, OneWorksOnAKey, NoEffectYet, Unused, Working, Undecided
  <2>6. AnswersAreRows'
    BY <2>1, <2>2, <2>3 DEF IInv, AnswersAreRows, Answered
  <2>7. VoicesAreRecorded'
    BY <1>2 DEF IInv, VoicesAreRecorded
  <2> QED BY <1>4, <2>4, <2>5, <2>6, <2>7 DEF IInv, LedgerStep
<1>6. CASE ~Previous(k)
  <2> DEFINE ask == [step |-> "intent", key |-> k, payload |-> p, understood |-> NoUnderstanding,
                     result |-> NoResult]
             row == [status |-> "processing", payload |-> p, result |-> NoResult]
  <2>1. /\ asks' = [asks EXCEPT ![r] = ask] /\ rows' = [rows EXCEPT ![k] = row]
        /\ rows[k].status = "absent"
    BY <1>3, <1>6 DEF NoAsk, NoRow, Previous
  <2>2. ask \in AskRecords /\ ask.step = "intent" /\ ask.key = k /\ ask.payload = p
    BY ConstantTypes DEF AskRecords
  <2>3. /\ row \in [status : {"absent", "processing", "completed", "needs_review", "failed"},
                    payload : Payloads \cup {None}, result : Results]
        /\ row.status = "processing" /\ row.payload = p
    BY ConstantTypes
  <2> HIDE DEF ask, row
  <2>4. /\ asks'[r] = ask /\ \A q \in Requests : q # r => asks'[q] = asks[q]
        /\ rows'[k] = row /\ \A j \in Keys : j # k => rows'[j] = rows[j]
    BY <1>1, <2>1 DEF IInv, TypeOK
  <2>5. TypeOK'
    BY <1>2, <2>1, <2>2, <2>3 DEF IInv, TypeOK, AskRecords
  <2>6. \A q \in Requests : asks[q].step \in Working \cup {"done"} => asks[q].key \in Keys \ {k}
    BY <2>1 DEF IInv, OneWorksOnAKey, AnswersAreRows, Answered, Working
  <2>7. OneWorksOnAKey'
    BY <2>2, <2>3, <2>4, <2>6 DEF IInv, OneWorksOnAKey
  <2>8. NoEffectYet'
    BY <1>2, <2>1, <2>2, <2>3, <2>4, <2>6 DEF IInv, NoEffectYet, Unused, Working, Undecided
  <2>9. AnswersAreRows'
    BY <2>2, <2>4, <2>6 DEF IInv, AnswersAreRows
  <2>10. VoicesAreRecorded'
    BY <1>2 DEF IInv, VoicesAreRecorded
  <2> QED BY <1>4, <2>5, <2>7, <2>8, <2>9, <2>10 DEF IInv, LedgerStep
<1> QED BY <1>5, <1>6

\* The voice of a key is recorded once, and stays.
LEMMA RecordTtsFacts ==
  ASSUME TypeOK, NEW v \in VoiceKeys, NEW p \in Payloads, NEW a \in Requests \cup Speeches,
         RecordTts(v, [payload |-> p, asset |-> a])
  PROVE  /\ voices' \in [VoiceKeys -> [payload : Payloads, asset : Requests \cup Speeches] \cup {NoVoice}]
         /\ events' \in Seq(EventRecords)
         /\ \A w \in VoiceKeys : voices[w] # NoVoice => voices'[w] = voices[w]
         /\ voices'[v] = FirstVoice(v, [payload |-> p, asset |-> a])
         /\ [payload |-> p, asset |-> a] # NoVoice
<1>1. [payload |-> p, asset |-> a] # NoVoice
  BY NoneAssumption DEF NoVoice
<1>2. events' \in Seq(EventRecords)
  <2>1. CASE voices[v] = NoVoice
    BY <2>1, PublishFacts DEF RecordTts
  <2>2. CASE voices[v] # NoVoice
    BY <2>2 DEF RecordTts, TypeOK, EventRecords
  <2> QED BY <2>1, <2>2
<1>3. voices' = [voices EXCEPT ![v] = FirstVoice(v, [payload |-> p, asset |-> a])]
  BY DEF RecordTts
<1>4. FirstVoice(v, [payload |-> p, asset |-> a])
        \in [payload : Payloads, asset : Requests \cup Speeches] \cup {NoVoice}
  BY DEF FirstVoice, TypeOK
<1>5. voices[v] # NoVoice => FirstVoice(v, [payload |-> p, asset |-> a]) = voices[v]
  BY DEF FirstVoice
<1> QED BY <1>1, <1>2, <1>3, <1>4, <1>5 DEF TypeOK

\* Speech for an ask is recorded under its key, or the ask fails.
LEMMA SpeakKeeps ==
  ASSUME IInv, NEW r \in Requests, Speak(r)
  PROVE  IInv' /\ LedgerStep
<1>1. /\ asks[r].step = "speak" /\ UNCHANGED <<speeches, rows>> /\ UNCHANGED crm
      /\ asks[r].payload \in Payloads /\ <<"ask", asks[r].key>> \in VoiceKeys
  <2>1. asks[r].step = "speak" /\ asks[r].key \in Keys /\ asks[r].payload \in Payloads
    BY DEF Speak, IInv, OneWorksOnAKey, Working
  <2> QED BY <2>1 DEF Speak, VoiceKeys
<1>2. /\ asks' \in [Requests -> AskRecords]
      /\ \A q \in Requests : q # r => asks'[q] = asks[q]
      /\ asks'[r].key = asks[r].key /\ asks'[r].payload = asks[r].payload
      /\ asks'[r].step \in {"complete", "fail"}
  BY ThrowFacts, GotoFacts, ConstantTypes DEF Speak, IInv
<1>3. ASSUME NEW v \in VoiceKeys, NEW p \in Payloads, RecordTts(v, [payload |-> p, asset |-> r])
      PROVE  IInv' /\ LedgerStep
  <2>1. /\ voices' \in [VoiceKeys -> [payload : Payloads, asset : Requests \cup Speeches] \cup {NoVoice}]
        /\ events' \in Seq(EventRecords) /\ [payload |-> p, asset |-> r] # NoVoice
        /\ \A w \in VoiceKeys : voices[w] # NoVoice => voices'[w] = voices[w]
    BY <1>3, RecordTtsFacts DEF IInv
  <2>2. TypeOK'
    BY <1>1, <1>2, <2>1 DEF IInv, TypeOK, AskRecords, EventRecords, crm
  <2>3. IInv'
    BY <1>1, <1>2, <2>1, <2>2, WorkGoesOn DEF Working, Undecided, crm
  <2>4. TypeOK
    BY DEF IInv
  <2>5. Ledger!Voice(v) \/ UNCHANGED ledger
    BY <1>1, <1>3, <2>1, <2>4, VoiceIsRecorded
  <2> QED BY <2>3, <2>5 DEF LedgerStep, Ledger!Next
<1>4. CASE Throw(r) /\ UNCHANGED <<voices, events>>
  <2>1. TypeOK'
    BY <1>1, <1>2, <1>4 DEF IInv, TypeOK, AskRecords, crm
  <2>2. IInv'
    BY <1>1, <1>2, <1>4, <2>1, WorkGoesOn DEF Working, Undecided, crm
  <2>3. UNCHANGED ledger
    BY <1>1, <1>4 DEF ledger, Effects, EffectOf, Voiced, crm
  <2> QED BY <2>2, <2>3 DEF LedgerStep
<1> QED BY <1>1, <1>3, <1>4 DEF Speak

RowStatuses == {"absent", "processing", "completed", "needs_review", "failed"}
Rows == [status : RowStatuses, payload : Payloads \cup {None}, result : Results]

\* Changing one field of a row keeps it typed and its other fields.
LEMMA RowFacts ==
  ASSUME NEW row \in Rows
  PROVE  /\ \A x \in RowStatuses : LET new == [row EXCEPT !.status = x]
            IN new \in Rows /\ new.status = x /\ new.payload = row.payload /\ new.result = row.result
         /\ \A x \in Results : LET new == [row EXCEPT !.result = x]
            IN new \in Rows /\ new.payload = row.payload /\ new.result = x
BY DEF Rows

\* The end of an ask: only its own row changes, and nobody else works on it.
LEMMA EndKeeps ==
  ASSUME IInv, NEW r \in Requests, CompleteInteraction(r) \/ FailInteraction(r)
  PROVE  IInv' /\ LedgerStep
<1> DEFINE k == asks[r].key
<1>1. /\ asks[r].step \in {"complete", "fail"} /\ k \in Keys /\ rows[k].status = "processing"
      /\ UNCHANGED <<speeches, commands, reviews, deal, customers, voices, events>>
      /\ rows[k].payload = asks[r].payload
      /\ asks[r].result \in Results
  BY DEF CompleteInteraction, FailInteraction, IInv, TypeOK, OneWorksOnAKey, Working, crm
<1>2. UNCHANGED ledger
  BY <1>1 DEF ledger, Effects, EffectOf, Voiced
<1>3. CASE Throw(r) /\ UNCHANGED rows
  <2>1. /\ asks' \in [Requests -> AskRecords]
        /\ \A q \in Requests : q # r => asks'[q] = asks[q]
        /\ asks'[r].key = k /\ asks'[r].payload = asks[r].payload /\ asks'[r].step = "fail"
    BY <1>3, ThrowFacts DEF IInv
  <2>2. TypeOK'
    BY <1>1, <1>3, <2>1 DEF IInv, TypeOK, AskRecords
  <2>3. IInv'
    BY <1>1, <1>3, <2>1, <2>2, WorkGoesOn DEF Working, Undecided
  <2> QED BY <1>2, <2>3 DEF LedgerStep
<1>4. CASE ~(Throw(r) /\ UNCHANGED rows)
  <2>1. PICK step \in {"done", "failed"}, row \in Rows :
          /\ Goto(r, step) /\ rows' = [rows EXCEPT ![k] = row]
          /\ row.status \in {"completed", "needs_review", "failed"}
          /\ row.payload = asks[r].payload
          /\ step = "done" => row.status \in Answered /\ row.result = asks[r].result
    <3>1. rows \in [Keys -> Rows] /\ rows[k] \in Rows
      BY <1>1 DEF IInv, TypeOK, Rows, RowStatuses
    <3>2. CASE CompleteInteraction(r)
      <4> DEFINE status == IF asks[r].result.effect = "needs_review" THEN "needs_review" ELSE "completed"
                 b == [rows[k] EXCEPT !.result = asks[r].result]
                 c == [b EXCEPT !.status = status]
      <4>0. status \in RowStatuses /\ status \in Answered
        BY DEF Answered, RowStatuses
      <4>1. Goto(r, "done") /\ rows' = [rows EXCEPT ![k] = c]
        BY <1>1, <1>4, <3>1, <3>2 DEF CompleteInteraction
      <4>2. b \in Rows /\ b.payload = asks[r].payload /\ b.result = asks[r].result
        BY <1>1, <3>1, RowFacts
      <4> HIDE DEF b, status
      <4>3. c \in Rows /\ c.payload = asks[r].payload /\ c.result = asks[r].result /\ c.status = status
        BY <4>0, <4>2, RowFacts
      <4> HIDE DEF c
      <4> QED BY <4>0, <4>1, <4>3 DEF Answered
    <3>3. CASE FailInteraction(r)
      <4> DEFINE b == [rows[k] EXCEPT !.status = "failed"]
      <4>1. Goto(r, "failed") /\ rows' = [rows EXCEPT ![k] = b]
        BY <1>1, <3>1, <3>3 DEF FailInteraction
      <4>2. b \in Rows /\ b.payload = asks[r].payload /\ b.status = "failed"
        BY <1>1, <3>1, RowFacts DEF RowStatuses
      <4> HIDE DEF b
      <4> QED BY <4>1, <4>2
    <3> QED BY <3>2, <3>3
  <2>4. /\ asks' \in [Requests -> AskRecords]
        /\ \A q \in Requests : q # r => asks'[q] = asks[q]
        /\ asks'[r].key = k /\ asks'[r].payload = asks[r].payload
        /\ asks'[r].result = asks[r].result /\ asks'[r].step = step
    BY <2>1, GotoFacts, ConstantTypes DEF IInv
  <2>5. rows'[k] = row /\ \A j \in Keys : j # k => rows'[j] = rows[j]
    BY <1>1, <2>1 DEF IInv, TypeOK
  <2>6. TypeOK'
    BY <1>1, <2>1, <2>4 DEF IInv, TypeOK, AskRecords, Rows, RowStatuses
  <2>7. \A q \in Requests : q # r /\ asks[q].step \in Working \cup {"done"} =>
          asks[q].key \in Keys \ {k}
    BY <1>1 DEF IInv, OneWorksOnAKey, AnswersAreRows, Answered, Working
  <2>8. OneWorksOnAKey'
    BY <2>1, <2>4, <2>5, <2>7 DEF IInv, OneWorksOnAKey, Working
  <2>9. NoEffectYet'
    BY <1>1, <2>1, <2>4, <2>5, <2>7 DEF IInv, NoEffectYet, Unused, Undecided
  <2>10. AnswersAreRows'
    BY <1>1, <2>1, <2>4, <2>5, <2>7 DEF IInv, AnswersAreRows
  <2>11. VoicesAreRecorded'
    BY <1>1 DEF IInv, VoicesAreRecorded
  <2> QED BY <1>2, <2>6, <2>8, <2>9, <2>10, <2>11 DEF IInv, LedgerStep
<1> QED BY <1>3, <1>4

SpeechRecords == [step : {"idle", "speak", "done", "failed"}, key : Keys \cup {None},
                  payload : Payloads \cup {None}, asset : Requests \cup Speeches \cup {None}]

\* What a tts request is told is the voice that is recorded under its key.
LEMMA TellFacts ==
  ASSUME TypeOK, NEW s \in Speeches, NEW k \in Keys, NEW p \in Payloads,
         NEW voice \in [payload : Payloads, asset : Requests \cup Speeches],
         Tell(s, k, p, voice)
  PROVE  /\ \A t \in Speeches : t # s => speeches'[t] = speeches[t]
         /\ speeches' \in [Speeches -> SpeechRecords]
         /\ speeches'[s].key = k /\ speeches'[s].payload = p
         /\ speeches'[s].step \in {"done", "failed"}
         /\ speeches'[s].step = "done" => voice = [payload |-> p, asset |-> speeches'[s].asset]
<1> DEFINE told == [step |-> IF voice.payload = p THEN "done" ELSE "failed", key |-> k, payload |-> p,
                    asset |-> IF voice.payload = p THEN voice.asset ELSE None]
<1>1. speeches' = [speeches EXCEPT ![s] = told] /\ speeches \in [Speeches -> SpeechRecords]
  BY DEF Tell, TypeOK, SpeechRecords
<1>2. told \in SpeechRecords
  BY DEF SpeechRecords
<1>3. /\ told.key = k /\ told.payload = p /\ told.step \in {"done", "failed"}
      /\ told.step = "done" => voice = [payload |-> p, asset |-> told.asset]
  OBVIOUS
<1> HIDE DEF told
<1> QED BY <1>1, <1>2, <1>3

\* The invariant after a step of a tts request: the asks are left alone.
LEMMA SpeechKeeps ==
  ASSUME IInv, NEW s \in Speeches, UNCHANGED <<asks, rows, crm>>,
         speeches' \in [Speeches -> SpeechRecords],
         \A t \in Speeches : t # s => speeches'[t] = speeches[t],
         voices' \in [VoiceKeys -> [payload : Payloads, asset : Requests \cup Speeches] \cup {NoVoice}],
         \A v \in VoiceKeys : voices[v] # NoVoice => voices'[v] = voices[v],
         events' \in Seq(EventRecords),
         speeches'[s].step \in {"speak", "done"} =>
           speeches'[s].key \in Keys /\ speeches'[s].payload \in Payloads,
         speeches'[s].step = "done" =>
           voices'[<<"tts", speeches'[s].key>>] =
             [payload |-> speeches'[s].payload, asset |-> speeches'[s].asset]
  PROVE  IInv'
<1>1. UNCHANGED <<asks, rows, commands, reviews, deal, customers>>
  BY DEF crm
<1>2. TypeOK'
  BY <1>1 DEF IInv, TypeOK, SpeechRecords, EventRecords
<1>3. OneWorksOnAKey' /\ NoEffectYet' /\ AnswersAreRows'
  BY <1>1 DEF IInv, OneWorksOnAKey, NoEffectYet, Unused, AnswersAreRows
<1>4. VoicesAreRecorded'
  <2> SUFFICES ASSUME NEW t \in Speeches
               PROVE  /\ speeches'[t].step = "speak" =>
                           speeches'[t].key \in Keys /\ speeches'[t].payload \in Payloads
                      /\ speeches'[t].step = "done" =>
                           /\ speeches'[t].key \in Keys /\ speeches'[t].payload \in Payloads
                           /\ voices'[<<"tts", speeches'[t].key>>] =
                                [payload |-> speeches'[t].payload, asset |-> speeches'[t].asset]
    BY DEF VoicesAreRecorded
  <2>1. CASE t = s
    BY <2>1
  <2>2. CASE t # s
    BY <2>2, NoneAssumption DEF IInv, VoicesAreRecorded, NoVoice, VoiceKeys
  <2> QED BY <2>1, <2>2
<1> QED BY <1>2, <1>3, <1>4 DEF IInv

\* A tts request that finds its key recorded is told what is on record.
LEMMA ReplayTtsKeeps ==
  ASSUME IInv, NEW s \in Speeches, ReplayTts(s)
  PROVE  IInv' /\ LedgerStep
<1>1. UNCHANGED <<asks, rows, voices, events>> /\ UNCHANGED crm
  BY DEF ReplayTts
<1>2. UNCHANGED ledger
  BY <1>1 DEF ledger, Effects, EffectOf, Voiced, crm
<1>3. PICK k \in Keys, p \in Payloads :
        IF voices[<<"tts", k>>] # NoVoice THEN Tell(s, k, p, voices[<<"tts", k>>])
        ELSE speeches' = [speeches EXCEPT ![s] =
               [step |-> "speak", key |-> k, payload |-> p, asset |-> None]]
  BY DEF ReplayTts
<1>4. <<"tts", k>> \in VoiceKeys
  BY DEF VoiceKeys
<1>5. /\ voices' \in [VoiceKeys -> [payload : Payloads, asset : Requests \cup Speeches] \cup {NoVoice}]
      /\ events' \in Seq(EventRecords) /\ TypeOK
  BY <1>1 DEF IInv, TypeOK, EventRecords
<1>6. CASE voices[<<"tts", k>>] # NoVoice
  <2>1. PICK voice \in [payload : Payloads, asset : Requests \cup Speeches] :
          voice = voices[<<"tts", k>>]
    BY <1>4, <1>5, <1>6 DEF TypeOK
  <2>2. Tell(s, k, p, voice)
    BY <1>3, <1>6, <2>1
  <2>3. /\ \A t \in Speeches : t # s => speeches'[t] = speeches[t]
        /\ speeches' \in [Speeches -> SpeechRecords]
        /\ speeches'[s].key = k /\ speeches'[s].payload = p
        /\ speeches'[s].step = "done" => voice = [payload |-> p, asset |-> speeches'[s].asset]
    BY <1>5, <2>2, TellFacts
  <2>4. IInv'
    BY <1>1, <1>5, <2>1, <2>3, SpeechKeeps
  <2> QED BY <1>2, <2>4 DEF LedgerStep
<1>7. CASE voices[<<"tts", k>>] = NoVoice
  <2> DEFINE speech == [step |-> "speak", key |-> k, payload |-> p, asset |-> None]
  <2>1. speech \in SpeechRecords /\ speech.step = "speak" /\ speech.key = k /\ speech.payload = p
    BY DEF SpeechRecords
  <2>2. speeches' = [speeches EXCEPT ![s] = speech]
    BY <1>3, <1>7
  <2> HIDE DEF speech
  <2>3. /\ \A t \in Speeches : t # s => speeches'[t] = speeches[t]
        /\ speeches' \in [Speeches -> SpeechRecords] /\ speeches'[s] = speech
    BY <1>5, <2>1, <2>2 DEF TypeOK, SpeechRecords
  <2>4. IInv'
    BY <1>1, <1>5, <2>1, <2>3, SpeechKeeps
  <2> QED BY <1>2, <2>4 DEF LedgerStep
<1> QED BY <1>6, <1>7

\* One that finds none synthesizes, and is told whichever record came first.
LEMMA SynthesizeKeeps ==
  ASSUME IInv, NEW s \in Speeches, Synthesize(s)
  PROVE  IInv' /\ LedgerStep
<1>1. PICK k \in Keys, p \in Payloads : k = speeches[s].key /\ p = speeches[s].payload
  BY DEF Synthesize, IInv, VoicesAreRecorded
<1>2. PICK v \in VoiceKeys : v = <<"tts", k>>
  BY DEF VoiceKeys
<1>3. UNCHANGED <<asks, rows>> /\ UNCHANGED crm /\ TypeOK
  BY DEF Synthesize, IInv
<1> DEFINE made == [payload |-> p, asset |-> s]
<1>4. CASE /\ voices[v].payload \in {None, p} /\ RecordTts(v, made)
           /\ Tell(s, k, p, FirstVoice(v, made))
  <2>1. /\ voices' \in [VoiceKeys -> [payload : Payloads, asset : Requests \cup Speeches] \cup {NoVoice}]
        /\ events' \in Seq(EventRecords) /\ made # NoVoice
        /\ \A w \in VoiceKeys : voices[w] # NoVoice => voices'[w] = voices[w]
        /\ voices'[v] = FirstVoice(v, made)
    BY <1>3, <1>4, RecordTtsFacts
  <2>2. PICK voice \in [payload : Payloads, asset : Requests \cup Speeches] :
          voice = FirstVoice(v, made)
    <3>1. made \in [payload : Payloads, asset : Requests \cup Speeches]
      OBVIOUS
    <3> QED BY <1>3, <3>1 DEF FirstVoice, TypeOK
  <2>3. /\ \A t \in Speeches : t # s => speeches'[t] = speeches[t]
        /\ speeches' \in [Speeches -> SpeechRecords]
        /\ speeches'[s].key = k /\ speeches'[s].payload = p
        /\ speeches'[s].step = "done" => voice = [payload |-> p, asset |-> speeches'[s].asset]
    <3>1. Tell(s, k, p, voice)
      BY <1>4, <2>2
    <3> QED BY <1>3, <3>1, TellFacts
  <2>4. IInv'
    BY <1>2, <1>3, <2>1, <2>2, <2>3, SpeechKeeps
  <2>5. Ledger!Voice(v) \/ UNCHANGED ledger
    BY <1>3, <1>4, <2>1, VoiceIsRecorded
  <2> QED BY <2>4, <2>5 DEF LedgerStep, Ledger!Next
<1>5. CASE speeches' = [speeches EXCEPT ![s].step = "failed"] /\ UNCHANGED <<voices, events>>
  <2>1. /\ \A t \in Speeches : t # s => speeches'[t] = speeches[t]
        /\ speeches' \in [Speeches -> SpeechRecords] /\ speeches'[s].step = "failed"
    <3>1. \A x \in SpeechRecords : LET new == [x EXCEPT !.step = "failed"]
            IN new \in SpeechRecords /\ new.step = "failed"
      BY DEF SpeechRecords
    <3>2. speeches \in [Speeches -> SpeechRecords]
      BY <1>3 DEF TypeOK, SpeechRecords
    <3> DEFINE failed == [speeches[s] EXCEPT !.step = "failed"]
    <3>3. failed \in SpeechRecords /\ failed.step = "failed"
      BY <3>1, <3>2
    <3>4. speeches' = [speeches EXCEPT ![s] = failed]
      BY <1>5, <3>2
    <3> HIDE DEF failed
    <3> QED BY <3>2, <3>3, <3>4
  <2>2. /\ voices' \in [VoiceKeys -> [payload : Payloads, asset : Requests \cup Speeches] \cup {NoVoice}]
        /\ events' \in Seq(EventRecords)
    BY <1>3, <1>5 DEF TypeOK, EventRecords
  <2>3. IInv'
    BY <1>3, <1>5, <2>1, <2>2, SpeechKeeps
  <2>4. UNCHANGED ledger
    BY <1>3, <1>5 DEF ledger, Effects, EffectOf, Voiced, crm
  <2> QED BY <2>3, <2>4 DEF LedgerStep
<1> QED BY <1>1, <1>2, <1>4, <1>5 DEF Synthesize

-----------------------------------------------------------------------------
\* The empty store satisfies the invariant.
LEMMA InitIInv == Init => IInv
<1> SUFFICES ASSUME Init PROVE IInv
  OBVIOUS
<1>1. TypeOK
  BY ConstantTypes DEF Init, TypeOK, NoAsk, NoSpeech, NoRow, AskSteps
<1>2. OneWorksOnAKey /\ NoEffectYet /\ AnswersAreRows
  BY DEF Init, OneWorksOnAKey, NoEffectYet, AnswersAreRows, Unused, NoAsk, Working, Undecided
<1>3. VoicesAreRecorded
  BY DEF Init, VoicesAreRecorded, NoSpeech
<1> QED BY <1>1, <1>2, <1>3 DEF IInv

\* Every step keeps it, and is an effect of the ledger or none.
LEMMA StepKeepsIInv ==
  ASSUME IInv, [Next]_vars
  PROVE  IInv' /\ LedgerStep
<1>1. CASE UNCHANGED vars
  <2>1. IInv'
    BY <1>1 DEF vars, crm, IInv, TypeOK, OneWorksOnAKey, NoEffectYet, Unused, AnswersAreRows,
       VoicesAreRecorded
  <2>2. UNCHANGED ledger
    BY <1>1 DEF vars, crm, ledger, Effects, EffectOf, Voiced
  <2> QED BY <2>1, <2>2 DEF LedgerStep
<1>2. ASSUME NEW r \in Requests, AskStep(r) PROVE IInv' /\ LedgerStep
  BY <1>2, BeginKeeps, UnderstandKeeps, ExecuteKeeps, CreateReviewKeeps, SpeakKeeps, EndKeeps
     DEF AskStep
<1>3. ASSUME NEW s \in Speeches, ReplayTts(s) \/ Synthesize(s) PROVE IInv' /\ LedgerStep
  BY <1>3, ReplayTtsKeeps, SynthesizeKeeps
<1> QED BY <1>1, <1>2, <1>3 DEF Next, Terminated

\* The inductive invariant: one ask works on a key, which has had no effect until it decides.
THEOREM IInvHolds == Spec => []IInv
<1>1. IInv /\ [Next]_vars => IInv'
  BY StepKeepsIInv
<1> QED BY <1>1, InitIInv, PTL DEF Spec

\* The maps of the store keep their types.
THEOREM TypeCorrect == Spec => []TypeOK
<1>1. IInv => TypeOK
  BY DEF IInv
<1> QED BY <1>1, IInvHolds, PTL

\* All asks answered under one key sent the same and were told the same, because
\* beginInteraction lets one of them through.
THEOREM KeyHasOneAnswer == Spec => []OneAnswerPerKey
<1>1. IInv => OneAnswerPerKey
  BY DEF IInv, AnswersAreRows, OneAnswerPerKey
<1> QED BY <1>1, IInvHolds, PTL

\* All tts requests answered under one key were given one asset.
THEOREM KeyHasOneVoice == Spec => []OneVoicePerKey
<1>1. IInv => OneVoicePerKey
  <2> SUFFICES ASSUME IInv, NEW s \in Speeches, NEW t \in Speeches,
                      speeches[s].step = "done", speeches[t].step = "done",
                      speeches[s].key = speeches[t].key
               PROVE  /\ speeches[s].payload = speeches[t].payload
                      /\ speeches[s].asset = speeches[t].asset
    BY DEF OneVoicePerKey
  <2>1. [payload |-> speeches[s].payload, asset |-> speeches[s].asset]
          = [payload |-> speeches[t].payload, asset |-> speeches[t].asset]
    BY DEF IInv, VoicesAreRecorded
  <2>2. /\ [payload |-> speeches[s].payload, asset |-> speeches[s].asset].payload
             = [payload |-> speeches[t].payload, asset |-> speeches[t].asset].payload
        /\ [payload |-> speeches[s].payload, asset |-> speeches[s].asset].asset
             = [payload |-> speeches[t].payload, asset |-> speeches[t].asset].asset
    BY <2>1
  <2> QED BY <2>2
<1> QED BY <1>1, IInvHolds, PTL

\* CrmStore implements the ledger: whatever throws halfway and however the
\* handlers interleave, a key has one effect, in one step with its event.
THEOREM StoreKeepsLedger == Spec => KeepsLedger
<1>1. Init => Ledger!Init
  BY DEF Init, Ledger!Init, EffectOf
<1>2. IInv /\ [Next]_vars => [Ledger!Next]_ledger
  BY StepKeepsIInv DEF LedgerStep
<1> QED BY <1>1, <1>2, IInvHolds, PTL
        DEF Spec, KeepsLedger, Ledger!Spec, ledger, Effects, Voiced
=============================================================================
