------------------------- MODULE AskPipelineProofs -------------------------
(* Theorems about AskPipeline, for every value of its constants. *)
EXTENDS AskPipeline, TLAPS

(***************************************************************************)
(* Type correctness.                                                       *)
(***************************************************************************)

\* The values a handler starts from are of the types TypeOK names.
LEMMA DefaultsTyped ==
  /\ NoUnderstanding \in Understandings
  /\ NoResult \in Results
  /\ NoResponse \in Responses
  /\ NoReply \in Replies
  /\ NoInteraction \in InteractionRows
  /\ NoCommand \in CommandRows
<1>1. NoUnderstanding \in Understandings
  BY DEF NoUnderstanding, Understandings
<1>2. NoResult \in Results
  BY DEF NoResult, Results, Actions
<1>3. NoResponse \in Responses
  BY <1>2 DEF NoResponse, Responses
<1>4. NoReply \in Replies
  BY <1>3 DEF NoReply, Replies, Codes
<1>5. NoInteraction \in InteractionRows
  BY <1>3 DEF NoInteraction, InteractionRows, Codes
<1>6. NoCommand \in CommandRows
  BY <1>1, <1>2 DEF NoCommand, CommandRows
<1> QED BY <1>1, <1>2, <1>3, <1>4, <1>5, <1>6

\* The part of TypeOK a handler's own variables make up.
ClientTyped ==
  /\ pc \in [Requests -> Steps]
  /\ key \in [Requests -> Keys]
  /\ payload \in [Requests -> Payloads]
  /\ understood \in [Requests -> Understandings]
  /\ result \in [Requests -> Results]
  /\ code \in [Requests -> Codes]
  /\ reply \in [Requests -> Replies]

\* Moving a handler to another step keeps its variables typed.
LEMMA GotoTyped ==
  ASSUME TypeOK, NEW r \in Requests, NEW step \in Steps, Goto(r, step)
  PROVE  ClientTyped'
BY DEF TypeOK, ClientTyped, Goto

\* So does throwing one of the error codes.
LEMMA ThrowTyped ==
  ASSUME TypeOK, NEW r \in Requests, NEW c \in Codes, Throw(r, c)
  PROVE  ClientTyped'
BY DEF TypeOK, ClientTyped, Throw, Steps

\* So does leaving the handler, with an answer or without.
LEMMA AnswerTyped ==
  ASSUME TypeOK, NEW r \in Requests, NEW body \in Replies, Answer(r, body)
  PROVE  ClientTyped'
BY DefaultsTyped DEF TypeOK, ClientTyped, Answer, Leave, Steps, Codes

\* Error and success answers are answers.
LEMMA AnswersTyped ==
  /\ \A c \in Codes : Error(c) \in Replies
  /\ \A response \in Responses : Success(response) \in Replies
BY DefaultsTyped DEF Error, Success, Replies, Codes

\* A transaction that committed leaves the handler typed.
LEMMA AfterCommitTyped ==
  ASSUME TypeOK, NEW r \in Requests, NEW step \in Steps, AfterCommit(r, step)
  PROVE  ClientTyped'
BY GotoTyped, ThrowTyped DEF AfterCommit, Codes

\* And so does one that returned a result.
LEMMA ReturnedTyped ==
  ASSUME TypeOK, NEW r \in Requests, NEW res \in Results, NEW step \in Steps,
         Returned(r, res, step)
  PROVE  ClientTyped'
<1>1. CASE Throw(r, "DATABASE")
  BY <1>1, ThrowTyped DEF Codes
<1>2. CASE /\ result' = [result EXCEPT ![r] = res]
           /\ pc' = [pc EXCEPT ![r] = step]
           /\ UNCHANGED <<key, payload, understood, code, reply>>
  BY <1>2 DEF TypeOK, ClientTyped
<1> QED BY <1>1, <1>2 DEF Returned

\* Writing one row of voice_interactions, or one event, keeps the tables typed.
LEMMA InteractionWritten ==
  ASSUME TypeOK, NEW k \in Keys, NEW row \in InteractionRows,
         interactions' = [interactions EXCEPT ![k] = row]
  PROVE  interactions' \in [Keys -> InteractionRows]
BY DEF TypeOK

\* So does writing one command.
LEMMA CommandWritten ==
  ASSUME TypeOK, NEW k \in Keys, NEW row \in CommandRows,
         commands' = [commands EXCEPT ![k] = row]
  PROVE  commands' \in [Keys -> CommandRows]
BY DEF TypeOK

\* So does writing one event.
LEMMA EventWritten ==
  ASSUME TypeOK, NEW k \in Keys, NEW type \in EventTypes
  PROVE  Emit(k, type) \in [Keys -> [EventTypes -> Nat]]
<1>1. [outbox[k] EXCEPT ![type] = @ + 1] \in [EventTypes -> Nat]
  BY DEF TypeOK
<1>2. Emit(k, type) = [outbox EXCEPT ![k] = [outbox[k] EXCEPT ![type] = @ + 1]]
  BY DEF Emit
<1> QED BY <1>1, <1>2 DEF TypeOK

\* The command transaction keeps the CRM tables and the outbox typed.
LEMMA CommandTyped ==
  ASSUME TypeOK, NEW r \in Requests, pc[r] = "execute",
         understood[r].intent = "update_stage" => DealMatches(understood[r])
  PROVE  /\ CommandResult(understood[r]) \in Results
         /\ ApplyCommand(r, CommandResult(understood[r])) =>
              /\ commands' \in [Keys -> CommandRows]
              /\ deals' \in [Deals -> Nat]
              /\ customers' \in [Keys -> Nat]
              /\ outbox' \in [Keys -> [EventTypes -> Nat]]
<1>1. CommandResult(understood[r]) \in Results
  <2>1. CASE understood[r].intent = "update_stage"
    BY <2>1 DEF TypeOK, DealMatches, CommandResult, Results, Actions
  <2>2. CASE understood[r].intent = "create_customer"
    BY <2>2 DEF CommandResult, Results, Actions
  <2>3. CASE understood[r].intent \notin {"update_stage", "create_customer"}
    BY <2>3, DefaultsTyped DEF CommandResult
  <2> QED BY <2>1, <2>2, <2>3
<1>2. SUFFICES ASSUME ApplyCommand(r, CommandResult(understood[r]))
               PROVE  /\ commands' \in [Keys -> CommandRows]
                      /\ deals' \in [Deals -> Nat]
                      /\ customers' \in [Keys -> Nat]
                      /\ outbox' \in [Keys -> [EventTypes -> Nat]]
  BY <1>1
<1> DEFINE res == CommandResult(understood[r])
           row == [status |-> "committed", payload |-> payload[r],
                   understanding |-> understood[r], result |-> res]
<1>3. row \in CommandRows
  BY <1>1 DEF TypeOK, CommandRows
<1>4. commands' = [commands EXCEPT ![key[r]] = row]
  BY <1>2 DEF ApplyCommand
<1>5. commands' \in [Keys -> CommandRows]
  <2> HIDE DEF row
  <2> QED BY <1>3, <1>4 DEF TypeOK
<1>6. deals' \in [Deals -> Nat]
  BY <1>2 DEF ApplyCommand, TypeOK, DealMatches
<1>7. customers' \in [Keys -> Nat]
  BY <1>2 DEF ApplyCommand, TypeOK
<1>8. outbox' \in [Keys -> [EventTypes -> Nat]]
  BY <1>2, EventWritten DEF ApplyCommand, TypeOK, EventTypes
<1> QED BY <1>5, <1>6, <1>7, <1>8

\* Every step of a handler keeps every variable typed.
LEMMA HandleTyped ==
  ASSUME TypeOK, NEW r \in Requests, Handle(r)
  PROVE  TypeOK'
<1> DEFINE StoreTyped == /\ interactions \in [Keys -> InteractionRows]
                         /\ commands \in [Keys -> CommandRows]
                         /\ deals \in [Deals -> Nat]
                         /\ customers \in [Keys -> Nat]
                         /\ outbox \in [Keys -> [EventTypes -> Nat]]
<1>0. SUFFICES ClientTyped' /\ StoreTyped'
  BY DEF TypeOK, ClientTyped
<1>a. /\ key[r] \in Keys /\ payload[r] \in Payloads
      /\ understood[r] \in Understandings /\ result[r] \in Results
      /\ code[r] \in Codes /\ interactions[key[r]] \in InteractionRows
      /\ commands[key[r]] \in CommandRows
  BY DEF TypeOK
<1>1. CASE BeginInteraction(r)
  <2>1. StoreTyped'
    BY <1>1, <1>a, DefaultsTyped
    DEF BeginInteraction, TypeOK, InteractionRows, crm
  <2>2. FirstStep(payload[r]) \in Steps /\ Error("DATABASE") \in Replies
    BY AnswersTyped DEF FirstStep, Steps, Codes
  <2> QED BY <1>1, <2>1, <2>2, GotoTyped, AnswerTyped DEF BeginInteraction
<1>2. CASE ReplayInteraction(r)
  <2>1. PreviousOutcome(interactions[key[r]], payload[r]) \in Replies
    BY <1>a, AnswersTyped DEF PreviousOutcome, InteractionRows, Codes
  <2> QED BY <1>2, <2>1, AnswerTyped DEF ReplayInteraction, TypeOK, crm
<1>3. CASE RejectAsk(r)
  BY <1>3, AnswersTyped, AnswerTyped DEF RejectAsk, TypeOK, crm, Codes
<1>4. CASE RecordInputAsset(r)
  <2>1. StoreTyped'
    BY <1>4, <1>a DEF RecordInputAsset, TypeOK, InteractionRows, crm
  <2> QED BY <1>4, <2>1, AfterCommitTyped DEF RecordInputAsset, Steps
<1>5. CASE Transcribe(r)
  BY <1>5, GotoTyped DEF Transcribe, TypeOK, crm, Steps
<1>6. CASE CheckpointTranscript(r)
  <2>1. StoreTyped'
    <3> DEFINE row == [interactions[key[r]] EXCEPT !.transcript = TRUE]
    <3>1. row \in InteractionRows
      BY <1>a DEF InteractionRows
    <3>2. \/ interactions' = [interactions EXCEPT ![key[r]] = row]
          \/ UNCHANGED interactions
      BY <1>6 DEF CheckpointTranscript
    <3> QED BY <1>6, <1>a, <3>1, <3>2, InteractionWritten
            DEF CheckpointTranscript, TypeOK, crm
  <2> QED BY <1>6, <2>1, AfterCommitTyped, ThrowTyped
          DEF CheckpointTranscript, Steps, Codes
<1>7. CASE Understand(r)
  BY <1>7 DEF Understand, TypeOK, ClientTyped, crm, Steps
<1>8. CASE CheckpointUnderstanding(r)
  <2>1. StoreTyped'
    <3> DEFINE row == [interactions[key[r]] EXCEPT !.understanding = understood[r]]
    <3>1. row \in InteractionRows
      BY <1>a DEF InteractionRows
    <3>2. \/ interactions' = [interactions EXCEPT ![key[r]] = row]
          \/ UNCHANGED interactions
      BY <1>8 DEF CheckpointUnderstanding
    <3> QED BY <1>8, <1>a, <3>1, <3>2, InteractionWritten
            DEF CheckpointUnderstanding, TypeOK, crm
  <2>2. CommandStep(understood[r]) \in Steps
    BY DEF CommandStep, Steps
  <2> QED BY <1>8, <2>1, <2>2, AfterCommitTyped, ThrowTyped
          DEF CheckpointUnderstanding, Codes
<1>9. CASE Execute(r)
  <2>1. CASE commands[key[r]].status # "absent"
    <3>1. commands[key[r]].result \in Results
      BY <1>a DEF CommandRows
    <3>2. \A res \in Results : Proceed(r, res) => ClientTyped'
      BY ReturnedTyped DEF Proceed, Steps
    <3> QED BY <1>9, <2>1, <3>1, <3>2, ThrowTyped
            DEF Execute, PreviousCommand, TypeOK, crm, Codes
  <2>2. CASE /\ commands[key[r]].status = "absent"
             /\ understood[r].intent = "update_stage" /\ ~DealMatches(understood[r])
    BY <1>9, <2>2, ThrowTyped DEF Execute, TypeOK, crm, Codes
  <2>3. CASE /\ commands[key[r]].status = "absent"
             /\ understood[r].intent = "update_stage" => DealMatches(understood[r])
    <3>1. /\ ApplyCommand(r, CommandResult(understood[r]))
          /\ Proceed(r, CommandResult(understood[r]))
          /\ pc[r] = "execute"
          /\ UNCHANGED interactions
      BY <1>9, <2>3 DEF Execute
    <3>2. StoreTyped' /\ CommandResult(understood[r]) \in Results
      BY <2>3, <3>1, CommandTyped DEF TypeOK
    <3> QED BY <3>1, <3>2, ReturnedTyped DEF Proceed, Steps
  <2> QED BY <2>1, <2>2, <2>3
<1>10. CASE CreateReview(r)
  <2>1. StoreTyped'
    <3> DEFINE row == [status |-> "needs_review", payload |-> payload[r],
                       understanding |-> understood[r], result |-> NoResult]
    <3>1. row \in CommandRows
      BY <1>a, DefaultsTyped DEF CommandRows
    <3>2. \/ UNCHANGED <<commands, outbox>>
          \/ /\ commands' = [commands EXCEPT ![key[r]] = row]
             /\ outbox' = Emit(key[r], "review.requested")
      BY <1>10 DEF CreateReview
    <3>3. UNCHANGED <<deals, customers, interactions>>
      BY <1>10 DEF CreateReview
    <3> HIDE DEF row
    <3>4. commands' \in [Keys -> CommandRows]
      BY <1>a, <3>1, <3>2, CommandWritten DEF TypeOK
    <3>5. outbox' \in [Keys -> [EventTypes -> Nat]]
      BY <1>a, <3>2, EventWritten DEF TypeOK, EventTypes
    <3> QED BY <3>3, <3>4, <3>5 DEF TypeOK
  <2>2. ReviewResult \in Results
    BY DEF ReviewResult, Results, Actions
  <2> QED BY <1>10, <2>1, <2>2, ReturnedTyped, ThrowTyped
          DEF CreateReview, PreviousReview, Steps, Codes
<1>11. CASE Synthesize(r)
  BY <1>11, GotoTyped DEF Synthesize, TypeOK, crm, Steps
<1>12. CASE RecordTts(r)
  <2>1. outbox' \in [Keys -> [EventTypes -> Nat]]
    BY <1>12, <1>a, EventWritten DEF RecordTts, TypeOK, EventTypes
  <2> QED BY <1>12, <2>1, AfterCommitTyped DEF RecordTts, TypeOK, crm, Steps
<1>13. CASE CheckpointTts(r)
  BY <1>13, AfterCommitTyped, ThrowTyped
  DEF CheckpointTts, TypeOK, crm, Steps, Codes
<1>14. CASE CompleteInteraction(r)
  <2>1. Compose(r) \in Responses
    BY <1>a DEF Compose, Responses
  <2>2. Compose(r).status \in {"completed", "needs_review"}
    BY DEF Compose
  <2>3. StoreTyped'
    <3> DEFINE row == [interactions[key[r]] EXCEPT !.status = Compose(r).status,
                                                   !.response = Compose(r)]
    <3>1. row \in InteractionRows
      BY <1>a, <2>1, <2>2 DEF InteractionRows
    <3>2. \/ interactions' = [interactions EXCEPT ![key[r]] = row]
          \/ UNCHANGED interactions
      BY <1>14 DEF CompleteInteraction
    <3> HIDE DEF row
    <3> QED BY <1>14, <1>a, <3>1, <3>2, InteractionWritten
            DEF CompleteInteraction, TypeOK, crm
  <2> QED BY <1>14, <2>1, <2>3, AnswerTyped, AnswersTyped, ThrowTyped
          DEF CompleteInteraction, Codes
<1>15. CASE InvalidResponse(r)
  BY <1>15, ThrowTyped DEF InvalidResponse, TypeOK, crm, Codes
<1>16. CASE ProviderFails(r)
  BY <1>16, ThrowTyped DEF ProviderFails, ProviderCodes, TypeOK, crm, Codes
<1>17. CASE TransactionAborts(r)
  BY <1>17, ThrowTyped DEF TransactionAborts, TypeOK, crm, Codes
<1>18. CASE FailInteraction(r)
  <2>1. StoreTyped'
    <3> DEFINE row == [interactions[key[r]] EXCEPT !.status = "failed",
                                                   !.code = code[r]]
    <3>1. row \in InteractionRows
      BY <1>a DEF InteractionRows
    <3>2. \/ interactions' = [interactions EXCEPT ![key[r]] = row]
          \/ UNCHANGED interactions
      BY <1>18 DEF FailInteraction, MarkFailed
    <3> HIDE DEF row
    <3> QED BY <1>18, <1>a, <3>1, <3>2, InteractionWritten
            DEF FailInteraction, TypeOK, crm
  <2> QED BY <1>18, <1>a, <2>1, AnswersTyped, AnswerTyped DEF FailInteraction
<1> QED BY <1>1, <1>2, <1>3, <1>4, <1>5, <1>6, <1>7, <1>8, <1>9, <1>10, <1>11,
           <1>12, <1>13, <1>14, <1>15, <1>16, <1>17, <1>18 DEF Handle

\* The variables of the handlers and the tables keep their types, whatever
\* requests arrive, fail and crash.
THEOREM TypeCorrect == Spec => []TypeOK
<1>1. Init => TypeOK
  BY DefaultsTyped DEF Init, TypeOK, Steps, Codes, EventTypes
<1>2. TypeOK /\ [Next]_vars => TypeOK'
  <2> SUFFICES ASSUME TypeOK, [Next]_vars PROVE TypeOK'
    OBVIOUS
  <2>1. CASE UNCHANGED vars
    BY <2>1 DEF vars, client, crm, TypeOK
  <2>2. ASSUME NEW r \in Requests, Handle(r) PROVE TypeOK'
    BY <2>2, HandleTyped
  <2>3. ASSUME NEW r \in Requests, Crash(r) PROVE TypeOK'
    BY <2>3, DefaultsTyped DEF Crash, Leave, crm, TypeOK, Steps, Codes
  <2> QED BY <2>1, <2>2, <2>3 DEF Next
<1> QED BY <1>1, <1>2, PTL DEF Spec
(***************************************************************************)
(* Safety.  The inductive invariant adds to the properties what a handler  *)
(* knows in the middle of its work: past the command step, the command of  *)
(* its key is on record, for its content and with the result it holds.     *)
(***************************************************************************)

\* The rows and events of each key follow from the status of its command.
Ledger ==
  \A k \in Keys :
    /\ commands[k].status = "absent" =>
         /\ outbox[k]["command.committed"] = 0
         /\ outbox[k]["review.requested"] = 0
         /\ customers[k] = 0
    /\ commands[k].status = "needs_review" =>
         /\ outbox[k]["command.committed"] = 0
         /\ outbox[k]["review.requested"] = 1
         /\ customers[k] = 0
    /\ commands[k].status = "committed" =>
         /\ outbox[k]["command.committed"] = 1
         /\ customers[k] = IF commands[k].result.action = "created" THEN 1 ELSE 0

AfterCommand == {"tts", "record_tts", "tts_checkpoint", "complete"}

\* What a handler that is past its command step can rely on.
PastCommand ==
  \A r \in Requests :
    /\ pc[r] \in {"execute", "tts", "record_tts", "tts_checkpoint"} =>
         ~understood[r].confirm
    /\ pc[r] = "review" => understood[r].confirm
    /\ pc[r] \in AfterCommand =>
         /\ commands[key[r]].payload = payload[r]
         /\ understood[r].confirm => commands[key[r]].status = "needs_review"
         /\ ~understood[r].confirm =>
              /\ commands[key[r]].status = "committed"
              /\ commands[key[r]].result = result[r]

\* The interaction a request owns was begun with its content.
OwnRow ==
  \A r \in Requests : interactions[key[r]].owner = r =>
    interactions[key[r]].payload = payload[r]

\* An answered interaction has its command on record.
Outcome ==
  \A k \in Keys :
    /\ interactions[k].status \in {"completed", "needs_review"} =>
         interactions[k].response.status = interactions[k].status
    /\ interactions[k].status = "completed" =>
         /\ commands[k].status = "committed"
         /\ commands[k].payload = interactions[k].payload
         /\ interactions[k].response.result = commands[k].result
    /\ interactions[k].status = "needs_review" =>
         commands[k].status = "needs_review"

IInv == TypeOK /\ Ledger /\ PastCommand /\ OwnRow /\ Outcome /\ SuccessIsReplayable

\* Only the command steps and recordTts touch the CRM tables or the outbox.
LEMMA CrmFrame ==
  ASSUME NEW r \in Requests, Handle(r),
         ~Execute(r), ~CreateReview(r), ~RecordTts(r)
  PROVE  UNCHANGED <<commands, deals, customers, outbox>>
BY DEF Handle, BeginInteraction, ReplayInteraction, RejectAsk, RecordInputAsset,
       Transcribe, CheckpointTranscript, Understand, CheckpointUnderstanding,
       Synthesize, CheckpointTts, CompleteInteraction, InvalidResponse,
       ProviderFails, TransactionAborts, FailInteraction, crm

\* A command that execute writes, spelt out.
LEMMA ExecuteWrites ==
  ASSUME TypeOK, NEW r \in Requests, Execute(r), ~UNCHANGED <<crm, outbox>>
  PROVE  /\ commands[key[r]].status = "absent"
         /\ commands' = [commands EXCEPT ![key[r]] =
              [status |-> "committed", payload |-> payload[r],
               understanding |-> understood[r],
               result |-> CommandResult(understood[r])]]
         /\ customers' = IF understood[r].intent = "create_customer"
                         THEN [customers EXCEPT ![key[r]] = @ + 1] ELSE customers
         /\ deals' = IF understood[r].intent = "update_stage"
                     THEN [deals EXCEPT ![understood[r].deal] = @ + 1] ELSE deals
         /\ understood[r].intent = "update_stage" => DealMatches(understood[r])
         /\ outbox' = Emit(key[r], "command.committed")
         /\ Proceed(r, CommandResult(understood[r]))
BY DEF Execute, PreviousCommand, ApplyCommand

\* The review command that createReview writes, spelt out.
LEMMA CreateReviewWrites ==
  ASSUME TypeOK, NEW r \in Requests, CreateReview(r), ~UNCHANGED <<crm, outbox>>
  PROVE  /\ commands[key[r]].status = "absent"
         /\ commands' = [commands EXCEPT ![key[r]] =
              [status |-> "needs_review", payload |-> payload[r],
               understanding |-> understood[r], result |-> NoResult]]
         /\ UNCHANGED <<deals, customers>>
         /\ outbox' = Emit(key[r], "review.requested")
         /\ Returned(r, ReviewResult, "complete")
BY DEF CreateReview, crm

\* Counting one event moves one counter.
LEMMA EmitCounts ==
  ASSUME TypeOK, NEW k \in Keys, NEW type \in EventTypes, outbox' = Emit(k, type)
  PROVE  \A j \in Keys, t \in EventTypes :
           outbox'[j][t] = IF j = k /\ t = type THEN outbox[j][t] + 1
                           ELSE outbox[j][t]
BY DEF TypeOK, Emit

\* A step changes a command only by writing the first one of its key.
LEMMA CommandStable ==
  ASSUME TypeOK, NEW r \in Requests, Handle(r),
         NEW k \in Keys, commands[k].status # "absent"
  PROVE  commands'[k] = commands[k]
<1>1. CASE Execute(r)
  BY <1>1, ExecuteWrites DEF TypeOK, crm
<1>2. CASE CreateReview(r)
  BY <1>2, CreateReviewWrites DEF TypeOK, crm
<1>3. CASE RecordTts(r)
  BY <1>3 DEF RecordTts, crm
<1> QED BY <1>1, <1>2, <1>3, CrmFrame

\* Events and customers of a key keep following from the status of its command.
LEMMA LedgerStep ==
  ASSUME TypeOK, Ledger, NEW r \in Requests, Handle(r)
  PROVE  Ledger'
<1> USE DEF Ledger
<1>1. CASE UNCHANGED <<commands, customers, outbox>>
  BY <1>1
<1>2. CASE Execute(r) /\ ~UNCHANGED <<crm, outbox>>
  <2>1. "command.committed" \in EventTypes /\ key[r] \in Keys
    BY DEF TypeOK, EventTypes
  <2>2. \A j \in Keys, t \in EventTypes :
           outbox'[j][t] = IF j = key[r] /\ t = "command.committed"
                           THEN outbox[j][t] + 1 ELSE outbox[j][t]
    BY <1>2, <2>1, ExecuteWrites, EmitCounts
  <2>3. CommandResult(understood[r]).action =
          CASE understood[r].intent = "update_stage" -> "updated"
            [] understood[r].intent = "create_customer" -> "created"
            [] OTHER -> "read_only"
    BY DEF CommandResult, NoResult
  <2>4. \A j \in Keys \ {key[r]} : commands'[j] = commands[j] /\ customers'[j] = customers[j]
    BY <1>2, <2>1, ExecuteWrites DEF TypeOK
  <2>5. /\ commands'[key[r]].status = "committed"
        /\ commands'[key[r]].result = CommandResult(understood[r])
        /\ customers[key[r]] = 0 /\ outbox[key[r]]["command.committed"] = 0
        /\ customers'[key[r]] = IF understood[r].intent = "create_customer" THEN 1 ELSE 0
    BY <1>2, <2>1, ExecuteWrites DEF TypeOK
  <2> QED BY <2>1, <2>2, <2>3, <2>4, <2>5 DEF EventTypes
<1>3. CASE CreateReview(r) /\ ~UNCHANGED <<crm, outbox>>
  <2>1. "review.requested" \in EventTypes /\ key[r] \in Keys
    BY DEF TypeOK, EventTypes
  <2>2. \A j \in Keys, t \in EventTypes :
           outbox'[j][t] = IF j = key[r] /\ t = "review.requested"
                           THEN outbox[j][t] + 1 ELSE outbox[j][t]
    BY <1>3, <2>1, CreateReviewWrites, EmitCounts
  <2>3. \A j \in Keys \ {key[r]} : commands'[j] = commands[j]
    BY <1>3, <2>1, CreateReviewWrites DEF TypeOK
  <2>4. /\ commands'[key[r]].status = "needs_review"
        /\ commands[key[r]].status = "absent"
        /\ UNCHANGED customers
    BY <1>3, <2>1, CreateReviewWrites DEF TypeOK
  <2> QED BY <2>1, <2>2, <2>3, <2>4 DEF EventTypes
<1>4. CASE RecordTts(r)
  <2>1. "tts.asset.created" \in EventTypes /\ key[r] \in Keys
    BY DEF TypeOK, EventTypes
  <2>2. \A j \in Keys, t \in EventTypes :
          t # "tts.asset.created" => outbox'[j][t] = outbox[j][t]
    BY <1>4, <2>1, EmitCounts DEF RecordTts
  <2> QED BY <1>4, <2>2 DEF RecordTts, crm, EventTypes
<1> QED BY <1>1, <1>2, <1>3, <1>4, CrmFrame DEF crm
\* What a step leaves alone in an interaction that it does not settle.
SameOutcome(k) ==
  /\ interactions'[k].owner = interactions[k].owner
  /\ interactions'[k].payload = interactions[k].payload
  /\ interactions'[k].status = interactions[k].status
  /\ interactions'[k].response = interactions[k].response
  /\ interactions'[k].code = interactions[k].code

\* A step begins the absent row of its own key, or settles the row its request
\* owns, or keeps the outcome of every row.
LEMMA RowChanges ==
  ASSUME TypeOK, NEW r \in Requests, Handle(r), NEW k \in Keys
  PROVE  \/ SameOutcome(k)
         \/ /\ k = key[r] /\ BeginInteraction(r)
            /\ interactions[k].status = "absent"
            /\ interactions'[k].status = "processing"
            /\ interactions'[k].owner = r
            /\ interactions'[k].payload = payload[r]
         \/ /\ k = key[r] /\ CompleteInteraction(r) /\ OwnsProcessing(r)
            /\ interactions'[k].owner = interactions[k].owner
            /\ interactions'[k].payload = interactions[k].payload
            /\ interactions'[k].status = Compose(r).status
            /\ interactions'[k].response = Compose(r)
         \/ /\ k = key[r] /\ FailInteraction(r) /\ OwnsProcessing(r)
            /\ interactions'[k].owner = interactions[k].owner
            /\ interactions'[k].payload = interactions[k].payload
            /\ interactions'[k].status = "failed"
<1>0. interactions[k] \in InteractionRows /\ key[r] \in Keys
  BY DEF TypeOK
<1>1. CASE UNCHANGED interactions
  BY <1>1 DEF SameOutcome
<1>2. CASE BeginInteraction(r)
  BY <1>0, <1>2 DEF BeginInteraction, SameOutcome, NoInteraction, TypeOK
<1>3. CASE RecordInputAsset(r)
  BY <1>0, <1>3 DEF RecordInputAsset, SameOutcome, InteractionRows, TypeOK
<1>4. CASE CheckpointTranscript(r)
  BY <1>0, <1>4 DEF CheckpointTranscript, SameOutcome, InteractionRows, TypeOK
<1>5. CASE CheckpointUnderstanding(r)
  BY <1>0, <1>5 DEF CheckpointUnderstanding, SameOutcome, InteractionRows, TypeOK
<1>6. CASE CompleteInteraction(r) /\ OwnsProcessing(r)
  <2> DEFINE row == [interactions[key[r]] EXCEPT !.status = Compose(r).status,
                                                 !.response = Compose(r)]
  <2>1. interactions' = [interactions EXCEPT ![key[r]] = row]
    BY <1>6 DEF CompleteInteraction
  <2>2. /\ row.owner = interactions[key[r]].owner
        /\ row.payload = interactions[key[r]].payload
        /\ row.status = Compose(r).status
        /\ row.response = Compose(r)
    BY <1>0 DEF InteractionRows, TypeOK
  <2> HIDE DEF row
  <2>3. interactions'[k] = IF k = key[r] THEN row ELSE interactions[k]
    BY <1>0, <2>1 DEF TypeOK
  <2> QED BY <1>6, <2>2, <2>3 DEF SameOutcome
<1>7. CASE FailInteraction(r)
  <2> DEFINE row == [interactions[key[r]] EXCEPT !.status = "failed", !.code = code[r]]
  <2>1. \/ UNCHANGED interactions
        \/ OwnsProcessing(r) /\ interactions' = [interactions EXCEPT ![key[r]] = row]
    BY <1>7 DEF FailInteraction, MarkFailed
  <2>2. /\ row.owner = interactions[key[r]].owner
        /\ row.payload = interactions[key[r]].payload
        /\ row.status = "failed"
    BY <1>0 DEF InteractionRows, TypeOK
  <2> HIDE DEF row
  <2>3. CASE interactions' = [interactions EXCEPT ![key[r]] = row]
    <3>1. interactions'[k] = IF k = key[r] THEN row ELSE interactions[k]
      BY <1>0, <2>3 DEF TypeOK
    <3> QED BY <1>1, <1>7, <2>1, <2>2, <3>1 DEF SameOutcome
  <2> QED BY <1>1, <2>1, <2>3
<1> QED
  BY <1>1, <1>2, <1>3, <1>4, <1>5, <1>6, <1>7
  DEF Handle, ReplayInteraction, RejectAsk, Transcribe, Understand, Execute,
      CreateReview, Synthesize, RecordTts, CheckpointTts, CompleteInteraction,
      InvalidResponse, ProviderFails, TransactionAborts

\* No step changes what a request asked for.
LEMMA RequestFixed ==
  ASSUME NEW r \in Requests, Handle(r)
  PROVE  UNCHANGED <<key, payload>>
BY DEF Handle, BeginInteraction, ReplayInteraction, RejectAsk, RecordInputAsset,
       Transcribe, CheckpointTranscript, Understand, CheckpointUnderstanding,
       Execute, PreviousCommand, CreateReview, PreviousReview, Proceed, Returned,
       Synthesize, RecordTts, CheckpointTts, CompleteInteraction, InvalidResponse,
       ProviderFails, TransactionAborts, FailInteraction, AfterCommit, Goto,
       Throw, Answer, Leave

\* An interaction keeps the content its owner began it with.
LEMMA OwnRowStep ==
  ASSUME TypeOK, OwnRow, NEW r \in Requests, Handle(r)
  PROVE  OwnRow'
<1> SUFFICES ASSUME NEW q \in Requests, interactions'[key[q]].owner = q
             PROVE  interactions'[key[q]].payload = payload[q]
  BY RequestFixed DEF OwnRow
<1>1. key[q] \in Keys
  BY DEF TypeOK
<1> QED BY <1>1, RowChanges DEF OwnRow, SameOutcome

\* A step of one request leaves the others where they are.
LEMMA OthersStay ==
  ASSUME TypeOK, NEW r \in Requests, Handle(r), NEW q \in Requests, q # r
  PROVE  /\ pc'[q] = pc[q] /\ understood'[q] = understood[q]
         /\ result'[q] = result[q] /\ reply'[q] = reply[q]
BY DEF TypeOK, Handle, BeginInteraction, ReplayInteraction, RejectAsk,
       RecordInputAsset, Transcribe, CheckpointTranscript, Understand,
       CheckpointUnderstanding, Execute, PreviousCommand, CreateReview,
       PreviousReview, Proceed, Returned, Synthesize, RecordTts, CheckpointTts,
       CompleteInteraction, InvalidResponse, ProviderFails, TransactionAborts,
       FailInteraction, AfterCommit, Goto, Throw, Answer, Leave

\* What PastCommand says of one request.
PastCommandOf(r) ==
  /\ pc[r] \in {"execute", "tts", "record_tts", "tts_checkpoint"} =>
       ~understood[r].confirm
  /\ pc[r] = "review" => understood[r].confirm
  /\ pc[r] \in AfterCommand =>
       /\ commands[key[r]].payload = payload[r]
       /\ understood[r].confirm => commands[key[r]].status = "needs_review"
       /\ ~understood[r].confirm =>
            /\ commands[key[r]].status = "committed"
            /\ commands[key[r]].result = result[r]

\* The step of the request itself.
LEMMA PastCommandOwnStep ==
  ASSUME TypeOK, NEW r \in Requests, PastCommandOf(r), Handle(r)
  PROVE  PastCommandOf(r)'
<1>0. /\ key[r] \in Keys /\ commands[key[r]] \in CommandRows
      /\ understood[r] \in Understandings /\ pc[r] \in Steps
      /\ understood[r].confirm \in BOOLEAN
      /\ UNCHANGED <<key, payload>>
  BY RequestFixed DEF TypeOK, Understandings
<1>1. CASE pc'[r] \notin AfterCommand \cup {"execute", "review"}
  BY <1>1 DEF PastCommandOf, AfterCommand
<1>2. CASE CheckpointUnderstanding(r)
  BY <1>0, <1>2 DEF CheckpointUnderstanding, CommandStep, AfterCommit, Goto, Throw,
                    PastCommandOf, AfterCommand, TypeOK
<1>3. CASE Execute(r)
  <2>1. ~understood[r].confirm
    BY <1>3 DEF PastCommandOf, Execute
  <2>2. CASE pc'[r] = "fail"
    BY <2>2 DEF PastCommandOf, AfterCommand
  <2>3. ASSUME pc'[r] # "fail"
        PROVE  \E res \in Results :
                 /\ Returned(r, res, IF payload[r] \in SpokenPayloads THEN "tts"
                                     ELSE "complete")
                 /\ pc'[r] \in {"tts", "complete"}
                 /\ result'[r] = res
                 /\ commands'[key[r]].payload = payload[r]
                 /\ commands'[key[r]].status = "committed"
                 /\ commands'[key[r]].result = res
    <3>1. CASE UNCHANGED <<crm, outbox>>
      <4>1. /\ commands[key[r]].status = "committed"
            /\ commands[key[r]].payload = payload[r]
            /\ Proceed(r, commands[key[r]].result)
        <5>1. CASE commands[key[r]].status # "absent"
          BY <1>0, <1>3, <2>3, <5>1
          DEF Execute, PreviousCommand, Throw, TypeOK, CommandRows
        <5>2. CASE commands[key[r]].status = "absent"
          BY <1>0, <1>3, <2>3, <3>1, <5>2
          DEF Execute, ApplyCommand, Throw, TypeOK, crm
        <5> QED BY <5>1, <5>2
      <4>2. commands[key[r]].result \in Results
        BY <1>0 DEF CommandRows
      <4> QED BY <2>3, <3>1, <4>1, <4>2 DEF Proceed, Returned, Throw, TypeOK, crm
    <3>2. CASE ~UNCHANGED <<crm, outbox>>
      <4>1. CommandResult(understood[r]) \in Results
        <5>1. understood[r].intent = "update_stage" => DealMatches(understood[r])
          BY <1>3, <2>3, <3>2 DEF Execute, PreviousCommand, Throw, TypeOK
        <5> QED BY <1>3, <5>1, CommandTyped DEF Execute
      <4> HIDE DEF CommandResult
      <4>2. /\ commands'[key[r]].payload = payload[r]
            /\ commands'[key[r]].status = "committed"
            /\ commands'[key[r]].result = CommandResult(understood[r])
            /\ Proceed(r, CommandResult(understood[r]))
        BY <1>0, <1>3, <3>2, ExecuteWrites DEF TypeOK
      <4> QED BY <2>3, <4>1, <4>2 DEF Proceed, Returned, Throw, TypeOK
    <3> QED BY <3>1, <3>2
  <2>4. UNCHANGED understood
    BY <1>3 DEF Execute, PreviousCommand, Proceed, Returned, Throw
  <2> QED BY <1>0, <2>1, <2>2, <2>3, <2>4 DEF PastCommandOf, AfterCommand
<1>4. CASE CreateReview(r)
  <2>1. understood[r].confirm /\ UNCHANGED understood
    BY <1>4 DEF PastCommandOf, CreateReview, PreviousReview, Returned, Throw
  <2>2. CASE UNCHANGED <<crm, outbox>>
    <3>1. \/ pc'[r] = "fail"
          \/ /\ commands[key[r]].status = "needs_review"
             /\ commands[key[r]].payload = payload[r]
             /\ pc'[r] = "complete"
      <4>1. CASE commands[key[r]].status # "absent"
        BY <1>0, <1>4, <4>1 DEF CreateReview, PreviousReview, Returned, Throw, TypeOK
      <4>2. CASE commands[key[r]].status = "absent"
        BY <1>0, <1>4, <2>2, <4>2 DEF CreateReview, TypeOK, crm
      <4> QED BY <4>1, <4>2
    <3> QED BY <1>0, <2>1, <2>2, <3>1 DEF PastCommandOf, AfterCommand, crm
  <2>3. CASE ~UNCHANGED <<crm, outbox>>
    BY <1>0, <1>4, <2>1, <2>3, CreateReviewWrites
    DEF PastCommandOf, AfterCommand, Returned, Throw, TypeOK
  <2> QED BY <2>2, <2>3
<1>5. CASE Synthesize(r) \/ RecordTts(r) \/ CheckpointTts(r)
  BY <1>0, <1>5 DEF Synthesize, RecordTts, CheckpointTts, AfterCommit, Goto, Throw,
                    PastCommandOf, AfterCommand, TypeOK, crm
<1> QED
  BY <1>0, <1>1, <1>2, <1>3, <1>4, <1>5
  DEF Handle, BeginInteraction, ReplayInteraction, RejectAsk, RecordInputAsset,
      Transcribe, CheckpointTranscript, Understand, CompleteInteraction,
      InvalidResponse, ProviderFails, TransactionAborts, FailInteraction,
      AfterCommit, Goto, Throw, Answer, Leave, FirstStep, AfterCommand, TypeOK

\* Whoever is past its command keeps it, whichever request moves.
LEMMA PastCommandStep ==
  ASSUME TypeOK, PastCommand, NEW r \in Requests, Handle(r)
  PROVE  PastCommand'
<1> SUFFICES ASSUME NEW q \in Requests PROVE PastCommandOf(q)'
  BY DEF PastCommand, PastCommandOf
<1>1. PastCommandOf(q) /\ PastCommandOf(r)
  BY DEF PastCommand, PastCommandOf
<1>2. CASE q = r
  BY <1>1, <1>2, PastCommandOwnStep
<1>3. CASE q # r
  <2>1. /\ pc'[q] = pc[q] /\ understood'[q] = understood[q] /\ result'[q] = result[q]
        /\ key'[q] = key[q] /\ payload'[q] = payload[q]
    BY <1>3, OthersStay, RequestFixed
  <2>2. key[q] \in Keys /\ understood[q].confirm \in BOOLEAN
    BY DEF TypeOK, Understandings
  <2>3. CASE pc[q] \in AfterCommand
    <3>1. commands[key[q]].status # "absent"
      BY <1>1, <2>2, <2>3 DEF PastCommandOf
    <3>2. commands'[key[q]] = commands[key[q]]
      BY <2>2, <3>1, CommandStable
    <3> QED BY <1>1, <2>1, <3>2 DEF PastCommandOf, AfterCommand
  <2>4. CASE pc[q] \notin AfterCommand
    BY <1>1, <2>1, <2>4 DEF PastCommandOf, AfterCommand
  <2> QED BY <2>3, <2>4
<1> QED BY <1>2, <1>3

\* A settled interaction keeps agreeing with the command under its key.
LEMMA OutcomeStep ==
  ASSUME TypeOK, PastCommand, OwnRow, Outcome, NEW r \in Requests, Handle(r)
  PROVE  Outcome'
<1> SUFFICES ASSUME NEW k \in Keys
             PROVE  /\ interactions'[k].status \in {"completed", "needs_review"} =>
                         interactions'[k].response.status = interactions'[k].status
                    /\ interactions'[k].status = "completed" =>
                         /\ commands'[k].status = "committed"
                         /\ commands'[k].payload = interactions'[k].payload
                         /\ interactions'[k].response.result = commands'[k].result
                    /\ interactions'[k].status = "needs_review" =>
                         commands'[k].status = "needs_review"
  BY DEF Outcome
<1>1. CASE SameOutcome(k)
  BY <1>1, CommandStable DEF Outcome, SameOutcome
<1>2. CASE interactions'[k].status \in {"processing", "failed"}
  BY <1>2
<1>3. CASE /\ k = key[r] /\ CompleteInteraction(r) /\ OwnsProcessing(r)
           /\ interactions'[k].payload = interactions[k].payload
           /\ interactions'[k].status = Compose(r).status
           /\ interactions'[k].response = Compose(r)
  <2>1. pc[r] = "complete" /\ UNCHANGED commands
    BY <1>3 DEF CompleteInteraction, crm
  <2>2. interactions[k].payload = payload[r]
    BY <1>3 DEF OwnsProcessing, OwnRow
  <2>3. understood[r].confirm \in BOOLEAN
    BY DEF TypeOK, Understandings
  <2>4. /\ commands[k].payload = payload[r]
        /\ understood[r].confirm => commands[k].status = "needs_review"
        /\ ~understood[r].confirm =>
             commands[k].status = "committed" /\ commands[k].result = result[r]
    BY <1>3, <2>1 DEF PastCommand, AfterCommand
  <2>5. /\ Compose(r).status = IF understood[r].confirm THEN "needs_review" ELSE "completed"
        /\ Compose(r).result = result[r]
    BY DEF Compose
  <2> QED BY <1>3, <2>1, <2>2, <2>3, <2>4, <2>5
<1> QED BY <1>1, <1>2, <1>3, RowChanges

\* A success is on record when it is sent, and stays on record.
LEMMA SuccessStep ==
  ASSUME TypeOK, OwnRow, Outcome, SuccessIsReplayable, NEW r \in Requests, Handle(r)
  PROVE  SuccessIsReplayable'
<1> SUFFICES ASSUME NEW q \in Requests, reply'[q].kind = "success"
             PROVE  /\ interactions'[key[q]].status = reply'[q].response.status
                    /\ interactions'[key[q]].response = reply'[q].response
                    /\ interactions'[key[q]].payload = payload[q]
  BY RequestFixed DEF SuccessIsReplayable
<1>0. key[q] \in Keys /\ key[r] \in Keys /\ reply[q] \in Replies
      /\ interactions[key[r]] \in InteractionRows
  BY DEF TypeOK
<1>1. CASE reply'[q] = reply[q]
  <2>1. /\ interactions[key[q]].status = reply[q].response.status
        /\ interactions[key[q]].response = reply[q].response
        /\ interactions[key[q]].payload = payload[q]
    BY <1>1 DEF SuccessIsReplayable
  <2>2. reply[q].response.status \notin {"absent", "processing"}
    BY <1>0 DEF Replies, Responses
  <2>3. SameOutcome(key[q])
    BY <1>0, <2>1, <2>2, RowChanges DEF OwnsProcessing
  <2> QED BY <1>1, <2>1, <2>3 DEF SameOutcome
<1>2. CASE reply'[q] # reply[q]
  <2>1. q = r
    BY <1>2, OthersStay
  <2>2. \A c : Error(c).kind # "success"
    BY DEF Error
  <2>3. CASE CompleteInteraction(r)
    <3>1. OwnsProcessing(r) /\ reply'[r] = Success(Compose(r))
      BY <1>2, <2>1, <2>3
      DEF CompleteInteraction, Answer, Throw, TypeOK
    <3>2. /\ interactions'[key[r]].status = Compose(r).status
          /\ interactions'[key[r]].response = Compose(r)
          /\ interactions'[key[r]].payload = interactions[key[r]].payload
      <4> DEFINE row == [interactions[key[r]] EXCEPT !.status = Compose(r).status,
                                                     !.response = Compose(r)]
      <4>1. interactions' = [interactions EXCEPT ![key[r]] = row]
        BY <2>3, <3>1 DEF CompleteInteraction
      <4>2. /\ row.payload = interactions[key[r]].payload
            /\ row.status = Compose(r).status /\ row.response = Compose(r)
        BY <1>0 DEF InteractionRows
      <4> HIDE DEF row
      <4> QED BY <1>0, <4>1, <4>2 DEF TypeOK
    <3>3. interactions[key[r]].payload = payload[r]
      BY <3>1 DEF OwnRow, OwnsProcessing
    <3> QED BY <2>1, <3>1, <3>2, <3>3 DEF Success
  <2>4. CASE ReplayInteraction(r)
    <3> DEFINE row == interactions[key[r]]
    <3>1. reply'[r] = PreviousOutcome(row, payload[r]) /\ UNCHANGED interactions
      BY <2>4 DEF ReplayInteraction, Answer, TypeOK
    <3>2. /\ row.payload = payload[r] /\ row.status \in {"completed", "needs_review"}
          /\ reply'[r] = Success(row.response)
      BY <2>1, <2>2, <3>1 DEF PreviousOutcome
    <3> QED BY <1>0, <2>1, <3>1, <3>2 DEF Success, Outcome
  <2>5. CASE ~CompleteInteraction(r) /\ ~ReplayInteraction(r)
    <3>1. UNCHANGED reply \/ reply'[r].kind = "error"
      <4>2. CASE BeginInteraction(r)
        BY <4>2 DEF BeginInteraction, Goto, Answer, Error, TypeOK
      <4>3. CASE RejectAsk(r)
        BY <4>3 DEF RejectAsk, Answer, Error, TypeOK
      <4>4. CASE FailInteraction(r)
        BY <4>4 DEF FailInteraction, Answer, Error, TypeOK
      <4> QED BY <2>5, <4>2, <4>3, <4>4
        DEF Handle, RecordInputAsset, Transcribe, CheckpointTranscript, Understand,
            CheckpointUnderstanding, Execute, PreviousCommand, CreateReview,
            PreviousReview, Proceed, Returned, Synthesize, RecordTts, CheckpointTts,
            InvalidResponse, ProviderFails, TransactionAborts, AfterCommit, Goto, Throw
    <3> QED BY <1>2, <2>1, <2>2, <3>1
  <2> QED BY <2>3, <2>4, <2>5
<1> QED BY <1>1, <1>2

\* The invariant holds initially and every step keeps it.
LEMMA InductiveInvariant == Spec => []IInv
<1>1. Init => IInv
  <2> SUFFICES ASSUME Init PROVE IInv
    OBVIOUS
  <2>1. TypeOK
    BY DefaultsTyped DEF Init, TypeOK, Steps, Codes, EventTypes
  <2>2. Ledger
    BY DEF Init, Ledger, NoCommand, EventTypes
  <2>3. PastCommand
    BY DEF Init, PastCommand, AfterCommand
  <2>4. OwnRow
    BY NoneAssumption DEF Init, OwnRow, NoInteraction
  <2>5. Outcome
    BY DEF Init, Outcome, NoInteraction
  <2>6. SuccessIsReplayable
    BY DEF Init, SuccessIsReplayable, NoReply
  <2> QED BY <2>1, <2>2, <2>3, <2>4, <2>5, <2>6 DEF IInv
<1>2. IInv /\ [Next]_vars => IInv'
  <2> SUFFICES ASSUME IInv, [Next]_vars PROVE IInv'
    OBVIOUS
  <2>1. CASE UNCHANGED vars
    BY <2>1 DEF vars, client, crm, IInv, TypeOK, Ledger, PastCommand, OwnRow,
                Outcome, SuccessIsReplayable
  <2>2. ASSUME NEW r \in Requests, Handle(r) PROVE IInv'
    BY <2>2, HandleTyped, LedgerStep, PastCommandStep, OwnRowStep, OutcomeStep,
       SuccessStep DEF IInv
  <2>3. ASSUME NEW r \in Requests, Crash(r) PROVE IInv'
    <3>1. TypeOK'
      BY <2>3, DefaultsTyped
      DEF IInv, Crash, Leave, crm, TypeOK, Steps, Codes
    <3>2. /\ UNCHANGED <<key, payload, reply, interactions, commands, deals,
                         customers, outbox>>
          /\ \A q \in Requests \ {r} : pc'[q] = pc[q] /\ understood'[q] = understood[q]
                                       /\ result'[q] = result[q]
          /\ pc'[r] = "lost"
      BY <2>3 DEF IInv, Crash, Leave, crm, TypeOK
    <3>3. Ledger' /\ OwnRow' /\ Outcome' /\ SuccessIsReplayable'
      BY <3>2 DEF IInv, Ledger, OwnRow, Outcome, SuccessIsReplayable
    <3>4. PastCommand'
      BY <3>2 DEF IInv, PastCommand, AfterCommand
    <3> QED BY <3>1, <3>3, <3>4 DEF IInv
  <2> QED BY <2>1, <2>2, <2>3 DEF Next
<1> QED BY <1>1, <1>2, PTL DEF Spec

\* No interaction is completed before its command has committed, and the
\* answer on record shows the result of that very command.
THEOREM CompletedCommitted == Spec => []CompletedMeansCommitted
<1>1. IInv => CompletedMeansCommitted
  BY DEF IInv, Outcome, CompletedMeansCommitted
<1> QED BY <1>1, InductiveInvariant, PTL

\* What needs confirmation has its review and left the CRM untouched.
THEOREM ReviewsHoldBack == Spec => []ReviewHoldsBack
<1>1. IInv => ReviewHoldsBack
  BY DEF IInv, Outcome, Ledger, ReviewHoldsBack
<1> QED BY <1>1, InductiveInvariant, PTL

\* One event and one effect for every committed command, none for the others.
THEOREM EffectsMatch == Spec => []EffectsMatchEvents
<1>1. IInv => EffectsMatchEvents
  BY DEF IInv, TypeOK, CommandRows, Ledger, EffectsMatchEvents
<1> QED BY <1>1, InductiveInvariant, PTL

\* Every successful answer is the one on record for its key and content.
THEOREM SuccessReplayable == Spec => []SuccessIsReplayable
<1>1. IInv => SuccessIsReplayable
  BY DEF IInv
<1> QED BY <1>1, InductiveInvariant, PTL
\* A settled interaction keeps its status, its answer and its error, through
\* every retry, crash and late failure of its handler.
THEOREM SettledForGood == Spec => SettledStays
<1>1. TypeOK /\ [Next]_vars =>
        [\A k \in Keys : interactions[k].status \in Settled =>
           /\ interactions'[k].status = interactions[k].status
           /\ interactions'[k].response = interactions[k].response
           /\ interactions'[k].code = interactions[k].code]_vars
  <2> SUFFICES ASSUME TypeOK, Next, NEW k \in Keys, interactions[k].status \in Settled
               PROVE  /\ interactions'[k].status = interactions[k].status
                      /\ interactions'[k].response = interactions[k].response
                      /\ interactions'[k].code = interactions[k].code
    OBVIOUS
  <2>1. ASSUME NEW r \in Requests, Handle(r) PROVE SameOutcome(k)
    BY <2>1, RowChanges DEF OwnsProcessing, Settled
  <2>2. ASSUME NEW r \in Requests, Crash(r) PROVE SameOutcome(k)
    BY <2>2 DEF Crash, SameOutcome
  <2> QED BY <2>1, <2>2 DEF Next, SameOutcome
<1> QED BY <1>1, TypeCorrect, PTL DEF Spec, SettledStays

(***************************************************************************)
(* The versions of a deal.  The property is inductive once a version is    *)
(* known to be 1 or more: a committed update takes the version after the   *)
(* one its transaction found, and no later step writes that key again.     *)
(***************************************************************************)

\* What EveryVersionHasOneCommand says of one deal, and that versions start at 1.
VersionsOf(d) ==
  /\ deals[d] >= 1
  /\ \A v \in 2 .. deals[d] : \E k \in Updates(d) : commands[k].result.version = v
  /\ \A j, k \in Updates(d) :
       commands[j].result.version = commands[k].result.version => j = k
  /\ \A k \in Updates(d) :
       /\ commands[k].result.version \in 2 .. deals[d]
       /\ commands[k].understanding.expected
            \in {None, commands[k].result.version - 1}

\* A deal that is not written, by no update of its own, keeps its versions.
LEMMA VersionsFrame ==
  ASSUME NEW d \in Deals, VersionsOf(d), deals'[d] = deals[d],
         Updates(d)' = Updates(d), \A k \in Updates(d) : commands'[k] = commands[k]
  PROVE  VersionsOf(d)'
BY DEF VersionsOf

\* A command that is written keeps the versions of every deal in order.
LEMMA VersionsStep ==
  ASSUME TypeOK, NEW r \in Requests, Handle(r), NEW d \in Deals, VersionsOf(d)
  PROVE  VersionsOf(d)'
<1>0. key[r] \in Keys /\ deals[d] \in Nat
  BY DEF TypeOK
<1>1. CASE UNCHANGED <<commands, deals>>
  BY <1>1, VersionsFrame DEF Updates
<1>2. CASE CreateReview(r) /\ ~UNCHANGED <<crm, outbox>>
  <2>1. /\ commands[key[r]].status = "absent"
        /\ commands'[key[r]].status = "needs_review"
        /\ \A j \in Keys \ {key[r]} : commands'[j] = commands[j]
        /\ deals' = deals
    BY <1>0, <1>2, CreateReviewWrites DEF TypeOK
  <2> QED BY <2>1, VersionsFrame DEF Updates
<1>3. CASE Execute(r) /\ ~UNCHANGED <<crm, outbox>>
  <2> DEFINE u == understood[r]
  <2>1. /\ commands[key[r]].status = "absent"
        /\ commands'[key[r]].status = "committed"
        /\ commands'[key[r]].understanding = u
        /\ commands'[key[r]].result = CommandResult(u)
        /\ \A j \in Keys \ {key[r]} : commands'[j] = commands[j]
        /\ deals' = IF u.intent = "update_stage" THEN [deals EXCEPT ![u.deal] = @ + 1]
                    ELSE deals
        /\ u.intent = "update_stage" => DealMatches(u)
    BY <1>0, <1>3, ExecuteWrites DEF TypeOK
  <2> HIDE DEF u
  <2>2. CASE u.intent = "update_stage" /\ u.deal = d
    <3>1. /\ deals'[d] = deals[d] + 1
          /\ u.expected \in {None, deals[d]}
          /\ CommandResult(u).action = "updated"
          /\ CommandResult(u).deal = d
          /\ CommandResult(u).version = deals[d] + 1
      BY <2>1, <2>2 DEF TypeOK, DealMatches, CommandResult
    <3>2. /\ Updates(d)' = Updates(d) \cup {key[r]} /\ key[r] \notin Updates(d)
          /\ \A j \in Updates(d) : commands'[j] = commands[j]
          /\ commands'[key[r]].result.version = deals[d] + 1
          /\ commands'[key[r]].understanding.expected \in {None, deals[d]}
      BY <1>0, <2>1, <3>1 DEF Updates
    <3> HIDE DEF Updates
    <3>3. \A v \in 2 .. deals'[d] :
            \E k \in Updates(d)' : commands'[k].result.version = v
      BY <1>0, <3>1, <3>2 DEF VersionsOf
    <3>4. \A j, k \in Updates(d)' :
            commands'[j].result.version = commands'[k].result.version => j = k
      BY <1>0, <3>2 DEF VersionsOf
    <3>5. \A k \in Updates(d)' :
            /\ commands'[k].result.version \in 2 .. deals'[d]
            /\ commands'[k].understanding.expected
                 \in {None, commands'[k].result.version - 1}
      BY <1>0, <3>1, <3>2 DEF VersionsOf
    <3> QED BY <1>0, <3>1, <3>3, <3>4, <3>5 DEF VersionsOf
  <2>3. CASE ~(u.intent = "update_stage" /\ u.deal = d)
    <3>1. deals'[d] = deals[d]
      BY <2>1, <2>3 DEF TypeOK, DealMatches
    <3>2. CommandResult(u).action = "updated" => CommandResult(u).deal # d
      BY <2>3 DEF CommandResult, NoResult
    <3> QED BY <2>1, <3>1, <3>2, VersionsFrame DEF Updates
  <2> QED BY <2>2, <2>3
<1>4. CASE RecordTts(r)
  BY <1>1, <1>4 DEF RecordTts, crm
<1> QED BY <1>1, <1>2, <1>3, <1>4, CrmFrame DEF crm

\* Every version of a deal after the first comes from exactly one committed
\* command, made for the version before it or for whichever is current.
THEOREM VersionsHaveCommands == Spec => []EveryVersionHasOneCommand
<1> DEFINE Inv == \A d \in Deals : VersionsOf(d)
<1>1. Init => Inv
  BY DEF Init, VersionsOf, Updates, NoCommand
<1>2. TypeOK /\ Inv /\ [Next]_vars => Inv'
  <2> SUFFICES ASSUME TypeOK, Inv, [Next]_vars, NEW d \in Deals PROVE VersionsOf(d)'
    OBVIOUS
  <2>1. CASE UNCHANGED vars
    BY <2>1, VersionsFrame DEF vars, crm, Updates
  <2>2. ASSUME NEW r \in Requests, Handle(r) PROVE VersionsOf(d)'
    BY <2>2, VersionsStep
  <2>3. ASSUME NEW r \in Requests, Crash(r) PROVE VersionsOf(d)'
    BY <2>3, VersionsFrame DEF Crash, crm, Updates
  <2> QED BY <2>1, <2>2, <2>3 DEF Next
<1>3. Inv => EveryVersionHasOneCommand
  BY DEF VersionsOf, EveryVersionHasOneCommand
<1> QED BY <1>1, <1>2, <1>3, TypeCorrect, PTL DEF Spec

(***************************************************************************)
(* The trail of an answer.  An unfinished request owns the row of its key, *)
(* and no command is written under the key before its own: so what it      *)
(* checkpoints and what it executes are about one understanding, and the   *)
(* replays of execute and createReview are not taken by an ask.            *)
(***************************************************************************)

BeforeCommand ==
  {"input", "asr", "transcript", "intent", "understanding", "review", "execute"}

\* An unfinished request owns the row of its key.
Began == \A r \in Requests : pc[r] \in Active => interactions[key[r]].owner = r

\* A key without an interaction has no owner and no command.
Fresh ==
  \A k \in Keys : interactions[k].status = "absent" =>
    interactions[k].owner = None /\ commands[k].status = "absent"

\* What a request that is on its way has left on record so far.
TrailOf(r) ==
  LET row == interactions[key[r]]
  IN /\ pc[r] \in BeforeCommand => commands[key[r]].status = "absent"
     /\ payload[r] \in AudioPayloads /\ pc[r] \in Active \ {"input", "fail"} =>
          row.input
     /\ pc[r] \in {"intent", "understanding", "review", "execute"} \cup AfterCommand =>
          row.transcript
     /\ pc[r] \in {"review", "execute"} \cup AfterCommand =>
          row.understanding = understood[r]
     /\ pc[r] \in AfterCommand => commands[key[r]].understanding = understood[r]

Trail == \A r \in Requests : TrailOf(r)

\* The rows of an unfinished request are its own: no other handler writes them.
LEMMA RowsAreOwn ==
  ASSUME TypeOK, Began, Fresh, NEW r \in Requests, Handle(r),
         NEW q \in Requests, q # r, pc[q] \in Active
  PROVE  /\ interactions'[key[q]] = interactions[key[q]]
         /\ commands'[key[q]] = commands[key[q]]
<1>0. key[q] \in Keys /\ key[r] \in Keys
  BY DEF TypeOK
<1>1. CASE key[q] = key[r]
  <2>1. interactions[key[r]].owner = q /\ pc[r] \notin Active
    BY <1>1 DEF Began
  <2>2. interactions[key[r]].status # "absent"
    BY <1>0, <2>1, NoneAssumption DEF Fresh
  <2>3. UNCHANGED <<interactions, commands>>
    BY <2>1, <2>2
    DEF Handle, BeginInteraction, ReplayInteraction, RejectAsk, RecordInputAsset,
        Transcribe, CheckpointTranscript, Understand, CheckpointUnderstanding,
        Execute, CreateReview, Synthesize, RecordTts, CheckpointTts,
        CompleteInteraction, InvalidResponse, ProviderFails, ProviderCodes,
        TransactionAborts, TransactionSteps, FailInteraction, Active, Steps, crm
  <2> QED BY <2>3
<1>2. CASE key[q] # key[r]
  <2>1. interactions'[key[q]] = interactions[key[q]]
    BY <1>0, <1>2
    DEF Handle, BeginInteraction, ReplayInteraction, RejectAsk, RecordInputAsset,
        Transcribe, CheckpointTranscript, Understand, CheckpointUnderstanding,
        Execute, CreateReview, Synthesize, RecordTts, CheckpointTts,
        CompleteInteraction, InvalidResponse, ProviderFails, TransactionAborts,
        FailInteraction, MarkFailed, TypeOK
  <2>2. commands'[key[q]] = commands[key[q]]
    <3>1. CASE UNCHANGED commands
      BY <3>1
    <3>2. CASE Execute(r) /\ ~UNCHANGED <<crm, outbox>>
      BY <1>0, <1>2, <3>2, ExecuteWrites DEF TypeOK
    <3>3. CASE CreateReview(r) /\ ~UNCHANGED <<crm, outbox>>
      BY <1>0, <1>2, <3>3, CreateReviewWrites DEF TypeOK
    <3> QED BY <3>1, <3>2, <3>3, CrmFrame DEF crm, RecordTts
  <2> QED BY <2>1, <2>2
<1> QED BY <1>1, <1>2

\* A request becomes active only by beginning the interaction of its key.
LEMMA BeganStep ==
  ASSUME TypeOK, Began, Fresh, NEW r \in Requests, Handle(r)
  PROVE  Began'
<1> SUFFICES ASSUME NEW q \in Requests, pc'[q] \in Active
             PROVE  interactions'[key[q]].owner = q
  BY RequestFixed DEF Began
<1>1. CASE q # r
  BY <1>1, OthersStay, RowsAreOwn DEF Began
<1>2. CASE q = r
  <2>1. key[r] \in Keys
    BY DEF TypeOK
  <2>2. CASE pc[r] \in Active
    BY <1>2, <2>1, <2>2, RowChanges DEF Began, SameOutcome
  <2>3. CASE pc[r] \notin Active
    <3>1. BeginInteraction(r)
      BY <1>2, <2>3
      DEF Handle, ReplayInteraction, RejectAsk, RecordInputAsset, Transcribe,
          CheckpointTranscript, Understand, CheckpointUnderstanding, Execute,
          CreateReview, Synthesize, RecordTts, CheckpointTts, CompleteInteraction,
          InvalidResponse, ProviderFails, ProviderCodes, TransactionAborts,
          TransactionSteps, FailInteraction, Answer, Leave, Active, Steps, TypeOK
    <3> QED BY <1>2, <2>1, <3>1 DEF BeginInteraction, NoInteraction, TypeOK
  <2> QED BY <2>2, <2>3
<1> QED BY <1>1, <1>2

\* A key without an interaction stays without a command.
LEMMA FreshStep ==
  ASSUME TypeOK, Began, Fresh, NEW r \in Requests, Handle(r)
  PROVE  Fresh'
<1> SUFFICES ASSUME NEW k \in Keys, interactions'[k].status = "absent"
             PROVE  interactions'[k].owner = None /\ commands'[k].status = "absent"
  BY DEF Fresh
<1>1. SameOutcome(k)
  BY RowChanges DEF Compose
<1>2. interactions[k].owner = None /\ commands[k].status = "absent"
  BY <1>1 DEF SameOutcome, Fresh
<1>3. commands'[k] = commands[k]
  <2>1. CASE UNCHANGED commands
    BY <2>1
  <2>2. CASE pc[r] \in Active
    <3>1. k # key[r]
      BY <1>2, <2>2, NoneAssumption DEF Began
    <3> QED BY <3>1, CrmFrame, ExecuteWrites, CreateReviewWrites
            DEF RecordTts, crm, TypeOK
  <2>3. Execute(r) \/ CreateReview(r) => pc[r] \in Active
    BY DEF Execute, CreateReview, Active, Steps
  <2> QED BY <2>1, <2>2, <2>3, CrmFrame DEF RecordTts, crm
<1> QED BY <1>1, <1>2, <1>3 DEF SameOutcome

\* Each step of a request adds to the trail what the next one relies on.
LEMMA TrailOwnStep ==
  ASSUME TypeOK, Began, Fresh, NEW r \in Requests, TrailOf(r), Handle(r)
  PROVE  TrailOf(r)'
<1>0. /\ key[r] \in Keys /\ interactions[key[r]] \in InteractionRows
      /\ commands[key[r]] \in CommandRows /\ UNCHANGED <<key, payload>>
      /\ pc[r] \in Active => interactions[key[r]].owner = r
  BY RequestFixed DEF TypeOK, Began
<1> USE DEF TrailOf, BeforeCommand, AfterCommand, Active, Steps
<1>1. CASE pc'[r] \in {"done", "lost"}
  BY <1>1
<1>2. CASE pc'[r] = "fail"
  BY <1>2
<1>3. CASE BeginInteraction(r)
  BY <1>0, <1>1, <1>3 DEF BeginInteraction, FirstStep, Goto, Answer, Leave, Fresh,
                          TypeOK, crm
<1>4. CASE RecordInputAsset(r)
  <2>1. /\ interactions'[key[r]].input
        /\ commands' = commands /\ pc'[r] \in {"asr", "fail"}
    BY <1>0, <1>4 DEF RecordInputAsset, AfterCommit, Goto, Throw, TypeOK,
                      InteractionRows, crm
  <2> QED BY <1>0, <1>4, <2>1 DEF RecordInputAsset
<1>5. CASE CheckpointTranscript(r)
  <2>1. \/ pc'[r] = "fail"
        \/ /\ interactions'[key[r]] = [interactions[key[r]] EXCEPT !.transcript = TRUE]
           /\ pc'[r] = "intent"
    BY <1>0, <1>5 DEF CheckpointTranscript, AfterCommit, Goto, Throw, TypeOK
  <2> QED BY <1>0, <1>2, <1>5, <2>1 DEF CheckpointTranscript, InteractionRows, crm
<1>6. CASE CheckpointUnderstanding(r)
  <2>1. \/ pc'[r] = "fail"
        \/ /\ interactions'[key[r]] =
                [interactions[key[r]] EXCEPT !.understanding = understood[r]]
           /\ pc'[r] \in {"review", "execute"} /\ UNCHANGED understood
    BY <1>0, <1>6 DEF CheckpointUnderstanding, CommandStep, AfterCommit, Goto,
                      Throw, TypeOK
  <2> QED BY <1>0, <1>2, <1>6, <2>1 DEF CheckpointUnderstanding, InteractionRows, crm
<1>7. CASE Execute(r)
  <2>1. commands[key[r]].status = "absent" /\ UNCHANGED <<interactions, understood>>
    BY <1>7 DEF Execute, PreviousCommand, Proceed, Returned, Throw
  <2>2. CASE UNCHANGED <<crm, outbox>>
    BY <1>0, <1>2, <1>7, <2>1, <2>2 DEF Execute, ApplyCommand, Throw, TypeOK, crm
  <2>3. CASE ~UNCHANGED <<crm, outbox>>
    BY <1>0, <1>7, <2>1, <2>3, ExecuteWrites DEF Execute, Proceed, Returned, Throw,
                                                TypeOK
  <2> QED BY <2>2, <2>3
<1>8. CASE CreateReview(r)
  <2>1. commands[key[r]].status = "absent" /\ UNCHANGED <<interactions, understood>>
    BY <1>8 DEF CreateReview, PreviousReview, Returned, Throw
  <2>2. commands'[key[r]].understanding = understood[r] /\ pc'[r] \in {"complete", "fail"}
    BY <1>0, <1>8, <2>1 DEF CreateReview, Returned, Throw, TypeOK
  <2> QED BY <1>0, <1>8, <2>1, <2>2 DEF CreateReview
<1>9. CASE \/ Transcribe(r) \/ Understand(r) \/ Synthesize(r) \/ RecordTts(r)
           \/ CheckpointTts(r)
  <2>1. UNCHANGED <<interactions, commands>>
    BY <1>9 DEF Transcribe, Understand, Synthesize, RecordTts, CheckpointTts, crm
  <2> QED BY <1>0, <1>9, <2>1
          DEF Transcribe, Understand, Synthesize, RecordTts, CheckpointTts,
              AfterCommit, Goto, Throw, TypeOK
<1> QED
  BY <1>1, <1>2, <1>3, <1>4, <1>5, <1>6, <1>7, <1>8, <1>9
  DEF Handle, ReplayInteraction, RejectAsk, CompleteInteraction, InvalidResponse,
      ProviderFails, TransactionAborts, FailInteraction, Throw, Answer, Leave, TypeOK

\* Whoever is on its way keeps its trail, whichever request moves.
LEMMA TrailStep ==
  ASSUME TypeOK, Began, Fresh, Trail, NEW r \in Requests, Handle(r)
  PROVE  Trail'
<1> SUFFICES ASSUME NEW q \in Requests PROVE TrailOf(q)'
  BY DEF Trail
<1>1. TrailOf(q) /\ TrailOf(r)
  BY DEF Trail
<1>2. CASE q = r
  BY <1>1, <1>2, TrailOwnStep
<1>3. CASE q # r
  <2>1. /\ pc'[q] = pc[q] /\ understood'[q] = understood[q]
        /\ UNCHANGED <<key, payload>>
    BY <1>3, OthersStay, RequestFixed
  <2>2. CASE pc[q] \in Active
    BY <1>1, <1>3, <2>1, <2>2, RowsAreOwn DEF TrailOf
  <2>3. CASE pc[q] \notin Active
    BY <2>1, <2>3 DEF TrailOf, BeforeCommand, AfterCommand, Active, Steps
  <2> QED BY <2>2, <2>3
<1> QED BY <1>2, <1>3

\* An answer is given with its trail, and nothing changes the trail afterwards.
LEMMA AnswerTrailStep ==
  ASSUME TypeOK, OwnRow, Outcome, Trail, AnswerHasTrail, NEW r \in Requests, Handle(r)
  PROVE  AnswerHasTrail'
<1> SUFFICES ASSUME NEW k \in Keys,
                    interactions'[k].status \in {"completed", "needs_review"}
             PROVE  /\ interactions'[k].payload \in AudioPayloads => interactions'[k].input
                    /\ interactions'[k].transcript
                    /\ interactions'[k].understanding = commands'[k].understanding
  BY DEF AnswerHasTrail
<1>0. key[r] \in Keys /\ interactions[k] \in InteractionRows
  BY DEF TypeOK
<1>1. CASE SameOutcome(k)
  <2>1. /\ interactions[k].status \in {"completed", "needs_review"}
        /\ commands'[k] = commands[k]
    BY <1>1, CommandStable DEF SameOutcome, Outcome
  <2>2. /\ interactions[k].payload \in AudioPayloads => interactions[k].input
        /\ interactions[k].transcript
        /\ interactions[k].understanding = commands[k].understanding
    BY <2>1 DEF AnswerHasTrail
  <2>3. /\ interactions[k].input => interactions'[k].input
        /\ interactions'[k].transcript = interactions[k].transcript
        /\ interactions'[k].understanding = interactions[k].understanding
    <3>1. CASE RecordInputAsset(r)
      BY <1>0, <3>1 DEF RecordInputAsset, TypeOK, InteractionRows
    <3>2. CASE ~RecordInputAsset(r)
      <4>1. interactions'[k] = interactions[k]
        BY <1>0, <2>1, <3>2
        DEF Handle, BeginInteraction, ReplayInteraction, RejectAsk, Transcribe,
            CheckpointTranscript, Understand, CheckpointUnderstanding, Execute,
            CreateReview, Synthesize, RecordTts, CheckpointTts,
            CompleteInteraction, InvalidResponse, ProviderFails,
            TransactionAborts, FailInteraction, MarkFailed, OwnsProcessing, TypeOK
      <4> QED BY <4>1
    <3> QED BY <3>1, <3>2
  <2> QED BY <1>1, <2>1, <2>2, <2>3 DEF SameOutcome
<1>2. CASE k = key[r] /\ CompleteInteraction(r) /\ OwnsProcessing(r)
  <2>1. /\ interactions'[k].payload = interactions[k].payload
        /\ interactions'[k].input = interactions[k].input
        /\ interactions'[k].transcript = interactions[k].transcript
        /\ interactions'[k].understanding = interactions[k].understanding
        /\ commands' = commands /\ pc[r] = "complete"
    <3> DEFINE row == [interactions[key[r]] EXCEPT !.status = Compose(r).status,
                                                   !.response = Compose(r)]
    <3>1. interactions' = [interactions EXCEPT ![key[r]] = row]
      BY <1>2 DEF CompleteInteraction
    <3>2. /\ row.payload = interactions[key[r]].payload
          /\ row.input = interactions[key[r]].input
          /\ row.transcript = interactions[key[r]].transcript
          /\ row.understanding = interactions[key[r]].understanding
      BY <1>0, <1>2 DEF InteractionRows
    <3> HIDE DEF row
    <3> QED BY <1>0, <1>2, <3>1, <3>2 DEF CompleteInteraction, TypeOK, crm
  <2>2. interactions[k].payload = payload[r]
    BY <1>2 DEF OwnsProcessing, OwnRow
  <2> QED BY <1>2, <2>1, <2>2 DEF Trail, TrailOf, AfterCommand, Active, Steps
<1> QED BY <1>1, <1>2, RowChanges

\* Together with the safety invariant, the trail is invariant.
LEMMA TrailInvariant == Spec => [](Began /\ Fresh /\ Trail /\ AnswerHasTrail)
<1> DEFINE TInv == Began /\ Fresh /\ Trail /\ AnswerHasTrail
<1>1. Init => TInv
  BY DEF Init, Began, Fresh, Trail, TrailOf, AnswerHasTrail, BeforeCommand,
         AfterCommand, Active, Steps, NoInteraction, NoCommand
<1>2. IInv /\ TInv /\ [Next]_vars => TInv'
  <2> SUFFICES ASSUME IInv, TInv, [Next]_vars PROVE TInv'
    OBVIOUS
  <2>1. CASE UNCHANGED vars
    BY <2>1 DEF vars, client, crm, Began, Fresh, Trail, TrailOf, AnswerHasTrail
  <2>2. ASSUME NEW r \in Requests, Handle(r) PROVE TInv'
    BY <2>2, BeganStep, FreshStep, TrailStep, AnswerTrailStep DEF IInv
  <2>3. ASSUME NEW r \in Requests, Crash(r) PROVE TInv'
    <3>1. /\ UNCHANGED <<key, payload, interactions, commands>>
          /\ \A q \in Requests \ {r} : pc'[q] = pc[q] /\ understood'[q] = understood[q]
          /\ pc'[r] = "lost"
      BY <2>3 DEF IInv, Crash, Leave, crm, TypeOK
    <3>2. Began' /\ Fresh' /\ AnswerHasTrail'
      BY <3>1 DEF Began, Fresh, AnswerHasTrail, Active
    <3>3. Trail'
      BY <3>1 DEF Trail, TrailOf, BeforeCommand, AfterCommand, Active
    <3> QED BY <3>2, <3>3
  <2> QED BY <2>1, <2>2, <2>3 DEF Next
<1> QED BY <1>1, <1>2, InductiveInvariant, PTL DEF Spec

\* An answer comes with the input, the transcript and the understanding its
\* command was made from, all on record.
THEOREM AnswersHaveTrails == Spec => []AnswerHasTrail
BY TrailInvariant, PTL

\* Under one key the first command is the only one that is attempted: when a
\* request reaches execute or createReview its key has no command yet, so an
\* ask never takes the replay of the command store.
THEOREM CommandIsFirst ==
  Spec => [](\A r \in Requests : pc[r] \in {"review", "execute"} =>
               commands[key[r]].status = "absent")
<1>1. Trail => \A r \in Requests : pc[r] \in {"review", "execute"} =>
                 commands[key[r]].status = "absent"
  BY DEF Trail, TrailOf, BeforeCommand
<1> QED BY <1>1, TrailInvariant, PTL

(***************************************************************************)
(* The promise of IdempotentAsk.  Beside the invariants above, a request   *)
(* that has not failed still has its interaction to settle, and the result *)
(* it holds is the one its command is on record with.  Every step of a     *)
(* handler is then one step of the promise, or none.                       *)
(***************************************************************************)

\* What a request that is on its way can still do.
OnItsWay(r) ==
  /\ reply[r].kind # "none" => pc[r] = "done"
  /\ pc[r] \in Active \ {"fail"} => interactions[key[r]].status = "processing"
  /\ pc[r] \in AfterCommand /\ understood[r].confirm => result[r] = ReviewResult

\* A key without an interaction has no content, and a committed command is no
\* review.
KeyOf(k) ==
  /\ interactions[k].status = "absent" => interactions[k].payload = None
  /\ commands[k].status = "committed" => commands[k].result.action # "needs_review"

PInv ==
  /\ IInv /\ Began /\ Fresh /\ Trail
  /\ \A r \in Requests : OnItsWay(r)
  /\ \A k \in Keys : KeyOf(k)

\* A request that moves has not been answered.
LEMMA MovesUnanswered ==
  ASSUME PInv, NEW r \in Requests, Handle(r)
  PROVE  reply[r].kind = "none"
BY DEF PInv, OnItsWay, Handle, BeginInteraction, ReplayInteraction, RejectAsk,
       RecordInputAsset, Transcribe, CheckpointTranscript, Understand,
       CheckpointUnderstanding, Execute, CreateReview, Synthesize, RecordTts,
       CheckpointTts, CompleteInteraction, InvalidResponse, ProviderFails,
       ProviderCodes, TransactionAborts, TransactionSteps, FailInteraction

\* Only an answer ends a handler.
LEMMA AnswersEnd ==
  ASSUME TypeOK, NEW r \in Requests, Handle(r)
  PROVE  UNCHANGED reply \/ pc'[r] = "done"
BY DEF Handle, BeginInteraction, ReplayInteraction, RejectAsk,
       RecordInputAsset, Transcribe, CheckpointTranscript, Understand,
       CheckpointUnderstanding, Execute, PreviousCommand, CreateReview,
       PreviousReview, Proceed, Returned, Synthesize, RecordTts, CheckpointTts,
       CompleteInteraction, InvalidResponse, ProviderFails, TransactionAborts,
       FailInteraction, AfterCommit, Goto, Throw, Answer, Leave, TypeOK

\* The step of the request itself.
LEMMA OnItsWayOwnStep ==
  ASSUME PInv, NEW r \in Requests, Handle(r)
  PROVE  OnItsWay(r)'
<1>0. /\ key[r] \in Keys /\ UNCHANGED <<key, payload>> /\ TypeOK /\ OnItsWay(r)
      /\ pc[r] \in Steps
  BY RequestFixed DEF PInv, IInv, TypeOK
<1>1. reply'[r].kind # "none" => pc'[r] = "done"
  BY <1>0, MovesUnanswered, AnswersEnd
<1>2. pc'[r] \in Active \ {"fail"} => interactions'[key[r]].status = "processing"
  <2> SUFFICES ASSUME pc'[r] \in Active \ {"fail"}
               PROVE  interactions'[key[r]].status = "processing"
    OBVIOUS
  <2>1. CASE BeginInteraction(r)
    BY <1>0, <2>1 DEF BeginInteraction, NoInteraction, TypeOK
  <2>2. CASE ~BeginInteraction(r)
    <3>1. ~CompleteInteraction(r) /\ ~FailInteraction(r)
      BY <1>0 DEF CompleteInteraction, FailInteraction, Answer, Leave, Throw, Active,
                  TypeOK
    <3>2. SameOutcome(key[r])
      BY <1>0, <2>2, <3>1, RowChanges
    <3>3. pc[r] \in Active \ {"fail"}
      BY <1>0, <2>2, <3>1
      DEF Handle, ReplayInteraction, RejectAsk, RecordInputAsset, Transcribe,
          CheckpointTranscript, Understand, CheckpointUnderstanding, Execute,
          CreateReview, Synthesize, RecordTts, CheckpointTts, InvalidResponse,
          ProviderFails, ProviderCodes, TransactionAborts, TransactionSteps,
          Answer, Leave, Active, Steps, TypeOK
    <3> QED BY <1>0, <3>2, <3>3 DEF SameOutcome, OnItsWay
  <2> QED BY <2>1, <2>2
<1>3. pc'[r] \in AfterCommand /\ understood'[r].confirm => result'[r] = ReviewResult
  <2> SUFFICES ASSUME pc'[r] \in AfterCommand, understood'[r].confirm
               PROVE  result'[r] = ReviewResult
    OBVIOUS
  <2>1. CASE CreateReview(r)
    BY <1>0, <2>1 DEF CreateReview, PreviousReview, Returned, Throw, AfterCommand,
                      TypeOK
  <2>2. CASE Execute(r)
    <3>1. ~understood[r].confirm /\ understood' = understood
      BY <1>0, <2>2 DEF PInv, IInv, PastCommand, Execute, PreviousCommand, Proceed,
                        Returned, Throw
    <3> QED BY <3>1
  <2>3. CASE CheckpointUnderstanding(r)
    <3>1. pc'[r] \notin AfterCommand
      BY <1>0, <2>3 DEF CheckpointUnderstanding, CommandStep, AfterCommit, Goto,
                        Throw, AfterCommand, TypeOK
    <3> QED BY <3>1
  <2>4. CASE ~CreateReview(r) /\ ~Execute(r) /\ ~CheckpointUnderstanding(r)
    <3>1. pc[r] \in AfterCommand /\ understood'[r] = understood[r]
          /\ result'[r] = result[r]
      BY <1>0, <2>4
      DEF Handle, BeginInteraction, FirstStep, ReplayInteraction, RejectAsk,
          RecordInputAsset, Transcribe, CheckpointTranscript, Understand, Synthesize,
          RecordTts, CheckpointTts, CompleteInteraction, InvalidResponse,
          ProviderFails, TransactionAborts, FailInteraction, AfterCommit, Goto,
          Throw, Answer, Leave, AfterCommand, TypeOK
    <3> QED BY <1>0, <3>1 DEF OnItsWay
  <2> QED BY <2>1, <2>2, <2>3, <2>4
<1> QED BY <1>0, <1>1, <1>2, <1>3 DEF OnItsWay

\* What holds of a key is kept by every step.
LEMMA KeyOfStep ==
  ASSUME PInv, NEW r \in Requests, Handle(r), NEW k \in Keys
  PROVE  KeyOf(k)'
<1>0. TypeOK /\ KeyOf(k) /\ key[r] \in Keys
  BY DEF PInv, IInv, TypeOK
<1>1. interactions'[k].status = "absent" => interactions'[k].payload = None
  BY <1>0, RowChanges DEF SameOutcome, KeyOf, Compose
<1>2. commands'[k].status = "committed" => commands'[k].result.action # "needs_review"
  <2>1. CASE commands'[k] = commands[k]
    BY <1>0, <2>1 DEF KeyOf
  <2>2. CASE Execute(r) /\ ~UNCHANGED <<crm, outbox>>
    <3>1. CommandResult(understood[r]).action # "needs_review"
      BY DEF CommandResult, NoResult
    <3> QED BY <1>0, <2>1, <2>2, <3>1, ExecuteWrites DEF TypeOK
  <2>3. CASE CreateReview(r) /\ ~UNCHANGED <<crm, outbox>>
    BY <1>0, <2>1, <2>3, CreateReviewWrites DEF TypeOK
  <2> QED BY <1>0, <2>1, <2>2, <2>3, CrmFrame DEF crm, RecordTts
<1> QED BY <1>1, <1>2 DEF KeyOf

\* The invariant of the refinement holds initially and every step keeps it.
LEMMA PromiseInvariant == Spec => []PInv
<1> DEFINE Inv == (\A r \in Requests : OnItsWay(r)) /\ (\A k \in Keys : KeyOf(k))
<1>1. Init => Inv
  BY DEF Init, OnItsWay, KeyOf, NoReply, NoInteraction, NoCommand, Active, Steps,
         AfterCommand
<1>2. PInv /\ [Next]_vars => Inv'
  <2> SUFFICES ASSUME PInv, [Next]_vars PROVE Inv'
    OBVIOUS
  <2>0. TypeOK /\ Began /\ Fresh
    BY DEF PInv, IInv
  <2>1. CASE UNCHANGED vars
    BY <2>1 DEF vars, client, crm, PInv, OnItsWay, KeyOf
  <2>2. ASSUME NEW r \in Requests, Handle(r) PROVE Inv'
    <3>1. ASSUME NEW q \in Requests, q # r PROVE OnItsWay(q)'
      <4>1. /\ pc'[q] = pc[q] /\ understood'[q] = understood[q]
            /\ result'[q] = result[q] /\ reply'[q] = reply[q] /\ key'[q] = key[q]
        BY <2>0, <2>2, <3>1, OthersStay, RequestFixed
      <4>2. pc[q] \in Active => interactions'[key[q]] = interactions[key[q]]
        BY <2>0, <2>2, <3>1, RowsAreOwn
      <4> QED BY <4>1, <4>2 DEF PInv, OnItsWay
    <3> QED BY <2>2, <3>1, OnItsWayOwnStep, KeyOfStep
  <2>3. ASSUME NEW r \in Requests, Crash(r) PROVE Inv'
    <3>1. /\ UNCHANGED <<key, interactions, commands, reply>>
          /\ \A q \in Requests \ {r} : pc'[q] = pc[q] /\ understood'[q] = understood[q]
                                       /\ result'[q] = result[q]
          /\ pc[r] \in Active /\ pc'[r] = "lost"
      BY <2>0, <2>3 DEF Crash, Leave, crm, TypeOK
    <3>2. \A k \in Keys : KeyOf(k)'
      BY <3>1 DEF PInv, KeyOf
    <3>3. \A q \in Requests \ {r} : OnItsWay(q)'
      BY <3>1 DEF PInv, OnItsWay
    <3>4. OnItsWay(r)'
      BY <3>1 DEF PInv, OnItsWay, AfterCommand, Active
    <3> QED BY <3>2, <3>3, <3>4
  <2> QED BY <2>1, <2>2, <2>3 DEF Next
<1>3. PInv <=> IInv /\ Began /\ Fresh /\ Trail /\ Inv
  BY DEF PInv
<1> QED BY <1>1, <1>2, <1>3, InductiveInvariant, TrailInvariant, PTL DEF Spec

\* The tables keep their meaning for the promise when no row gets another
\* outcome, no command is written and no event of an effect is added.
LEMMA SameMeaning ==
  /\ (\A k \in Keys : SameOutcome(k)) => claims' = claims /\ outcomes' = outcomes
  /\ commands' = commands => effects' = effects
  /\ outbox' = outbox => effectEvents' = effectEvents
  /\ reply' = reply => answers' = answers
<1>1. ASSUME \A k \in Keys : SameOutcome(k)
      PROVE  claims' = claims /\ outcomes' = outcomes
  <2>1. claims' = claims
    BY <1>1 DEF claims, SameOutcome
  <2>2. outcomes' = outcomes
    BY <1>1 DEF outcomes, SameOutcome
  <2> QED BY <2>1, <2>2
<1>2. /\ commands' = commands => effects' = effects
      /\ outbox' = outbox => effectEvents' = effectEvents
      /\ reply' = reply => answers' = answers
  BY DEF effects, effectEvents, answers
<1> QED BY <1>1, <1>2

\* A function that differs from another one at one point.
LEMMA Updated ==
  ASSUME NEW S, NEW f, NEW g, NEW a \in S, NEW v,
         f = [x \in S |-> f[x]], g = [x \in S |-> g[x]],
         \A x \in S : g[x] = IF x = a THEN v ELSE f[x]
  PROVE  g = [f EXCEPT ![a] = v]
OBVIOUS

\* The views of the tables are functions of the keys, and of the requests.
LEMMA Views ==
  /\ claims = [k \in Keys |-> claims[k]] /\ claims' = [k \in Keys |-> claims'[k]]
  /\ effects = [k \in Keys |-> effects[k]] /\ effects' = [k \in Keys |-> effects'[k]]
  /\ outcomes = [k \in Keys |-> outcomes[k]] /\ outcomes' = [k \in Keys |-> outcomes'[k]]
  /\ answers = [r \in Requests |-> answers[r]] /\ answers' = [r \in Requests |-> answers'[r]]
  /\ effectEvents = [k \in Keys |-> effectEvents[k]]
  /\ effectEvents' = [k \in Keys |-> effectEvents'[k]]
BY DEF claims, effects, outcomes, answers, effectEvents

\* Whoever has sent nothing is still to be told, and what is sent is told.
LEMMA Untold ==
  ASSUME NEW r \in Requests, reply[r].kind = "none"
  PROVE  answers[r] = Promised!Open
BY DEF answers, Promised!Open

LEMMA ToldError ==
  ASSUME TypeOK, NEW r \in Requests, NEW c, reply' = [reply EXCEPT ![r] = Error(c)]
  PROVE  Promised!Tell(r, Promised!Failed(c))
<1>1. \A q \in Requests : reply'[q] = IF q = r THEN Error(c) ELSE reply[q]
  BY DEF TypeOK
<1>2. Error(c).kind = "error" /\ Error(c).code = c
  BY DEF Error
<1>3. \A q \in Requests :
        answers'[q] = IF q = r THEN [status |-> "failed", code |-> c] ELSE answers[q]
  BY <1>1, <1>2 DEF answers
<1>4. answers' = [answers EXCEPT ![r] = [status |-> "failed", code |-> c]]
  BY <1>3, Updated, Views
<1> QED BY <1>4 DEF Promised!Tell, Promised!Failed

LEMMA ToldSuccess ==
  ASSUME TypeOK, NEW r \in Requests, NEW response,
         reply' = [reply EXCEPT ![r] = Success(response)]
  PROVE  Promised!Tell(r, response)
<1>1. \A q \in Requests : reply'[q] = IF q = r THEN Success(response) ELSE reply[q]
  BY DEF TypeOK
<1>2. Success(response).kind = "success" /\ Success(response).response = response
  BY DEF Success
<1>3. \A q \in Requests : answers'[q] = IF q = r THEN response ELSE answers[q]
  BY <1>1, <1>2 DEF answers
<1>4. answers' = [answers EXCEPT ![r] = response]
  BY <1>3, Updated, Views
<1> QED BY <1>4 DEF Promised!Tell

\* An error that settles nothing is a refusal.
LEMMA RefuseStep ==
  ASSUME PInv, NEW r \in Requests, Handle(r), NEW c \in Codes,
         reply' = [reply EXCEPT ![r] = Error(c)],
         UNCHANGED <<interactions, crm, outbox>>
  PROVE  Promised!Serve(r)
<1>1. Promised!Tell(r, Promised!Failed(c)) /\ answers[r] = Promised!Open
  BY ToldError, Untold, MovesUnanswered DEF PInv, IInv
<1>2. /\ UNCHANGED <<key, payload, commands, deals, customers>>
      /\ claims' = claims /\ outcomes' = outcomes /\ effects' = effects
      /\ effectEvents' = effectEvents
  BY RequestFixed, SameMeaning DEF SameOutcome, crm
<1>3. Promised!Refuse(r)
  BY <1>1, <1>2 DEF Promised!Refuse, Promised!asks, Promised!crm
<1> QED BY <1>1, <1>3 DEF Promised!Serve

\* beginInteraction claims the key, whether or not its answer arrives.
LEMMA ClaimStep ==
  ASSUME PInv, NEW r \in Requests, BeginInteraction(r)
  PROVE  Promised!Serve(r)
<1>0. TypeOK /\ key[r] \in Keys /\ Handle(r)
  BY DEF PInv, IInv, TypeOK, Handle
<1>1. answers[r] = Promised!Open
  BY <1>0, Untold, MovesUnanswered
<1>2. \A k \in Keys : interactions'[k] =
        IF k = key[r]
        THEN [NoInteraction EXCEPT !.status = "processing", !.owner = r,
                                   !.payload = payload[r]]
        ELSE interactions[k]
  BY <1>0 DEF BeginInteraction, TypeOK
<1>3. interactions[key[r]].status = "absent" /\ interactions[key[r]].payload = None
  BY <1>0 DEF BeginInteraction, PInv, KeyOf
<1>4. claims[key[r]] = None /\ claims' = [claims EXCEPT ![key[r]] = payload[r]]
  <2>1. claims[key[r]] = None
    BY <1>0, <1>3 DEF claims
  <2>2. \A k \in Keys : claims'[k] = IF k = key[r] THEN payload[r] ELSE claims[k]
    BY <1>2 DEF claims, NoInteraction
  <2> QED BY <1>0, <2>1, <2>2, Updated, Views
<1>5. outcomes' = outcomes
  <2>1. \A k \in Keys : outcomes'[k] = outcomes[k]
    BY <1>2, <1>3 DEF outcomes, NoInteraction
  <2> QED BY <2>1, Views
<1>6. /\ UNCHANGED <<key, payload, deals, customers>>
      /\ effects' = effects /\ effectEvents' = effectEvents
  BY <1>0, RequestFixed, SameMeaning DEF BeginInteraction, crm
<1>7. answers' = answers \/ \E c \in Codes : Promised!Tell(r, Promised!Failed(c))
  <2>1. UNCHANGED reply \/ reply' = [reply EXCEPT ![r] = Error("DATABASE")]
    BY DEF BeginInteraction, Goto, Answer
  <2>2. "DATABASE" \in Codes
    BY DEF Codes
  <2> QED BY <1>0, <2>1, <2>2, ToldError, SameMeaning
<1>8. Promised!Claim(r)
  BY <1>4, <1>5, <1>6, <1>7 DEF Promised!Claim, Promised!asks, Promised!crm
<1> QED BY <1>1, <1>8 DEF Promised!Serve

\* A key whose interaction is there answers with its outcome, or refuses.
LEMMA ReplayStep ==
  ASSUME PInv, NEW r \in Requests, ReplayInteraction(r)
  PROVE  Promised!Serve(r)
<1> DEFINE row == interactions[key[r]]
<1>0. /\ TypeOK /\ key[r] \in Keys /\ Handle(r) /\ row \in InteractionRows
      /\ row.status # "absent" /\ UNCHANGED <<interactions, crm, outbox>>
      /\ reply' = [reply EXCEPT ![r] = PreviousOutcome(row, payload[r])]
  BY DEF PInv, IInv, TypeOK, Handle, ReplayInteraction, Answer
<1>1. answers[r] = Promised!Open
  BY <1>0, Untold, MovesUnanswered
<1>2. /\ UNCHANGED <<key, payload, commands, deals, customers>>
      /\ claims' = claims /\ outcomes' = outcomes /\ effects' = effects
      /\ effectEvents' = effectEvents
  BY <1>0, RequestFixed, SameMeaning DEF SameOutcome, crm
<1>3. CASE row.payload # payload[r] \/ row.status = "processing"
  <2>1. PICK c \in Codes : PreviousOutcome(row, payload[r]) = Error(c)
    BY <1>3 DEF PreviousOutcome, Codes
  <2> QED BY <1>0, <2>1, RefuseStep
<1>4. CASE row.payload = payload[r] /\ row.status \in {"completed", "needs_review"}
  <2>1. PreviousOutcome(row, payload[r]) = Success(row.response)
    BY <1>4 DEF PreviousOutcome
  <2>2. Promised!Tell(r, row.response)
    BY <1>0, <2>1, ToldSuccess
  <2>3. outcomes[key[r]] = row.response /\ claims[key[r]] = payload[r]
    BY <1>0, <1>4 DEF outcomes, claims
  <2>4. row.response # Promised!Open
    <3>1. row.response.status = row.status
      BY <1>0, <1>4 DEF PInv, IInv, Outcome
    <3> QED BY <1>4, <3>1 DEF Promised!Open
  <2>5. Promised!Replay(r)
    BY <1>2, <2>2, <2>3, <2>4 DEF Promised!Replay, Promised!asks, Promised!crm
  <2> QED BY <1>1, <2>5 DEF Promised!Serve
<1>5. CASE row.payload = payload[r] /\ row.status = "failed"
  <2>1. PreviousOutcome(row, payload[r]) = Error(row.code)
    BY <1>5 DEF PreviousOutcome
  <2>2. Promised!Tell(r, Promised!Failed(row.code))
    BY <1>0, <2>1, ToldError
  <2>3. outcomes[key[r]] = Promised!Failed(row.code) /\ claims[key[r]] = payload[r]
    BY <1>0, <1>5 DEF outcomes, claims, Promised!Failed
  <2>4. Promised!Failed(row.code) # Promised!Open
    BY DEF Promised!Failed, Promised!Open
  <2>5. Promised!Replay(r)
    BY <1>2, <2>2, <2>3, <2>4 DEF Promised!Replay, Promised!asks, Promised!crm
  <2> QED BY <1>1, <2>5 DEF Promised!Serve
<1> QED BY <1>0, <1>3, <1>4, <1>5 DEF InteractionRows

\* A request that is on its way holds a key that is still to be settled.
LEMMA StillPending ==
  ASSUME PInv, NEW r \in Requests, pc[r] \in Active \ {"fail"}
  PROVE  Promised!IsPending(r) /\ OwnsProcessing(r)
<1>1. key[r] \in Keys /\ OwnsProcessing(r)
  BY DEF PInv, IInv, TypeOK, OnItsWay, Began, OwnsProcessing
<1>2. interactions[key[r]].payload = payload[r]
  BY <1>1 DEF PInv, IInv, OwnRow, OwnsProcessing
<1>3. claims[key[r]] = payload[r] /\ outcomes[key[r]] = [status |-> "open"]
  BY <1>1, <1>2 DEF claims, outcomes, OwnsProcessing
<1> QED BY <1>1, <1>3 DEF Promised!IsPending, Promised!Open

\* A step that writes the first command of its key, with one event.
LEMMA EffectTaken ==
  ASSUME PInv, NEW r \in Requests, Handle(r), pc[r] \in Active \ {"fail"},
         NEW done, NEW type \in {"command.committed", "review.requested"},
         commands[key[r]].status = "absent",
         \A k \in Keys \ {key[r]} : commands'[k] = commands[k],
         effects'[key[r]] = done,
         outbox' = Emit(key[r], type),
         UNCHANGED <<interactions, reply>>
  PROVE  Promised!TakeEffect(r, done, type) /\ answers[r] = Promised!Open
<1>0. TypeOK /\ key[r] \in Keys /\ type \in EventTypes
  BY DEF PInv, IInv, TypeOK, EventTypes
<1>1. effects[key[r]] = Promised!NoEffect
  BY <1>0 DEF effects, Promised!NoEffect, NoResult
<1>2. effects' = [effects EXCEPT ![key[r]] = done]
  <2>1. \A k \in Keys : effects'[k] = IF k = key[r] THEN done ELSE effects[k]
    BY DEF effects
  <2> QED BY <1>0, <2>1, Updated, Views
<1>3. effectEvents' = [effectEvents EXCEPT ![key[r]][type] = @ + 1]
  <2> DEFINE counts == [effectEvents[key[r]] EXCEPT ![type] = @ + 1]
  <2>1. \A k \in Keys : effectEvents'[k] = IF k = key[r] THEN counts ELSE effectEvents[k]
    BY <1>0, EmitCounts DEF effectEvents, EventTypes
  <2> HIDE DEF counts
  <2>2. effectEvents' = [effectEvents EXCEPT ![key[r]] = counts]
    BY <1>0, <2>1, Updated, Views
  <2> QED BY <2>2 DEF counts
<1>4. /\ UNCHANGED <<key, payload>> /\ answers' = answers
      /\ claims' = claims /\ outcomes' = outcomes
  BY RequestFixed, SameMeaning DEF SameOutcome
<1>5. Promised!IsPending(r) /\ answers[r] = Promised!Open
  BY StillPending, Untold, MovesUnanswered
<1> QED BY <1>1, <1>2, <1>3, <1>4, <1>5 DEF Promised!TakeEffect, Promised!asks

\* The variables of the promise.
Seen == <<key, payload, claims, outcomes, answers, effects, deals, customers, effectEvents>>

\* A step that answers nobody, settles nothing and writes no command is none of
\* the promise's.
LEMMA QuietStep ==
  ASSUME PInv, NEW r \in Requests, Handle(r), \A k \in Keys : SameOutcome(k),
         UNCHANGED <<crm, outbox, reply>>
  PROVE  UNCHANGED Seen
BY RequestFixed, SameMeaning DEF Seen, crm

\* execute takes the effect of its key, or changes nothing.
LEMMA ExecuteStep ==
  ASSUME PInv, NEW r \in Requests, Execute(r)
  PROVE  Promised!Serve(r) \/ UNCHANGED Seen
<1> DEFINE u == understood[r]
           done == CommandResult(understood[r])
<1>0. /\ TypeOK /\ key[r] \in Keys /\ Handle(r) /\ pc[r] \in Active \ {"fail"}
      /\ UNCHANGED <<interactions, reply>> /\ u \in Understandings
  BY DEF PInv, IInv, TypeOK, Handle, Execute, PreviousCommand, Proceed, Returned, Throw,
         Active, Steps
<1>1. CASE UNCHANGED <<crm, outbox>>
  BY <1>0, <1>1, QuietStep DEF SameOutcome
<1>2. CASE ~UNCHANGED <<crm, outbox>>
  <2>1. /\ commands[key[r]].status = "absent"
        /\ \A k \in Keys \ {key[r]} : commands'[k] = commands[k]
        /\ effects'[key[r]] = done
        /\ outbox' = Emit(key[r], "command.committed")
    <3>1. /\ commands[key[r]].status = "absent"
          /\ \A k \in Keys \ {key[r]} : commands'[k] = commands[k]
          /\ commands'[key[r]].status = "committed"
          /\ commands'[key[r]].result = done
          /\ outbox' = Emit(key[r], "command.committed")
      BY <1>0, <1>2, ExecuteWrites DEF TypeOK
    <3> HIDE DEF done
    <3> QED BY <1>0, <3>1 DEF effects
  <2>2. /\ Promised!TakeEffect(r, done, "command.committed")
        /\ answers[r] = Promised!Open
    <3> HIDE DEF done
    <3> QED BY <1>0, <2>1, EffectTaken
  <2>3. /\ customers' = IF u.intent = "create_customer"
                        THEN [customers EXCEPT ![key[r]] = @ + 1] ELSE customers
        /\ deals' = IF u.intent = "update_stage" THEN [deals EXCEPT ![u.deal] = @ + 1]
                    ELSE deals
        /\ u.intent = "update_stage" => u.deal \in Deals
    BY <1>0, <1>2, ExecuteWrites DEF DealMatches
  <2>4. CASE u.intent = "update_stage"
    <3>1. done = [action |-> "updated", deal |-> u.deal, version |-> deals[u.deal] + 1]
      BY <2>4 DEF CommandResult
    <3> HIDE DEF done, u
    <3>2. Promised!UpdateStage(r, u.deal)
      BY <2>2, <2>3, <2>4, <3>1 DEF Promised!UpdateStage
    <3> QED BY <2>2, <2>3, <2>4, <3>2 DEF Promised!Serve
  <2>5. CASE u.intent = "create_customer"
    <3>1. done = [action |-> "created", deal |-> None, version |-> 1]
      BY <2>5 DEF CommandResult
    <3> HIDE DEF done, u
    <3>2. Promised!CreateCustomer(r)
      BY <2>2, <2>3, <2>5, <3>1 DEF Promised!CreateCustomer
    <3> QED BY <2>2, <3>2 DEF Promised!Serve
  <2>6. CASE u.intent \notin {"update_stage", "create_customer"}
    <3>1. done = [action |-> "read_only", deal |-> None, version |-> 0]
      BY <2>6 DEF CommandResult, NoResult
    <3> HIDE DEF done, u
    <3>2. Promised!OnlyRead(r)
      BY <2>2, <2>3, <2>6, <3>1 DEF Promised!OnlyRead
    <3> QED BY <2>2, <3>2 DEF Promised!Serve
  <2> QED BY <2>4, <2>5, <2>6
<1> QED BY <1>1, <1>2

\* createReview requests the review of its key, or changes nothing.
LEMMA ReviewStep ==
  ASSUME PInv, NEW r \in Requests, CreateReview(r)
  PROVE  Promised!Serve(r) \/ UNCHANGED Seen
<1>0. /\ TypeOK /\ key[r] \in Keys /\ Handle(r) /\ pc[r] \in Active \ {"fail"}
      /\ UNCHANGED <<interactions, reply>>
  BY DEF PInv, IInv, TypeOK, Handle, CreateReview, PreviousReview, Returned, Throw,
         Active, Steps
<1>1. CASE UNCHANGED <<crm, outbox>>
  BY <1>0, <1>1, QuietStep DEF SameOutcome
<1>2. CASE ~UNCHANGED <<crm, outbox>>
  <2>1. /\ commands[key[r]].status = "absent"
        /\ \A k \in Keys \ {key[r]} : commands'[k] = commands[k]
        /\ commands'[key[r]].status = "needs_review"
        /\ outbox' = Emit(key[r], "review.requested")
        /\ UNCHANGED <<deals, customers>>
    BY <1>0, <1>2, CreateReviewWrites DEF TypeOK
  <2>2. effects'[key[r]] = ReviewResult
    BY <1>0, <2>1 DEF effects
  <2>3. /\ Promised!TakeEffect(r, ReviewResult, "review.requested")
        /\ answers[r] = Promised!Open
    BY <1>0, <2>1, <2>2, EffectTaken
  <2>4. Promised!RequestReview(r)
    BY <2>1, <2>3 DEF Promised!RequestReview, ReviewResult
  <2> QED BY <2>3, <2>4 DEF Promised!Serve
<1> QED BY <1>1, <1>2

\* The event of a speech asset is none of an effect.
LEMMA RecordTtsStep ==
  ASSUME PInv, NEW r \in Requests, RecordTts(r)
  PROVE  UNCHANGED Seen
<1>0. /\ TypeOK /\ key[r] \in Keys /\ Handle(r)
      /\ UNCHANGED <<interactions, commands, deals, customers, reply>>
  BY DEF PInv, IInv, TypeOK, Handle, RecordTts, AfterCommit, Goto, Throw, crm
<1>1. effectEvents' = effectEvents
  <2>1. CASE UNCHANGED outbox
    BY <2>1, SameMeaning
  <2>2. CASE outbox' = Emit(key[r], "tts.asset.created")
    <3>1. "tts.asset.created" \in EventTypes
      BY DEF EventTypes
    <3>2. \A k \in Keys : effectEvents'[k] = effectEvents[k]
      BY <1>0, <2>2, <3>1, EmitCounts DEF effectEvents, EventTypes
    <3> QED BY <3>2, Views
  <2> QED BY <2>1, <2>2 DEF RecordTts
<1> QED BY <1>0, <1>1, RequestFixed, SameMeaning DEF Seen, SameOutcome

\* Settling the key of a request, told or untold, is a step of the promise.
LEMMA SettleStep ==
  ASSUME PInv, NEW r \in Requests, Handle(r), NEW answer,
         Promised!IsPending(r),
         \A k \in Keys : interactions'[k].payload = interactions[k].payload,
         \A k \in Keys \ {key[r]} : SameOutcome(k),
         outcomes'[key[r]] = answer,
         UNCHANGED <<crm, outbox>>,
         answers' = answers \/ Promised!Tell(r, answer)
  PROVE  Promised!Settle(r, answer) /\ answers[r] = Promised!Open
<1>0. TypeOK /\ key[r] \in Keys
  BY DEF PInv, IInv, TypeOK
<1>1. claims' = claims
  BY DEF claims
<1>2. outcomes' = [outcomes EXCEPT ![key[r]] = answer]
  <2>1. \A k \in Keys : outcomes'[k] = IF k = key[r] THEN answer ELSE outcomes[k]
    BY DEF outcomes, SameOutcome
  <2> QED BY <1>0, <2>1, Updated, Views
<1>3. /\ UNCHANGED <<key, payload, deals, customers>>
      /\ effects' = effects /\ effectEvents' = effectEvents
  BY RequestFixed, SameMeaning DEF crm
<1>4. answers[r] = Promised!Open
  BY Untold, MovesUnanswered
<1> QED BY <1>1, <1>2, <1>3, <1>4 DEF Promised!Settle, Promised!asks, Promised!crm

\* completeInteraction settles its key with the answer that shows the effect.
LEMMA CompleteStep ==
  ASSUME PInv, NEW r \in Requests, CompleteInteraction(r)
  PROVE  Promised!Serve(r) \/ UNCHANGED Seen
<1>0. /\ TypeOK /\ key[r] \in Keys /\ Handle(r) /\ UNCHANGED <<crm, outbox>>
      /\ pc[r] = "complete"
  BY DEF PInv, IInv, TypeOK, Handle, CompleteInteraction
<1>1. CASE ~OwnsProcessing(r)
  BY <1>0, <1>1, QuietStep DEF CompleteInteraction, Throw, SameOutcome
<1>2. CASE OwnsProcessing(r)
  <2> DEFINE shown == Compose(r)
  <2>1. /\ understood[r].confirm \in BOOLEAN
        /\ understood[r].confirm =>
             commands[key[r]].status = "needs_review" /\ result[r] = ReviewResult
        /\ ~understood[r].confirm =>
             /\ commands[key[r]].status = "committed"
             /\ commands[key[r]].result = result[r]
             /\ result[r].action # "needs_review"
    BY <1>0 DEF PInv, IInv, TypeOK, Understandings, PastCommand, OnItsWay, KeyOf,
                AfterCommand
  <2>2. /\ effects[key[r]] = result[r]
        /\ result[r].action = "needs_review" <=> understood[r].confirm
    BY <1>0, <2>1 DEF effects, ReviewResult
  <2>3. effects[key[r]] # Promised!NoEffect
    <3>1. effects[key[r]].action # "none"
      BY <1>0, <2>1, <2>2 DEF TypeOK, Results, Actions
    <3> QED BY <3>1 DEF Promised!NoEffect
  <2>4. shown = [by |-> r,
                 status |-> IF effects[key[r]].action = "needs_review"
                            THEN "needs_review" ELSE "completed",
                 result |-> effects[key[r]]]
    BY <2>1, <2>2 DEF Compose
  <2>5. shown.status \in {"completed", "needs_review"}
    BY DEF Compose
  <2> HIDE DEF shown
  <2>6. /\ \A k \in Keys \ {key[r]} : SameOutcome(k)
        /\ interactions'[key[r]].payload = interactions[key[r]].payload
        /\ interactions'[key[r]].status = shown.status
        /\ interactions'[key[r]].response = shown
    <3> DEFINE row == [interactions[key[r]] EXCEPT !.status = shown.status,
                                                   !.response = shown]
    <3>1. interactions' = [interactions EXCEPT ![key[r]] = row]
      BY <1>0, <1>2 DEF CompleteInteraction, shown
    <3>2. /\ row.payload = interactions[key[r]].payload
          /\ row.status = shown.status /\ row.response = shown
      BY <1>0 DEF TypeOK, InteractionRows
    <3> HIDE DEF row
    <3> QED BY <1>0, <3>1, <3>2 DEF TypeOK, SameOutcome
  <2>7. outcomes'[key[r]] = shown
    BY <1>0, <2>5, <2>6 DEF outcomes
  <2>8. answers' = answers \/ Promised!Tell(r, shown)
    <3>1. UNCHANGED reply \/ reply' = [reply EXCEPT ![r] = Success(shown)]
      BY <1>2 DEF CompleteInteraction, Answer, Throw, shown
    <3> QED BY <1>0, <3>1, ToldSuccess, SameMeaning
  <2>9. Promised!IsPending(r)
    BY <1>0, StillPending DEF Active, Steps
  <2>10. Promised!Settle(r, shown) /\ answers[r] = Promised!Open
    <3>1. \A k \in Keys : interactions'[k].payload = interactions[k].payload
      BY <2>6 DEF SameOutcome
    <3> QED BY <1>0, <2>6, <2>7, <2>8, <2>9, <3>1, SettleStep
  <2>11. Promised!Succeed(r)
    BY <2>3, <2>4, <2>10 DEF Promised!Succeed
  <2> QED BY <2>10, <2>11 DEF Promised!Serve
<1> QED BY <1>1, <1>2

\* failInteraction settles the key with its error, or tells the error alone.
LEMMA FailStep ==
  ASSUME PInv, NEW r \in Requests, FailInteraction(r)
  PROVE  Promised!Serve(r)
<1>0. /\ TypeOK /\ key[r] \in Keys /\ Handle(r) /\ UNCHANGED <<crm, outbox>>
      /\ pc[r] = "fail" /\ code[r] \in Codes
      /\ reply' = [reply EXCEPT ![r] = Error(code[r])]
  BY DEF PInv, IInv, TypeOK, Handle, FailInteraction, Answer
<1>1. CASE UNCHANGED interactions
  BY <1>0, <1>1, RefuseStep
<1>2. CASE ~UNCHANGED interactions
  <2> DEFINE row == [interactions[key[r]] EXCEPT !.status = "failed", !.code = code[r]]
  <2>1. OwnsProcessing(r) /\ interactions' = [interactions EXCEPT ![key[r]] = row]
    BY <1>2 DEF FailInteraction, MarkFailed
  <2>2. /\ row.payload = interactions[key[r]].payload
        /\ row.status = "failed" /\ row.code = code[r]
    BY <1>0 DEF TypeOK, InteractionRows
  <2> HIDE DEF row
  <2>3. /\ \A k \in Keys \ {key[r]} : SameOutcome(k)
        /\ \A k \in Keys : interactions'[k].payload = interactions[k].payload
        /\ interactions'[key[r]].status = "failed"
        /\ interactions'[key[r]].code = code[r]
    BY <1>0, <2>1, <2>2 DEF TypeOK, SameOutcome
  <2>4. outcomes'[key[r]] = Promised!Failed(code[r])
    BY <1>0, <2>3 DEF outcomes, Promised!Failed
  <2>5. Promised!Tell(r, Promised!Failed(code[r]))
    BY <1>0, ToldError
  <2>6. Promised!IsPending(r)
    <3>1. claims[key[r]] = payload[r]
      BY <1>0, <2>1 DEF claims, PInv, IInv, OwnRow, OwnsProcessing
    <3>2. outcomes[key[r]] = Promised!Open
      BY <1>0, <2>1 DEF outcomes, OwnsProcessing, Promised!Open
    <3> QED BY <3>1, <3>2 DEF Promised!IsPending
  <2>7. Promised!Settle(r, Promised!Failed(code[r])) /\ answers[r] = Promised!Open
    BY <1>0, <2>3, <2>4, <2>5, <2>6, SettleStep
  <2>8. Promised!Fail(r)
    BY <1>0, <2>7 DEF Promised!Fail
  <2> QED BY <2>7, <2>8 DEF Promised!Serve
<1> QED BY <1>1, <1>2

\* Every step of a handler is a step of the promise, or none.
LEMMA HandlePromised ==
  ASSUME PInv, NEW r \in Requests, Handle(r)
  PROVE  Promised!Serve(r) \/ UNCHANGED Seen
<1>0. TypeOK /\ key[r] \in Keys
  BY DEF PInv, IInv, TypeOK
<1>1. CASE RejectAsk(r)
  <2>1. PICK c \in Codes : reply' = [reply EXCEPT ![r] = Error(c)]
    BY <1>1 DEF RejectAsk, Answer, Codes
  <2> QED BY <1>1, <2>1, RefuseStep DEF RejectAsk
<1>2. CASE \/ RecordInputAsset(r) \/ Transcribe(r) \/ CheckpointTranscript(r)
           \/ Understand(r) \/ CheckpointUnderstanding(r) \/ Synthesize(r)
           \/ CheckpointTts(r) \/ InvalidResponse(r) \/ ProviderFails(r)
           \/ TransactionAborts(r)
  <2>1. /\ UNCHANGED <<crm, outbox, reply>>
        /\ \/ ~BeginInteraction(r) /\ ~CompleteInteraction(r) /\ ~FailInteraction(r)
           \/ UNCHANGED interactions
    BY <1>0, <1>2
    DEF RecordInputAsset, Transcribe, CheckpointTranscript, Understand,
        CheckpointUnderstanding, Synthesize, CheckpointTts, InvalidResponse,
        ProviderFails, TransactionAborts, AfterCommit, Goto, Throw,
        BeginInteraction, CompleteInteraction, FailInteraction
  <2>2. \A k \in Keys : SameOutcome(k)
    BY <1>0, <2>1, RowChanges DEF SameOutcome
  <2> QED BY <2>1, <2>2, QuietStep
<1> QED
  BY <1>1, <1>2, ClaimStep, ReplayStep, ExecuteStep, ReviewStep, RecordTtsStep,
     CompleteStep, FailStep
  DEF Handle

\* The pipeline implements IdempotentAsk: for any number of requests and keys,
\* whatever races, fails, crashes or loses its answer, a key has one content, at
\* most one effect with its event and one final outcome, which is what every
\* success under the key shows.
THEOREM AskKeepsPromise == Spec => KeepsPromise
<1>1. Init => Promised!Init
  <2> SUFFICES ASSUME Init PROVE Promised!Init
    OBVIOUS
  <2>1. claims = [k \in Keys |-> None]
    BY DEF Init, claims, NoInteraction
  <2>2. effects = [k \in Keys |-> Promised!NoEffect]
    BY DEF Init, effects, NoCommand, NoResult, Promised!NoEffect
  <2>3. outcomes = [k \in Keys |-> Promised!Open]
    BY DEF Init, outcomes, NoInteraction, Promised!Open
  <2>4. answers = [r \in Requests |-> Promised!Open]
    BY DEF Init, answers, NoReply, Promised!Open
  <2>5. effectEvents = [k \in Keys |-> [type \in Promised!EffectEvents |-> 0]]
    BY DEF Init, effectEvents, EventTypes, Promised!EffectEvents
  <2> QED BY <2>1, <2>2, <2>3, <2>4, <2>5 DEF Init, Promised!Init
<1>2. PInv /\ [Next]_vars =>
        [Promised!Next]_(<<Promised!asks, claims, outcomes, answers, Promised!crm>>)
  <2> SUFFICES ASSUME PInv, [Next]_vars
               PROVE  (\E r \in Requests : Promised!Serve(r)) \/ UNCHANGED Seen
    BY DEF Promised!Next, Promised!asks, Promised!crm, Seen
  <2>1. CASE UNCHANGED vars
    BY <2>1, SameMeaning DEF vars, client, crm, Seen, SameOutcome
  <2>2. ASSUME NEW r \in Requests, Handle(r)
        PROVE  Promised!Serve(r) \/ UNCHANGED Seen
    BY <2>2, HandlePromised
  <2>3. ASSUME NEW r \in Requests, Crash(r) PROVE UNCHANGED Seen
    BY <2>3, SameMeaning DEF Crash, Leave, crm, Seen, SameOutcome
  <2> QED BY <2>1, <2>2, <2>3 DEF Next
<1> QED BY <1>1, <1>2, PromiseInvariant, PTL DEF Spec, KeepsPromise, Promised!Spec
=============================================================================
