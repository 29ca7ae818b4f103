----------------------------- MODULE AskPipeline -----------------------------
(***************************************************************************)
(* POST /v1/ask over the PostgreSQL store: the handler `ask' of            *)
(* src/server.mjs and the store transactions it calls.  A request is one   *)
(* execution of the handler; a client that retries starts another request  *)
(* under the same idempotency key.  Handlers interleave at every await,    *)
(* so one action is the code between two awaits: one provider call, or one *)
(* transaction of the store (READ COMMITTED, but every row an ask touches  *)
(* is found through a unique key or locked by the UPDATE that writes it,   *)
(* so a transaction is one step here).                                     *)
(*                                                                         *)
(* A transaction can also abort, or commit while the connection is lost    *)
(* before the answer (the handler then sees an error it cannot tell from   *)
(* an abort).  A server process can die between any two steps.             *)
(***************************************************************************)
EXTENDS Naturals, FiniteSets

CONSTANTS
  Requests,           \* executions of the handler
  Keys,               \* idempotency keys of one tenant
  Payloads,           \* request contents, told apart by their fingerprint
  AudioPayloads,      \* the payloads whose input is audio
  SpokenPayloads,     \* the payloads whose output_mode is audio or both
  Deals,              \* rows of table deals
  ExpectedVersions,   \* values of entities.deal.expected_version
  None                \* null

ASSUME PayloadAssumption ==
  AudioPayloads \subseteq Payloads /\ SpokenPayloads \subseteq Payloads
ASSUME VersionAssumption == ExpectedVersions \subseteq Nat
ASSUME NoneAssumption ==
  /\ None \notin Requests /\ None \notin Payloads
  /\ None \notin Deals /\ None \notin ExpectedVersions

VARIABLES
  pc,            \* where each request is
  key, payload,  \* its idempotency key and its content
  understood,    \* what the intent provider made of it
  result,        \* what execute or createReview returned to it
  code,          \* the error code it is about to report
  reply,         \* the HTTP answer it sent
  interactions,  \* table voice_interactions, one row per key
  commands,      \* table crm_commands, one row per key
  deals,         \* deals.version
  customers,     \* rows of customers inserted by the command with this key
  outbox         \* events of each type inserted on behalf of this key

client == <<pc, key, payload, understood, result, code, reply>>
crm == <<commands, deals, customers>>
vars == <<client, interactions, crm, outbox>>

-----------------------------------------------------------------------------
(* Data *)

Intents == {"update_stage", "create_customer", "other"}

\* An understanding, reduced to what the pipeline branches on.  deal = None
\* stands for a deal id that is malformed or names no row.
Understandings ==
  [intent : {"update_stage"}, deal : Deals \cup {None},
   expected : ExpectedVersions \cup {None}, confirm : BOOLEAN]
  \cup
  [intent : {"create_customer", "other"}, deal : {None}, expected : {None},
   confirm : BOOLEAN]

NoUnderstanding ==
  [intent |-> "other", deal |-> None, expected |-> None, confirm |-> FALSE]

Actions == {"updated", "created", "read_only", "needs_review"}
Results == [action : Actions, deal : Deals \cup {None}, version : Nat]
NoResult == [action |-> "read_only", deal |-> None, version |-> 0]

\* The codes an ask can end with.  "DATABASE" is any code of the driver,
\* "UPSTREAM_UNAVAILABLE" any other code of a provider or the object store.
Codes == {"ASR_TIMEOUT", "EMPTY_TRANSCRIPT", "UPSTREAM_UNAVAILABLE",
          "INVALID_REQUEST", "CRM_CONFLICT", "IDEMPOTENCY_CONFLICT",
          "DATABASE", "NONE"}

\* A response body: the request it was composed for, its status and the
\* command result it shows.
Responses ==
  [by : Requests \cup {None}, status : {"none", "completed", "needs_review"},
   result : Results]
NoResponse ==
  [by |-> None, status |-> "none", result |-> NoResult]

Replies == [kind : {"none", "success", "error"}, response : Responses, code : Codes]
NoReply == [kind |-> "none", response |-> NoResponse, code |-> "NONE"]
Success(response) == [kind |-> "success", response |-> response, code |-> "NONE"]
Error(c) == [kind |-> "error", response |-> NoResponse, code |-> c]

InteractionRows ==
  [status : {"absent", "processing", "completed", "needs_review", "failed"},
   owner : Requests \cup {None}, payload : Payloads \cup {None},
   input : BOOLEAN, transcript : BOOLEAN,
   understanding : Understandings \cup {None},
   response : Responses, code : Codes]
NoInteraction ==
  [status |-> "absent", owner |-> None, payload |-> None, input |-> FALSE,
   transcript |-> FALSE, understanding |-> None, response |-> NoResponse,
   code |-> "NONE"]

CommandRows ==
  [status : {"absent", "committed", "needs_review"},
   payload : Payloads \cup {None}, understanding : Understandings,
   result : Results]
NoCommand ==
  [status |-> "absent", payload |-> None, understanding |-> NoUnderstanding,
   result |-> NoResult]

EventTypes == {"command.committed", "review.requested", "tts.asset.created"}

Steps == {"idle", "input", "asr", "transcript", "intent", "understanding",
          "review", "execute", "tts", "record_tts", "tts_checkpoint",
          "complete", "fail", "done", "lost"}
Active == Steps \ {"idle", "done", "lost"}
TransactionSteps == {"input", "transcript", "understanding", "review", "execute",
                     "record_tts", "tts_checkpoint", "complete"}

Settled == {"completed", "needs_review", "failed"}

-----------------------------------------------------------------------------
(* What a step of the handler does to its own request *)

Goto(r, step) ==
  /\ pc' = [pc EXCEPT ![r] = step]
  /\ UNCHANGED <<key, payload, understood, result, code, reply>>

\* An exception inside the try block: the catch clause runs next.
Throw(r, c) ==
  /\ pc' = [pc EXCEPT ![r] = "fail"]
  /\ code' = [code EXCEPT ![r] = c]
  /\ UNCHANGED <<key, payload, understood, result, reply>>

\* The transaction committed: the answer arrives, or the connection is lost
\* and the handler sees an error.
AfterCommit(r, step) == Goto(r, step) \/ Throw(r, "DATABASE")

\* The handler is over, and with it its local variables.
Leave(r, step) ==
  /\ pc' = [pc EXCEPT ![r] = step]
  /\ understood' = [understood EXCEPT ![r] = NoUnderstanding]
  /\ result' = [result EXCEPT ![r] = NoResult]
  /\ code' = [code EXCEPT ![r] = "NONE"]
  /\ UNCHANGED <<key, payload>>

Answer(r, body) ==
  /\ Leave(r, "done")
  /\ reply' = [reply EXCEPT ![r] = body]

\* The row a checkpoint, a completion or a failure updates:
\* where request_id = r and status = 'processing'.
OwnsProcessing(r) ==
  /\ interactions[key[r]].owner = r
  /\ interactions[key[r]].status = "processing"

-----------------------------------------------------------------------------
Init ==
  /\ pc = [r \in Requests |-> "idle"]
  /\ key \in [Requests -> Keys]
  /\ payload \in [Requests -> Payloads]
  /\ understood = [r \in Requests |-> NoUnderstanding]
  /\ result = [r \in Requests |-> NoResult]
  /\ code = [r \in Requests |-> "NONE"]
  /\ reply = [r \in Requests |-> NoReply]
  /\ interactions = [k \in Keys |-> NoInteraction]
  /\ commands = [k \in Keys |-> NoCommand]
  /\ deals = [d \in Deals |-> 1]
  /\ customers = [k \in Keys |-> 0]
  /\ outbox = [k \in Keys |-> [t \in EventTypes |-> 0]]

\* Authentication or validation refuses the request before any row exists,
\* or beginInteraction's transaction aborts (outside the try block).
RejectAsk(r) ==
  /\ pc[r] = "idle"
  /\ \E c \in {"INVALID_REQUEST", "DATABASE"} : Answer(r, Error(c))
  /\ UNCHANGED <<interactions, crm, outbox>>

FirstStep(p) == IF p \in AudioPayloads THEN "input" ELSE "transcript"

\* beginInteraction inserts the row of this key.
BeginInteraction(r) ==
  /\ pc[r] = "idle"
  /\ interactions[key[r]].status = "absent"
  /\ interactions' = [interactions EXCEPT ![key[r]] =
       [NoInteraction EXCEPT !.status = "processing", !.owner = r,
                             !.payload = payload[r]]]
  /\ Goto(r, FirstStep(payload[r])) \/ Answer(r, Error("DATABASE"))
  /\ UNCHANGED <<crm, outbox>>

\* Mutant: the fingerprint of the request is not compared.
PreviousOutcomeOfAny(row, p) ==
  CASE row.status \in {"completed", "needs_review"} -> Success(row.response)
    [] row.status = "failed" -> Error(row.code)
    [] OTHER -> Error("CRM_CONFLICT")

\* beginInteraction finds the row: what it answers with.
PreviousOutcome(row, p) ==
  IF row.payload # p THEN Error("IDEMPOTENCY_CONFLICT")
  ELSE CASE row.status \in {"completed", "needs_review"} -> Success(row.response)
         [] row.status = "failed" -> Error(row.code)
         [] OTHER -> Error("CRM_CONFLICT")

ReplayInteraction(r) ==
  /\ pc[r] = "idle"
  /\ interactions[key[r]].status # "absent"
  /\ Answer(r, PreviousOutcome(interactions[key[r]], payload[r]))
  /\ UNCHANGED <<interactions, crm, outbox>>

\* Mutant: the media row is stored and never linked.
RecordInputAssetUnlinked(r) ==
  /\ pc[r] = "input"
  /\ AfterCommit(r, "asr")
  /\ UNCHANGED <<interactions, crm, outbox>>

\* persistInputAudio, then recordInputAsset links the media row.  Its update
\* of the interaction does not look at the status.
RecordInputAsset(r) ==
  /\ pc[r] = "input"
  /\ interactions' = IF interactions[key[r]].owner = r
                     THEN [interactions EXCEPT ![key[r]].input = TRUE]
                     ELSE interactions
  /\ AfterCommit(r, "asr")
  /\ UNCHANGED <<crm, outbox>>

Transcribe(r) ==
  /\ pc[r] = "asr"
  /\ Goto(r, "transcript")
  /\ UNCHANGED <<interactions, crm, outbox>>

\* checkpointInteraction with the transcript.
CheckpointTranscript(r) ==
  /\ pc[r] = "transcript"
  /\ IF OwnsProcessing(r)
     THEN /\ interactions' = [interactions EXCEPT ![key[r]].transcript = TRUE]
          /\ AfterCommit(r, "intent")
     ELSE Throw(r, "CRM_CONFLICT") /\ UNCHANGED interactions
  /\ UNCHANGED <<crm, outbox>>

Understand(r) ==
  /\ pc[r] = "intent"
  /\ \E u \in Understandings : understood' = [understood EXCEPT ![r] = u]
  /\ pc' = [pc EXCEPT ![r] = "understanding"]
  /\ UNCHANGED <<key, payload, result, code, reply, interactions, crm, outbox>>

\* Mutants: the answer does not wait for the command; nothing is held back.
CommandStepEarly(u) == IF u.confirm THEN "review" ELSE "complete"
CommandStepBlind(u) == "execute"

\* needs_confirmation decides between a review and the command.
CommandStep(u) == IF u.confirm THEN "review" ELSE "execute"

\* checkpointInteraction with the understanding.
CheckpointUnderstanding(r) ==
  /\ pc[r] = "understanding"
  /\ IF OwnsProcessing(r)
     THEN /\ interactions' =
               [interactions EXCEPT ![key[r]].understanding = understood[r]]
          /\ AfterCommit(r, CommandStep(understood[r]))
     ELSE Throw(r, "CRM_CONFLICT") /\ UNCHANGED interactions
  /\ UNCHANGED <<crm, outbox>>

-----------------------------------------------------------------------------
(* The command transaction *)

\* Mutant: the expected version is not compared.
DealMatchesAnyVersion(u) == u.deal \in Deals

DealMatches(u) ==
  /\ u.deal \in Deals
  /\ u.expected \in {None, deals[u.deal]}

CommandResult(u) ==
  CASE u.intent = "update_stage" ->
         [action |-> "updated", deal |-> u.deal, version |-> deals[u.deal] + 1]
    [] u.intent = "create_customer" ->
         [action |-> "created", deal |-> None, version |-> 1]
    [] OTHER -> NoResult

\* Mutant: the command's event is not written with it.
EmitReviewsOnly(k, type) ==
  IF type = "command.committed" THEN outbox ELSE [outbox EXCEPT ![k][type] = @ + 1]

Emit(k, type) == [outbox EXCEPT ![k][type] = @ + 1]

\* The business row, the command, the audit record and the outbox event are
\* written by one transaction.
ApplyCommand(r, res) ==
  LET k == key[r]
      u == understood[r]
  IN /\ commands' = [commands EXCEPT ![k] =
          [status |-> "committed", payload |-> payload[r],
           understanding |-> u, result |-> res]]
     /\ deals' = IF u.intent = "update_stage"
                 THEN [deals EXCEPT ![u.deal] = @ + 1] ELSE deals
     /\ customers' = IF u.intent = "create_customer"
                     THEN [customers EXCEPT ![k] = @ + 1] ELSE customers
     /\ outbox' = Emit(k, "command.committed")

\* The transaction committed and returned res, if the answer arrives.
Returned(r, res, step) ==
  \/ /\ result' = [result EXCEPT ![r] = res]
     /\ pc' = [pc EXCEPT ![r] = step]
     /\ UNCHANGED <<key, payload, understood, code, reply>>
  \/ Throw(r, "DATABASE")

Proceed(r, res) ==
  Returned(r, res, IF payload[r] \in SpokenPayloads THEN "tts" ELSE "complete")

\* The insert into crm_commands hits the unique key: refuse or replay.
PreviousCommand(r) ==
  LET row == commands[key[r]]
  IN /\ CASE row.payload # payload[r] -> Throw(r, "IDEMPOTENCY_CONFLICT")
          [] row.payload = payload[r] /\ row.status # "committed" ->
               Throw(r, "CRM_CONFLICT")
          [] OTHER -> Proceed(r, row.result)
     /\ UNCHANGED <<crm, outbox>>

Execute(r) ==
  /\ pc[r] = "execute"
  /\ IF commands[key[r]].status # "absent" THEN PreviousCommand(r)
     ELSE IF understood[r].intent = "update_stage" /\ ~DealMatches(understood[r])
     THEN Throw(r, "CRM_CONFLICT") /\ UNCHANGED <<crm, outbox>>
     ELSE LET res == CommandResult(understood[r])
          IN ApplyCommand(r, res) /\ Proceed(r, res)
  /\ UNCHANGED interactions

ReviewResult == [action |-> "needs_review", deal |-> None, version |-> 1]

\* A review that exists already under this key is returned when the content
\* is the same; the join finds no task for a command that execute wrote.
PreviousReview(r) ==
  LET row == commands[key[r]]
  IN IF row.status = "needs_review" /\ row.payload = payload[r]
     THEN Returned(r, ReviewResult, "complete")
     ELSE Throw(r, "IDEMPOTENCY_CONFLICT")

CreateReview(r) ==
  /\ pc[r] = "review"
  /\ IF commands[key[r]].status # "absent"
     THEN PreviousReview(r) /\ UNCHANGED <<commands, outbox>>
     ELSE /\ commands' = [commands EXCEPT ![key[r]] =
               [status |-> "needs_review", payload |-> payload[r],
                understanding |-> understood[r], result |-> NoResult]]
          /\ outbox' = Emit(key[r], "review.requested")
          /\ Returned(r, ReviewResult, "complete")
  /\ UNCHANGED <<deals, customers, interactions>>

-----------------------------------------------------------------------------
(* Speech output, the answer, and errors *)

Synthesize(r) ==
  /\ pc[r] = "tts"
  /\ Goto(r, "record_tts")
  /\ UNCHANGED <<interactions, crm, outbox>>

\* persistAudioAsset, then recordTts: the asset event is written only when the
\* media row is new (the same bytes may have been stored for another key).
RecordTts(r) ==
  /\ pc[r] = "record_tts"
  /\ \/ outbox' = Emit(key[r], "tts.asset.created")
     \/ UNCHANGED outbox
  /\ AfterCommit(r, "tts_checkpoint")
  /\ UNCHANGED <<interactions, crm>>

\* The metadata of the speech provider is all this checkpoint adds.
CheckpointTts(r) ==
  /\ pc[r] = "tts_checkpoint"
  /\ IF OwnsProcessing(r) THEN AfterCommit(r, "complete")
     ELSE Throw(r, "CRM_CONFLICT")
  /\ UNCHANGED <<interactions, crm, outbox>>

Compose(r) ==
  [by |-> r,
   status |-> IF understood[r].confirm THEN "needs_review" ELSE "completed",
   result |-> result[r]]

\* completeInteraction, then the answer with 200 or 202.
CompleteInteraction(r) ==
  /\ pc[r] = "complete"
  /\ IF OwnsProcessing(r)
     THEN /\ interactions' = [interactions EXCEPT ![key[r]] =
               [@ EXCEPT !.status = Compose(r).status, !.response = Compose(r)]]
          /\ Answer(r, Success(Compose(r))) \/ Throw(r, "DATABASE")
     ELSE Throw(r, "CRM_CONFLICT") /\ UNCHANGED interactions
  /\ UNCHANGED <<crm, outbox>>

\* The body fails its JSON schema before completeInteraction is called.
InvalidResponse(r) ==
  /\ pc[r] = "complete"
  /\ Throw(r, "INVALID_REQUEST")
  /\ UNCHANGED <<interactions, crm, outbox>>

ProviderCodes(step) ==
  CASE step = "asr" -> {"ASR_TIMEOUT", "EMPTY_TRANSCRIPT", "UPSTREAM_UNAVAILABLE"}
    [] step \in {"input", "intent", "tts", "record_tts"} -> {"UPSTREAM_UNAVAILABLE"}
    [] OTHER -> {}

\* A provider or the object store times out, is rejected, or is shut off by
\* the circuit breaker.
ProviderFails(r) ==
  /\ \E c \in ProviderCodes(pc[r]) : Throw(r, c)
  /\ UNCHANGED <<interactions, crm, outbox>>

TransactionAborts(r) ==
  /\ pc[r] \in TransactionSteps
  /\ Throw(r, "DATABASE")
  /\ UNCHANGED <<interactions, crm, outbox>>

\* Mutant: the update does not ask for status = 'processing'.
MarkFailedAnyStatus(r) ==
  interactions' = IF interactions[key[r]].owner = r
                  THEN [interactions EXCEPT ![key[r]] =
                          [@ EXCEPT !.status = "failed", !.code = code[r]]]
                  ELSE interactions

\* The catch clause: failInteraction, whose own failure is swallowed, then the
\* error goes to the client.
MarkFailed(r) ==
  interactions' = IF OwnsProcessing(r)
                  THEN [interactions EXCEPT ![key[r]] =
                          [@ EXCEPT !.status = "failed", !.code = code[r]]]
                  ELSE interactions

\* Mutant: a failInteraction that finds nothing to update ends the handler.
FailInteractionOwnOnly(r) ==
  /\ pc[r] = "fail" /\ OwnsProcessing(r)
  /\ MarkFailed(r)
  /\ Answer(r, Error(code[r]))
  /\ UNCHANGED <<crm, outbox>>

FailInteraction(r) ==
  /\ pc[r] = "fail"
  /\ MarkFailed(r) \/ UNCHANGED interactions
  /\ Answer(r, Error(code[r]))
  /\ UNCHANGED <<crm, outbox>>

\* The server process dies; nothing resumes the request.
Crash(r) ==
  /\ pc[r] \in Active
  /\ Leave(r, "lost")
  /\ UNCHANGED reply
  /\ UNCHANGED <<interactions, crm, outbox>>

Handle(r) ==
  \/ BeginInteraction(r) \/ ReplayInteraction(r) \/ RejectAsk(r)
  \/ RecordInputAsset(r) \/ Transcribe(r) \/ CheckpointTranscript(r)
  \/ Understand(r) \/ CheckpointUnderstanding(r)
  \/ Execute(r) \/ CreateReview(r)
  \/ Synthesize(r) \/ RecordTts(r) \/ CheckpointTts(r)
  \/ CompleteInteraction(r) \/ InvalidResponse(r)
  \/ ProviderFails(r) \/ TransactionAborts(r) \/ FailInteraction(r)

Next == \E r \in Requests : Handle(r) \/ Crash(r)

Spec == Init /\ [][Next]_vars

\* Providers are cut off by a timeout and the event loop resumes every handler
\* whose promise has settled.
Fairness == \A r \in Requests : WF_vars(pc[r] \in Active /\ Handle(r))
FairSpec == Spec /\ Fairness
-----------------------------------------------------------------------------
(* Properties *)

TypeOK ==
  /\ pc \in [Requests -> Steps]
  /\ key \in [Requests -> Keys]
  /\ payload \in [Requests -> Payloads]
  /\ understood \in [Requests -> Understandings]
  /\ result \in [Requests -> Results]
  /\ code \in [Requests -> Codes]
  /\ reply \in [Requests -> Replies]
  /\ interactions \in [Keys -> InteractionRows]
  /\ commands \in [Keys -> CommandRows]
  /\ deals \in [Deals -> Nat]
  /\ customers \in [Keys -> Nat]
  /\ outbox \in [Keys -> [EventTypes -> Nat]]

\* An interaction is marked completed only after the command of the same key
\* and content has committed, and the stored answer shows that command's
\* result ("No completed answer before the CRM transaction commits").
CompletedMeansCommitted ==
  \A k \in Keys : interactions[k].status = "completed" =>
    /\ commands[k].status = "committed"
    /\ commands[k].payload = interactions[k].payload
    /\ interactions[k].response.result = commands[k].result

\* What needs confirmation is held back: the interaction has its review, and
\* nothing was written to the CRM under its key.
ReviewHoldsBack ==
  \A k \in Keys : interactions[k].status = "needs_review" =>
    /\ commands[k].status = "needs_review"
    /\ outbox[k]["review.requested"] = 1
    /\ customers[k] = 0
    /\ outbox[k]["command.committed"] = 0

\* A committed command has exactly one outbox event and exactly its own
\* effect; a key without one has neither, whatever failed or was retried
\* ("exactly one corresponding outbox event", DATA-MODEL.md).
EffectsMatchEvents ==
  \A k \in Keys :
    LET committed == commands[k].status = "committed"
        action == commands[k].result.action
    IN /\ outbox[k]["command.committed"] = IF committed THEN 1 ELSE 0
       /\ customers[k] = IF committed /\ action = "created" THEN 1 ELSE 0

Updates(d) == {k \in Keys : /\ commands[k].status = "committed"
                            /\ commands[k].result.action = "updated"
                            /\ commands[k].result.deal = d}

\* Every version of a deal after the first was produced by exactly one
\* committed command, and by one that expected the version before it or none.
EveryVersionHasOneCommand ==
  \A d \in Deals :
    /\ \A v \in 2 .. deals[d] : \E k \in Updates(d) : commands[k].result.version = v
    /\ \A j, k \in Updates(d) :
         commands[j].result.version = commands[k].result.version => j = k
    /\ \A k \in Updates(d) :
         /\ commands[k].result.version \in 2 .. deals[d]
         /\ commands[k].understanding.expected
              \in {None, commands[k].result.version - 1}

\* All successful answers under one key answer one content with one body, the
\* one on record: a retry never hears of another outcome.
SuccessIsReplayable ==
  \A r \in Requests : reply[r].kind = "success" =>
    LET row == interactions[key[r]]
    IN /\ row.status = reply[r].response.status
       /\ row.response = reply[r].response
       /\ row.payload = payload[r]

\* An answered interaction has its whole trail on record: the input asset of
\* an audio request, the transcript, and the very understanding its command
\* was made from.
AnswerHasTrail ==
  \A k \in Keys : interactions[k].status \in {"completed", "needs_review"} =>
    /\ interactions[k].payload \in AudioPayloads => interactions[k].input
    /\ interactions[k].transcript
    /\ interactions[k].understanding = commands[k].understanding

\* Once settled, an interaction keeps its status, its answer and its error:
\* in particular the failure of a handler whose completion did commit.
SettledStays ==
  [][\A k \in Keys : interactions[k].status \in Settled =>
       /\ interactions'[k].status = interactions[k].status
       /\ interactions'[k].response = interactions[k].response
       /\ interactions'[k].code = interactions[k].code]_vars

\* The tables and the answers, as IdempotentAsk speaks of them.
claims == [k \in Keys |-> interactions[k].payload]

effects == [k \in Keys |->
  CASE commands[k].status = "absent" -> [NoResult EXCEPT !.action = "none"]
    [] commands[k].status = "needs_review" -> ReviewResult
    [] OTHER -> commands[k].result]

outcomes == [k \in Keys |->
  CASE interactions[k].status \in {"absent", "processing"} -> [status |-> "open"]
    [] interactions[k].status \in {"completed", "needs_review"} -> interactions[k].response
    [] OTHER -> [status |-> "failed", code |-> interactions[k].code]]

answers == [r \in Requests |->
  CASE reply[r].kind = "none" -> [status |-> "open"]
    [] reply[r].kind = "success" -> reply[r].response
    [] OTHER -> [status |-> "failed", code |-> reply[r].code]]

effectEvents == [k \in Keys |->
  [type \in {"command.committed", "review.requested"} |-> outbox[k][type]]]

Promised == INSTANCE IdempotentAsk WITH
  claim <- claims, effect <- effects, outcome <- outcomes, told <- answers,
  events <- effectEvents

\* The pipeline keeps the promise of IdempotentAsk: whichever handlers race,
\* fail, crash or lose their answers, a key has one content, at most one effect
\* with one event, and one outcome that is final; nothing takes effect after
\* it, and whoever is told of a success is told that very outcome.
KeepsPromise == Promised!Spec

\* Every request that entered the pipeline is answered, unless its process
\* dies: no error path leaves a client waiting.
EveryAskEnds ==
  <>[](\A r \in Requests : pc[r] \notin Active)
=============================================================================
