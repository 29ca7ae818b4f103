# TLA+ models of sumi-agentic-voice-crm

These modules model the parts of the voice CRM that are hard to test: handlers,
transactions, workers and builds that interleave, fail half-way and are tried
again. TLC checks them on small instances, and TLAPS proves the most important
results for every value of the constants. Files are named as in the
repository; in `PROJECT.json` its root is `src/` (`src/src/server.mjs` is the
server, `src/scripts/build.mjs` the build).

`PROJECT.json` lists the components, the runs, the line ranges each definition
stands for (`map`), a plausible bug per property that breaks it (`mutants`), the
hazards of the code and the theorems.

## 1. Inventory

### How the parts interact

A client posts text or audio to **`ask`**. The handler begins an *interaction*
row under the client's idempotency key, calls the **provider facade** (ASR, intent),
checkpoints what it learned, and then either asks the **store** for a review
task or has it execute the CRM command; it may then synthesize speech, and
completes the interaction. Commands, reviews and assets write an *outbox* row in
their transaction. Unless `STORE_PROVIDER` is `postgres`, the **memory store** takes
the database's place under the same handlers. The **outbox relay**, a process of its own, leases outbox rows
and posts them to a consumer. A human decides a review through the
**review endpoint**; clients can ask for speech directly through the **TTS
endpoint**. The **build** produces the directory the server is run from; beside
it **protocol generation** and the **documentation publisher** derive files from
reviewed sources and check them. The **control plane** hands the repository from
one maintainer to the next, and the **operations workflow** keeps an incident issue
that follows the CI results of main.

Node runs one event loop per process: code between two `await`s is atomic, and
everything else interleaves. PostgreSQL runs at READ COMMITTED. Any process can
die, any transaction can abort, and any can commit while its answer is lost.

### Components

| component | state | operations | what is hard | what makes it correct |
|---|---|---|---|---|
| `POST /v1/ask` (`server.mjs` `ask`) | local variables of a handler; `voice_interactions` | begin or replay, record input, transcribe, checkpoint, understand, checkpoint, review or execute, synthesize, record, checkpoint, complete, fail | concurrent retries of one key, errors after a commit, crash between any two steps | one outcome per key; "completed" only after the commit; what needs a review has no effect; everybody is answered |
| CRM command store (`postgres-store.mjs` `execute`, `createReview`, interactions) | `crm_commands`, `deals`, `customers`, `outbox_events`, audit log | one transaction each, unique key first, optimistic version update | races on one deal, aborts, lost acknowledgements | effects, commands and events agree; every version has one command |
| Review decisions (`decideReview`) | `review_tasks`, `crm_commands`, `review_decisions` | look the key up, lock the rows, write, insert the key, commit | two unique resources (row lock, key) taken in turn by several reviewers | decided once; answers agree with the record; no deadlock |
| Outbox relay (`outbox-relay.mjs`, `outbox-worker.mjs`, `claimOutbox`, `markOutbox*`) | leases, attempts and fate of each row; the worker's batch | claim, post, mark published, mark failed, restart | leases that lapse under a busy worker, lost acknowledgements, process death, the last attempt | at-least-once delivery, exact retry budget, nothing stuck |
| Speech assets (`server.mjs` `tts`, `recordTts`, `persistAudioAsset`) | object store, `media_assets`, `tts_requests`, outbox | replay, synthesize, put, two inserts with `on conflict do nothing`, commit | two unique keys, races between different keys on the same bytes | one asset per key, every asset can be fetched, announced at most once |
| Provider facade (`providers.mjs`, `provider-*.mjs`) | a breaker per capability and adapter; a deadline per call | admit or fail fast, request, read, redirect, time out, count | overlapping calls, error classes, providers that stall at any stage | circuits open when earned, and on no user's error; every call ends |
| Runtime build (`scripts/build.mjs`) | staging, backup and `dist` directories | clean, fill, verify, move away, move in, restore, drop | overlapping builds, failing renames, removals that stop halfway, a killed process | dist is always a verified candidate, and none is lost |
| Object storage (`object-storage.mjs`) | S3 or a local directory | put, get | I/O | used by the two asset paths, modelled there as a put |
| Router, health, metrics (`server.mjs`, `observability.mjs`) | counters | dispatch | none | — |
| Authentication, contracts, protocol validation, cipher, production configuration | none (a key cache in a library) | pure checks and conversions | none that depends on an earlier step | — |
| Memory store (`store.mjs`) | maps of interactions, commands, reviews, voices; the deal, customers, events | the store's operations, each synchronous, between the awaits of `ask` and `tts` | a call that throws halfway, with rollbacks written by hand; handlers that overlap | a key has one effect, with its event or not at all; everybody is answered alike |
| Workbench (`src/scripts/workbench.ts`) | recorder, stream, chunks | clicks and callbacks | clicks during `getUserMedia` | one recording is one upload |
| Agent control plane (`scripts/agent-ops.mjs`, `check-agent.mjs`) | manifest, state and cursor under `.agent`; a runtime file | check, inspect, snapshot, resume | documents are replaced one by one while they are read; two sessions write one file | a command that passes has seen one moment; the file is never torn |
| CI incidents (`scripts/agent-incident.mjs`, `operations-agent.yml`) | GitHub issues; the concurrency group's waiting run | observe, authorize, list, comment, close, open | late and dropped observations, overdue handoffs, API calls that fail before or after their effect | a second incident only after a failed listing, none closed without a recovery, truth at rest |
| Documentation publisher and site (`sumi-docs-publisher.mjs`, `verify-docs-dist.mjs`) | pages, machine corpus, index files | empty, render, copy, index, verify | a build stopped between two writes or two removals | a verified site is whole; after it was emptied a manifest names what is there |
| Protocol generation (`generate-protocol.mjs`, `check-protocol-drift.mjs`) | schema bundles, client, event types | clear, write, generate, compare | a generation stopped halfway, patched or lost projections | the drift check is exact |
| Drills, smoke tests, generated client | — | test tools and generated code | — | — |
| Tenant isolation (`001_initial.sql`) | row level security | declarative | — | every model is of one tenant |

## 2. The modules

| module | models | extended by |
|---|---|---|
| `AskPipeline` | `ask` over the PostgreSQL store | `AskPipelineMC`, `AskPipelineProofs` |
| `IdempotentAsk` | the abstract promise of an ask to its clients | instantiated by `AskPipeline` |
| `AtLeastOnce` | the abstract promise of an outbox | instantiated by `OutboxRelay` |
| `OutboxRelay` | workers, leases and the three outbox operations | `OutboxRelayMC`, `OutboxRelayProofs` |
| `ReviewDecision` | `decideReview`, statement by statement | `ReviewDecisionMC`, `ReviewDecisionProofs` |
| `TtsAssets` | `tts`, `persistAudioAsset`, `recordTts`, statement by statement | `TtsAssetsMC`, `TtsAssetsProofs` |
| `CrmLedger` | the abstract promise of a CRM store | instantiated by `MemoryStore` |
| `MemoryStore` | `CrmStore` under the `ask` and `tts` handlers | `MemoryStoreMC`, `MemoryStoreProofs` |
| `ProviderCircuit` | calls, deadlines, error classes and breakers | `ProviderCircuitMC`, `ProviderCircuitProofs` |
| `BuildPromotion` | staging and promotion of `dist` | `CheckoutMC`, `BuildPromotionProofs` |
| `ControlPlane` | handoffs, and the commands that read them | `CheckoutMC`, `ControlPlaneProofs` |
| `CiIncident` | the operations workflow and its incident issue | `CiIncidentMC`, `ControlPlaneProofs` |
| `Projections` | generated schemas and client, documentation site, and their checks | `CheckoutMC`, `BuildPromotionProofs` |

The `MC` modules only add symmetry sets, for the runs that can use them, except
`CheckoutMC`, which puts the three modules about the tools of a checkout side by
side. No two of these tools share a file, so in each behaviour one of them moves
(`tool`) and the others rest in an initial state: the run explores each of them in full,
and no interleaving is lost that could matter. Protocol generation and the
documentation site are two such tools, although one module describes both. The theorems
are about the specifications of the three modules themselves. A definition whose comment begins
"Mutant:" is a plausible bug; nothing but the mutants of `PROJECT.json` uses it.

### AskPipeline and IdempotentAsk

One action is the code between two awaits: a provider call or a store
transaction. `pc` is the handler's place, `understood`, `result` and `code` are
its locals, `reply` is the HTTP answer; `interactions`, `commands`, `deals`,
`customers` and `outbox` are the tables, reduced to what the code branches on.
A transaction of the store is one step here because each ask transaction finds
its rows through a unique key or locks them by the UPDATE that writes them. It has three
outcomes: it commits and answers, it aborts (`TransactionAborts`), or it commits
and the answer is lost (`AfterCommit`, `Returned`). A retry is another element
of `Requests` with the same key. `Crash` ends a handler anywhere; nothing in the
code resumes it, so its interaction stays `processing` and later retries get
`CRM_CONFLICT`.

The inserts of `execute` and `createReview` handle a command that exists already
under the key (`PreviousCommand`, `PreviousReview`). Through `ask` alone this
does not happen, because one request owns a key from `beginInteraction` on
and makes one command call: the branches are defence in depth (the theorem
`CommandIsFirst`).

`IdempotentAsk` is what the client may rely on, without handlers, providers,
checkpoints or speech: the first request under a key claims it for its content;
the key has at most one effect, taken in one step with its event, and one
outcome, which is final; nothing takes effect after it; whoever is told of a
success is told that outcome, and it shows the effect. `Promised` is the
refinement mapping: `claims`, `outcomes` and `answers` are read off the
interaction rows and the replies, `effects` and `effectEvents` off the command
rows and the outbox. A crashed owner leaves its key open for ever, which the promise allows.

### OutboxRelay and AtLeastOnce

`AtLeastOnce` knows no leases: an event is pending until it is acknowledged,
only after delivery, or given up; both are final. `OutboxRelay` is the table and
the workers. Time is two flags per row, "the lease has run out" and "the backoff
has not", which actions change at any moment the clock could. `LeaseStalls` lets
a lease run out under a *living* worker, since 25 posts of up to 10 s outlast the
60 s lease. A POST that fails may have been received (`Publish`). An error outside the
try block ends the process; the orchestrator restarts it under a new id, and the
rows it had leased belong to `Former` until they lapse. `KeepsPromise` is the
refinement: `status` is read off `published` and `dead`.

### ReviewDecision

READ COMMITTED, one action per statement that can wait or read. `rowLock` is
`for update`, `keyLock` an uncommitted insert of a unique key. A transaction's
writes become visible at its commit; nobody reads the rows it locked in between,
so `Commit` applies them. `Abort` covers a failing statement, a lost connection
and a crash; `Commit` may lose its answer. The code branches on one intent only,
`crm.customer.create`, so `Intents` has one other value for all the rest.

### TtsAssets

The same style. A voice stands for provider, model, language, voice and format;
an asset is a voice and a sound; its id is a hash of both, while `media_assets`
is also unique in the hash of the sound alone: requests with different keys or
voices may produce the same bytes and meet on that key. Speech made by `ask`
itself is the step `RecordTts` of `AskPipeline`.

### ProviderCircuit

A call is at `request`, `body`, `download` or `audio`: the four waits of an
adapter. Faults are named for what went wrong; `Ineligible` is the set that
carries `breakerEligible = false` at its throw site. `blamed` and `cooled` are
history: they count the faults of each capability since its last success by
cause, so that the properties can say what the counter should have counted. The end of
a cool-down may come at any time. `Earned` is what may open a circuit: faults of the
provider, and those of a base URL or key no request can be sent with, which the
code takes for the provider's against its documents (`CircuitSettings`). `setting` is one thing that is wrong with the
configuration (`src/src/production-config.mjs` looks at the base URL only in
production, and at no key).

### BuildPromotion

Builds are processes; a directory is the candidate it holds, and whether its
bytes are those of its manifest. Renames are atomic, a rename onto a directory
that is there fails, and the file system may also refuse a rename or a removal for reasons of its
own (`Refuse`, at most `MaxRefusals` times in a behaviour). A removal is not
atomic: `DropPart` and `UndoPart` leave a part of the directory, which holds a
candidate that is no longer sound, and the build may be killed or the removal
fail there. The staging directory is removed twice, by the catch clause of
`promoteDirectory` (`Undo`) and by that of `buildRuntime` (`CleanUp`), and each can
fail (`RemovalFails`). So half a backup may stay behind when a promotion
succeeded, and `DistIsVerified` speaks of backups only up to that moment (`placed`).

### MemoryStore and CrmLedger

`CrmLedger` says what a store promises, without handlers: a key has at most one
effect, an effect and its event are one step, and the events of the deal count
its versions. `MemoryStore` is the class `CrmStore` under `ask` and
`tts`: a call of the store is synchronous and therefore one step, the handlers
interleave between calls, and a call can throw halfway (`Invalid`: the event it
made is not valid) after it changed the deal or the customers, which it then puts back
by hand (`Restored`). There is no crash: nothing outlives the process. `Ledger`
is the refinement mapping; `log` is `events`, so the refinement also says that
the event comes in the very step of the effect.

### ControlPlane

A handoff rewrites the manifest, the state and the cursor one file at a time; a
session reads the three, one after another (`check-agent`) or in any order
(`agent-ops`), and passes if what it has read fits together. `docs` is the
handoff each file is of, `position` what phase and checkpoint a handoff stands
for. `moments` is history: what the files were together while a session read.
The other checks of the two scripts look at one file each, and are one free
refusal (`CheckAgentRefuses`, `InspectionRefuses`). The model assumes what no
script can see: a handoff is complete before the next begins, phases are never
gone back to, and every state has an `updated_at` of its own. The second is an
assumption about maintainers that `docs/MAINTENANCE.md:61` does not make: it has a wrong
governance change reverted, which goes back a phase. Reverts are outside the
model, and the properties would not survive them: if the phases of successive
handoffs are A, B and A again, a reader may combine a file of the first with one
of the third and pass, although at no moment of its reading the two were
there together. Positions are numbered without gaps, since
the scripts only compare them. A partly written JSON file is a refusal.

### CiIncident

A workflow run observes a commit, is authorized or dropped as superseded,
reads the open issues, and comments, closes or opens, one GitHub call per
action; a call can take effect and still be reported as failed. The
concurrency group lets one run work and keeps one waiting, which a later one
replaces. The job that reconciles is shell code in the workflow; it reads the listing
from a process substitution, so one that fails passes for complete (`ListIssues`
with a part of the pages). `blind` is history: whether the run that opened an issue had
such a listing. `scripts/agent-incident.mjs` is for use by hand; it makes the same calls
but ends when the listing fails, which is the outcome `Fault` of `ListIssues`.
`stale` is the newest commit whose handoff or review is overdue: `FallBehind` is
the passage of time, and such a commit fails `agent:health` in every observation
until a commit brings a new handoff (`Push`). The proofs of this module are in a part of
`ControlPlaneProofs`, hence the names `IncidentInit`, `IncidentSpec` and the like.

### Projections

One shell runs one command at a time (`generate`, `check`, `publish`,
`verify`) and can be stopped between any two of its writes. The content of a
generated file is the revision of its source, or `Patched`, or `Missing`; the
client is made from the bundle as it is on disk (the generator itself is
external). `calm` is history: nobody edited anything since the command began.
Astro empties the output directory file by file in an order of its own
(`RemoveFile`, `SiteEmptied`), so a build stopped at that can leave the old
manifest over documents that are gone; `torn` records it. The verification must
reject such a site, and `CorpusIsWhole` says that it does.
The proofs are in a part of `BuildPromotionProofs`, hence the names `DerivedInit`, `DerivedSpec` and the like.

## 3. The runs

`expect: pass` runs find no error; every property of theirs is broken by a
mutant. The type invariants are in no run: they are theorems (`TypeCorrect`,
`IncidentTyped`, `DerivedTyped`). Neither is `SettledStays` of `AskPipeline`,
which is part of the promise and a theorem of its own.
Deadlock is checked in `IncidentTruth` and `MemoryCalls`, whose systems never
stop or say when they may (`Terminated`). It is off in the others because those
systems end: every request is answered, every row settled, every build over; the
runs with liveness properties say that they end as they should.

| run | instance | question |
|---|---|---|
| `AskRetries` | 2 requests, 2 keys, a spoken and a typed payload, 1 deal | is the stored outcome, its trail and every successful answer one and the same, through retries, aborts, lost answers and crashes; does every version of the deal have one command, and every command one event; does the pipeline keep `IdempotentAsk`; is everybody answered |
| `OutboxRelays` | 3 rows, 2 workers, batches of 2, 2 attempts, 1 crash, 1 stall | does the table keep `AtLeastOnce`, is the retry budget exact, is no settled row in circulation, does every event settle |
| `ReviewSafety` | 3 decisions, 2 keys, 2 reviews | does a review take effect once, do answers agree with the record, does every decision end in spite of the locks |
| `TtsSafety` | 3 requests, 2 keys, 1 text, 2 voices, 2 sounds | one asset per key, servable, announced at most once; does every request end |
| `CircuitCalls` | 3 calls, threshold 2, 1 redirect | do circuits open when they should, and only on their own faults; does every call end when the provider does not answer |
| `MemoryCalls` | 2 asks, 2 speech requests, 2 keys, 2 payloads | does the store keep `CrmLedger`, is everybody under a key answered alike |
| `IncidentTruth` | 2 runs at once at most, 2 commits, 2 faults | does only a failed listing lead to a second incident, is one closed only by a recovery, is it true at rest |
| `CheckoutTools` | 3 builds, 2 refusals; 2 documents, 2 machine paths, 1 edit of each source; 2 sessions, 1 handoff after the initial one | is dist verified, is a candidate never lost, is a failed promotion restored, is nothing left behind; is the drift check exact, is a verified site whole and a named document there; has a command that passes seen one moment, is the runtime file whole |
| `ReviewKey` (violation) | as `ReviewSafety` | has a key one content |
| `ReviewDeal` (violation) | as `ReviewSafety` | is a committed command applied |
| `CircuitSettings` (violation) | as `CircuitCalls` | does it take faults of the provider to open a circuit |
| `IncidentListing` (violation) | as `IncidentTruth`, without fairness | is there one incident at a time |

### Why the bounds are enough

- *Two asks*: an owner and a concurrent or late retry under one key, or two
  owners that race for the deal under two; the retry may send the other payload.
  A third only repeats the second's part; the proofs hold for any number.
- *Three decisions, speech requests or calls*: two that race and one that comes after.
- *Threshold 2 with 3 calls*: two faults open the circuit and the third call,
  which began before, ends in a late success or failure.
- *MaxRedirects 1*: both sides of the boundary.
- *Batches of 2 of 3 rows*: a batch that is not the whole table, with a second row left
  when the first is settled. *Two attempts*: a failure that is not the last and one that is.
  *MaxCrashes*, *MaxStalls*: crash and stall counts are bounds of the checking,
  not of the code, and without the bound the counters would not be finite; one stall
  lets a row be taken over while its first worker still posts it. The proofs hold for every value.
- *MaxRefusals 2*: one refusal fails a promotion and the second can also fail
  the restoration, or two keep both removals of a staging directory from
  happening. `DistComesBack` speaks of at most one, because with two the
  code itself reports that it could not restore; `CandidateSurvives` then still
  holds.
- *Two asks and two speech requests in the memory store*: two handlers of each
  kind meet on a key, and the two kinds meet nowhere but in the list of events.
- *MaxHandoffs 1*: documents of two handoffs, in every order of replacement. A
  read that overlaps more handoffs is covered by the theorem.
- *Two commits*: a passing and a failing one in either order, one observed late, the
  handoff of either overdue; *2 faults*: a job or call that fails and the run that would have made up
  for it. `good` is chosen freely at the start, so every sequence of passing
  and failing commits occurs. *Runs* has two elements only so that the concurrency group has
  something to prevent. The safety properties are proved for every number of commits.
- *MaxEdits 1*: a projection of the revision before is told from one of this
  one, a patched one and a missing one; the files never depend on the value.

### Fairness

`AskPipeline`, `TtsAssets`: weak fairness of a handler that has begun, because
providers are cut off by a deadline (shown by `CircuitCalls`) and the event loop resumes every settled
promise. `ReviewDecision`: weak fairness of a statement whose locks are free.
`OutboxRelay`: workers run, the orchestrator restarts them, leases and backoffs run out.
Nothing is assumed of the consumer: an event that is never accepted is dead-lettered.
`ProviderCircuit`: weak fairness of admitting a call and of its *timer*, none of
any answer. `CiIncident`: CI runs and jobs have timeouts, GitHub delivers what
happened, and the weekly schedule fires; the schedule is what makes up for lost
results, and faults are finitely many. A handoff that is overdue is no fault: it may last for ever, and the
issue then has to stay open. No fairness is put on crashes, aborts or
failures, and no strong fairness is used. `MemoryStore`, `ControlPlane`,
`Projections` and `BuildPromotion` have safety properties only.

## 4. What is proved

TLAPS checks these for every value of the constants (any number of requests,
workers, rows, builds, sessions or calls), from the named assumptions on the
constants only. Each module states an inductive invariant `IInv`, shows that
`Init` implies it and that every action keeps it, one lemma per action, and
reads the properties off it.

**`AskPipelineProofs`**: `TypeCorrect`; `CompletedCommitted`, `ReviewsHoldBack`,
`EffectsMatch`, `SuccessReplayable`, `AnswersHaveTrails`, `VersionsHaveCommands`,
`SettledForGood` (the action property `SettledStays`), `CommandIsFirst` and
`AskKeepsPromise`, that the pipeline implements `IdempotentAsk`. None of them is inductive: that a completed
interaction has its command depends on where its owner is. The
inductive invariant `IInv` adds what a handler may rely on in the middle of its work:
`PastCommand` (past `execute` or `createReview`, the command under its key is on
record, has its content and the result the handler holds, and is committed or
awaits a review as the understanding asked), `Ledger` (the events and customers
of a key follow from the status of its command), `OwnRow` (an interaction was
begun with its owner's content) and `Outcome` (a settled interaction agrees
with the command).

Three more parts serve the later theorems. `Began` and `Fresh` say that an
unfinished request owns the row of its key and that a key nobody began has no
command; with them no handler writes the rows of another (`RowsAreOwn`). `Trail`
is what a request has left on record so far at each of its steps, and that its
command is not there before `execute` or `createReview`: hence
`AnswersHaveTrails` and `CommandIsFirst`. `VersionsHaveCommands`: `VersionsOf(d)`, the
versions in the results of the committed updates of a deal, are all those from 2
up to its version, one command each; the update that raises the version adds the next.

`PInv` adds to these `OnItsWay` (a request that still moves has not been answered, its
row is "processing" until it settles it, and what waits for a confirmation holds
a review's result) and `KeyOf`. From `PInv` every
handler step is one step of the promise or a stutter: `beginInteraction` is a
`Claim`, `execute` and `createReview` are the four effects, `completeInteraction`
and `failInteraction` settle, a replay replays, and everything else, crashes
included, changes nothing the client can see (`QuietStep`). The lost answer of
a commit is the disjunct `UNCHANGED told` of the step it belongs to.

**`OutboxRelayProofs`**: `TypeCorrect`, `LeasesWorkedOn`, `SettledOut`,
`BudgetExact`, and `RelayKeepsPromise`, that the relay implements `AtLeastOnce`.
The inductive invariant adds: a leased row is open and not waiting, an idle
worker holds no rows, a worker that acknowledges has delivered its row, and
what is published was delivered. The late acknowledgement of a worker that lost
its lease is harmless because each mark asks for the lease's owner; this is
the step the invariant is for. Refinement: each step maps to a step of
`AtLeastOnce` or leaves `status` and `delivered` alone.

**`ProviderCircuitProofs`**: `TypeCorrect`, `CircuitEarned`, `CircuitTrips`,
`SendsBounded`. The invariant `CountIsFair` puts the breaker's own counter
between the provider's faults and those together with the settings', and says
that the circuit is open exactly when the counter is at the threshold, unless a
cool-down has ended; `SentByStage` ties the requests sent to the stage.

**`ReviewDecisionProofs`**: `TypeCorrect`, `TakesEffectOnce`, `ReviewersAgree`,
`KeysAreTrue`, `DecisionsAreFinal`. The invariant is the reason the row lock is
there: who is past it holds it (`LocksAreHeld`), so what a transaction read
under it still stands when it commits (`ReadsStand`), and a key that somebody
holds uncommitted is not on record.

**`TtsAssetsProofs`**: `TypeCorrect`, `KeyHasOneAsset`, `AssetsCanBeServed`,
`AssetsAnnouncedOnce`, `RowsStand`. What a request generated is in the object
store before its transaction begins (`BytesAreStored`); who inserted a media row
or a key holds it until the end, and who did not insert it found one
(`MediaLocksAreHeld`, `KeyLocksAreHeld`); every media row names a stored object
(`MediaAreStored`).

**`BuildPromotionProofs`**: `TypeCorrect`, `DistVerified`, `CandidatesSurvive`,
`DistBack`, `WithoutDebris`. `Hands` says what a build holds at each step,
`Debris` what a failing build still has to remove and how many refusals that has
cost, `AllSound` that only whole verified candidates are in dist or wait to
come back, and `Kept` and `Held` that
whoever holds the old dist passes it on or is about to bring it back: a backup
that is being removed does not count (`IsKept`). Builds do
not exclude each other; the proof shows they need not.

In a part of its own, on `Projections`: `DerivedTyped`, `DriftExact`
(`DriftCheckIsExact`) and `CorpusWhole` (`CorpusIsWhole`), from
`EditAssumption`. `CheckOK` is what a check knows at each step: what it has read
of the sources stands unless somebody edited, the temporary tree is made from
that, and the verdict is the comparison. `SiteOK` says how far the publisher is:
the pages rendered and paths copied so far, and that the index is written last, over a corpus
that is whole; a build that starts again empties it first. In a torn site only
`Placed` is left, that a document is at its own path if anywhere; with the checks of the
verification that is enough.

**`MemoryStoreProofs`**: `TypeCorrect`, `KeyHasOneAnswer`, `KeyHasOneVoice`, and
`StoreKeepsLedger`, that the store with its handlers implements `CrmLedger`. The
invariant: one ask works on a key and its row is "processing"
(`OneWorksOnAKey`), a key has had no effect until that ask decides
(`NoEffectYet`), and what was answered is what is on record. `NoEffectYet` is why
the store never enters a command and a review under one key, although
`execute` and `createReview` look in different maps.

**`ControlPlaneProofs`**: `TypeCorrect`, `InspectionsAreTrue`,
`AgentChecksAreTrue`, `RuntimeFileWhole`, for any number of handoffs. The
documents are always of the handoff in hand or the one before (`NearlyFull`);
what a session passes through is a chain of such versions that includes every
complete handoff between two of them (`PassedThrough`), and every file it has
read is from one of them. From this and the monotone phases, `OneMoment`: if
all files read agree on a position, some version on the chain was at it.

In a part of its own, on `CiIncident`: `IncidentTyped`, `DuplicatesAreBlind`
(`OnlyBlindRunsDuplicate`) and `IncidentRecovered` (`ClosedMeansRecovered`), for any number of
commits, runs and faults, from `BoundAssumption`. The invariant is that the
concurrency group lets one run work (`OneAtATime`), and what that run relies on
(`RunOK`): what it has listed is open, and all that is open unless its listing failed; a run
that is about to close the newest issue has recorded its recovery there. That a listing
has a newest issue is well-foundedness of the numbers (`NewestExists`), not the
shape of `CHOOSE`.

**Only model-checked**: liveness, which TLAPS does not reach (fairness and
ENABLED): `EveryAskEnds`, `EveryEventSettles`, `EveryDecisionEnds`,
`EveryRequestEnds`, `EveryCallEnds` and `IssueTellsTheTruth`. Every safety
property that a passing run checks is stated by a theorem. The four runs that
expect a violation are refutations and have nothing to prove.

## 5. What the models found

Four runs exhibit a disagreement between the code and what its documents say:

1. `ReviewKey`: the replay of a closed review inserts its key with
   `on conflict do nothing` and does not look at the row that is there, so one
   key can answer two contents (`001_initial.sql:101`).
2. `ReviewDeal`: approving a `crm.deal.update_stage` review commits the command
   and does not touch the deal (`docs/DATA-MODEL.md:71`).
3. `CircuitSettings`: a base URL or API key that `fetch` cannot use throws an
   error without `breakerEligible` (`providers.mjs:28`), and as many of them as the threshold open a
   circuit with no request sent, where `docs/ARCHITECTURE.md:75` says "User/configuration
   errors do not open a provider circuit". Of all other settings and of users' errors it
   is true (`OpenIsEarned`).
4. `IncidentListing`: the workflow lists the open incidents in a process substitution
   (`operations-agent.yml:227`), whose failure `mapfile` does not see: a failure
   reported after a failed listing opens a second issue, where
   `docs/MAINTENANCE.md:57` promises "one deterministic Issue". Nothing else leads to one
   (`OnlyBlindRunsDuplicate`), and at rest the issues tell the truth all the same.

Seen while modelling, and not the subject of a run:

- A speech failure after the command has committed marks the whole interaction
  failed, so the client and all its retries get an error (`server.mjs:79`), where
  `docs/OPERATIONS.md:27` says "keep text response; retry TTS job".
- A failed interaction is final for its key, so `docs/OPERATIONS.md:23`, "retry
  same request/idempotency key" after an `ASR_TIMEOUT`, can only repeat the stored error.
- The answer text of `ask` is composed before the confirmation branch: a 202
  that only created a review says that the stage was updated.
- A rejected review writes an event of type `crm.command.committed.v1`.
- The loser of a race in `recordTts` returns from inside its transaction, so the
  media row it inserted is committed without its event (`CommitRace`; this is
  why `AnnouncedOnce` says "at most once").
- No worker renews or rereads a lease during a batch (`docs/LIFECYCLE.md:25`);
  duplicates follow, which at-least-once delivery permits.
- A build killed between its two renames leaves no dist, only a backup; no later build looks for it.
- The script looks at the first 100 open issues and pull requests only, the
  workflow at all of them; the model's listings are complete.
- Re-running only a failed reconciliation job, which GitHub offers, skips the
  authorization before it and would reconcile an old observation; the
  runs of `CiIncident` start from the beginning.
- A recovery that comments and then fails to close comments again on the next
  run; `ClosedMeansRecovered` allows it.
- A snapshot takes the commit after it has read the documents, and an older
  snapshot may replace a newer one in a shared runtime file: the file is whole
  and was true, not the newest.
- An `openapi` output equal to `sumi-docs-manifest.json` or
  `sumi-docs-routes.json` passes the publisher's option check and is then
  overwritten; the model's options have no such output.
- A promotion whose removal of the backup fails reports a failed build, although its
  candidate is dist, and leaves what is left of the backup; no later build looks for it.
- Two site builds at once share one output directory, and two generations one
  checkout; `Projections` has one shell.

## 6. What is not modelled, and why

Pure functions (contracts, validation, cipher, authentication, configuration):
their outcome is a free accept-or-reject choice where a module uses them. Wire formats and
prompts of the providers: only the class of the result matters to the facade.
Row level security and multiple tenants: declarative. Metrics, router, health:
no state that a later step depends on. Drills, smoke tests and generated code:
they run the program or are made from it. The workbench recorder is 32 lines
over the browser's media recorder, most of whose model would be the browser. The
release and CI workflows keep no state of their own.

## 7. Plan

Done, in this order: `AskPipeline` and its proofs; `OutboxRelay` with
`AtLeastOnce` and their proofs; `ReviewDecision`; `TtsAssets`;
`ProviderCircuit` and its proofs; `BuildPromotion`; `MemoryStore` with
`CrmLedger`; `ControlPlane`; `CiIncident`; `Projections`; the proofs of
`ReviewDecision`, `TtsAssets`, `BuildPromotion`, `MemoryStore` and `ControlPlane`;
the remaining safety properties of `AskPipeline`, and those of `CiIncident` and
`Projections`; `IdempotentAsk` and the proof that `AskPipeline` implements it.

Next:

1. *Proofs.* That `MemoryStore` implements `IdempotentAsk` too, with its speech requests
   mapped to nothing; that `ReviewDecision` implements an abstract "a review is
   decided once", which it does but for the keys of late replays (`ReviewKey`).
2. *Models.* The event order of one aggregate and invalid stored events in
   `OutboxRelay`; the type of a decision's event in `ReviewDecision`; the
   workbench recorder. Reverted handoffs in `ControlPlane`, with what is left of its
   properties then.
