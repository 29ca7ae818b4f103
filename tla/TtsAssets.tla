------------------------------- MODULE TtsAssets -------------------------------
(***************************************************************************)
(* POST /v1/tts/synthesize: the handler `tts' of src/server.mjs,           *)
(* persistAudioAsset of src/object-storage.mjs, and replayTts and          *)
(* recordTts of src/postgres-store.mjs, recordTts statement by statement.  *)
(* The transaction is READ COMMITTED; "on conflict do nothing" waits for   *)
(* an uncommitted row with the same unique key and then inserts nothing if *)
(* that row was committed.                                                 *)
(*                                                                         *)
(* An asset is a voice and a sound.  Its id is a hash of both (voice       *)
(* stands for provider, model, language, voice and format), the media      *)
(* table is also unique in the hash of the sound alone, so it holds at     *)
(* most one asset of each sound.                                           *)
(***************************************************************************)
EXTENDS Naturals, FiniteSets

CONSTANTS
  Requests,   \* executions of the handler
  Keys,       \* idempotency keys of one tenant
  Texts, Voices,
  Sounds,     \* audio bytes a provider may return; for one text, any of them
  None

ASSUME NoneAssumption == None \notin Requests /\ None \notin Voices

VARIABLES
  pc,          \* where each request is
  request,     \* its key and its content
  generated,   \* the asset synthesized for it
  reply,       \* what it answered
  objects,     \* assets whose bytes are in the object store
  media,       \* table media_assets: the voice stored with each sound
  ttsRequests, \* table tts_requests: content and asset, by key
  events,      \* tts.asset.created.v1 events (and audit records) of each sound
  mediaLock,   \* who has inserted a media row and not yet committed
  keyLock      \* who has inserted a request row and not yet committed

database == <<media, ttsRequests, events>>
locks == <<mediaLock, keyLock>>
vars == <<pc, request, generated, reply, objects, database, locks>>

-----------------------------------------------------------------------------
Contents == [text : Texts, voice : Voices]
Assets == [voice : Voices, sound : Sounds]
Records == [content : Contents, asset : Assets]

ASSUME NoRecordAssumption == None \notin Records

Answers == [kind : {"none"}] \cup [kind : {"asset"}, asset : Assets]
           \cup [kind : {"error"}, code : {"IDEMPOTENCY_CONFLICT", "UNAVAILABLE"}]
Asset(a) == [kind |-> "asset", asset |-> a]
Error(code) == [kind |-> "error", code |-> code]

Key(r) == request[r].key
Content(r) == request[r].content
Sound(r) == generated[r].sound

Init ==
  /\ pc = [r \in Requests |-> "replay"]
  /\ request \in [Requests -> [key : Keys, content : Contents]]
  /\ generated = [r \in Requests |-> None]
  /\ reply = [r \in Requests |-> [kind |-> "none"]]
  /\ objects = {}
  /\ media = [s \in Sounds |-> None]
  /\ ttsRequests = [k \in Keys |-> None]
  /\ events = [s \in Sounds |-> 0]
  /\ mediaLock = [s \in Sounds |-> None]
  /\ keyLock = [k \in Keys |-> None]

Goto(r, step) == pc' = [pc EXCEPT ![r] = step]

\* Mutant: a rollback keeps its locks.
StillLocked(lock, r) == lock

Unlocked(lock, r) == [x \in DOMAIN lock |-> IF lock[x] = r THEN None ELSE lock[x]]

\* The transaction, if one is open, is over, and the client is answered.
Finish(r, answer) ==
  /\ Goto(r, "done")
  /\ reply' = [reply EXCEPT ![r] = answer]
  /\ generated' = [generated EXCEPT ![r] = None]
  /\ mediaLock' = Unlocked(mediaLock, r)
  /\ keyLock' = Unlocked(keyLock, r)
  /\ UNCHANGED request

\* A request row on record answers the same content and refuses any other.
Replayed(r) ==
  IF ttsRequests[Key(r)].content = Content(r)
  THEN Asset(ttsRequests[Key(r)].asset) ELSE Error("IDEMPOTENCY_CONFLICT")

-----------------------------------------------------------------------------
\* The look-up of replayTts, and the first statement of recordTts.
LookUp(r, here, next) ==
  /\ pc[r] = here
  /\ IF ttsRequests[Key(r)] = None
     THEN Goto(r, next) /\ UNCHANGED <<request, generated, reply, locks>>
     ELSE Finish(r, Replayed(r))
  /\ UNCHANGED <<objects, database>>

ReplayTts(r) == LookUp(r, "replay", "synthesize")

Synthesize(r) ==
  /\ pc[r] = "synthesize"
  /\ \E s \in Sounds :
       generated' = [generated EXCEPT ![r] = [voice |-> Content(r).voice, sound |-> s]]
  /\ Goto(r, "put")
  /\ UNCHANGED <<request, reply, objects, database, locks>>

\* The bytes are stored before any row names them.
PutObject(r) ==
  /\ pc[r] = "put"
  /\ objects' = objects \cup {generated[r]}
  /\ Goto(r, "existing")
  /\ UNCHANGED <<request, generated, reply, database, locks>>

FindExisting(r) == LookUp(r, "existing", "media")

\* Mutant: on conflict do update.
InsertMediaUpserts(r) ==
  /\ pc[r] = "media"
  /\ mediaLock[Sound(r)] = None
  /\ mediaLock' = [mediaLock EXCEPT ![Sound(r)] = r]
  /\ Goto(r, "request")
  /\ UNCHANGED <<request, generated, reply, objects, database, keyLock>>

\* insert into media_assets ... on conflict do nothing: a row this transaction
\* creates stays invisible to the others until the commit.
InsertMedia(r) ==
  /\ pc[r] = "media"
  /\ mediaLock[Sound(r)] = None
  /\ mediaLock' = IF media[Sound(r)] = None
                  THEN [mediaLock EXCEPT ![Sound(r)] = r] ELSE mediaLock
  /\ Goto(r, "request")
  /\ UNCHANGED <<request, generated, reply, objects, database, keyLock>>

Created(r) == mediaLock[Sound(r)] = r

\* Mutant: the row that was there is not adopted.
StoredAssetOwn(r) == generated[r]

\* The asset to answer with: the sound under the id the media row has.
StoredAsset(r) ==
  [generated[r] EXCEPT !.voice = IF Created(r) THEN @ ELSE media[Sound(r)]]

\* insert into tts_requests ... on conflict do nothing; a request that lost
\* the race reads the winner's row.
InsertRequest(r) ==
  /\ pc[r] = "request"
  /\ keyLock[Key(r)] = None
  /\ IF ttsRequests[Key(r)] # None /\ ttsRequests[Key(r)].content # Content(r)
     THEN Finish(r, Error("IDEMPOTENCY_CONFLICT"))
     ELSE /\ Goto(r, IF ttsRequests[Key(r)] = None THEN "commit" ELSE "commit_race")
          /\ keyLock' = IF ttsRequests[Key(r)] = None
                        THEN [keyLock EXCEPT ![Key(r)] = r] ELSE keyLock
          /\ UNCHANGED <<request, generated, reply, mediaLock>>
  /\ UNCHANGED <<objects, database>>

CommitMedia(r) ==
  media' = IF Created(r) THEN [media EXCEPT ![Sound(r)] = generated[r].voice] ELSE media

\* The commit of recordTts; its answer may be lost.
Answered(r, asset) ==
  \E answer \in {Asset(asset), Error("UNAVAILABLE")} : Finish(r, answer)

\* Mutant: assetCreated is not asked.
AnnounceAlways(r) == events' = [events EXCEPT ![Sound(r)] = @ + 1]

Announce(r) ==
  events' = IF Created(r) THEN [events EXCEPT ![Sound(r)] = @ + 1] ELSE events

Commit(r) ==
  /\ pc[r] = "commit"
  /\ CommitMedia(r)
  /\ ttsRequests' = [ttsRequests EXCEPT ![Key(r)] =
       [content |-> Content(r), asset |-> StoredAsset(r)]]
  /\ Announce(r)
  /\ Answered(r, StoredAsset(r))
  /\ UNCHANGED objects

\* Mutant: the loser answers with what it generated.
CommitRaceOwn(r) ==
  /\ pc[r] = "commit_race"
  /\ CommitMedia(r)
  /\ Answered(r, generated[r])
  /\ UNCHANGED <<objects, ttsRequests, events>>

\* The loser of the race returns from the transaction: what it inserted is
\* committed, and no event with it.
CommitRace(r) ==
  /\ pc[r] = "commit_race"
  /\ CommitMedia(r)
  /\ Answered(r, ttsRequests[Key(r)].asset)
  /\ UNCHANGED <<objects, ttsRequests, events>>

\* A provider, the object store or a statement fails, or the process dies.
Fail(r) ==
  /\ pc[r] # "done"
  /\ Finish(r, Error("UNAVAILABLE"))
  /\ UNCHANGED <<objects, database>>

Handle(r) ==
  \/ ReplayTts(r) \/ Synthesize(r) \/ PutObject(r) \/ FindExisting(r)
  \/ InsertMedia(r) \/ InsertRequest(r) \/ Commit(r) \/ CommitRace(r)

Next == \E r \in Requests : Handle(r) \/ Fail(r)

Spec == Init /\ [][Next]_vars

\* The event loop and the database resume every handler that can go on.
FairSpec == Spec /\ \A r \in Requests : WF_vars(Handle(r))

-----------------------------------------------------------------------------
(* Properties *)

TypeOK ==
  /\ pc \in [Requests -> {"replay", "synthesize", "put", "existing", "media",
                          "request", "commit", "commit_race", "done"}]
  /\ request \in [Requests -> [key : Keys, content : Contents]]
  /\ generated \in [Requests -> Assets \cup {None}]
  /\ reply \in [Requests -> Answers]
  /\ objects \subseteq Assets
  /\ media \in [Sounds -> Voices \cup {None}]
  /\ ttsRequests \in [Keys -> Records \cup {None}]
  /\ events \in [Sounds -> Nat]
  /\ mediaLock \in [Sounds -> Requests \cup {None}]
  /\ keyLock \in [Keys -> Requests \cup {None}]

\* However many requests race under a key, all that succeed have one content
\* and are answered with one asset, the one on record.
OneAssetPerKey ==
  \A r \in Requests : reply[r].kind = "asset" =>
    ttsRequests[Key(r)] = [content |-> Content(r), asset |-> reply[r].asset]

\* Every asset a client was given can be fetched: its id is the one of the
\* media row of its bytes, and the object that row names is in the store.
AssetsAreServable ==
  \A k \in Keys : ttsRequests[k] # None =>
    /\ media[ttsRequests[k].asset.sound] = ttsRequests[k].asset.voice
    /\ ttsRequests[k].asset \in objects

\* An asset is announced at most once, and only if it is on record.
AnnouncedOnce ==
  \A s \in Sounds : events[s] > 0 => events[s] = 1 /\ media[s] # None

\* What is on record stays: later requests with the same bytes or the same key
\* adopt the rows that are there.
RecordsStand ==
  [][/\ \A s \in Sounds : media[s] # None => media'[s] = media[s]
     /\ \A k \in Keys : ttsRequests[k] # None => ttsRequests'[k] = ttsRequests[k]]_vars

\* The two unique keys are always taken in one order: nobody waits for ever.
EveryRequestEnds == \A r \in Requests : <>(pc[r] = "done")
=============================================================================
