--------------------------- MODULE TtsAssetsProofs ---------------------------
(* Theorems about TtsAssets, for any requests, keys, texts, voices, sounds.   *)
EXTENDS TtsAssets, TLAPS

Stored == {"existing", "media", "request", "commit", "commit_race"}
InsertedMedia == {"request", "commit", "commit_race"}

\* What a request has generated, it has stored before it opens a transaction.
BytesAreStored ==
  \A r \in Requests :
    /\ pc[r] \in Stored \cup {"put"} => generated[r] \in Assets
    /\ pc[r] \in Stored => generated[r] \in objects

\* Whoever is past the insert of the media row has inserted it, unseen, or
\* found it; the inserted row names the sound it is about to commit.
MediaLocksAreHeld ==
  /\ \A s \in Sounds, r \in Requests : mediaLock[s] = r =>
       pc[r] \in InsertedMedia /\ Sound(r) = s /\ media[s] = None
  /\ \A r \in Requests : pc[r] \in InsertedMedia =>
       Created(r) \/ media[Sound(r)] # None

\* Whoever is about to commit a request row has inserted its key, which is not
\* on record; who lost the race found its own content there.
KeyLocksAreHeld ==
  /\ \A r \in Requests : pc[r] = "commit" => keyLock[Key(r)] = r
  /\ \A r \in Requests : pc[r] = "commit_race" =>
       ttsRequests[Key(r)] # None /\ ttsRequests[Key(r)].content = Content(r)
  /\ \A k \in Keys : keyLock[k] # None => ttsRequests[k] = None

\* A media row names an object that is in the store.
MediaAreStored ==
  \A s \in Sounds : media[s] # None => [voice |-> media[s], sound |-> s] \in objects

EventsAreSingle ==
  \A s \in Sounds : events[s] = 0 \/ (events[s] = 1 /\ media[s] # None)

IInv ==
  /\ TypeOK /\ BytesAreStored /\ MediaLocksAreHeld /\ KeyLocksAreHeld
  /\ MediaAreStored /\ EventsAreSingle /\ OneAssetPerKey /\ AssetsAreServable

-----------------------------------------------------------------------------
\* Assets and errors are answers, and errors name no asset.
LEMMA AnswerTypes ==
  /\ \A a \in Assets : Asset(a) \in Answers /\ Asset(a).kind = "asset" /\ Asset(a).asset = a
  /\ Error("UNAVAILABLE") \in Answers /\ Error("IDEMPOTENCY_CONFLICT") \in Answers
  /\ \A c : Error(c).kind = "error"
BY DEF Answers, Asset, Error

\* A request has a key and asks for a voice.
LEMMA RequestTypes ==
  ASSUME TypeOK, NEW r \in Requests
  PROVE  Key(r) \in Keys /\ Content(r) \in Contents /\ Content(r).voice \in Voices
BY DEF TypeOK, Key, Content, Contents

\* What was generated is a voice and a sound.
LEMMA SoundTypes ==
  ASSUME NEW r \in Requests, generated[r] \in Assets
  PROVE  /\ Sound(r) \in Sounds /\ generated[r].voice \in Voices
         /\ generated[r] = [voice |-> generated[r].voice, sound |-> Sound(r)]
BY DEF Sound, Assets

\* The end of a request releases what it held and nothing else.
LEMMA FinishFacts ==
  ASSUME TypeOK, NEW r \in Requests, NEW answer \in Answers, Finish(r, answer)
  PROVE  /\ pc' = [pc EXCEPT ![r] = "done"]
         /\ reply' = [reply EXCEPT ![r] = answer] /\ reply' \in [Requests -> Answers]
         /\ generated' = [generated EXCEPT ![r] = None]
         /\ generated' \in [Requests -> Assets \cup {None}]
         /\ mediaLock' \in [Sounds -> Requests \cup {None}]
         /\ keyLock' \in [Keys -> Requests \cup {None}]
         /\ \A s \in Sounds : mediaLock'[s] = IF mediaLock[s] = r THEN None ELSE mediaLock[s]
         /\ \A k \in Keys : keyLock'[k] = IF keyLock[k] = r THEN None ELSE keyLock[k]
         /\ request' = request
BY DEF TypeOK, Finish, Goto, Unlocked

\* A look-up either goes on, changing nothing else, or ends the request.
LEMMA LookUpFacts ==
  ASSUME TypeOK, NEW r \in Requests, NEW here, NEW next, LookUp(r, here, next)
  PROVE  /\ UNCHANGED <<objects, database>>
         /\ \/ /\ Goto(r, next) /\ UNCHANGED <<request, generated, reply, locks>>
               /\ ttsRequests[Key(r)] = None
            \/ /\ ttsRequests[Key(r)] # None /\ ttsRequests[Key(r)].content = Content(r)
               /\ Finish(r, Asset(ttsRequests[Key(r)].asset))
               /\ ttsRequests[Key(r)].asset \in Assets
            \/ Finish(r, Error("IDEMPOTENCY_CONFLICT"))
<1>1. ttsRequests[Key(r)] # None => ttsRequests[Key(r)].asset \in Assets
  BY RequestTypes DEF TypeOK, Records
<1> QED BY <1>1 DEF LookUp, Replayed

\* The asset recordTts answers with is the one it created or the one it found.
LEMMA StoredAssetFacts ==
  ASSUME IInv, NEW r \in Requests, pc[r] \in InsertedMedia
  PROVE  /\ Sound(r) \in Sounds
         /\ StoredAsset(r) \in Assets
         /\ Created(r) => StoredAsset(r) = generated[r] /\ media[Sound(r)] = None
         /\ ~Created(r) => /\ media[Sound(r)] # None
                           /\ StoredAsset(r) = [voice |-> media[Sound(r)], sound |-> Sound(r)]
<1>1. generated[r] \in Assets /\ (Created(r) \/ media[Sound(r)] # None)
  BY DEF IInv, BytesAreStored, MediaLocksAreHeld, Stored, InsertedMedia
<1>2. Sound(r) \in Sounds /\ (Created(r) => media[Sound(r)] = None)
  BY <1>1, SoundTypes DEF IInv, MediaLocksAreHeld, Created
<1>3. media[Sound(r)] \in Voices \cup {None}
  BY <1>2 DEF IInv, TypeOK
<1> QED BY <1>1, <1>2, <1>3, SoundTypes DEF StoredAsset, Assets, Sound

-----------------------------------------------------------------------------
(* One lemma for each kind of step. *)

\* A request that ends without writing, told an error or the asset on record.
LEMMA EndKeeps ==
  ASSUME IInv, NEW r \in Requests, NEW answer \in Answers, Finish(r, answer),
         UNCHANGED <<objects, database>>,
         answer.kind = "asset" =>
           ttsRequests[Key(r)] = [content |-> Content(r), asset |-> answer.asset]
  PROVE  IInv'
<1>1. /\ pc' = [pc EXCEPT ![r] = "done"]
      /\ reply' = [reply EXCEPT ![r] = answer] /\ request' = request
      /\ generated' = [generated EXCEPT ![r] = None]
      /\ \A s \in Sounds : mediaLock'[s] = IF mediaLock[s] = r THEN None ELSE mediaLock[s]
      /\ \A k \in Keys : keyLock'[k] = IF keyLock[k] = r THEN None ELSE keyLock[k]
  BY FinishFacts DEF IInv
<1>2. UNCHANGED <<objects, media, ttsRequests, events>>
  BY DEF database
<1>3. \A q \in Requests : Key(q) \in Keys
  BY RequestTypes DEF IInv
<1>4. \A q \in Requests : /\ pc'[q] = IF q = r THEN "done" ELSE pc[q]
                          /\ q # r => generated'[q] = generated[q] /\ reply'[q] = reply[q]
  BY <1>1 DEF IInv, TypeOK
<1>5. TypeOK'
  BY <1>1, <1>2, FinishFacts DEF IInv, TypeOK
<1>6. BytesAreStored'
  BY <1>2, <1>4 DEF IInv, BytesAreStored, Stored
<1>7. MediaLocksAreHeld'
  <2>1. ASSUME NEW s \in Sounds, NEW q \in Requests, mediaLock'[s] = q
        PROVE  pc'[q] \in InsertedMedia /\ generated'[q].sound = s /\ media'[s] = None
    <3>1. mediaLock[s] = q /\ q # r
      BY <1>1, <2>1, NoneAssumption
    <3> QED BY <1>2, <1>4, <3>1 DEF IInv, MediaLocksAreHeld, Sound
  <2>2. ASSUME NEW q \in Requests, pc'[q] \in InsertedMedia
        PROVE  mediaLock'[generated'[q].sound] = q \/ media'[generated'[q].sound] # None
    <3>1. q # r /\ pc[q] \in InsertedMedia /\ generated'[q] = generated[q]
      BY <1>4, <2>2 DEF InsertedMedia
    <3>2. generated[q].sound \in Sounds
      BY <3>1 DEF IInv, BytesAreStored, InsertedMedia, Stored, Assets
    <3> QED BY <1>1, <1>2, <3>1, <3>2 DEF IInv, MediaLocksAreHeld, Created, Sound
  <2> QED BY <2>1, <2>2 DEF MediaLocksAreHeld, Created, Sound
<1>8. KeyLocksAreHeld'
  <2>1. ASSUME NEW q \in Requests
        PROVE  /\ pc'[q] = "commit" => keyLock'[Key(q)] = q
               /\ pc'[q] = "commit_race" =>
                    ttsRequests[Key(q)] # None /\ ttsRequests[Key(q)].content = Content(q)
    BY <1>1, <1>3, <1>4 DEF IInv, KeyLocksAreHeld
  <2>2. \A k \in Keys : keyLock'[k] # None => ttsRequests[k] = None
    BY <1>1 DEF IInv, KeyLocksAreHeld
  <2> QED BY <1>1, <1>2, <2>1, <2>2 DEF KeyLocksAreHeld, Key, Content
<1>9. MediaAreStored' /\ EventsAreSingle' /\ AssetsAreServable'
  BY <1>2 DEF IInv, MediaAreStored, EventsAreSingle, AssetsAreServable
<1>10. OneAssetPerKey'
  <2>1. ASSUME NEW q \in Requests, reply'[q].kind = "asset"
        PROVE  ttsRequests[Key(q)] = [content |-> Content(q), asset |-> reply'[q].asset]
    <3>1. CASE q = r
      BY <1>1, <2>1, <3>1 DEF IInv, TypeOK
    <3>2. CASE q # r
      BY <1>4, <2>1, <3>2 DEF IInv, OneAssetPerKey
    <3> QED BY <3>1, <3>2
  <2> QED BY <1>1, <1>2, <2>1 DEF OneAssetPerKey, Key, Content
<1> QED BY <1>5, <1>6, <1>7, <1>8, <1>9, <1>10 DEF IInv

\* Before its transaction a request only generates and stores its bytes.
LEMMA SynthesisKeeps ==
  ASSUME IInv, NEW r \in Requests, Synthesize(r) \/ PutObject(r)
  PROVE  IInv'
<1>1. /\ UNCHANGED <<request, reply, media, ttsRequests, events, mediaLock, keyLock>>
      /\ objects \subseteq objects'
  BY DEF Synthesize, PutObject, database, locks
<1>2. /\ pc[r] \in {"synthesize", "put"} /\ pc'[r] \in {"put", "existing"}
      /\ \A q \in Requests : q # r => pc'[q] = pc[q] /\ generated'[q] = generated[q]
  BY DEF Synthesize, PutObject, Goto, IInv, TypeOK
<1>3. /\ generated'[r] \in Assets /\ generated' \in [Requests -> Assets \cup {None}]
      /\ objects' \subseteq Assets /\ (pc'[r] = "existing" => generated'[r] \in objects')
  <2>1. CASE Synthesize(r)
    <3>1. PICK s \in Sounds :
            generated' = [generated EXCEPT ![r] = [voice |-> Content(r).voice, sound |-> s]]
      BY <2>1 DEF Synthesize
    <3>2. [voice |-> Content(r).voice, sound |-> s] \in Assets
      BY RequestTypes DEF Assets, IInv
    <3>3. pc'[r] = "put" /\ objects' = objects
      BY <2>1 DEF Synthesize, Goto, IInv, TypeOK
    <3> QED BY <3>1, <3>2, <3>3 DEF IInv, TypeOK
  <2>2. CASE PutObject(r)
    BY <2>2 DEF PutObject, IInv, BytesAreStored, TypeOK
  <2> QED BY <2>1, <2>2
<1>4. TypeOK'
  <2>1. pc' \in [Requests -> {"replay", "synthesize", "put", "existing", "media",
                              "request", "commit", "commit_race", "done"}]
    BY DEF Synthesize, PutObject, Goto, IInv, TypeOK
  <2> QED BY <1>1, <1>3, <2>1 DEF IInv, TypeOK
<1>5. BytesAreStored'
  BY <1>1, <1>2, <1>3 DEF IInv, BytesAreStored, Stored
<1>6. MediaLocksAreHeld'
  BY <1>1, <1>2 DEF IInv, MediaLocksAreHeld, InsertedMedia, Sound, Created
<1>7. KeyLocksAreHeld'
  BY <1>1, <1>2 DEF IInv, KeyLocksAreHeld, Key, Content
<1>8. MediaAreStored' /\ EventsAreSingle' /\ AssetsAreServable' /\ OneAssetPerKey'
  BY <1>1 DEF IInv, MediaAreStored, EventsAreSingle, AssetsAreServable, OneAssetPerKey, Key, Content
<1> QED BY <1>4, <1>5, <1>6, <1>7, <1>8 DEF IInv

\* A statement that ends nothing: it goes on with what it found, and locks what
\* was free and is not on record.
LEMMA StatementKeeps ==
  ASSUME IInv, NEW r \in Requests,
         \/ ReplayTts(r) /\ ttsRequests[Key(r)] = None
         \/ FindExisting(r) /\ ttsRequests[Key(r)] = None
         \/ InsertMedia(r)
         \/ /\ InsertRequest(r)
            /\ ttsRequests[Key(r)] # None => ttsRequests[Key(r)].content = Content(r)
  PROVE  IInv'
<1>1. UNCHANGED <<request, generated, reply, objects, media, ttsRequests, events>>
  BY DEF ReplayTts, FindExisting, LookUp, InsertMedia, InsertRequest, database, locks
<1>2. /\ \A q \in Requests : q # r => pc'[q] = pc[q]
      /\ \/ pc[r] = "replay" /\ pc'[r] = "synthesize"
         \/ pc[r] = "existing" /\ pc'[r] = "media"
         \/ pc[r] = "media" /\ pc'[r] = "request"
         \/ pc[r] = "request" /\ pc'[r] \in {"commit", "commit_race"}
  BY DEF ReplayTts, FindExisting, LookUp, InsertMedia, InsertRequest, Goto, IInv, TypeOK
<1>3. /\ mediaLock' \in [Sounds -> Requests \cup {None}]
      /\ keyLock' \in [Keys -> Requests \cup {None}]
      /\ pc' \in [Requests -> {"replay", "synthesize", "put", "existing", "media",
                              "request", "commit", "commit_race", "done"}]
  BY DEF ReplayTts, FindExisting, LookUp, InsertMedia, InsertRequest, Goto, locks, IInv, TypeOK
<1>4. Key(r) \in Keys
  BY RequestTypes DEF IInv
<1>5. BytesAreStored'
  BY <1>1, <1>2 DEF IInv, BytesAreStored, Stored
<1>6. MediaLocksAreHeld'
  <2>1. CASE mediaLock' = mediaLock /\ pc[r] # "media"
    BY <1>1, <1>2, <2>1 DEF IInv, MediaLocksAreHeld, InsertedMedia, Sound, Created
  <2>2. CASE InsertMedia(r)
    <3>1. Sound(r) \in Sounds
      BY <2>2, SoundTypes DEF InsertMedia, IInv, BytesAreStored, Stored
    <3>2. \A s \in Sounds : mediaLock'[s] =
            IF s = Sound(r) /\ media[s] = None THEN r ELSE mediaLock[s]
      BY <2>2, <3>1 DEF InsertMedia, IInv, TypeOK
    <3>3. mediaLock[Sound(r)] = None /\ pc'[r] = "request" /\ pc[r] = "media"
      BY <2>2, <1>2 DEF InsertMedia
    <3>4. ASSUME NEW s \in Sounds, NEW q \in Requests, mediaLock'[s] = q
          PROVE  pc'[q] \in InsertedMedia /\ Sound(q) = s /\ media[s] = None
      <4>1. CASE s = Sound(r) /\ media[s] = None
        BY <3>2, <3>3, <3>4, <4>1 DEF InsertedMedia
      <4>2. CASE ~(s = Sound(r) /\ media[s] = None)
        BY <1>2, <3>2, <3>3, <3>4, <4>2 DEF IInv, MediaLocksAreHeld, InsertedMedia
      <4> QED BY <4>1, <4>2
    <3>5. ASSUME NEW q \in Requests, pc'[q] \in InsertedMedia
          PROVE  mediaLock'[Sound(q)] = q \/ media[Sound(q)] # None
      <4>1. CASE q = r
        BY <3>1, <3>2, <4>1
      <4>2. CASE q # r
        <5>1. pc[q] \in InsertedMedia /\ Sound(q) \in Sounds
          BY <1>2, <3>5, <4>2, SoundTypes DEF IInv, BytesAreStored, InsertedMedia, Stored
        <5>2. mediaLock[Sound(q)] = q \/ media[Sound(q)] # None
          BY <5>1 DEF IInv, MediaLocksAreHeld, Created
        <5> QED BY <3>2, <3>3, <5>1, <5>2, NoneAssumption
      <4> QED BY <4>1, <4>2
    <3> QED BY <1>1, <3>4, <3>5 DEF MediaLocksAreHeld, Created, Sound
  <2> QED BY <2>1, <2>2 DEF ReplayTts, FindExisting, LookUp, InsertRequest, locks
<1>7. KeyLocksAreHeld'
  <2>1. CASE keyLock' = keyLock /\ pc'[r] # "commit"
    <3>1. pc'[r] = "commit_race" =>
            ttsRequests[Key(r)] # None /\ ttsRequests[Key(r)].content = Content(r)
      BY <1>2 DEF ReplayTts, FindExisting, LookUp, InsertMedia, InsertRequest, Goto, IInv, TypeOK
    <3> QED BY <1>1, <1>2, <2>1, <3>1 DEF IInv, KeyLocksAreHeld, Key, Content
  <2>2. CASE InsertRequest(r) /\ ttsRequests[Key(r)] = None
    <3>1. pc'[r] = "commit" /\ keyLock[Key(r)] = None
      BY <2>2 DEF InsertRequest, Goto, IInv, TypeOK
    <3>2. \A k \in Keys : keyLock'[k] = IF k = Key(r) THEN r ELSE keyLock[k]
      BY <2>2, <1>4 DEF InsertRequest, IInv, TypeOK
    <3>3. \A q \in Requests : Key(q) \in Keys
      BY RequestTypes DEF IInv
    <3>4. \A q \in Requests : pc'[q] = "commit" => keyLock'[Key(q)] = q
      BY <1>2, <3>1, <3>2, <3>3, NoneAssumption DEF IInv, KeyLocksAreHeld
    <3>5. \A q \in Requests : pc'[q] = "commit_race" =>
            ttsRequests[Key(q)] # None /\ ttsRequests[Key(q)].content = Content(q)
      BY <1>2, <3>1 DEF IInv, KeyLocksAreHeld
    <3>6. \A k \in Keys : keyLock'[k] # None => ttsRequests[k] = None
      BY <2>2, <3>2 DEF IInv, KeyLocksAreHeld
    <3> QED BY <1>1, <3>4, <3>5, <3>6 DEF KeyLocksAreHeld, Key, Content
  <2> QED
    BY <1>2, <2>1, <2>2 DEF ReplayTts, FindExisting, LookUp, InsertMedia, InsertRequest, locks,
       Goto, IInv, TypeOK
<1>8. TypeOK' /\ MediaAreStored' /\ EventsAreSingle' /\ AssetsAreServable' /\ OneAssetPerKey'
  BY <1>1, <1>3 DEF IInv, TypeOK, MediaAreStored, EventsAreSingle, AssetsAreServable,
     OneAssetPerKey, Key, Content
<1> QED BY <1>5, <1>6, <1>7, <1>8 DEF IInv

\* A commit writes the rows its locks stand for and no others.
LEMMA CommitKeeps ==
  ASSUME IInv, NEW r \in Requests, Commit(r) \/ CommitRace(r)
  PROVE  IInv'
<1> DEFINE s == Sound(r)
           record == [content |-> Content(r), asset |-> StoredAsset(r)]
<1>1. /\ pc[r] \in InsertedMedia /\ pc[r] \in Stored /\ Key(r) \in Keys /\ Content(r) \in Contents
      /\ generated[r] \in Assets /\ generated[r] \in objects
      /\ generated[r] = [voice |-> generated[r].voice, sound |-> s]
      /\ generated[r].voice \in Voices /\ s \in Sounds /\ StoredAsset(r) \in Assets
  <2>1. pc[r] \in InsertedMedia /\ pc[r] \in Stored
    BY DEF Commit, CommitRace, InsertedMedia, Stored
  <2>2. generated[r] \in Assets /\ generated[r] \in objects
    BY <2>1 DEF IInv, BytesAreStored
  <2> QED BY <2>1, <2>2, RequestTypes, SoundTypes, StoredAssetFacts DEF IInv
<1>2. /\ objects' = objects
      /\ \A x \in Sounds : x # s \/ ~Created(r) => media'[x] = media[x] /\ events'[x] = events[x]
      /\ Created(r) => /\ media'[s] = generated[r].voice /\ media[s] = None
                       /\ events'[s] = IF pc[r] = "commit" THEN events[s] + 1 ELSE events[s]
      /\ media' \in [Sounds -> Voices \cup {None}] /\ events' \in [Sounds -> Nat]
  BY <1>1, StoredAssetFacts DEF Commit, CommitRace, CommitMedia, Announce, IInv, TypeOK
<1>3. \A x \in Sounds : media[x] # None => media'[x] = media[x]
  BY <1>2
<1>4. /\ \A k \in Keys : k # Key(r) \/ pc[r] = "commit_race" => ttsRequests'[k] = ttsRequests[k]
      /\ pc[r] = "commit" => ttsRequests'[Key(r)] = record /\ ttsRequests[Key(r)] = None
      /\ ttsRequests' \in [Keys -> Records \cup {None}]
  <2>1. CASE Commit(r)
    <3>1. keyLock[Key(r)] = r
      BY <2>1 DEF Commit, IInv, KeyLocksAreHeld
    <3>2. ttsRequests[Key(r)] = None
      BY <1>1, <3>1, NoneAssumption DEF IInv, KeyLocksAreHeld
    <3>3. record \in Records
      BY <1>1 DEF Records
    <3> QED BY <1>1, <2>1, <3>2, <3>3 DEF Commit, IInv, TypeOK
  <2>2. CASE CommitRace(r)
    BY <2>2 DEF CommitRace, IInv, TypeOK
  <2> QED BY <2>1, <2>2
<1>5. \A k \in Keys : ttsRequests[k] # None => ttsRequests'[k] = ttsRequests[k]
  <2>1. pc[r] = "commit" \/ pc[r] = "commit_race"
    BY DEF Commit, CommitRace
  <2> QED BY <1>4, <2>1
<1>6. ttsRequests'[Key(r)] # None /\ ttsRequests'[Key(r)] \in Records
      /\ ttsRequests'[Key(r)].content = Content(r)
  <2>1. CASE pc[r] = "commit"
    BY <1>1, <1>4, <2>1, NoRecordAssumption DEF Records
  <2>2. CASE pc[r] = "commit_race"
    BY <1>1, <1>4, <2>2 DEF IInv, KeyLocksAreHeld, TypeOK
  <2> QED BY <2>1, <2>2 DEF Commit, CommitRace
<1>7. PICK answer \in {Asset(ttsRequests'[Key(r)].asset), Error("UNAVAILABLE")} : Finish(r, answer)
  <2>1. CASE Commit(r)
    BY <1>4, <2>1 DEF Commit, Answered
  <2>2. CASE CommitRace(r)
    BY <1>1, <1>4, <2>2 DEF CommitRace, Answered
  <2> QED BY <2>1, <2>2
<1>8. ttsRequests'[Key(r)].asset \in Assets /\ answer \in Answers
  BY <1>6, AnswerTypes DEF Records
<1>9. /\ pc' = [pc EXCEPT ![r] = "done"]
      /\ reply' = [reply EXCEPT ![r] = answer] /\ request' = request
      /\ generated' = [generated EXCEPT ![r] = None]
      /\ \A x \in Sounds : mediaLock'[x] = IF mediaLock[x] = r THEN None ELSE mediaLock[x]
      /\ \A k \in Keys : keyLock'[k] = IF keyLock[k] = r THEN None ELSE keyLock[k]
  BY <1>7, <1>8, FinishFacts DEF IInv
<1>10. \A q \in Requests : /\ pc'[q] = IF q = r THEN "done" ELSE pc[q]
                           /\ q # r => generated'[q] = generated[q] /\ reply'[q] = reply[q]
  BY <1>9 DEF IInv, TypeOK
<1>11. TypeOK'
  BY <1>2, <1>4, <1>7, <1>8, <1>9, FinishFacts DEF IInv, TypeOK
<1>12. BytesAreStored'
  BY <1>2, <1>10 DEF IInv, BytesAreStored, Stored
<1>13. MediaLocksAreHeld'
  <2>1. ASSUME NEW x \in Sounds, NEW q \in Requests, mediaLock'[x] = q
        PROVE  pc'[q] \in InsertedMedia /\ generated'[q].sound = x /\ media'[x] = None
    <3>1. mediaLock[x] = q /\ q # r
      BY <1>9, <2>1, NoneAssumption
    <3>2. media[x] = None /\ ~(x = s /\ Created(r))
      BY <3>1 DEF IInv, MediaLocksAreHeld, Created
    <3> QED BY <1>2, <1>10, <3>1, <3>2 DEF IInv, MediaLocksAreHeld, Sound
  <2>2. ASSUME NEW q \in Requests, pc'[q] \in InsertedMedia
        PROVE  mediaLock'[generated'[q].sound] = q \/ media'[generated'[q].sound] # None
    <3>1. q # r /\ pc[q] \in InsertedMedia /\ generated'[q] = generated[q]
      BY <1>10, <2>2 DEF InsertedMedia
    <3>2. generated[q].sound \in Sounds
      BY <3>1 DEF IInv, BytesAreStored, InsertedMedia, Stored, Assets
    <3>3. mediaLock[generated[q].sound] = q \/ media[generated[q].sound] # None
      BY <3>1 DEF IInv, MediaLocksAreHeld, Created, Sound
    <3> QED BY <1>3, <1>9, <3>1, <3>2, <3>3
  <2> QED BY <2>1, <2>2 DEF MediaLocksAreHeld, Created, Sound
<1>14. KeyLocksAreHeld'
  <2>0. \A q \in Requests : Key(q) \in Keys
    BY RequestTypes DEF IInv
  <2>1. ASSUME NEW q \in Requests, pc'[q] = "commit"
        PROVE  keyLock'[Key(q)] = q
    BY <1>9, <1>10, <2>0, <2>1 DEF IInv, KeyLocksAreHeld
  <2>2. ASSUME NEW q \in Requests, pc'[q] = "commit_race"
        PROVE  ttsRequests'[Key(q)] # None /\ ttsRequests'[Key(q)].content = Content(q)
    BY <1>5, <1>10, <2>0, <2>2 DEF IInv, KeyLocksAreHeld
  <2>3. ASSUME NEW k \in Keys, keyLock'[k] # None
        PROVE  ttsRequests'[k] = None
    <3>1. keyLock[k] # None /\ keyLock[k] # r
      BY <1>9, <2>3
    <3>2. pc[r] = "commit" => keyLock[Key(r)] = r
      BY DEF IInv, KeyLocksAreHeld
    <3>3. k # Key(r) \/ pc[r] = "commit_race"
      BY <3>1, <3>2 DEF Commit, CommitRace
    <3> QED BY <1>4, <3>1, <3>3 DEF IInv, KeyLocksAreHeld
  <2> QED BY <1>9, <2>1, <2>2, <2>3 DEF KeyLocksAreHeld, Key, Content
<1>15. MediaAreStored'
  <2> SUFFICES ASSUME NEW x \in Sounds, media'[x] # None
               PROVE  [voice |-> media'[x], sound |-> x] \in objects
    BY <1>2 DEF MediaAreStored
  <2>1. CASE x = s /\ Created(r)
    BY <1>1, <1>2, <2>1
  <2>2. CASE ~(x = s /\ Created(r))
    BY <1>2, <2>2 DEF IInv, MediaAreStored
  <2> QED BY <2>1, <2>2
<1>16. EventsAreSingle'
  <2> SUFFICES ASSUME NEW x \in Sounds
               PROVE  events'[x] = 0 \/ (events'[x] = 1 /\ media'[x] # None)
    BY DEF EventsAreSingle
  <2>1. CASE x = s /\ Created(r)
    <3>1. events[x] = 0 /\ media'[x] # None
      BY <1>1, <1>2, <2>1, NoneAssumption DEF IInv, EventsAreSingle
    <3> QED BY <1>2, <2>1, <3>1
  <2>2. CASE ~(x = s /\ Created(r))
    BY <1>2, <2>2 DEF IInv, EventsAreSingle
  <2> QED BY <2>1, <2>2
<1>17. AssetsAreServable'
  <2> SUFFICES ASSUME NEW k \in Keys, ttsRequests'[k] # None
               PROVE  /\ media'[ttsRequests'[k].asset.sound] = ttsRequests'[k].asset.voice
                      /\ ttsRequests'[k].asset \in objects
    BY <1>2 DEF AssetsAreServable
  <2>1. CASE k = Key(r) /\ pc[r] = "commit"
    <3>1. ttsRequests'[k].asset = StoredAsset(r)
      BY <1>4, <2>1
    <3>2. CASE Created(r)
      BY <1>1, <1>2, <3>1, <3>2, StoredAssetFacts
    <3>3. CASE ~Created(r)
      <4>1. media[s] # None /\ StoredAsset(r) = [voice |-> media[s], sound |-> s]
        BY <1>1, <3>3, StoredAssetFacts
      <4> QED BY <1>1, <1>3, <3>1, <4>1 DEF IInv, MediaAreStored
    <3> QED BY <3>2, <3>3
  <2>2. CASE ~(k = Key(r) /\ pc[r] = "commit")
    <3>1. ttsRequests'[k] = ttsRequests[k]
      BY <1>4, <2>2 DEF Commit, CommitRace
    <3>2. ttsRequests[k].asset \in Assets /\ ttsRequests[k].asset.sound \in Sounds
      BY <2>2, <3>1 DEF IInv, TypeOK, Records, Assets
    <3>3. ttsRequests[k].asset.voice # None
      BY <3>2, NoneAssumption DEF Assets
    <3> QED BY <1>3, <3>1, <3>2, <3>3 DEF IInv, AssetsAreServable
  <2> QED BY <2>1, <2>2
<1>18. OneAssetPerKey'
  <2>1. ASSUME NEW q \in Requests, reply'[q].kind = "asset"
        PROVE  ttsRequests'[Key(q)] = [content |-> Content(q), asset |-> reply'[q].asset]
    <3>1. CASE q = r
      <4>1. reply'[r] = answer
        BY <1>9 DEF IInv, TypeOK
      <4>2. answer = Asset(ttsRequests'[Key(r)].asset)
        BY <1>7, <2>1, <3>1, <4>1, AnswerTypes
      <4> QED BY <1>6, <1>8, <3>1, <4>1, <4>2, AnswerTypes DEF Records
    <3>2. CASE q # r
      <4>1. Key(q) \in Keys /\ Content(q) \in Contents /\ reply[q] \in Answers
        BY RequestTypes DEF IInv, TypeOK
      <4>2. ttsRequests[Key(q)] = [content |-> Content(q), asset |-> reply[q].asset]
        BY <1>10, <2>1, <3>2 DEF IInv, OneAssetPerKey
      <4>3. ttsRequests[Key(q)] \in Records
        BY <1>10, <2>1, <3>2, <4>1, <4>2 DEF Answers, Records
      <4> QED BY <1>5, <1>10, <3>2, <4>1, <4>2, <4>3, NoRecordAssumption
    <3> QED BY <3>1, <3>2
  <2> QED BY <1>9, <2>1 DEF OneAssetPerKey, Key, Content
<1> QED BY <1>11, <1>12, <1>13, <1>14, <1>15, <1>16, <1>17, <1>18 DEF IInv

-----------------------------------------------------------------------------
\* Nothing is stored or locked at first.
LEMMA InitIInv == Init => IInv
<1> SUFFICES ASSUME Init PROVE IInv
  OBVIOUS
<1>1. TypeOK
  BY DEF Init, TypeOK, Answers
<1>2. BytesAreStored /\ KeyLocksAreHeld
  BY DEF Init, BytesAreStored, KeyLocksAreHeld, Stored
<1>3. MediaLocksAreHeld
  BY NoneAssumption DEF Init, MediaLocksAreHeld, InsertedMedia
<1>4. MediaAreStored /\ EventsAreSingle /\ OneAssetPerKey /\ AssetsAreServable
  BY DEF Init, MediaAreStored, EventsAreSingle, OneAssetPerKey, AssetsAreServable
<1> QED BY <1>1, <1>2, <1>3, <1>4 DEF IInv

\* Looking a key up moves one request, perhaps to its answer.
LEMMA LookUpKeeps ==
  ASSUME IInv, NEW r \in Requests, ReplayTts(r) \/ FindExisting(r)
  PROVE  IInv'
<1>1. PICK here, next \in {"replay", "existing", "synthesize", "media"} : LookUp(r, here, next)
  BY DEF ReplayTts, FindExisting
<1>2. CASE ttsRequests[Key(r)] = None
  BY <1>2, StatementKeeps
<1>3. CASE ttsRequests[Key(r)] # None
  <2>1. Finish(r, Replayed(r)) /\ UNCHANGED <<objects, database>>
    BY <1>1, <1>3 DEF LookUp
  <2>2. ttsRequests[Key(r)] \in Records
    BY <1>3, RequestTypes DEF IInv, TypeOK
  <2>3. CASE ttsRequests[Key(r)].content = Content(r)
    <3>1. Replayed(r) = Asset(ttsRequests[Key(r)].asset)
      BY <2>3 DEF Replayed
    <3>2. ttsRequests[Key(r)].asset \in Assets
      BY <2>2 DEF Records
    <3>3. ttsRequests[Key(r)] = [content |-> Content(r), asset |-> ttsRequests[Key(r)].asset]
      BY <2>2, <2>3 DEF Records
    <3> QED BY <2>1, <3>1, <3>2, <3>3, AnswerTypes, EndKeeps
  <2>4. CASE ttsRequests[Key(r)].content # Content(r)
    BY <2>1, <2>4, AnswerTypes, EndKeeps DEF Replayed
  <2> QED BY <2>3, <2>4
<1> QED BY <1>2, <1>3

\* Every statement of a request keeps the invariant.
LEMMA StepKeepsIInv == IInv /\ [Next]_vars => IInv'
<1> SUFFICES ASSUME IInv, [Next]_vars PROVE IInv'
  OBVIOUS
<1>1. CASE UNCHANGED vars
  BY <1>1 DEF vars, database, locks, IInv, TypeOK, BytesAreStored, MediaLocksAreHeld,
     KeyLocksAreHeld, MediaAreStored, EventsAreSingle, OneAssetPerKey, AssetsAreServable,
     Key, Content, Sound, Created
<1>2. ASSUME NEW r \in Requests, ReplayTts(r) \/ FindExisting(r) PROVE IInv'
  BY <1>2, LookUpKeeps
<1>3. ASSUME NEW r \in Requests, Synthesize(r) \/ PutObject(r) PROVE IInv'
  BY <1>3, SynthesisKeeps
<1>4. ASSUME NEW r \in Requests, InsertMedia(r) PROVE IInv'
  BY <1>4, StatementKeeps
<1>5. ASSUME NEW r \in Requests, InsertRequest(r) PROVE IInv'
  <2>1. CASE ttsRequests[Key(r)] # None => ttsRequests[Key(r)].content = Content(r)
    BY <1>5, <2>1, StatementKeeps
  <2>2. CASE ttsRequests[Key(r)] # None /\ ttsRequests[Key(r)].content # Content(r)
    <3>1. Finish(r, Error("IDEMPOTENCY_CONFLICT")) /\ UNCHANGED <<objects, database>>
      BY <1>5, <2>2 DEF InsertRequest
    <3> QED BY <3>1, AnswerTypes, EndKeeps
  <2> QED BY <2>1, <2>2
<1>6. ASSUME NEW r \in Requests, Commit(r) \/ CommitRace(r) PROVE IInv'
  BY <1>6, CommitKeeps
<1>7. ASSUME NEW r \in Requests, Fail(r) PROVE IInv'
  BY <1>7, AnswerTypes, EndKeeps DEF Fail
<1> QED BY <1>1, <1>2, <1>3, <1>4, <1>5, <1>6, <1>7 DEF Next, Handle

\* The inductive invariant: who inserted a key holds it, and its bytes are stored.
THEOREM IInvHolds == Spec => []IInv
BY InitIInv, StepKeepsIInv, PTL DEF Spec

\* The variables of the handler and the tables keep their types: a request that
\* stores or commits an asset has generated one.
THEOREM TypeCorrect == Spec => []TypeOK
<1>1. IInv => TypeOK
  BY DEF IInv
<1> QED BY <1>1, IInvHolds, PTL

\* All requests of recordTts that succeed under a key have one content and are
\* answered with one asset, whoever won the race for the key.
THEOREM KeyHasOneAsset == Spec => []OneAssetPerKey
<1>1. IInv => OneAssetPerKey
  BY DEF IInv
<1> QED BY <1>1, IInvHolds, PTL

\* An asset on record is the one of its media row, and its bytes are in the
\* store: persistAudioAsset runs before recordTts, and recordTts adopts the
\* media row that is there.
THEOREM AssetsCanBeServed == Spec => []AssetsAreServable
<1>1. IInv => AssetsAreServable
  BY DEF IInv
<1> QED BY <1>1, IInvHolds, PTL

\* Of all requests with the same bytes, the one that created the media row
\* announces the asset, in the same commit.
THEOREM AssetsAnnouncedOnce == Spec => []AnnouncedOnce
<1>1. IInv => AnnouncedOnce
  <2>1. IInv => \A s \in Sounds : events[s] \in Nat
    BY DEF IInv, TypeOK
  <2> QED BY <2>1 DEF IInv, EventsAreSingle, AnnouncedOnce
<1> QED BY <1>1, IInvHolds, PTL

\* "on conflict do nothing": no transaction of recordTts overwrites a media row
\* or a request row.
THEOREM RowsStand == Spec => RecordsStand
<1> DEFINE Stand == /\ \A s \in Sounds : media[s] # None => media'[s] = media[s]
                    /\ \A k \in Keys : ttsRequests[k] # None => ttsRequests'[k] = ttsRequests[k]
<1>1. IInv /\ [Next]_vars => [Stand]_vars
  <2> SUFFICES ASSUME IInv, [Next]_vars PROVE Stand
    OBVIOUS
  <2>1. CASE UNCHANGED database \/ UNCHANGED vars
    BY <2>1 DEF database, vars
  <2>2. ASSUME NEW r \in Requests, Commit(r) \/ CommitRace(r) PROVE Stand
    <3>1. Created(r) => media[Sound(r)] = None
      BY <2>2, StoredAssetFacts DEF Commit, CommitRace, InsertedMedia
    <3>2. \A s \in Sounds : media[s] # None => media'[s] = media[s]
      BY <2>2, <3>1 DEF Commit, CommitRace, CommitMedia, IInv, TypeOK
    <3>3. pc[r] = "commit" => ttsRequests[Key(r)] = None
      BY RequestTypes, NoneAssumption DEF IInv, KeyLocksAreHeld
    <3>4. \A k \in Keys : ttsRequests[k] # None => ttsRequests'[k] = ttsRequests[k]
      BY <2>2, <3>3 DEF Commit, CommitRace, IInv, TypeOK
    <3> QED BY <3>2, <3>4
  <2> QED
    BY <2>1, <2>2 DEF Next, Handle, ReplayTts, FindExisting, LookUp, Synthesize, PutObject,
       InsertMedia, InsertRequest, Fail
<1> QED BY <1>1, IInvHolds, PTL DEF Spec, RecordsStand
=============================================================================
