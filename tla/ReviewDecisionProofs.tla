------------------------ MODULE ReviewDecisionProofs ------------------------
(* Theorems about ReviewDecision, for any reviewers, keys and reviews.       *)
EXTENDS ReviewDecision, TLAPS

Deciding == {"decide", "commit_decision"}
Replaying == {"replay", "commit_replay"}

\* Who is past the lock holds it, who is about to commit a decision holds its
\* key, and a key that somebody holds is not yet on record.
LocksAreHeld ==
  /\ \A d \in Deciders :
       /\ pc[d] \in Deciding \cup Replaying => rowLock[Review(d)] = d
       /\ pc[d] = "commit_decision" => keyLock[Key(d)] = d
  /\ \A k \in Keys : keyLock[k] # None => decisions[k] = None

IsClosedWith(content) ==
  review[content.review] # "open" /\ ClosedContent(content.review) = content

\* What a transaction read under the lock is still so.
ReadsStand ==
  \A d \in Deciders :
    /\ pc[d] \in Deciding => review[Review(d)] = "open"
    /\ pc[d] \in Replaying => IsClosedWith(Content(d))

IInv == TypeOK /\ LocksAreHeld /\ ReadsStand /\ DecidedOnce /\ AnswersAgree /\ KeysNameDecisions

-----------------------------------------------------------------------------
\* Decisions and errors are answers.
LEMMA AnswerTypes ==
  /\ \A c \in Contents : Decided(c) \in Answers
  /\ \A c \in Codes : Error(c) \in Answers
BY DEF Answers, Decided, Error

\* The end of a transaction releases what it held and nothing else.
LEMMA FinishFacts ==
  ASSUME TypeOK, NEW d \in Deciders, NEW answer \in Answers, Finish(d, answer)
  PROVE  /\ pc' = [pc EXCEPT ![d] = "done"]
         /\ reply' = [reply EXCEPT ![d] = answer] /\ reply' \in [Deciders -> Answers]
         /\ rowLock' \in [Reviews -> Deciders \cup {None}]
         /\ keyLock' \in [Keys -> Deciders \cup {None}]
         /\ \A rv \in Reviews : rowLock'[rv] = IF rowLock[rv] = d THEN None ELSE rowLock[rv]
         /\ \A k \in Keys : keyLock'[k] = IF keyLock[k] = d THEN None ELSE keyLock[k]
         /\ request' = request /\ intent' = intent
BY DEF TypeOK, Finish, Goto, Unlocked

\* Reviews, commands, keys and reviewers keep their types through aborts and crashes.
THEOREM TypeCorrect == Spec => []TypeOK
<1>1. Init => TypeOK
  BY DEF Init, TypeOK, Intents, Statuses, Answers
<1>2. TypeOK /\ [Next]_vars => TypeOK'
  <2> SUFFICES ASSUME TypeOK, [Next]_vars PROVE TypeOK'
    OBVIOUS
  <2> USE AnswerTypes DEF TypeOK
  <2>1. CASE UNCHANGED vars
    BY <2>1 DEF vars, database, locks
  <2>2. ASSUME NEW d \in Deciders, Lookup(d) PROVE TypeOK'
    <3>1. CASE decisions[Key(d)] = None
      BY <2>2, <3>1 DEF Lookup, Goto, locks, database
    <3>2. CASE decisions[Key(d)] # None
      <4>1. PICK answer \in Answers : Finish(d, answer)
        BY <2>2, <3>2 DEF Lookup, Key, Requests, Codes
      <4> QED BY <2>2, <4>1, FinishFacts DEF Lookup, database
    <3> QED BY <3>1, <3>2
  <2>3. ASSUME NEW d \in Deciders, LockReview(d) PROVE TypeOK'
    <3>1. CASE Refused(d)
      <4>1. PICK answer \in Answers : Finish(d, answer)
        BY <2>3, <3>1 DEF LockReview, Codes
      <4> QED BY <2>3, <4>1, FinishFacts DEF LockReview, database
    <3>2. CASE ~Refused(d)
      BY <2>3, <3>2 DEF LockReview, Goto, locks, database
    <3> QED BY <3>1, <3>2
  <2>4. ASSUME NEW d \in Deciders, RecordReplay(d) PROVE TypeOK'
    BY <2>4 DEF RecordReplay, Goto, locks, database
  <2>5. ASSUME NEW d \in Deciders, RecordDecision(d) PROVE TypeOK'
    <3>1. CASE decisions[Key(d)] = None
      BY <2>5, <3>1 DEF RecordDecision, Goto, locks, database
    <3>2. CASE decisions[Key(d)] # None
      <4>1. PICK answer \in Answers : Finish(d, answer)
        BY <2>5, <3>2 DEF RecordDecision, Codes
      <4> QED BY <2>5, <4>1, FinishFacts DEF RecordDecision, database
    <3> QED BY <3>1, <3>2
  <2>6. ASSUME NEW d \in Deciders, Commit(d) PROVE TypeOK'
    <3>1. Content(d) \in Contents
      BY DEF Content, Requests
    <3>2. PICK answer \in Answers : Finish(d, answer)
      BY <2>6, <3>1 DEF Commit, Codes
    <3>3. decisions' \in [Keys -> Contents \cup {None}]
      BY <2>6, <3>1 DEF Commit, RecordKey
    <3>4. /\ review' \in [Reviews -> Statuses]
          /\ command' \in [Reviews -> {"needs_review", "committed"}]
          /\ customers' \in [Reviews -> Nat] /\ moved' \in [Reviews -> Nat]
          /\ events' \in [Reviews -> Nat]
      BY <2>6, <3>1 DEF Commit, Apply, ClosedAs, Statuses
    <3> QED BY <3>2, <3>3, <3>4, FinishFacts
  <2>7. ASSUME NEW d \in Deciders, Abort(d) PROVE TypeOK'
    <3>1. PICK answer \in Answers : Finish(d, answer)
      BY <2>7 DEF Abort, Codes
    <3> QED BY <2>7, <3>1, FinishFacts DEF Abort, database
  <2> QED BY <2>1, <2>2, <2>3, <2>4, <2>5, <2>6, <2>7 DEF Next, Decide
<1> QED BY <1>1, <1>2, PTL DEF Spec

-----------------------------------------------------------------------------
(* One lemma for each kind of step. *)

\* A transaction that ends without writing, told of nothing but an error or the
\* decision on record.
LEMMA EndKeeps ==
  ASSUME IInv, TypeOK', NEW d \in Deciders, NEW answer \in Answers, Finish(d, answer),
         UNCHANGED database,
         answer.kind = "decided" => answer.content = Content(d) /\ IsClosedWith(answer.content)
  PROVE  IInv'
<1>1. /\ pc' = [pc EXCEPT ![d] = "done"]
      /\ reply' = [reply EXCEPT ![d] = answer]
      /\ \A rv \in Reviews : rowLock'[rv] = IF rowLock[rv] = d THEN None ELSE rowLock[rv]
      /\ \A k \in Keys : keyLock'[k] = IF keyLock[k] = d THEN None ELSE keyLock[k]
      /\ request' = request /\ intent' = intent
  BY FinishFacts DEF IInv
<1>2. UNCHANGED <<review, command, customers, moved, events, decisions>>
  BY DEF database
<1>3. \A e \in Deciders : Review(e) \in Reviews /\ Key(e) \in Keys
  BY DEF IInv, TypeOK, Content, Review, Key, Requests, Contents
<1>4. \A e \in Deciders : pc'[e] = IF e = d THEN "done" ELSE pc[e]
  BY <1>1 DEF IInv, TypeOK
<1>5. LocksAreHeld'
  <2>1. ASSUME NEW e \in Deciders
        PROVE  /\ pc'[e] \in Deciding \cup Replaying => rowLock'[Review(e)] = e
               /\ pc'[e] = "commit_decision" => keyLock'[Key(e)] = e
    BY <1>1, <1>3, <1>4 DEF IInv, LocksAreHeld, Deciding, Replaying
  <2>2. \A k \in Keys : keyLock'[k] # None => decisions'[k] = None
    BY <1>1, <1>2 DEF IInv, LocksAreHeld
  <2> QED BY <1>1, <2>1, <2>2 DEF LocksAreHeld, Review, Key, Content
<1>6. ReadsStand'
  <2>1. ASSUME NEW e \in Deciders
        PROVE  /\ pc'[e] \in Deciding => review'[Review(e)] = "open"
               /\ pc'[e] \in Replaying => IsClosedWith(Content(e))
    BY <1>2, <1>4 DEF IInv, ReadsStand, Deciding, Replaying
  <2> QED BY <1>1, <1>2, <2>1 DEF ReadsStand, Review, Content, IsClosedWith, ClosedContent
<1>7. DecidedOnce'
  BY <1>1, <1>2 DEF IInv, DecidedOnce
<1>8. KeysNameDecisions'
  BY <1>2 DEF IInv, KeysNameDecisions, ClosedContent
<1>9. AnswersAgree'
  <2>1. ASSUME NEW e \in Deciders, reply'[e].kind = "decided"
        PROVE  IsClosedWith(reply'[e].content) /\ reply'[e].content = Content(e)
    <3>1. CASE e = d
      BY <1>1, <2>1, <3>1 DEF IInv, TypeOK
    <3>2. CASE e # d
      BY <1>1, <2>1, <3>2 DEF IInv, TypeOK, AnswersAgree, IsClosedWith
    <3> QED BY <3>1, <3>2
  <2> QED BY <1>1, <1>2, <2>1 DEF AnswersAgree, IsClosedWith, ClosedContent, Content
<1> QED BY <1>5, <1>6, <1>7, <1>8, <1>9 DEF IInv

\* A statement that neither ends a transaction nor is seen by others: it goes on
\* with what it found, and locks what was free.
LEMMA StatementKeeps ==
  ASSUME IInv, TypeOK', NEW d \in Deciders,
         \/ Lookup(d) /\ decisions[Key(d)] = None
         \/ LockReview(d) /\ ~Refused(d)
         \/ RecordReplay(d)
         \/ RecordDecision(d) /\ decisions[Key(d)] = None
  PROVE  IInv'
<1> USE DEF IInv, database, locks
<1>0. UNCHANGED <<request, reply, intent, database>>
  BY DEF Lookup, LockReview, RecordReplay, RecordDecision
<1>1. LocksAreHeld'
  <2>1. \A e \in Deciders : Review(e) \in Reviews /\ Key(e) \in Keys
    BY DEF TypeOK, Content, Review, Key, Requests, Contents
  <2>2. ASSUME NEW e \in Deciders
        PROVE  /\ pc'[e] \in Deciding \cup Replaying => rowLock'[Review(e)] = e
               /\ pc'[e] = "commit_decision" => keyLock'[Key(e)] = e
    <3>1. CASE e = d
      BY <2>1, <3>1 DEF LocksAreHeld, TypeOK, Deciding, Replaying, Lookup, LockReview,
         RecordReplay, RecordDecision, Goto
    <3>2. CASE e # d
      <4>1. pc'[e] = pc[e]
        BY <3>2 DEF TypeOK, Lookup, LockReview, RecordReplay, RecordDecision, Goto
      <4>2. \A rv \in Reviews : rowLock[rv] = e => rowLock'[rv] = e
        BY NoneAssumption DEF TypeOK, Lookup, LockReview, RecordReplay, RecordDecision
      <4>3. \A k \in Keys : keyLock[k] = e => keyLock'[k] = e
        BY NoneAssumption DEF TypeOK, Lookup, LockReview, RecordReplay, RecordDecision
      <4> QED BY <2>1, <4>1, <4>2, <4>3 DEF LocksAreHeld
    <3> QED BY <3>1, <3>2
  <2>3. \A k \in Keys : keyLock'[k] # None => decisions'[k] = None
    BY <1>0, <2>1 DEF LocksAreHeld, TypeOK, Lookup, LockReview, RecordReplay, RecordDecision
  <2> QED BY <1>0, <2>2, <2>3 DEF LocksAreHeld, Review, Key, Content
<1>2. ReadsStand'
  <2>1. Content(d) \in Contents /\ Review(d) \in Reviews
    BY DEF TypeOK, Content, Review, Requests, Contents
  <2> QED
    BY <1>0, <2>1 DEF ReadsStand, TypeOK, Deciding, Replaying, Review, Content, IsClosedWith,
       ClosedContent, Lookup, LockReview, RecordReplay, RecordDecision, Goto, Refused
<1>3. DecidedOnce' /\ KeysNameDecisions' /\ AnswersAgree'
  BY <1>0 DEF DecidedOnce, KeysNameDecisions, AnswersAgree, ClosedContent, Content
<1> QED BY <1>1, <1>2, <1>3

\* The commit of a decision closes its review with its content, which is then
\* what its key and its answer show.
LEMMA CommitKeeps ==
  ASSUME IInv, TypeOK', NEW d \in Deciders, Commit(d)
  PROVE  IInv'
<1> DEFINE rv == Review(d)
<1>1. /\ Content(d) \in Contents /\ rv \in Reviews /\ Key(d) \in Keys
      /\ Content(d).decision \in Decisions /\ Content(d).review = rv
  BY DEF IInv, TypeOK, Content, Review, Key, Requests, Contents
<1>2. PICK answer \in {Decided(Content(d)), Error("DATABASE")} : Finish(d, answer)
  BY DEF Commit
<1>3. answer \in Answers
  BY <1>1, AnswerTypes DEF Codes
<1>4. /\ pc' = [pc EXCEPT ![d] = "done"]
      /\ reply' = [reply EXCEPT ![d] = answer]
      /\ \A v \in Reviews : rowLock'[v] = IF rowLock[v] = d THEN None ELSE rowLock[v]
      /\ \A k \in Keys : keyLock'[k] = IF keyLock[k] = d THEN None ELSE keyLock[k]
      /\ request' = request /\ intent' = intent
  BY <1>2, <1>3, FinishFacts DEF IInv
<1>5. /\ pc[d] \in Deciding \cup Replaying /\ rowLock[rv] = d
      /\ pc[d] = "commit_decision" => keyLock[Key(d)] = d
  BY DEF IInv, LocksAreHeld, Commit, Deciding, Replaying
<1>6. \A v \in Reviews : v # rv \/ pc[d] = "commit_replay" =>
        /\ review'[v] = review[v] /\ events'[v] = events[v]
        /\ customers'[v] = customers[v] /\ command'[v] = command[v]
  BY <1>1 DEF Commit, Apply, IInv, TypeOK
<1>7. pc[d] = "commit_decision" =>
        /\ review[rv] = "open" /\ review'[rv] = ClosedAs(d) /\ events'[rv] = events[rv] + 1
        /\ command'[rv] = IF Content(d).decision = "approve" THEN "committed" ELSE command[rv]
        /\ customers'[rv] = IF Content(d).decision = "approve" /\ intent[rv] = "create_customer"
                            THEN customers[rv] + 1 ELSE customers[rv]
  BY <1>1 DEF Commit, Apply, IInv, TypeOK, ReadsStand, Deciding
<1>8. pc[d] \in {"commit_decision", "commit_replay"}
  BY DEF Commit
<1>9. IsClosedWith(Content(d))'
  <2>1. CASE pc[d] = "commit_replay"
    BY <1>1, <1>4, <1>6, <2>1 DEF IInv, ReadsStand, Replaying, IsClosedWith, ClosedContent, Content
  <2>2. CASE pc[d] = "commit_decision"
    <3>1. review'[rv] # "open" /\ (IF review'[rv] = "approved" THEN "approve" ELSE "reject")
            = Content(d).decision
      BY <1>1, <1>7, <2>2 DEF ClosedAs, Decisions
    <3>2. Content(d) = [review |-> rv, decision |-> Content(d).decision]
      BY <1>1 DEF Contents
    <3> QED BY <1>1, <1>4, <3>1, <3>2 DEF IsClosedWith, ClosedContent, Closing, Content
  <2> QED BY <1>8, <2>1, <2>2
<1>10. \A v \in Reviews : review[v] # "open" => review'[v] = review[v]
  BY <1>6, <1>7, <1>8
<1>11. LocksAreHeld'
  <2>1. \A k \in Keys : keyLock'[k] # None => decisions'[k] = None
    BY <1>1, <1>4 DEF IInv, LocksAreHeld, TypeOK, Commit, RecordKey
  <2> QED
    BY <1>4, <2>1 DEF IInv, LocksAreHeld, TypeOK, Deciding, Replaying, Review, Content, Key, Requests, Contents
<1>12. ReadsStand'
  <2> SUFFICES ASSUME NEW e \in Deciders
               PROVE  /\ pc'[e] \in Deciding => review'[Review(e)] = "open"
                      /\ pc'[e] \in Replaying => IsClosedWith(Content(e))'
    BY <1>4 DEF ReadsStand, Review, Content
  <2>1. CASE e = d
    BY <1>4, <2>1 DEF IInv, TypeOK, Deciding, Replaying
  <2>2. CASE e # d
    <3>1. Review(e) \in Reviews /\ Content(e).review = Review(e) /\ pc'[e] = pc[e]
      BY <1>4, <2>2 DEF IInv, TypeOK, Content, Review, Requests, Contents
    <3>2. pc[e] \in Deciding \cup Replaying => Review(e) # rv
      BY <1>5, <2>2 DEF IInv, LocksAreHeld
    <3> QED BY <1>4, <1>6, <3>1, <3>2 DEF IInv, ReadsStand, IsClosedWith, ClosedContent, Content
  <2> QED BY <2>1, <2>2
<1>13. DecidedOnce'
  <2> SUFFICES ASSUME NEW v \in Reviews
               PROVE  /\ events'[v] = IF review'[v] = "open" THEN 0 ELSE 1
                      /\ customers'[v] = IF review'[v] = "approved" /\ intent[v] = "create_customer"
                                         THEN 1 ELSE 0
                      /\ command'[v] = "committed" <=> review'[v] = "approved"
    BY <1>4 DEF DecidedOnce
  <2>1. /\ events[v] = IF review[v] = "open" THEN 0 ELSE 1
        /\ customers[v] = IF review[v] = "approved" /\ intent[v] = "create_customer" THEN 1 ELSE 0
        /\ command[v] = "committed" <=> review[v] = "approved"
    BY DEF IInv, DecidedOnce
  <2>2. CASE v # rv \/ pc[d] = "commit_replay"
    BY <1>6, <2>1, <2>2
  <2>3. CASE v = rv /\ pc[d] = "commit_decision"
    BY <1>1, <1>7, <2>1, <2>3 DEF ClosedAs, Decisions
  <2> QED BY <1>8, <2>2, <2>3
<1>14. KeysNameDecisions'
  <2> SUFFICES ASSUME NEW k \in Keys, decisions'[k] # None PROVE IsClosedWith(decisions[k])'
    BY DEF KeysNameDecisions, IsClosedWith
  <2>1. CASE decisions'[k] = decisions[k]
    <3>1. decisions[k] \in Contents /\ decisions[k].review \in Reviews
      BY <2>1 DEF IInv, TypeOK, Contents
    <3> QED BY <1>10, <2>1, <3>1 DEF IInv, KeysNameDecisions, IsClosedWith, ClosedContent
  <2>2. CASE decisions'[k] # decisions[k]
    <3>1. decisions'[k] = Content(d)
      BY <1>1, <2>2 DEF Commit, RecordKey, IInv, TypeOK
    <3> QED BY <1>4, <1>9, <3>1 DEF IsClosedWith, ClosedContent, Content
  <2> QED BY <2>1, <2>2
<1>15. AnswersAgree'
  <2> SUFFICES ASSUME NEW e \in Deciders, reply'[e].kind = "decided"
               PROVE  /\ IsClosedWith(reply[e].content)'
                      /\ reply'[e].content = Content(e)
    BY <1>4 DEF AnswersAgree, IsClosedWith, Content
  <2>1. CASE e = d
    <3>1. reply'[e] = answer
      BY <1>4, <2>1 DEF IInv, TypeOK
    <3>2. answer = Decided(Content(d))
      BY <3>1, <1>2 DEF Error
    <3> QED BY <1>4, <1>9, <2>1, <3>1, <3>2 DEF Decided, IsClosedWith, ClosedContent, Content
  <2>2. CASE e # d
    <3>1. reply'[e] = reply[e]
      BY <1>4, <2>2 DEF IInv, TypeOK
    <3>2. /\ reply[e].content = Content(e) /\ Review(e) \in Reviews
          /\ Content(e).review = Review(e)
      BY <3>1 DEF IInv, AnswersAgree, TypeOK, Content, Review, Requests, Contents
    <3>3. IsClosedWith(Content(e))
      BY <3>1, <3>2 DEF IInv, AnswersAgree, IsClosedWith
    <3>4. review'[Review(e)] = review[Review(e)]
      BY <1>10, <3>2, <3>3 DEF IsClosedWith
    <3> QED BY <3>1, <3>2, <3>3, <3>4 DEF IsClosedWith, ClosedContent
  <2> QED BY <2>1, <2>2
<1> QED BY <1>11, <1>12, <1>13, <1>14, <1>15 DEF IInv

-----------------------------------------------------------------------------
\* Nobody holds a lock at first.
LEMMA InitIInv == Init => IInv
<1> SUFFICES ASSUME Init PROVE IInv
  OBVIOUS
<1>1. TypeOK
  BY DEF Init, TypeOK, Intents, Statuses, Answers
<1>2. LocksAreHeld /\ ReadsStand
  BY DEF Init, LocksAreHeld, ReadsStand, Deciding, Replaying
<1>3. DecidedOnce /\ AnswersAgree /\ KeysNameDecisions
  BY DEF Init, DecidedOnce, AnswersAgree, KeysNameDecisions
<1> QED BY <1>1, <1>2, <1>3 DEF IInv

\* Every statement of a reviewer keeps the invariant.
LEMMA StepKeepsIInv ==
  ASSUME IInv, TypeOK', [Next]_vars
  PROVE  IInv'
<1> USE AnswerTypes
<1>0. \A d \in Deciders : Content(d) \in Contents /\ Key(d) \in Keys
  BY DEF IInv, TypeOK, Content, Key, Requests
<1>1. CASE UNCHANGED vars
  BY <1>1 DEF vars, database, locks, IInv, LocksAreHeld, ReadsStand, DecidedOnce, AnswersAgree,
     KeysNameDecisions, Review, Key, Content, IsClosedWith, ClosedContent
<1>2. ASSUME NEW d \in Deciders, Lookup(d) PROVE IInv'
  <2>1. CASE decisions[Key(d)] = None
    BY <1>2, <2>1, StatementKeeps
  <2>2. CASE decisions[Key(d)] # None /\ decisions[Key(d)] = Content(d)
    <3>1. Finish(d, Decided(Content(d))) /\ UNCHANGED database
      BY <1>2, <2>2 DEF Lookup
    <3>2. IsClosedWith(Content(d))
      BY <1>0, <2>2 DEF IInv, KeysNameDecisions, IsClosedWith
    <3> QED BY <1>0, <3>1, <3>2, EndKeeps DEF Decided
  <2>3. CASE decisions[Key(d)] # None /\ decisions[Key(d)] # Content(d)
    <3>1. Finish(d, Error("IDEMPOTENCY_CONFLICT")) /\ UNCHANGED database
      BY <1>2, <2>3 DEF Lookup
    <3> QED BY <3>1, EndKeeps DEF Error, Codes
  <2> QED BY <2>1, <2>2, <2>3
<1>3. ASSUME NEW d \in Deciders, LockReview(d) PROVE IInv'
  <2>1. CASE Refused(d)
    <3>1. Finish(d, Error("CRM_CONFLICT")) /\ UNCHANGED database
      BY <1>3, <2>1 DEF LockReview
    <3> QED BY <3>1, EndKeeps DEF Error, Codes
  <2>2. CASE ~Refused(d)
    BY <1>3, <2>2, StatementKeeps
  <2> QED BY <2>1, <2>2
<1>4. ASSUME NEW d \in Deciders, RecordReplay(d) PROVE IInv'
  BY <1>4, StatementKeeps
<1>5. ASSUME NEW d \in Deciders, RecordDecision(d) PROVE IInv'
  <2>1. CASE decisions[Key(d)] = None
    BY <1>5, <2>1, StatementKeeps
  <2>2. CASE decisions[Key(d)] # None
    <3>1. Finish(d, Error("DATABASE")) /\ UNCHANGED database
      BY <1>5, <2>2 DEF RecordDecision
    <3> QED BY <3>1, EndKeeps DEF Error, Codes
  <2> QED BY <2>1, <2>2
<1>6. ASSUME NEW d \in Deciders, Commit(d) PROVE IInv'
  BY <1>6, CommitKeeps
<1>7. ASSUME NEW d \in Deciders, Abort(d) PROVE IInv'
  <2>1. Finish(d, Error("DATABASE")) /\ UNCHANGED database
    BY <1>7 DEF Abort
  <2> QED BY <2>1, EndKeeps DEF Error, Codes
<1> QED BY <1>1, <1>2, <1>3, <1>4, <1>5, <1>6, <1>7 DEF Next, Decide

\* The inductive invariant: who is past a lock holds it, and what was read under it stands.
THEOREM IInvHolds == Spec => []IInv
<1>1. IInv /\ TypeOK' /\ [Next]_vars => IInv'
  BY StepKeepsIInv
<1> QED BY <1>1, InitIInv, TypeCorrect, PTL DEF Spec

\* A review takes effect once, however many reviewers and retries raced: the
\* row lock orders them, and a reviewer who comes second finds it closed.
THEOREM TakesEffectOnce == Spec => []DecidedOnce
<1>1. IInv => DecidedOnce
  BY DEF IInv
<1> QED BY <1>1, IInvHolds, PTL

\* Every reviewer who is told a decision stands is told the one on record,
\* whether decideReview decided, replayed its key or found the review closed.
THEOREM ReviewersAgree == Spec => []AnswersAgree
<1>1. IInv => AnswersAgree
  BY DEF IInv
<1> QED BY <1>1, IInvHolds, PTL

\* A row of review_decisions names a decision that really closed its review.
THEOREM KeysAreTrue == Spec => []KeysNameDecisions
<1>1. IInv => KeysNameDecisions
  BY DEF IInv
<1> QED BY <1>1, IInvHolds, PTL

\* No later transaction of decideReview reopens a review, decides it the other
\* way or gives a recorded key to another decision.
THEOREM DecisionsAreFinal == Spec => DecisionsStand
<1> DEFINE Stand == /\ \A rv \in Reviews : review[rv] # "open" => review'[rv] = review[rv]
                    /\ \A k \in Keys : decisions[k] # None => decisions'[k] = decisions[k]
<1>1. IInv /\ [Next]_vars => [Stand]_vars
  <2> SUFFICES ASSUME IInv, [Next]_vars PROVE Stand
    OBVIOUS
  <2>1. CASE UNCHANGED database \/ UNCHANGED vars
    BY <2>1 DEF database, vars
  <2>2. ASSUME NEW d \in Deciders, Commit(d) PROVE Stand
    <3>1. pc[d] = "commit_decision" => review[Review(d)] = "open"
      BY DEF IInv, ReadsStand, Deciding
    <3>2. \A rv \in Reviews : review[rv] # "open" => review'[rv] = review[rv]
      BY <2>2, <3>1 DEF Commit, Apply, IInv, TypeOK
    <3>3. Key(d) \in Keys /\ (keyLock[Key(d)] = d => decisions[Key(d)] = None)
      BY NoneAssumption DEF IInv, TypeOK, LocksAreHeld, Key, Requests
    <3>4. \A k \in Keys : decisions[k] # None => decisions'[k] = decisions[k]
      BY <2>2, <3>3 DEF Commit, RecordKey, IInv, TypeOK
    <3> QED BY <3>2, <3>4
  <2> QED
    BY <2>1, <2>2 DEF Next, Decide, Lookup, LockReview, RecordReplay, RecordDecision, Abort
<1> QED BY <1>1, IInvHolds, PTL DEF Spec, DecisionsStand
=============================================================================
