---------------------------- MODULE ReviewDecision ----------------------------
(***************************************************************************)
(* POST /v1/reviews/<id>/decision: decideReview of src/postgres-store.mjs, *)
(* statement by statement.  Several reviewers decide at once, possibly     *)
(* under the same idempotency key, and a client may send its request       *)
(* again.  The transaction is READ COMMITTED: each statement reads what    *)
(* has been committed; "for update" waits for the row locks of the others; *)
(* an insert waits for an uncommitted row with the same unique key.        *)
(*                                                                         *)
(* The writes of a transaction become visible at its commit, and nobody    *)
(* reads the rows it locked in between, so they are applied there.         *)
(***************************************************************************)
EXTENDS Naturals, FiniteSets

CONSTANTS
  Deciders,   \* executions of decideReview
  Keys,       \* idempotency keys of review decisions
  Reviews,    \* review tasks, each with its command
  None

ASSUME NoneAssumption == None \notin Deciders /\ None \notin Reviews

VARIABLES
  pc,          \* where each execution is
  request,     \* its key and its content: review and decision
  reply,       \* what it answered
  intent,      \* crm_commands.intent of each review's command
  review,      \* review_tasks: status, and the decision on record
  command,     \* crm_commands.status of each review's command
  customers,   \* customers inserted by the approval of each review
  moved,       \* the deals rows an approval of each review has updated
  events,      \* crm.command.committed.v1 events of each review's aggregate
  decisions,   \* review_decisions, by idempotency key
  rowLock,     \* who holds the lock on a review and its command
  keyLock      \* who has inserted a key and not yet committed

database == <<review, command, customers, moved, events, decisions>>
locks == <<rowLock, keyLock>>
vars == <<pc, request, reply, intent, database, locks>>

-----------------------------------------------------------------------------
Decisions == {"approve", "reject"}
Contents == [review : Reviews, decision : Decisions]
Requests == [key : Keys, content : Contents]
\* decideReview branches on one intent only; the others are like "update_stage".
Intents == {"create_customer", "update_stage"}
Statuses == {"open", "approved", "rejected"}
Codes == {"IDEMPOTENCY_CONFLICT", "CRM_CONFLICT", "DATABASE"}

\* An answer: the content whose result it shows, or an error.
Answers == [kind : {"none"}] \cup [kind : {"decided"}, content : Contents]
           \cup [kind : {"error"}, code : Codes]
Decided(content) == [kind |-> "decided", content |-> content]
Error(code) == [kind |-> "error", code |-> code]

Content(d) == request[d].content
Key(d) == request[d].key
Review(d) == Content(d).review

\* What a review was closed with.
Closing(status) == IF status = "approved" THEN "approve" ELSE "reject"
ClosedContent(rv) == [review |-> rv, decision |-> Closing(review[rv])]

Init ==
  /\ pc = [d \in Deciders |-> "lookup"]
  /\ request \in [Deciders -> Requests]
  /\ reply = [d \in Deciders |-> [kind |-> "none"]]
  /\ intent \in [Reviews -> Intents]
  /\ review = [rv \in Reviews |-> "open"]
  /\ command = [rv \in Reviews |-> "needs_review"]
  /\ customers = [rv \in Reviews |-> 0]
  /\ moved = [rv \in Reviews |-> 0]
  /\ events = [rv \in Reviews |-> 0]
  /\ decisions = [k \in Keys |-> None]
  /\ rowLock = [rv \in Reviews |-> None]
  /\ keyLock = [k \in Keys |-> None]

Goto(d, step) == pc' = [pc EXCEPT ![d] = step]

\* Mutant: a rollback keeps its locks.
StillLocked(lock, d) == lock

Unlocked(lock, d) == [x \in DOMAIN lock |-> IF lock[x] = d THEN None ELSE lock[x]]

\* The transaction is over and the client is answered.
Finish(d, answer) ==
  /\ Goto(d, "done")
  /\ reply' = [reply EXCEPT ![d] = answer]
  /\ rowLock' = Unlocked(rowLock, d)
  /\ keyLock' = Unlocked(keyLock, d)
  /\ UNCHANGED <<request, intent>>

-----------------------------------------------------------------------------
\* Mutant: the content of the earlier request is not compared.
LookupAnyContent(d) ==
  /\ pc[d] = "lookup"
  /\ LET previous == decisions[Key(d)]
     IN IF previous = None
        THEN Goto(d, "lock") /\ UNCHANGED <<request, reply, intent, locks>>
        ELSE Finish(d, Decided(previous))
  /\ UNCHANGED database

\* The decision of this key, if one is committed.  A row that is not there
\* cannot be locked: two executions may both find nothing.
Lookup(d) ==
  /\ pc[d] = "lookup"
  /\ LET previous == decisions[Key(d)]
     IN IF previous = None
        THEN Goto(d, "lock") /\ UNCHANGED <<request, reply, intent, locks>>
        ELSE Finish(d, IF previous = Content(d) THEN Decided(previous)
                       ELSE Error("IDEMPOTENCY_CONFLICT"))
  /\ UNCHANGED database

\* Mutant: any request may replay the decision of a closed review.
RefusedNever(d) == FALSE

Refused(d) == review[Review(d)] # "open" /\ ClosedContent(Review(d)) # Content(d)

\* Mutant: select without "for update".
LockReviewNot(d) ==
  /\ pc[d] = "lock"
  /\ IF Refused(d) THEN Finish(d, Error("CRM_CONFLICT"))
     ELSE /\ Goto(d, IF review[Review(d)] = "open" THEN "decide" ELSE "replay")
          /\ UNCHANGED <<request, reply, intent, locks>>
  /\ UNCHANGED database

\* Lock the review and its command.  A closed review is answered again only
\* to a request with the content that closed it.
LockReview(d) ==
  /\ pc[d] = "lock"
  /\ rowLock[Review(d)] = None
  /\ IF Refused(d) THEN Finish(d, Error("CRM_CONFLICT"))
     ELSE /\ Goto(d, IF review[Review(d)] = "open" THEN "decide" ELSE "replay")
          /\ rowLock' = [rowLock EXCEPT ![Review(d)] = d]
          /\ UNCHANGED <<request, reply, intent, keyLock>>
  /\ UNCHANGED database

\* insert ... on conflict do nothing: the key of another decision is no error.
RecordReplay(d) ==
  /\ pc[d] = "replay"
  /\ keyLock[Key(d)] = None
  /\ Goto(d, "commit_replay")
  /\ keyLock' = IF decisions[Key(d)] = None
                THEN [keyLock EXCEPT ![Key(d)] = d] ELSE keyLock
  /\ UNCHANGED <<request, reply, intent, rowLock, database>>

\* Mutant: on conflict do update.
RecordDecisionUpserts(d) ==
  /\ pc[d] = "decide"
  /\ keyLock[Key(d)] = None
  /\ Goto(d, "commit_decision")
  /\ keyLock' = [keyLock EXCEPT ![Key(d)] = d]
  /\ UNCHANGED <<request, reply, intent, rowLock, database>>

\* The plain insert that ends a decision: a duplicate key aborts it all.
RecordDecision(d) ==
  /\ pc[d] = "decide"
  /\ keyLock[Key(d)] = None
  /\ IF decisions[Key(d)] = None
     THEN /\ Goto(d, "commit_decision")
          /\ keyLock' = [keyLock EXCEPT ![Key(d)] = d]
          /\ UNCHANGED <<request, reply, intent, rowLock>>
     ELSE Finish(d, Error("DATABASE"))
  /\ UNCHANGED database

ClosedAs(d) == IF Content(d).decision = "approve" THEN "approved" ELSE "rejected"

\* What the statements between the lock and the insert wrote: a rejection
\* closes the review and leaves the command; an approval creates the customer
\* if that was the intent, and commits the command.  Both write one event.
Apply(d) ==
  LET rv == Review(d)
      approved == Content(d).decision = "approve"
  IN /\ review' = [review EXCEPT ![rv] = ClosedAs(d)]
     /\ command' = [command EXCEPT ![rv] = IF approved THEN "committed" ELSE @]
     /\ customers' = [customers EXCEPT ![rv] =
          IF approved /\ intent[rv] = "create_customer" THEN @ + 1 ELSE @]
     /\ events' = [events EXCEPT ![rv] = @ + 1]
     /\ UNCHANGED moved

RecordKey(d) ==
  decisions' = IF keyLock[Key(d)] = d
               THEN [decisions EXCEPT ![Key(d)] = Content(d)] ELSE decisions

\* The commit; its answer may be lost.
Commit(d) ==
  /\ \/ pc[d] = "commit_decision" /\ Apply(d)
     \/ /\ pc[d] = "commit_replay"
        /\ UNCHANGED <<review, command, customers, moved, events>>
  /\ RecordKey(d)
  /\ \E answer \in {Decided(Content(d)), Error("DATABASE")} : Finish(d, answer)

\* A statement fails, the connection is lost or the server dies: everything is
\* rolled back.
Abort(d) ==
  /\ pc[d] # "done"
  /\ Finish(d, Error("DATABASE"))
  /\ UNCHANGED database

Decide(d) ==
  \/ Lookup(d) \/ LockReview(d) \/ RecordReplay(d) \/ RecordDecision(d) \/ Commit(d)

Next == \E d \in Deciders : Decide(d) \/ Abort(d)

Spec == Init /\ [][Next]_vars

\* The database answers every statement whose locks stay free.
FairSpec == Spec /\ \A d \in Deciders : WF_vars(Decide(d))

-----------------------------------------------------------------------------
(* Properties *)

TypeOK ==
  /\ pc \in [Deciders -> {"lookup", "lock", "replay", "decide", "commit_replay",
                          "commit_decision", "done"}]
  /\ request \in [Deciders -> Requests]
  /\ reply \in [Deciders -> Answers]
  /\ intent \in [Reviews -> Intents]
  /\ review \in [Reviews -> Statuses]
  /\ command \in [Reviews -> {"needs_review", "committed"}]
  /\ customers \in [Reviews -> Nat]
  /\ moved \in [Reviews -> Nat]
  /\ events \in [Reviews -> Nat]
  /\ decisions \in [Keys -> Contents \cup {None}]
  /\ rowLock \in [Reviews -> Deciders \cup {None}]
  /\ keyLock \in [Keys -> Deciders \cup {None}]

\* A review takes effect once: it has one event exactly when it is closed, and
\* its approval created one customer if that was the command, however many
\* reviewers and retries raced.
DecidedOnce ==
  \A rv \in Reviews :
    /\ events[rv] = IF review[rv] = "open" THEN 0 ELSE 1
    /\ customers[rv] = IF review[rv] = "approved" /\ intent[rv] = "create_customer"
                       THEN 1 ELSE 0
    /\ command[rv] = "committed" <=> review[rv] = "approved"

\* Every reviewer who is told a decision stands is told the decision on record.
AnswersAgree ==
  \A d \in Deciders : reply[d].kind = "decided" =>
    /\ review[reply[d].content.review] # "open"
    /\ reply[d].content = ClosedContent(reply[d].content.review)
    /\ reply[d].content = Content(d)

\* A key on record names a decision that really closed its review.
KeysNameDecisions ==
  \A k \in Keys : decisions[k] # None =>
    /\ review[decisions[k].review] # "open"
    /\ decisions[k] = ClosedContent(decisions[k].review)

\* A closed review is never reopened or decided the other way, and a recorded
\* key never changes hands.
DecisionsStand ==
  [][/\ \A rv \in Reviews : review[rv] # "open" => review'[rv] = review[rv]
     /\ \A k \in Keys : decisions[k] # None => decisions'[k] = decisions[k]]_vars

\* Nobody waits for ever: row locks and keys are taken in an order that cannot
\* close a cycle, and every end of a transaction releases them.
EveryDecisionEnds == \A d \in Deciders : <>(pc[d] = "done")

\* 001_initial.sql: replaying the same key returns the original response, and
\* a different payload must fail with a conflict.  So two answered requests
\* under one key have one content.
KeyHasOneContent ==
  \A c, d \in Deciders :
    Key(c) = Key(d) /\ reply[c].kind = "decided" /\ reply[d].kind = "decided" =>
      Content(c) = Content(d)

\* DATA-MODEL.md: status = committed implies the business transaction committed.
CommittedIsApplied ==
  \A rv \in Reviews : command[rv] = "committed" =>
    (intent[rv] = "update_stage" => moved[rv] = 1)
=============================================================================
