----------------------------- MODULE OutboxRelay -----------------------------
(***************************************************************************)
(* The outbox relay of one tenant: src/outbox-worker.mjs running           *)
(* src/outbox-relay.mjs over claimOutbox, markOutboxPublished and          *)
(* markOutboxFailed of src/postgres-store.mjs.  Several worker processes   *)
(* share the table outbox_events and lease its rows.                       *)
(*                                                                         *)
(* A store transaction is one step: claimOutbox locks the rows it leases   *)
(* and skips the locked ones, the marks update one row by its key.  It may *)
(* commit although its answer is lost, or abort; outside the try block     *)
(* either ends the process.  A new process has a fresh worker id, so the   *)
(* leases of a dead one belong to Former.                                  *)
(*                                                                         *)
(* Time is two flags of a row: its lease has run out, and it waits for its *)
(* next attempt.  A batch (25 rows of at most 10 s each) can outlast the   *)
(* lease (60 s), so a lease may run out while its worker is still busy.    *)
(***************************************************************************)
EXTENDS Naturals, FiniteSets

CONSTANTS
  Rows,          \* outbox_events rows: natural numbers, in creation order
  Workers,       \* worker processes
  Nobody,        \* lock_owner is null
  Former,        \* lock_owner is the id of a process that has ended
  BatchSize,     \* OUTBOX_BATCH_SIZE
  MaxAttempts,   \* OUTBOX_MAX_ATTEMPTS
  MaxCrashes,    \* bound: processes killed, or ended by the database
  MaxStalls      \* bound: leases that run out under a living worker

ASSUME RowAssumption == Rows \subseteq Nat /\ IsFiniteSet(Rows)
ASSUME OwnerAssumption ==
  Nobody \notin Workers /\ Former \notin Workers /\ Nobody # Former
ASSUME BoundAssumption ==
  /\ BatchSize \in Nat \ {0} /\ MaxAttempts \in Nat \ {0}
  /\ MaxCrashes \in Nat /\ MaxStalls \in Nat

VARIABLES
  published, dead,   \* published_at, dead_lettered_at are set
  attempts,          \* attempts
  owner,             \* lock_owner
  expired,           \* locked_at is older than the lease
  waiting,           \* next_attempt_at is in the future
  delivered,         \* rows the target has received
  pc,                \* where each worker is in runOnce
  batch,             \* rows it claimed and has not settled
  current,           \* the row it is working on, a set of at most one
  crashes, stalls    \* how much of the bounds is used

row == <<published, dead, attempts, owner, expired, waiting>>
worker == <<pc, batch, current>>
bounds == <<crashes, stalls>>
vars == <<row, delivered, worker, bounds>>

-----------------------------------------------------------------------------
Init ==
  /\ published = [r \in Rows |-> FALSE]
  /\ dead = [r \in Rows |-> FALSE]
  /\ attempts = [r \in Rows |-> 0]
  /\ owner = [r \in Rows |-> Nobody]
  /\ expired = [r \in Rows |-> FALSE]
  /\ waiting = [r \in Rows |-> FALSE]
  /\ delivered = {}
  /\ pc = [w \in Workers |-> "polling"]
  /\ batch = [w \in Workers |-> {}]
  /\ current = [w \in Workers |-> {}]
  /\ crashes = 0
  /\ stalls = 0

\* The process ends: its leases stay in the table, under an id nobody has.
Ends(w, leases) ==
  /\ owner' = [r \in Rows |-> IF leases[r] = w THEN Former ELSE leases[r]]
  /\ pc' = [pc EXCEPT ![w] = "stopped"]
  /\ batch' = [batch EXCEPT ![w] = {}]
  /\ current' = [current EXCEPT ![w] = {}]

\* Mutant: an expired lease is never taken over.
DueUnleased == {r \in Rows : ~published[r] /\ ~dead[r] /\ ~waiting[r] /\ owner[r] = Nobody}

Due == {r \in Rows : /\ ~published[r] /\ ~dead[r] /\ ~waiting[r]
                     /\ owner[r] = Nobody \/ expired[r]}

Oldest(S, n) == {r \in S : Cardinality({q \in S : q =< r}) =< n}

\* Rows another worker's transaction may hold locked right now.
Locked(w) == UNION {current[v] : v \in {u \in Workers \ {w} : pc[u] \in {"acking", "failing"}}}

\* claimOutbox: lease the oldest due rows that are not locked.  attempts is
\* left alone.  With nothing due, the worker sleeps and polls again.
Claim(w) ==
  /\ pc[w] = "polling"
  /\ \E skipped \in SUBSET Locked(w) :
       LET claimed == Oldest(Due \ skipped, BatchSize)
           leases == [r \in Rows |-> IF r \in claimed THEN w ELSE owner[r]]
       IN /\ claimed # {}
          /\ expired' = [r \in Rows |-> expired[r] /\ r \notin claimed]
          /\ \/ /\ owner' = leases
                /\ pc' = [pc EXCEPT ![w] = "publishing"]
                /\ batch' = [batch EXCEPT ![w] = claimed]
                /\ UNCHANGED <<current, bounds>>
             \/ /\ crashes < MaxCrashes      \* the answer is lost
                /\ crashes' = crashes + 1
                /\ Ends(w, leases)
                /\ UNCHANGED stalls
  /\ UNCHANGED <<published, dead, attempts, waiting, delivered>>

\* Mutant: a response is taken for an acceptance (response.ok is not read).
PublishUnread(w) ==
  /\ pc[w] = "publishing"
  /\ \E r \in batch[w] :
       /\ current' = [current EXCEPT ![w] = {r}]
       /\ delivered' \in {delivered, delivered \cup {r}}
       /\ pc' = [pc EXCEPT ![w] = "acking"]
  /\ UNCHANGED <<row, batch, bounds>>

\* The POST of one row of the batch; "returning" gives them no order.  The
\* target may have received an event whose POST fails or times out.
Publish(w) ==
  /\ pc[w] = "publishing"
  /\ \E r \in batch[w] :
       /\ current' = [current EXCEPT ![w] = {r}]
       /\ \/ /\ delivered' = delivered \cup {r}
             /\ pc' = [pc EXCEPT ![w] = "acking"]
          \/ /\ delivered' \in {delivered, delivered \cup {r}}
             /\ pc' = [pc EXCEPT ![w] = "failing"]
  /\ UNCHANGED <<row, batch, bounds>>

\* The row is dealt with: the next one, or the next poll.
NextRow(w, r) ==
  /\ batch' = [batch EXCEPT ![w] = @ \ {r}]
  /\ current' = [current EXCEPT ![w] = {}]
  /\ pc' = [pc EXCEPT ![w] = IF batch[w] \subseteq {r} THEN "polling" ELSE "publishing"]

\* Mutant: lock_owner is not reset.
ReleaseTimeOnly(r) ==
  /\ expired' = [expired EXCEPT ![r] = FALSE]
  /\ UNCHANGED owner

Release(r) ==
  /\ owner' = [owner EXCEPT ![r] = Nobody]
  /\ expired' = [expired EXCEPT ![r] = FALSE]

Fails(w) ==
  /\ pc' = [pc EXCEPT ![w] = "failing"]
  /\ UNCHANGED <<batch, current>>

\* markOutboxPublished; when the lease is lost, or the answer is, the catch
\* clause follows.
MarkPublished(w) ==
  /\ pc[w] = "acking"
  /\ \E r \in current[w] :
       IF owner[r] = w /\ ~published[r]
       THEN /\ published' = [published EXCEPT ![r] = TRUE]
            /\ attempts' = [attempts EXCEPT ![r] = @ + 1]
            /\ Release(r)
            /\ NextRow(w, r) \/ Fails(w)
       ELSE Fails(w) /\ UNCHANGED <<published, attempts, owner, expired>>
  /\ UNCHANGED <<dead, waiting, delivered, bounds>>

\* markOutboxPublished aborts.
MarkPublishedAborts(w) ==
  /\ pc[w] = "acking"
  /\ Fails(w)
  /\ UNCHANGED <<row, delivered, bounds>>

\* Mutant: one attempt too many.
ExhaustedLate(r) == attempts[r] + 1 > MaxAttempts

Exhausted(r) == attempts[r] + 1 >= MaxAttempts

\* markOutboxFailed.  It is called in the catch clause: what it throws leaves
\* runOnce, and the process with it.
MarkFailed(w) ==
  /\ pc[w] = "failing"
  /\ \E r \in current[w] :
       IF owner[r] = w
       THEN /\ attempts' = [attempts EXCEPT ![r] = @ + 1]
            /\ dead' = [dead EXCEPT ![r] = Exhausted(r)]
            /\ waiting' = [waiting EXCEPT ![r] = ~Exhausted(r)]
            /\ Release(r)
            /\ NextRow(w, r)
       ELSE /\ Ends(w, owner)
            /\ UNCHANGED <<attempts, dead, waiting, expired>>
  /\ UNCHANGED <<published, delivered, bounds>>

\* SIGTERM: the loop ends after the batch at hand.
Stop(w) ==
  /\ pc[w] = "polling"
  /\ crashes < MaxCrashes
  /\ crashes' = crashes + 1
  /\ Ends(w, owner)
  /\ UNCHANGED <<published, dead, attempts, expired, waiting, delivered, stalls>>

\* The process is killed, or the transaction of a mark aborts in the catch
\* clause.
Crash(w) ==
  /\ pc[w] \in {"publishing", "acking", "failing"}
  /\ crashes < MaxCrashes
  /\ crashes' = crashes + 1
  /\ Ends(w, owner)
  /\ UNCHANGED <<published, dead, attempts, expired, waiting, delivered, stalls>>

\* The orchestrator starts a new process.
Restart(w) ==
  /\ pc[w] = "stopped"
  /\ pc' = [pc EXCEPT ![w] = "polling"]
  /\ UNCHANGED <<row, delivered, batch, current, bounds>>

\* The lease runs out under its worker.
LeaseStalls(r) ==
  /\ owner[r] \in Workers /\ ~expired[r]
  /\ stalls < MaxStalls
  /\ stalls' = stalls + 1
  /\ expired' = [expired EXCEPT ![r] = TRUE]
  /\ UNCHANGED <<published, dead, attempts, owner, waiting, delivered, worker, crashes>>

\* The lease a dead process left behind runs out.
LeaseLapses(r) ==
  /\ owner[r] = Former /\ ~expired[r]
  /\ expired' = [expired EXCEPT ![r] = TRUE]
  /\ UNCHANGED <<published, dead, attempts, owner, waiting, delivered, worker, bounds>>

\* next_attempt_at is reached.
BackoffEnds(r) ==
  /\ waiting[r]
  /\ waiting' = [waiting EXCEPT ![r] = FALSE]
  /\ UNCHANGED <<published, dead, attempts, owner, expired, delivered, worker, bounds>>

RunOnce(w) ==
  Claim(w) \/ Publish(w) \/ MarkPublished(w) \/ MarkPublishedAborts(w) \/ MarkFailed(w)

Next ==
  \/ \E w \in Workers : RunOnce(w) \/ Stop(w) \/ Crash(w) \/ Restart(w)
  \/ \E r \in Rows : LeaseStalls(r) \/ LeaseLapses(r) \/ BackoffEnds(r)

Spec == Init /\ [][Next]_vars

\* Workers run, the orchestrator restarts them, and time passes.
Fairness ==
  /\ \A w \in Workers : WF_vars(RunOnce(w)) /\ WF_vars(Restart(w))
  /\ \A r \in Rows : WF_vars(LeaseLapses(r)) /\ WF_vars(BackoffEnds(r))
FairSpec == Spec /\ Fairness

-----------------------------------------------------------------------------
(* Properties *)

TypeOK ==
  /\ published \in [Rows -> BOOLEAN] /\ dead \in [Rows -> BOOLEAN]
  /\ attempts \in [Rows -> Nat]
  /\ owner \in [Rows -> Workers \cup {Nobody, Former}]
  /\ expired \in [Rows -> BOOLEAN] /\ waiting \in [Rows -> BOOLEAN]
  /\ delivered \subseteq Rows
  /\ pc \in [Workers -> {"polling", "publishing", "acking", "failing", "stopped"}]
  /\ batch \in [Workers -> SUBSET Rows] /\ current \in [Workers -> SUBSET Rows]
  /\ crashes \in Nat /\ stalls \in Nat

\* A living worker works through every row it has leased: it never walks away
\* from a lease, which would hide the row until the lease runs out.
LeaseIsWorkedOn ==
  \A r \in Rows, w \in Workers : owner[r] = w => r \in batch[w]

\* A settled row is out of circulation: not leased, not waiting, never both
\* published and dead-lettered, whoever acknowledges late.
SettledIsOut ==
  \A r \in Rows : published[r] \/ dead[r] =>
    ~(published[r] /\ dead[r]) /\ owner[r] = Nobody /\ ~waiting[r]

\* The retry budget is spent exactly: a row is buried at the last attempt and
\* no later, and one still in circulation has attempts left.
BudgetIsExact ==
  \A r \in Rows :
    /\ dead[r] => attempts[r] = MaxAttempts
    /\ published[r] => attempts[r] \in 1 .. MaxAttempts
    /\ ~published[r] /\ ~dead[r] => attempts[r] < MaxAttempts

\* The table keeps the promise of AtLeastOnce.
Promise == INSTANCE AtLeastOnce WITH
  Events <- Rows,
  status <- [r \in Rows |-> IF published[r] THEN "published"
                            ELSE IF dead[r] THEN "dead" ELSE "pending"],
  delivered <- delivered
KeepsPromise == Promise!Spec

\* Every event is eventually published or dead-lettered, through crashes,
\* lost leases and failing targets: none is stuck behind a lease.
EveryEventSettles ==
  <>(\A r \in Rows : published[r] \/ dead[r])
=============================================================================
