------------------------- MODULE OutboxRelayProofs -------------------------
(* Theorems about OutboxRelay, for any rows, workers and bounds. *)
EXTENDS OutboxRelay, TLAPS

\* What the claims and marks keep true of a lease and of its holder's batch.
LeasedIsOpen ==
  \A r \in Rows : owner[r] # Nobody => ~published[r] /\ ~dead[r] /\ ~waiting[r]

WaitingIsOpen == \A r \in Rows : waiting[r] => ~published[r] /\ ~dead[r]

IdleHoldsNothing ==
  \A w \in Workers : pc[w] \in {"polling", "stopped"} => batch[w] = {}

AckedWasDelivered ==
  /\ \A w \in Workers : pc[w] = "acking" => current[w] \subseteq delivered
  /\ \A r \in Rows : published[r] => r \in delivered

ExclusiveEnds == \A r \in Rows : ~(published[r] /\ dead[r])

IInv ==
  /\ TypeOK /\ LeasedIsOpen /\ WaitingIsOpen /\ IdleHoldsNothing
  /\ AckedWasDelivered /\ ExclusiveEnds /\ LeaseIsWorkedOn /\ BudgetIsExact

\* Workers and the two markers of a lock owner are all different.
LEMMA OwnersDiffer ==
  \A w \in Workers : w # Nobody /\ w # Former /\ Nobody # Former
BY OwnerAssumption

\* Ending a process leaves its rows to Former and the others to their owners.
LEMMA EndsFacts ==
  ASSUME TypeOK, NEW w \in Workers, NEW leases \in [Rows -> Workers \cup {Nobody, Former}],
         Ends(w, leases)
  PROVE  /\ owner' \in [Rows -> Workers \cup {Nobody, Former}]
         /\ \A r \in Rows : /\ owner'[r] # w
                            /\ owner'[r] = IF leases[r] = w THEN Former ELSE leases[r]
         /\ pc' \in [Workers -> {"polling", "publishing", "acking", "failing", "stopped"}]
         /\ batch' \in [Workers -> SUBSET Rows] /\ current' \in [Workers -> SUBSET Rows]
         /\ pc'[w] = "stopped" /\ batch'[w] = {} /\ current'[w] = {}
         /\ \A v \in Workers : v # w =>
              pc'[v] = pc[v] /\ batch'[v] = batch[v] /\ current'[v] = current[v]
BY OwnersDiffer DEF TypeOK, Ends

\* A process that ends, with its leases as they were, breaks nothing.
LEMMA EndsKeeps ==
  ASSUME IInv, NEW w \in Workers, Ends(w, owner),
         UNCHANGED <<published, dead, attempts, expired, waiting, delivered>>,
         crashes' \in Nat, stalls' \in Nat
  PROVE  IInv'
<1>1. owner \in [Rows -> Workers \cup {Nobody, Former}] /\ TypeOK
  BY DEF IInv, TypeOK
<1>2. /\ owner' \in [Rows -> Workers \cup {Nobody, Former}]
      /\ \A r \in Rows : /\ owner'[r] # w
                         /\ owner'[r] = IF owner[r] = w THEN Former ELSE owner[r]
      /\ pc' \in [Workers -> {"polling", "publishing", "acking", "failing", "stopped"}]
      /\ batch' \in [Workers -> SUBSET Rows] /\ current' \in [Workers -> SUBSET Rows]
      /\ pc'[w] = "stopped" /\ batch'[w] = {} /\ current'[w] = {}
      /\ \A v \in Workers : v # w =>
           pc'[v] = pc[v] /\ batch'[v] = batch[v] /\ current'[v] = current[v]
  BY <1>1, EndsFacts
<1>3. TypeOK'
  BY <1>1, <1>2 DEF TypeOK
<1>4. LeasedIsOpen' /\ WaitingIsOpen' /\ ExclusiveEnds' /\ BudgetIsExact'
  BY <1>2, OwnersDiffer DEF IInv, LeasedIsOpen, WaitingIsOpen, ExclusiveEnds, BudgetIsExact
<1>5. IdleHoldsNothing' /\ AckedWasDelivered'
  BY <1>2 DEF IInv, IdleHoldsNothing, AckedWasDelivered
<1>6. LeaseIsWorkedOn'
  BY <1>2, OwnersDiffer DEF IInv, LeaseIsWorkedOn
<1> QED BY <1>3, <1>4, <1>5, <1>6 DEF IInv

\* A claim leases rows that are open, due and leased to nobody.
LEMMA ClaimKeeps ==
  ASSUME IInv, NEW w \in Workers, Claim(w)
  PROVE  IInv'
<1>1. PICK skipped \in SUBSET Locked(w) :
        LET claimed == Oldest(Due \ skipped, BatchSize)
            leases == [r \in Rows |-> IF r \in claimed THEN w ELSE owner[r]]
        IN /\ claimed # {}
           /\ expired' = [r \in Rows |-> expired[r] /\ r \notin claimed]
           /\ \/ /\ owner' = leases
                 /\ pc' = [pc EXCEPT ![w] = "publishing"]
                 /\ batch' = [batch EXCEPT ![w] = claimed]
                 /\ UNCHANGED <<current, bounds>>
              \/ /\ crashes < MaxCrashes
                 /\ crashes' = crashes + 1
                 /\ Ends(w, leases)
                 /\ UNCHANGED stalls
  BY DEF Claim
<1> DEFINE claimed == Oldest(Due \ skipped, BatchSize)
           leases == [r \in Rows |-> IF r \in claimed THEN w ELSE owner[r]]
<1>2. claimed \subseteq Due
  BY DEF Oldest
<1>3. \A r \in claimed : r \in Rows /\ ~published[r] /\ ~dead[r] /\ ~waiting[r]
  BY <1>2 DEF Due
<1>4. UNCHANGED <<published, dead, attempts, waiting, delivered>> /\ pc[w] = "polling"
  BY DEF Claim
<1>5. /\ expired' = [r \in Rows |-> expired[r] /\ r \notin claimed]
      /\ \/ /\ owner' = leases
            /\ pc' = [pc EXCEPT ![w] = "publishing"]
            /\ batch' = [batch EXCEPT ![w] = claimed]
            /\ UNCHANGED <<current, bounds>>
         \/ /\ crashes' = crashes + 1
            /\ Ends(w, leases)
            /\ UNCHANGED stalls
  BY <1>1
<1> HIDE DEF claimed
<1>6. TypeOK /\ batch[w] = {}
  BY <1>4 DEF IInv, IdleHoldsNothing
<1>7. leases \in [Rows -> Workers \cup {Nobody, Former}]
  BY <1>6 DEF TypeOK
<1>8. expired' \in [Rows -> BOOLEAN]
  BY <1>5, <1>6 DEF TypeOK
<1>9. CASE /\ owner' = leases
           /\ pc' = [pc EXCEPT ![w] = "publishing"]
           /\ batch' = [batch EXCEPT ![w] = claimed]
           /\ UNCHANGED <<current, bounds>>
  <2>1. TypeOK'
    BY <1>3, <1>4, <1>6, <1>7, <1>8, <1>9 DEF TypeOK, bounds
  <2>2. LeasedIsOpen' /\ WaitingIsOpen' /\ ExclusiveEnds' /\ BudgetIsExact'
    BY <1>3, <1>4, <1>9
    DEF IInv, LeasedIsOpen, WaitingIsOpen, ExclusiveEnds, BudgetIsExact
  <2>3. IdleHoldsNothing' /\ AckedWasDelivered'
    BY <1>4, <1>6, <1>9 DEF IInv, TypeOK, IdleHoldsNothing, AckedWasDelivered
  <2>4. LeaseIsWorkedOn'
    BY <1>6, <1>9 DEF IInv, TypeOK, LeaseIsWorkedOn
  <2> QED BY <2>1, <2>2, <2>3, <2>4 DEF IInv
<1>10. CASE crashes' = crashes + 1 /\ Ends(w, leases) /\ UNCHANGED stalls
  <2> HIDE DEF leases
  <2>1. /\ owner' \in [Rows -> Workers \cup {Nobody, Former}]
        /\ \A r \in Rows : /\ owner'[r] # w
                           /\ owner'[r] = IF leases[r] = w THEN Former ELSE leases[r]
        /\ pc' \in [Workers -> {"polling", "publishing", "acking", "failing", "stopped"}]
        /\ batch' \in [Workers -> SUBSET Rows] /\ current' \in [Workers -> SUBSET Rows]
        /\ pc'[w] = "stopped" /\ batch'[w] = {} /\ current'[w] = {}
        /\ \A v \in Workers : v # w =>
             pc'[v] = pc[v] /\ batch'[v] = batch[v] /\ current'[v] = current[v]
    BY <1>6, <1>7, <1>10, EndsFacts
  <2>2. \A r \in Rows : leases[r] = IF r \in claimed THEN w ELSE owner[r]
    BY DEF leases
  <2>3. TypeOK'
    BY <1>4, <1>6, <1>8, <1>10, <2>1 DEF TypeOK
  <2>4. LeasedIsOpen' /\ WaitingIsOpen' /\ ExclusiveEnds' /\ BudgetIsExact'
    BY <1>3, <1>4, <2>1, <2>2, OwnersDiffer
    DEF IInv, LeasedIsOpen, WaitingIsOpen, ExclusiveEnds, BudgetIsExact
  <2>5. IdleHoldsNothing' /\ AckedWasDelivered'
    BY <1>4, <2>1 DEF IInv, IdleHoldsNothing, AckedWasDelivered
  <2>6. LeaseIsWorkedOn'
    BY <1>6, <2>1, <2>2, OwnersDiffer DEF IInv, LeaseIsWorkedOn
  <2> QED BY <2>3, <2>4, <2>5, <2>6 DEF IInv
<1> QED BY <1>5, <1>9, <1>10

\* A post moves a worker, and only from a row of its batch.
LEMMA PublishKeeps ==
  ASSUME IInv, NEW w \in Workers, Publish(w)
  PROVE  IInv'
<1>1. PICK r \in batch[w] :
        /\ current' = [current EXCEPT ![w] = {r}]
        /\ \/ /\ delivered' = delivered \cup {r}
              /\ pc' = [pc EXCEPT ![w] = "acking"]
           \/ /\ delivered' \in {delivered, delivered \cup {r}}
              /\ pc' = [pc EXCEPT ![w] = "failing"]
  BY DEF Publish
<1>2. r \in Rows /\ UNCHANGED <<row, batch, bounds>> /\ pc[w] = "publishing"
  BY DEF IInv, TypeOK, Publish
<1>3. TypeOK'
  BY <1>1, <1>2 DEF IInv, TypeOK, row, bounds
<1>4. LeasedIsOpen' /\ WaitingIsOpen' /\ ExclusiveEnds' /\ BudgetIsExact' /\ LeaseIsWorkedOn'
  BY <1>2 DEF IInv, LeasedIsOpen, WaitingIsOpen, ExclusiveEnds, BudgetIsExact,
              LeaseIsWorkedOn, row
<1>5. IdleHoldsNothing' /\ AckedWasDelivered'
  BY <1>1, <1>2 DEF IInv, TypeOK, IdleHoldsNothing, AckedWasDelivered, row
<1> QED BY <1>3, <1>4, <1>5 DEF IInv

\* The step of a mark that dealt with its row, seen by the worker's variables.
LEMMA NextRowFacts ==
  ASSUME TypeOK, NEW w \in Workers, NEW r \in Rows, NextRow(w, r)
  PROVE  /\ pc' \in [Workers -> {"polling", "publishing", "acking", "failing", "stopped"}]
         /\ batch' \in [Workers -> SUBSET Rows] /\ current' \in [Workers -> SUBSET Rows]
         /\ batch'[w] = batch[w] \ {r}
         /\ pc'[w] \in {"polling", "publishing"}
         /\ pc'[w] = "polling" => batch'[w] = {}
         /\ \A v \in Workers : v # w =>
              pc'[v] = pc[v] /\ batch'[v] = batch[v] /\ current'[v] = current[v]
BY DEF TypeOK, NextRow

\* A late acknowledgement changes only a row its worker still leases.
LEMMA MarkPublishedKeeps ==
  ASSUME IInv, NEW w \in Workers, MarkPublished(w)
  PROVE  IInv'
<1>1. PICK r \in current[w] :
       IF owner[r] = w /\ ~published[r]
       THEN /\ published' = [published EXCEPT ![r] = TRUE]
            /\ attempts' = [attempts EXCEPT ![r] = @ + 1]
            /\ Release(r)
            /\ NextRow(w, r) \/ Fails(w)
       ELSE Fails(w) /\ UNCHANGED <<published, attempts, owner, expired>>
  BY DEF MarkPublished
<1>2. /\ UNCHANGED <<dead, waiting, delivered, bounds>>
      /\ pc[w] = "acking" /\ r \in Rows /\ r \in delivered /\ TypeOK
  BY DEF MarkPublished, IInv, TypeOK, AckedWasDelivered
<1>3. CASE Fails(w) /\ UNCHANGED <<published, attempts, owner, expired>>
  BY <1>2, <1>3 DEF IInv, TypeOK, Fails, LeasedIsOpen, WaitingIsOpen, ExclusiveEnds,
     BudgetIsExact, IdleHoldsNothing, AckedWasDelivered, LeaseIsWorkedOn, bounds
<1>4. CASE /\ owner[r] = w /\ ~published[r]
           /\ published' = [published EXCEPT ![r] = TRUE]
           /\ attempts' = [attempts EXCEPT ![r] = @ + 1]
           /\ Release(r)
           /\ NextRow(w, r) \/ Fails(w)
  <2>1. ~dead[r] /\ ~waiting[r] /\ attempts[r] < MaxAttempts /\ attempts[r] \in Nat
    BY <1>2, <1>4, OwnersDiffer DEF IInv, LeasedIsOpen, BudgetIsExact, TypeOK
  <2>2. /\ pc' \in [Workers -> {"polling", "publishing", "acking", "failing", "stopped"}]
        /\ batch' \in [Workers -> SUBSET Rows] /\ current' \in [Workers -> SUBSET Rows]
        /\ batch[w] \ {r} \subseteq batch'[w]
        /\ pc'[w] \notin {"stopped", "acking"}
        /\ pc'[w] = "polling" => batch'[w] = {}
        /\ \A v \in Workers : v # w =>
             pc'[v] = pc[v] /\ batch'[v] = batch[v] /\ current'[v] = current[v]
    <3>1. CASE NextRow(w, r)
      BY <1>2, <3>1, NextRowFacts
    <3>2. CASE Fails(w)
      BY <1>2, <3>2 DEF Fails, TypeOK
    <3> QED BY <1>4, <3>1, <3>2
  <2>3. \A q \in Rows : /\ published'[q] = (published[q] \/ q = r)
                        /\ attempts'[q] = IF q = r THEN attempts[q] + 1 ELSE attempts[q]
                        /\ owner'[q] = IF q = r THEN Nobody ELSE owner[q]
    BY <1>2, <1>4 DEF TypeOK, Release
  <2>4. TypeOK'
    BY <1>2, <1>4, <2>2 DEF TypeOK, Release, bounds
  <2>5. LeasedIsOpen' /\ WaitingIsOpen' /\ ExclusiveEnds'
    BY <1>2, <2>1, <2>3 DEF IInv, LeasedIsOpen, WaitingIsOpen, ExclusiveEnds
  <2>6. BudgetIsExact'
    <3> SUFFICES ASSUME NEW q \in Rows
                 PROVE  /\ dead'[q] => attempts'[q] = MaxAttempts
                        /\ published'[q] => attempts'[q] \in 1 .. MaxAttempts
                        /\ ~published'[q] /\ ~dead'[q] => attempts'[q] < MaxAttempts
      BY DEF BudgetIsExact
    <3>1. MaxAttempts \in Nat /\ attempts[q] \in Nat
      BY <1>2, BoundAssumption DEF TypeOK
    <3>2. CASE q = r
      <4>1. attempts'[q] = attempts[q] + 1 /\ published'[q] /\ ~dead'[q]
        BY <1>2, <2>1, <2>3, <3>2
      <4> QED BY <2>1, <3>1, <3>2, <4>1
    <3>3. CASE q # r
      BY <1>2, <2>3, <3>3 DEF IInv, BudgetIsExact
    <3> QED BY <3>2, <3>3
  <2>7. IdleHoldsNothing' /\ AckedWasDelivered'
    BY <1>2, <2>2, <2>3 DEF IInv, IdleHoldsNothing, AckedWasDelivered
  <2>8. LeaseIsWorkedOn'
    BY <1>2, <2>2, <2>3, OwnersDiffer DEF IInv, LeaseIsWorkedOn
  <2> QED BY <2>4, <2>5, <2>6, <2>7, <2>8 DEF IInv
<1> QED BY <1>1, <1>3, <1>4

\* A failure counts one attempt, and buries the row at the last.
LEMMA MarkFailedKeeps ==
  ASSUME IInv, NEW w \in Workers, MarkFailed(w)
  PROVE  IInv'
<1>1. PICK r \in current[w] :
       IF owner[r] = w
       THEN /\ attempts' = [attempts EXCEPT ![r] = @ + 1]
            /\ dead' = [dead EXCEPT ![r] = attempts[r] + 1 >= MaxAttempts]
            /\ waiting' = [waiting EXCEPT ![r] = ~(attempts[r] + 1 >= MaxAttempts)]
            /\ Release(r)
            /\ NextRow(w, r)
       ELSE /\ Ends(w, owner)
            /\ UNCHANGED <<attempts, dead, waiting, expired>>
  BY DEF MarkFailed, Exhausted
<1>2. /\ UNCHANGED <<published, delivered, bounds>>
      /\ pc[w] = "failing" /\ r \in Rows /\ TypeOK
  BY DEF MarkFailed, IInv, TypeOK
<1>3. CASE Ends(w, owner) /\ UNCHANGED <<attempts, dead, waiting, expired>>
  BY <1>2, <1>3, EndsKeeps DEF bounds, TypeOK
<1>4. CASE /\ owner[r] = w
           /\ attempts' = [attempts EXCEPT ![r] = @ + 1]
           /\ dead' = [dead EXCEPT ![r] = attempts[r] + 1 >= MaxAttempts]
           /\ waiting' = [waiting EXCEPT ![r] = ~(attempts[r] + 1 >= MaxAttempts)]
           /\ Release(r)
           /\ NextRow(w, r)
  <2>1. ~published[r] /\ ~dead[r] /\ attempts[r] < MaxAttempts /\ attempts[r] \in Nat
    BY <1>2, <1>4, OwnersDiffer DEF IInv, LeasedIsOpen, BudgetIsExact, TypeOK
  <2>2. /\ pc' \in [Workers -> {"polling", "publishing", "acking", "failing", "stopped"}]
        /\ batch' \in [Workers -> SUBSET Rows] /\ current' \in [Workers -> SUBSET Rows]
        /\ batch'[w] = batch[w] \ {r}
        /\ pc'[w] \in {"polling", "publishing"}
        /\ pc'[w] = "polling" => batch'[w] = {}
        /\ \A v \in Workers : v # w =>
             pc'[v] = pc[v] /\ batch'[v] = batch[v] /\ current'[v] = current[v]
    BY <1>2, <1>4, NextRowFacts
  <2>3. \A q \in Rows :
          /\ attempts'[q] = IF q = r THEN attempts[q] + 1 ELSE attempts[q]
          /\ owner'[q] = IF q = r THEN Nobody ELSE owner[q]
          /\ q # r => dead'[q] = dead[q] /\ waiting'[q] = waiting[q]
    BY <1>2, <1>4 DEF TypeOK, Release
  <2> DEFINE exhausted == attempts[r] + 1 >= MaxAttempts
  <2>9. (dead'[r] <=> exhausted) /\ (waiting'[r] <=> ~exhausted)
    <3>1. dead' = [dead EXCEPT ![r] = exhausted] /\ waiting' = [waiting EXCEPT ![r] = ~exhausted]
      BY <1>4
    <3> HIDE DEF exhausted
    <3>2. dead'[r] = exhausted /\ waiting'[r] = ~exhausted
      BY <1>2, <3>1 DEF TypeOK
    <3> QED BY <3>2, Zenon
  <2>4. TypeOK'
    BY <1>2, <1>4, <2>2 DEF TypeOK, Release, bounds
  <2>5. LeasedIsOpen' /\ WaitingIsOpen' /\ ExclusiveEnds'
    <3>1. MaxAttempts \in Nat
      BY BoundAssumption
    <3>2. \A q \in Rows \ {r} : /\ dead'[q] = dead[q] /\ waiting'[q] = waiting[q]
                               /\ owner'[q] = owner[q]
      BY <2>3
    <3>3. owner'[r] = Nobody /\ ~published'[r]
      BY <1>2, <2>1, <2>3
    <3>4. waiting'[r] => ~dead'[r]
      BY <2>1, <2>9, <3>1
    <3> QED BY <1>2, <3>2, <3>3, <3>4
            DEF IInv, LeasedIsOpen, WaitingIsOpen, ExclusiveEnds
  <2>6. BudgetIsExact'
    <3> SUFFICES ASSUME NEW q \in Rows
                 PROVE  /\ dead'[q] => attempts'[q] = MaxAttempts
                        /\ published'[q] => attempts'[q] \in 1 .. MaxAttempts
                        /\ ~published'[q] /\ ~dead'[q] => attempts'[q] < MaxAttempts
      BY DEF BudgetIsExact
    <3>1. MaxAttempts \in Nat /\ attempts[q] \in Nat
      BY <1>2, BoundAssumption DEF TypeOK
    <3>2. CASE q = r
      <4>1. attempts'[r] = attempts[r] + 1 /\ ~published'[r]
        BY <1>2, <2>1, <2>3
      <4> QED BY <2>1, <2>9, <3>1, <3>2, <4>1
    <3>3. CASE q # r
      BY <1>2, <2>3, <3>3 DEF IInv, BudgetIsExact
    <3> QED BY <3>2, <3>3
  <2>7. IdleHoldsNothing' /\ AckedWasDelivered'
    BY <1>2, <2>2 DEF IInv, IdleHoldsNothing, AckedWasDelivered
  <2>8. LeaseIsWorkedOn'
    BY <1>2, <2>2, <2>3, OwnersDiffer DEF IInv, LeaseIsWorkedOn
  <2> QED BY <2>4, <2>5, <2>6, <2>7, <2>8 DEF IInv
<1> QED BY <1>1, <1>3, <1>4

\* Time passing and a new process touch neither a lease's owner nor a settled row.
LEMMA OthersKeep ==
  ASSUME IInv,
         \/ \E w \in Workers : MarkPublishedAborts(w) \/ Restart(w)
         \/ \E r \in Rows : LeaseStalls(r) \/ LeaseLapses(r) \/ BackoffEnds(r)
  PROVE  IInv'
<1>1. ASSUME NEW w \in Workers, MarkPublishedAborts(w) PROVE IInv'
  BY <1>1 DEF MarkPublishedAborts, Fails, row, bounds, IInv, TypeOK, LeasedIsOpen,
     WaitingIsOpen, ExclusiveEnds, BudgetIsExact, IdleHoldsNothing,
     AckedWasDelivered, LeaseIsWorkedOn
<1>2. ASSUME NEW w \in Workers, Restart(w) PROVE IInv'
  BY <1>2 DEF Restart, row, bounds, IInv, TypeOK, LeasedIsOpen, WaitingIsOpen,
     ExclusiveEnds, BudgetIsExact, IdleHoldsNothing, AckedWasDelivered, LeaseIsWorkedOn
<1>3. ASSUME NEW r \in Rows, LeaseStalls(r) \/ LeaseLapses(r) PROVE IInv'
  <2>1. /\ UNCHANGED <<published, dead, attempts, owner, waiting, delivered, worker, crashes>>
        /\ expired' = [expired EXCEPT ![r] = TRUE] /\ stalls' \in Nat
    BY <1>3 DEF LeaseStalls, LeaseLapses, bounds, IInv, TypeOK
  <2>2. TypeOK'
    BY <2>1 DEF IInv, TypeOK, worker
  <2> QED BY <2>1, <2>2 DEF worker, IInv, LeasedIsOpen, WaitingIsOpen, ExclusiveEnds,
            BudgetIsExact, IdleHoldsNothing, AckedWasDelivered, LeaseIsWorkedOn
<1>4. ASSUME NEW r \in Rows, BackoffEnds(r) PROVE IInv'
  BY <1>4 DEF BackoffEnds, worker, bounds, IInv, TypeOK, LeasedIsOpen,
     WaitingIsOpen, ExclusiveEnds, BudgetIsExact, IdleHoldsNothing,
     AckedWasDelivered, LeaseIsWorkedOn
<1> QED BY <1>1, <1>2, <1>3, <1>4

\* The inductive invariant: leases are open rows, and what is published was delivered.
LEMMA InductiveInvariant == Spec => []IInv
<1>1. Init => IInv
  BY OwnersDiffer, BoundAssumption
  DEF Init, IInv, TypeOK, LeasedIsOpen, WaitingIsOpen, ExclusiveEnds, BudgetIsExact,
      IdleHoldsNothing, AckedWasDelivered, LeaseIsWorkedOn
<1>2. IInv /\ [Next]_vars => IInv'
  <2> SUFFICES ASSUME IInv, [Next]_vars PROVE IInv'
    OBVIOUS
  <2>1. CASE UNCHANGED vars
    BY <2>1 DEF vars, row, worker, bounds, IInv, TypeOK, LeasedIsOpen, WaitingIsOpen,
       ExclusiveEnds, BudgetIsExact, IdleHoldsNothing, AckedWasDelivered, LeaseIsWorkedOn
  <2>2. ASSUME NEW w \in Workers, RunOnce(w) PROVE IInv'
    BY <2>2, ClaimKeeps, PublishKeeps, MarkPublishedKeeps, MarkFailedKeeps, OthersKeep
    DEF RunOnce
  <2>3. ASSUME NEW w \in Workers, Stop(w) \/ Crash(w) PROVE IInv'
    BY <2>3, EndsKeeps DEF Stop, Crash, IInv, TypeOK
  <2>4. CASE \/ \E w \in Workers : Restart(w)
             \/ \E r \in Rows : LeaseStalls(r) \/ LeaseLapses(r) \/ BackoffEnds(r)
    BY <2>4, OthersKeep
  <2> QED BY <2>1, <2>2, <2>3, <2>4 DEF Next
<1> QED BY <1>1, <1>2, PTL DEF Spec

\* The columns of the table and the workers keep their types.
THEOREM TypeCorrect == Spec => []TypeOK
<1>1. IInv => TypeOK
  BY DEF IInv
<1> QED BY <1>1, InductiveInvariant, PTL

\* No living worker walks away from a row it leases.
THEOREM LeasesWorkedOn == Spec => []LeaseIsWorkedOn
<1>1. IInv => LeaseIsWorkedOn
  BY DEF IInv
<1> QED BY <1>1, InductiveInvariant, PTL

\* A row ends once, and is out of circulation when it has.
THEOREM SettledOut == Spec => []SettledIsOut
<1>1. IInv => SettledIsOut
  BY DEF IInv, LeasedIsOpen, WaitingIsOpen, ExclusiveEnds, SettledIsOut, TypeOK
<1> QED BY <1>1, InductiveInvariant, PTL

\* A row is buried at its last attempt, whatever the limit.
THEOREM BudgetExact == Spec => []BudgetIsExact
<1>1. IInv => BudgetIsExact
  BY DEF IInv
<1> QED BY <1>1, InductiveInvariant, PTL
\* The status AtLeastOnce sees.
StatusOf(r) == IF published[r] THEN "published" ELSE IF dead[r] THEN "dead" ELSE "pending"
StatusMap == [r \in Rows |-> StatusOf(r)]

\* A post is a delivery of the abstract promise, or nothing.
LEMMA PublishPromised ==
  ASSUME IInv, NEW w \in Workers, Publish(w)
  PROVE  \E r \in Rows : Promise!Deliver(r) \/ UNCHANGED <<StatusMap, delivered>>
<1>1. PICK r \in batch[w] : delivered' \in {delivered, delivered \cup {r}}
  BY DEF Publish
<1>2. r \in Rows
  BY DEF IInv, TypeOK
<1>3. UNCHANGED StatusMap
  BY DEF Publish, row, StatusMap, StatusOf
<1> QED BY <1>1, <1>2, <1>3 DEF Promise!Deliver, StatusMap, StatusOf

\* An acknowledgement is one of the promise, or nothing.
LEMMA MarkPublishedPromised ==
  ASSUME IInv, NEW w \in Workers, MarkPublished(w)
  PROVE  \E r \in Rows : Promise!Acknowledge(r) \/ UNCHANGED <<StatusMap, delivered>>
<1>1. PICK r \in current[w] :
        \/ UNCHANGED published
        \/ owner[r] = w /\ published' = [published EXCEPT ![r] = TRUE]
  BY DEF MarkPublished
<1>2. r \in Rows /\ r \in delivered /\ UNCHANGED <<dead, delivered>>
  BY DEF IInv, TypeOK, AckedWasDelivered, MarkPublished
<1>3. CASE UNCHANGED published
  BY <1>2, <1>3 DEF StatusMap, StatusOf
<1>4. CASE owner[r] = w /\ published' = [published EXCEPT ![r] = TRUE]
  <2>1. ~published[r] /\ ~dead[r]
    BY <1>2, <1>4, OwnersDiffer DEF IInv, LeasedIsOpen
  <2>2. \A q \in Rows : published'[q] = IF q = r THEN TRUE ELSE published[q]
    BY <1>4 DEF IInv, TypeOK
  <2>3. StatusMap' = [StatusMap EXCEPT ![r] = "published"]
    <3>1. \A q \in Rows : StatusOf(q)' = IF q = r THEN "published" ELSE StatusOf(q)
      BY <1>2, <2>2 DEF StatusOf
    <3> QED BY <1>2, <3>1, Zenon DEF StatusMap
  <2>4. StatusMap[r] = "pending"
    BY <1>2, <2>1 DEF StatusMap, StatusOf
  <2> QED BY <1>2, <2>3, <2>4 DEF Promise!Acknowledge, StatusMap, StatusOf
<1> QED BY <1>1, <1>3, <1>4

\* A dead letter is an event given up, every other failure is nothing.
LEMMA MarkFailedPromised ==
  ASSUME IInv, NEW w \in Workers, MarkFailed(w)
  PROVE  \E r \in Rows : Promise!GiveUp(r) \/ UNCHANGED <<StatusMap, delivered>>
<1>1. PICK r \in current[w] :
        \/ UNCHANGED dead
        \/ owner[r] = w /\ dead' = [dead EXCEPT ![r] = attempts[r] + 1 >= MaxAttempts]
  BY DEF MarkFailed, Exhausted
<1>2. r \in Rows /\ UNCHANGED <<published, delivered>>
  BY DEF IInv, TypeOK, MarkFailed
<1>3. CASE UNCHANGED dead
  BY <1>2, <1>3 DEF StatusMap, StatusOf
<1>4. CASE owner[r] = w /\ dead' = [dead EXCEPT ![r] = attempts[r] + 1 >= MaxAttempts]
  <2> DEFINE exhausted == attempts[r] + 1 >= MaxAttempts
  <2>1. dead' = [dead EXCEPT ![r] = exhausted]
    BY <1>4
  <2> HIDE DEF exhausted
  <2>2. ~published[r] /\ ~dead[r]
    BY <1>2, <1>4, OwnersDiffer DEF IInv, LeasedIsOpen
  <2>3. \A q \in Rows : dead'[q] = IF q = r THEN exhausted ELSE dead[q]
    BY <2>1 DEF IInv, TypeOK
  <2>4. CASE exhausted
    <3>1. \A q \in Rows : StatusOf(q)' = IF q = r THEN "dead" ELSE StatusOf(q)
      BY <1>2, <2>2, <2>3, <2>4 DEF StatusOf
    <3>2. StatusMap' = [StatusMap EXCEPT ![r] = "dead"]
      BY <1>2, <3>1, Zenon DEF StatusMap
    <3>3. StatusMap[r] = "pending"
      BY <1>2, <2>2 DEF StatusMap, StatusOf
    <3> QED BY <1>2, <3>2, <3>3 DEF Promise!GiveUp, StatusMap, StatusOf
  <2>5. CASE ~exhausted
    <3>1. \A q \in Rows : StatusOf(q)' = StatusOf(q)
      BY <1>2, <2>2, <2>3, <2>5 DEF StatusOf
    <3> QED BY <1>2, <3>1, Zenon DEF StatusMap
  <2> QED BY <2>4, <2>5
<1> QED BY <1>1, <1>3, <1>4

\* The leased table implements the abstract promise of at-least-once delivery.
THEOREM RelayKeepsPromise == Spec => KeepsPromise
<1>1. Init => Promise!Init
  BY DEF Init, Promise!Init
<1>2. IInv /\ [Next]_vars => [Promise!Next]_<<StatusMap, delivered>>
  <2> SUFFICES ASSUME IInv, [Next]_vars
               PROVE  Promise!Next \/ UNCHANGED <<StatusMap, delivered>>
    OBVIOUS
  <2>1. CASE UNCHANGED <<published, dead, delivered>>
    BY <2>1 DEF StatusMap, StatusOf
  <2>2. ASSUME NEW w \in Workers, RunOnce(w)
        PROVE  Promise!Next \/ UNCHANGED <<StatusMap, delivered>>
    <3>1. CASE Claim(w) \/ MarkPublishedAborts(w)
      BY <2>1, <3>1 DEF Claim, MarkPublishedAborts, row
    <3> QED BY <2>2, <3>1, PublishPromised, MarkPublishedPromised, MarkFailedPromised
            DEF RunOnce, Promise!Next
  <2>3. CASE UNCHANGED vars
    BY <2>1, <2>3 DEF vars, row
  <2>4. ASSUME NEW w \in Workers, Stop(w) \/ Crash(w) \/ Restart(w)
        PROVE  UNCHANGED <<published, dead, delivered>>
    BY <2>4 DEF Stop, Crash, Restart, row
  <2>5. ASSUME NEW r \in Rows, LeaseStalls(r) \/ LeaseLapses(r) \/ BackoffEnds(r)
        PROVE  UNCHANGED <<published, dead, delivered>>
    BY <2>5 DEF LeaseStalls, LeaseLapses, BackoffEnds
  <2> QED BY <2>1, <2>2, <2>3, <2>4, <2>5 DEF Next
<1> QED BY <1>1, <1>2, InductiveInvariant, PTL
        DEF Spec, KeepsPromise, Promise!Spec, StatusMap, StatusOf
=============================================================================
