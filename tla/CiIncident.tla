----------------------------- MODULE CiIncident -----------------------------
(***************************************************************************)
(* The incident issue of the main branch: the operations-agent workflow.   *)
(* A run observes a commit, is dropped if main has moved on, and otherwise *)
(* opens, comments or closes the issue, one GitHub call at a time.  Every  *)
(* call can fail, before or after it took effect.  The job that reconciles *)
(* works in shell, and takes what a failed listing has printed for all of  *)
(* it.  scripts/agent-incident.mjs, which no workflow runs, makes the same *)
(* calls, but lists one page, and a listing that fails ends it.            *)
(***************************************************************************)
EXTENDS Naturals, Sequences, FiniteSets

CONSTANTS
  Runs,        \* workflow runs that the runners could work on at once
  MaxPushes,   \* bound on the commits of main
  MaxFaults    \* bound on the jobs and calls that fail

ASSUME BoundAssumption == MaxPushes \in Nat \ {0} /\ MaxFaults \in Nat

VARIABLES
  good,     \* the commits that pass verification
  main,     \* the newest commit
  stale,    \* the commits up to this one have a handoff or a review overdue
  checked,  \* the commits below or at this one have a finished CI run
  events,   \* results of CI runs on their way to the workflow
  pending,  \* the observation that waits for the running one, or Nothing
  runs,     \* what each workflow run is doing
  issues,   \* the issues with the incident's title, by age
  faults    \* failed jobs and calls so far

world == <<good, main, stale, checked>>
incidentVars == <<world, events, pending, runs, issues, faults>>

Commits == 1 .. MaxPushes

\* What started a run, the commit it is about, and its result.
Observations == [event : {"ci", "schedule"}, sha : Commits, success : BOOLEAN]
Nothing == [event |-> "ci", sha |-> 0, success |-> FALSE]

RunSteps == {"idle", "observe", "authorize", "confirm", "list", "comment", "close", "report"}
IdleRun == [step |-> "idle", seen |-> Nothing, left |-> {}, blind |-> FALSE]

\* Whether the run that opened an issue was one whose listing failed, is history.
Issues == [open : BOOLEAN, blind : BOOLEAN,
           reported : Commits, recovered : Commits \cup {0}]
Open == {i \in DOMAIN issues : issues[i].open}

IncidentInit ==
  /\ good \in SUBSET Commits
  /\ main = 1 /\ stale = 0 /\ checked = 0
  /\ events = {} /\ pending = Nothing
  /\ runs = [r \in Runs |-> IdleRun]
  /\ issues = <<>>
  /\ faults = 0

-----------------------------------------------------------------------------
(* Commits, their CI runs, and the runs of the workflow *)

\* Mutant: the workflow has no concurrency group.
GroupIsUnlimited == TRUE

\* The concurrency group: one run at a time.
GroupIsFree == \A r \in Runs : runs[r] = IdleRun

\* A commit may bring a new handoff and new reviews.
Push ==
  /\ main < MaxPushes
  /\ main' = main + 1
  /\ stale' \in {stale, IF stale = main THEN main' ELSE stale}
  /\ UNCHANGED <<good, checked, events, pending, runs, issues, faults>>

\* Two weeks pass without a new handoff, or a review interval without a review.
FallBehind ==
  /\ stale < main
  /\ stale' = main
  /\ UNCHANGED <<good, main, checked, events, pending, runs, issues, faults>>

\* The CI run of a commit is over; its own group cancels it when a newer
\* commit is there, and a cancelled run counts as a failed one.
CompleteCi ==
  /\ checked < main
  /\ checked' = checked + 1
  /\ events' = events \cup {[event |-> "ci", sha |-> checked',
                             success |-> checked' = main /\ checked' \in good]}
  /\ UNCHANGED <<good, main, stale, pending, runs, issues, faults>>

\* Events come in any order; one replaces an observation that still waits.
Deliver ==
  /\ \E o \in events : pending' = o /\ events' = events \ {o}
  /\ UNCHANGED <<world, runs, issues, faults>>

\* The weekly run, or one started by hand, verifies main itself.
Schedule ==
  /\ pending' = [event |-> "schedule", sha |-> main, success |-> main \in good]
  /\ UNCHANGED <<world, events, runs, issues, faults>>

StartRun(r) ==
  /\ pending # Nothing
  /\ runs[r] = IdleRun /\ GroupIsFree
  /\ runs' = [runs EXCEPT ![r] = [IdleRun EXCEPT !.step = "observe", !.seen = pending]]
  /\ pending' = Nothing
  /\ UNCHANGED <<world, events, issues, faults>>

-----------------------------------------------------------------------------
(* The jobs of a run *)

Goto(r, step) == runs' = [runs EXCEPT ![r].step = step]
EndRun(r) == runs' = [runs EXCEPT ![r] = IdleRun]

\* A job or a call fails, and nothing after it runs.
Fault(r) == EndRun(r) /\ faults < MaxFaults /\ faults' = faults + 1

\* agent:health fails for as long as the commit's handoff or a review is overdue.
Healthy(o) == o.sha > stale

\* What fails makes the result a failure: the health check, and once in a while
\* the checkout or the setup.  The job can also die and leave no outputs, and
\* then the next one finds no commit to compare.
Observe(r) ==
  /\ runs[r].step = "observe"
  /\ \/ /\ runs' = [runs EXCEPT ![r].step = "authorize",
                                 ![r].seen.success = @ /\ Healthy(runs[r].seen)]
        /\ UNCHANGED faults
     \/ /\ faults < MaxFaults /\ faults' = faults + 1
        /\ runs' = [runs EXCEPT ![r].step = "authorize", ![r].seen.success = FALSE]
     \/ Fault(r)
  /\ UNCHANGED <<world, events, pending, issues>>

\* Mutant: an observation that main has left behind is reconciled all the same.
AnyCommit(r) == TRUE

\* "Reject superseded observations".
IsCurrent(r) == runs[r].seen.sha = main

\* Reads the head of main, and for a CI event the newest CI run after it.
Authorize(r) ==
  /\ runs[r].step \in {"authorize", "confirm"}
  /\ \/ /\ ~IsCurrent(r)
        /\ EndRun(r) /\ UNCHANGED faults
     \/ /\ IsCurrent(r)
        /\ Goto(r, IF runs[r].step = "authorize" /\ runs[r].seen.event = "ci"
                   THEN "confirm" ELSE "list")
        /\ UNCHANGED faults
     \/ Fault(r)
  /\ UNCHANGED <<world, events, pending, issues>>

-----------------------------------------------------------------------------
(* "Reconcile the main health issue" *)

\* A call of the GitHub API: it takes effect and goes on, fails, or takes
\* effect and its answer is lost.
Call(r, effect, step) ==
  \/ /\ issues' = effect
     /\ IF step = "end" THEN EndRun(r) ELSE Goto(r, step)
     /\ UNCHANGED faults
  \/ issues' \in {issues, effect} /\ Fault(r)

\* Mutant: a success has nothing to reconcile.
AfterListFailures(r, found, blind) ==
  runs' = [runs EXCEPT ![r] =
             IF @.seen.success THEN IdleRun
             ELSE [@ EXCEPT !.step = "report", !.left = found, !.blind = blind]]

\* What to do about the issues that were listed.
AfterList(r, found, blind) ==
  runs' = [runs EXCEPT ![r] =
             IF @.seen.success /\ found = {} THEN IdleRun
             ELSE [@ EXCEPT !.step = IF runs[r].seen.success THEN "comment" ELSE "report",
                            !.left = found, !.blind = blind]]

\* The pages of the listing have the newest issues first.  One that fails ends
\* the listing, and the job goes on with the pages before it.
ListIssues(r) ==
  /\ runs[r].step = "list"
  /\ \/ AfterList(r, Open, FALSE) /\ UNCHANGED faults
     \/ /\ \E n \in 0 .. Len(issues) : AfterList(r, {i \in Open : i > n}, TRUE)
        /\ faults < MaxFaults /\ faults' = faults + 1
     \/ Fault(r)
  /\ UNCHANGED <<world, events, pending, issues>>

Newest(found) == CHOOSE i \in found : \A j \in found : j <= i

\* The recovery is commented on an issue before it is closed.
CommentRecovery(r) ==
  /\ runs[r].step = "comment"
  /\ LET i == Newest(runs[r].left)
     IN Call(r, [issues EXCEPT ![i].recovered = runs[r].seen.sha], "close")
  /\ UNCHANGED <<world, events, pending>>

CloseIssue(r) ==
  /\ runs[r].step = "close"
  /\ LET i == Newest(runs[r].left)
         rest == runs[r].left \ {i}
         closed == [issues EXCEPT ![i].open = FALSE]
     IN \/ /\ issues' = closed
           /\ runs' = [runs EXCEPT ![r] =
                IF rest = {} THEN IdleRun ELSE [@ EXCEPT !.step = "comment", !.left = rest]]
           /\ UNCHANGED faults
        \/ issues' \in {issues, closed} /\ Fault(r)
  /\ UNCHANGED <<world, events, pending>>

\* A failure is added to the incident that is open, or opens one.
ReportFailure(r) ==
  /\ runs[r].step = "report"
  /\ LET sha == runs[r].seen.sha
         found == runs[r].left
     IN Call(r, IF found # {} THEN [issues EXCEPT ![Newest(found)].reported = sha]
                ELSE Append(issues, [open |-> TRUE, blind |-> runs[r].blind,
                                     reported |-> sha, recovered |-> 0]),
             "end")
  /\ UNCHANGED <<world, events, pending>>

Work(r) ==
  \/ StartRun(r) \/ Observe(r) \/ Authorize(r)
  \/ ListIssues(r) \/ CommentRecovery(r) \/ CloseIssue(r) \/ ReportFailure(r)

IncidentNext ==
  \/ Push \/ FallBehind \/ CompleteCi \/ Deliver \/ Schedule
  \/ \E r \in Runs : Work(r)

IncidentSpec == IncidentInit /\ [][IncidentNext]_incidentVars

\* CI runs and jobs have timeouts, and the schedule fires every week.
Fairness ==
  /\ WF_incidentVars(CompleteCi) /\ WF_incidentVars(Deliver) /\ WF_incidentVars(Schedule)
  /\ WF_incidentVars(\E r \in Runs : Work(r))
FairIncidentSpec == IncidentSpec /\ Fairness

-----------------------------------------------------------------------------
(* Properties *)

IncidentTypeOK ==
  /\ good \subseteq Commits /\ main \in Commits
  /\ stale \in 0 .. main /\ checked \in 0 .. main
  /\ events \subseteq Observations
  /\ pending \in Observations \cup {Nothing}
  /\ \A r \in Runs :
       /\ runs[r].step \in RunSteps
       /\ runs[r].seen \in Observations \cup {Nothing}
       /\ runs[r].left \subseteq DOMAIN issues
       /\ runs[r].blind \in BOOLEAN
  /\ issues \in Seq(Issues)
  /\ faults \in 0 .. MaxFaults

\* MAINTENANCE.md: "Failure creates or updates one deterministic Issue."  At no
\* time are two of them open, whichever calls failed in between.
OneDeterministicIssue == \A i, j \in Open : i = j

\* What is left of that promise: of two issues that are open, the younger one
\* was opened by a run that could not list the issues.  No two runs that can,
\* and no call that fails after it took effect, open a second issue.
OnlyBlindRunsDuplicate == \A i, j \in Open : i < j => issues[j].blind

\* An issue is closed only with a recovery on it that is at least as recent
\* as the last failure reported on it: no late observation of an old commit
\* and no half-done recovery closes an incident that is still going on.
ClosedMeansRecovered ==
  \A i \in DOMAIN issues :
    ~issues[i].open => issues[i].recovered >= issues[i].reported

\* When main comes to rest, so does the incident: it is open exactly when the
\* last commit does not pass or its handoff or a review is overdue, whichever
\* runs and calls were lost.
IssueTellsTheTruth == <>[](Open # {} <=> main \notin good \/ main <= stale)
=============================================================================
