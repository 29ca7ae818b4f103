---------------------------- MODULE ControlPlane ----------------------------
(***************************************************************************)
(* The versioned control plane under .agent and the commands that read it: *)
(* scripts/check-agent.mjs and the check, health, snapshot and resume      *)
(* commands of scripts/agent-ops.mjs.  Maintainers rewrite the manifest,   *)
(* the state and the cursor one file at a time while sessions read them,   *)
(* in an order of their own, and write what they found into a runtime file *)
(* that two sessions may share.  The maintainer registry belongs to no     *)
(* handoff: what it can do to a command is part of Refuses.                *)
(*                                                                         *)
(* Handoffs only go forward here.  MAINTENANCE.md lets a maintainer revert *)
(* a wrong one; nothing is claimed of a command that reads across that.    *)
(***************************************************************************)
EXTENDS Naturals

CONSTANTS
  Sessions,   \* processes of the command line
  MaxHandoffs \* bound on the handoffs

ASSUME HandoffAssumption == MaxHandoffs \in Nat

VARIABLES
  position, \* the phase and checkpoint of every handoff, as a number
  latest,   \* the handoff the maintainers are at
  docs,     \* the handoff every document is of
  cli,      \* what every session is doing
  moments,  \* what the documents were together while a session read them
  file      \* the runtime file

controlVars == <<position, latest, docs, cli, moments, file>>

ControlFiles == {"manifest", "state", "cursor"}
Handoffs == 0 .. MaxHandoffs
Versions == [ControlFiles -> Handoffs]

Steps == {"idle", "agent", "ops", "write", "rename"}
Idle == [step |-> "idle", writes |-> FALSE, unread |-> {},
         seen |-> [d \in ControlFiles |-> 0]]

Files == [is : {"missing", "torn", "whole"}, snapshot : Versions]
NoFile == [is |-> "missing", snapshot |-> Idle.seen]

\* Phases are passed in phase_order, at most one of them by a handoff.
PhaseOrders ==
  {f \in [Handoffs -> Handoffs] :
     f[0] = 0 /\ \A m, n \in Handoffs : m <= n => f[n] - f[m] \in 0 .. (n - m)}

ControlInit ==
  /\ position \in PhaseOrders
  /\ latest = 0
  /\ docs = [d \in ControlFiles |-> 0]
  /\ cli = [s \in Sessions |-> Idle]
  /\ moments = [s \in Sessions |-> {}]
  /\ file = NoFile

-----------------------------------------------------------------------------
(* The maintainers *)

Reading(s) == cli[s].step \in {"agent", "ops"}

\* The next handoff is begun when the one before it is complete.
BeginHandoff ==
  /\ latest < MaxHandoffs
  /\ \A d \in ControlFiles : docs[d] = latest
  /\ latest' = latest + 1
  /\ UNCHANGED <<position, docs, cli, moments, file>>

\* A file is replaced as a whole, by an editor or by a checkout.
SaveDocument(d) ==
  /\ docs[d] < latest
  /\ docs' = [docs EXCEPT ![d] = latest]
  /\ moments' = [s \in Sessions |-> IF Reading(s) THEN moments[s] \cup {docs'} ELSE moments[s]]
  /\ UNCHANGED <<position, latest, cli, file>>

-----------------------------------------------------------------------------
(* A session *)

\* check-agent reads its files one after another, agent-ops all at once.
Turn == [manifest |-> 1, state |-> 2, cursor |-> 3]
InTurn(s, d) == cli[s].step = "agent" => \A e \in cli[s].unread : Turn[d] <= Turn[e]

Read(step, writes) ==
  [Idle EXCEPT !.step = step, !.writes = writes, !.unread = ControlFiles]

\* "check" is both scripts, "health" inspects, "snapshot" and "resume" also
\* write; a bad option or session id ends the command before it reads.
StartCommand(s) ==
  /\ cli[s].step = "idle"
  /\ \E step \in {"agent", "ops"}, writes \in BOOLEAN :
       /\ step = "agent" => ~writes
       /\ cli' = [cli EXCEPT ![s] = Read(step, writes)]
  /\ moments' = [moments EXCEPT ![s] = {docs}]
  /\ UNCHANGED <<position, latest, docs, file>>

ReadDocument(s, d) ==
  /\ Reading(s) /\ d \in cli[s].unread /\ InTurn(s, d)
  /\ cli' = [cli EXCEPT ![s].unread = @ \ {d}, ![s].seen[d] = docs[d]]
  /\ UNCHANGED <<position, latest, docs, moments, file>>

\* The manifest and the cursor are at the same phase and checkpoint.
SamePosition(v) == position[v["manifest"]] = position[v["cursor"]]

\* Mutant: the single in-progress phase is not compared with the manifest's.
AgentGateCursorOnly(v) == SamePosition(v)

\* check-agent: the manifest identifies the single in-progress phase and
\* checkpoint of the state, and the cursor is at them.
AgentGate(v) == position[v["state"]] = position[v["manifest"]] /\ SamePosition(v)

\* Mutant: the cursor's state_updated_at is not looked at.
InspectsPositionOnly(v) == SamePosition(v)

\* inspectControlPlane: the cursor is the one written for this state.
Inspects(v) == SamePosition(v) /\ v["state"] = v["cursor"]

End(s) ==
  /\ cli' = [cli EXCEPT ![s] = Idle]
  /\ moments' = [moments EXCEPT ![s] = {}]

\* check-agent is followed by agent-ops, a snapshot by its file; stale reviews
\* fail "health".
PassGate(s) ==
  /\ Reading(s) /\ cli[s].unread = {}
  /\ \/ /\ cli[s].step = "agent" /\ AgentGate(cli[s].seen)
        /\ cli' = [cli EXCEPT ![s] = Read("ops", FALSE)]
        /\ moments' = [moments EXCEPT ![s] = {docs}]
     \/ /\ cli[s].step = "ops" /\ Inspects(cli[s].seen) /\ cli[s].writes
        /\ cli' = [cli EXCEPT ![s].step = "write"]
        /\ moments' = [moments EXCEPT ![s] = {}]
     \/ /\ cli[s].step = "ops" /\ Inspects(cli[s].seen) /\ ~cli[s].writes
        /\ End(s)
  /\ UNCHANGED <<position, latest, docs, file>>

Refuses(s, step) ==
  /\ cli[s].step = step /\ cli[s].unread = {}
  /\ End(s)
  /\ UNCHANGED <<position, latest, docs, file>>

\* check-agent also looks for markers in ignore files and workflows,
CheckAgentRefuses(s) == Refuses(s, "agent")

\* and agent-ops at owners, owned paths, review dates and Git.
InspectionRefuses(s) == Refuses(s, "ops")

\* Mutant: the snapshot is written over the runtime file.
BeginWriteInPlace(s) ==
  /\ cli[s].step = "write"
  /\ cli' = [cli EXCEPT ![s].step = "rename"]
  /\ file' = [NoFile EXCEPT !.is = "torn"]
  /\ UNCHANGED <<position, latest, docs, moments>>

\* atomicWriteJson fills a temporary file no other process has the name of,
BeginWrite(s) ==
  /\ cli[s].step = "write"
  /\ cli' = [cli EXCEPT ![s].step = "rename"]
  /\ UNCHANGED <<position, latest, docs, moments, file>>

\* and renames it when all of it is written; the summary of a CI job comes
\* after that, and its failure undoes nothing.
Rename(s) ==
  /\ cli[s].step = "rename"
  /\ file' = [is |-> "whole", snapshot |-> cli[s].seen]
  /\ End(s)
  /\ UNCHANGED <<position, latest, docs>>

\* The process ends, or is killed, or a call of it fails.
StopCommand(s) ==
  /\ cli[s].step # "idle"
  /\ End(s)
  /\ UNCHANGED <<position, latest, docs, file>>

Session(s) ==
  \/ StartCommand(s)
  \/ \E d \in ControlFiles : ReadDocument(s, d)
  \/ PassGate(s) \/ CheckAgentRefuses(s) \/ InspectionRefuses(s)
  \/ BeginWrite(s) \/ Rename(s) \/ StopCommand(s)

ControlNext ==
  \/ BeginHandoff
  \/ \E d \in ControlFiles : SaveDocument(d)
  \/ \E s \in Sessions : Session(s)

ControlSpec == ControlInit /\ [][ControlNext]_controlVars

-----------------------------------------------------------------------------
(* Properties *)

ControlTypeOK ==
  /\ position \in PhaseOrders
  /\ latest \in Handoffs
  /\ docs \in Versions
  /\ cli \in [Sessions -> [step : Steps, writes : BOOLEAN,
                           unread : SUBSET ControlFiles, seen : Versions]]
  /\ moments \in [Sessions -> SUBSET Versions]
  /\ file \in Files

\* What an inspection says of the documents: whose state and cursor they are,
\* and the phase and checkpoint they are at.
SaysOf(v) == <<v["state"], v["cursor"], position[v["manifest"]]>>

\* A command that passes has seen the control plane as it was at one moment
\* while it read, although it read the files at different moments and they
\* were being replaced: no next action is shown with another handoff's phase.
InspectionWasTrue ==
  \A s \in Sessions :
    cli[s].step = "ops" /\ cli[s].unread = {} /\ Inspects(cli[s].seen) =>
      \E v \in moments[s] : SaysOf(v) = SaysOf(cli[s].seen)

\* The same of check-agent: when it passes, the three documents were at one
\* phase and checkpoint together at some moment while it read.
AgentCheckWasTrue ==
  \A s \in Sessions :
    cli[s].step = "agent" /\ cli[s].unread = {} /\ AgentGate(cli[s].seen) =>
      \E v \in moments[s] :
        \A d \in ControlFiles : position[v[d]] = position[cli[s].seen["manifest"]]

\* The runtime file is at every moment missing or a whole snapshot of one
\* handoff, whoever writes it and wherever a writer is stopped.
RuntimeFileIsWhole ==
  file.is # "missing" => file.is = "whole" /\ Inspects(file.snapshot)
=============================================================================
