---------------------------- MODULE BuildPromotion ----------------------------
(***************************************************************************)
(* scripts/build.mjs: buildRuntime stages a candidate, verifies it and     *)
(* promotes it to dist by renaming directories.  Builds run in processes   *)
(* of their own, several may overlap, each step may fail and each process  *)
(* may be killed.  A directory holds a candidate: whose it is, and whether *)
(* its bytes are those of its manifest.  Renaming a directory onto one     *)
(* that is there fails (no candidate is empty).  A rename is one step; a   *)
(* recursive removal is not: it can fail or be killed when a part of the   *)
(* directory is gone.                                                      *)
(***************************************************************************)
EXTENDS Naturals

CONSTANTS
  Builds,
  Previous,    \* the builder of the dist that was there before
  None,
  MaxRefusals  \* bound: how often the file system refuses a rename or a removal

ASSUME NamesAssumption == Previous \notin Builds /\ None \notin Builds /\ None # Previous
ASSUME MaxRefusalsAssumption == MaxRefusals \in Nat

VARIABLES
  pc,     \* where each build is
  stage,  \* the staging directory of each build
  backup, \* the directory it moves the old dist to
  moved,  \* movedExistingOutput
  placed, \* has its candidate become dist? (history)
  dist,   \* the directory dist
  refusals

vars == <<pc, stage, backup, moved, placed, dist, refusals>>

-----------------------------------------------------------------------------
Candidates == [by : Builds \cup {Previous}, sound : BOOLEAN]
ASSUME NoneAssumption == None \notin Candidates
Directories == Candidates \cup {None}
Ended == {"promoted", "failed", "killed"}
Running ==
  {"clean", "fill", "verify", "stat", "move_away", "move_in", "restore", "drop",
   "undo", "clean_up"}

\* The state before the first builds: dist holds the candidate of an earlier
\* one, or there is none yet.
Init ==
  /\ pc = [b \in Builds |-> "clean"]
  /\ stage = [b \in Builds |-> None]
  /\ backup = [b \in Builds |-> None]
  /\ moved = [b \in Builds |-> FALSE]
  /\ placed = [b \in Builds |-> FALSE]
  /\ dist \in {[by |-> Previous, sound |-> TRUE], None}
  /\ refusals = 0

Goto(b, step) == pc' = [pc EXCEPT ![b] = step]

Refuse == refusals < MaxRefusals /\ refusals' = refusals + 1

\* What is left of a directory while it is being removed.
PartOf(d) == [d EXCEPT !.sound = FALSE]

-----------------------------------------------------------------------------
Clean(b) ==
  /\ pc[b] = "clean"
  /\ stage' = [stage EXCEPT ![b] = None]
  /\ Goto(b, "fill")
  /\ UNCHANGED <<backup, moved, placed, dist, refusals>>

\* package.json cannot be read, or the path cannot be cleared.
CleanFails(b) ==
  /\ pc[b] = "clean"
  /\ Refuse
  /\ Goto(b, "failed")
  /\ UNCHANGED <<stage, backup, moved, placed, dist>>

\* The sources are copied and the manifest is written, or a part of it all.
Fill(b) ==
  /\ pc[b] = "fill"
  /\ \E sound \in BOOLEAN : stage' = [stage EXCEPT ![b] = [by |-> b, sound |-> sound]]
  /\ Goto(b, "verify")
  /\ UNCHANGED <<backup, moved, placed, dist, refusals>>

FillFails(b) ==
  /\ pc[b] = "fill"
  /\ stage' = [stage EXCEPT ![b] = [by |-> b, sound |-> FALSE]]
  /\ Goto(b, "clean_up")
  /\ UNCHANGED <<backup, moved, placed, dist, refusals>>

\* Mutant: the manifest is not read again.
Unverified(b) == TRUE

Verified(b) == stage[b].sound

Verify(b) ==
  /\ pc[b] = "verify"
  /\ Goto(b, IF Verified(b) THEN "stat" ELSE "clean_up")
  /\ UNCHANGED <<stage, backup, moved, placed, dist, refusals>>

\* An existing dist is looked for, and moved away in a step of its own; that it
\* is not there, or no more, is no error.
Stat(b) ==
  /\ pc[b] = "stat"
  /\ Goto(b, IF dist = None THEN "move_in" ELSE "move_away")
  /\ UNCHANGED <<stage, backup, moved, placed, dist, refusals>>

\* Mutant: the old dist is removed, not kept.
MoveAwayDrops(b) ==
  /\ pc[b] = "move_away"
  /\ moved' = [moved EXCEPT ![b] = dist # None]
  /\ dist' = None
  /\ Goto(b, "move_in")
  /\ UNCHANGED <<stage, backup, placed, refusals>>

MoveAway(b) ==
  /\ pc[b] = "move_away"
  /\ backup' = [backup EXCEPT ![b] = dist]
  /\ moved' = [moved EXCEPT ![b] = dist # None]
  /\ dist' = None
  /\ Goto(b, "move_in")
  /\ UNCHANGED <<stage, placed, refusals>>

MoveIn(b) ==
  /\ pc[b] = "move_in"
  /\ dist = None
  /\ dist' = stage[b]
  /\ stage' = [stage EXCEPT ![b] = None]
  /\ placed' = [placed EXCEPT ![b] = TRUE]
  /\ Goto(b, IF moved[b] THEN "drop" ELSE "promoted")
  /\ UNCHANGED <<backup, moved, refusals>>

\* Mutant: the catch does not restore what was moved.
AfterFailedMoveNone(b) == "undo"

AfterFailedMove(b) == IF moved[b] THEN "restore" ELSE "undo"

\* Another build's dist is in the way, or the file system refuses.
MoveInFails(b) ==
  /\ pc[b] = "move_in"
  /\ IF dist = None THEN Refuse ELSE UNCHANGED refusals
  /\ Goto(b, AfterFailedMove(b))
  /\ UNCHANGED <<stage, backup, moved, placed, dist>>

\* The old dist comes back.
Restore(b) ==
  /\ pc[b] = "restore" /\ dist = None
  /\ dist' = backup[b]
  /\ backup' = [backup EXCEPT ![b] = None]
  /\ Goto(b, "undo")
  /\ UNCHANGED <<stage, moved, placed, refusals>>

\* It stays away: another build's dist is in the way, or the file system
\* refuses again.
RestoreFails(b) ==
  /\ pc[b] = "restore"
  /\ IF dist = None THEN Refuse ELSE UNCHANGED refusals
  /\ Goto(b, "undo")
  /\ UNCHANGED <<stage, backup, moved, placed, dist>>

\* The old dist is removed, file by file,
DropPart(b) ==
  /\ pc[b] = "drop" /\ backup[b] # None /\ backup[b].sound
  /\ backup' = [backup EXCEPT ![b] = PartOf(@)]
  /\ UNCHANGED <<pc, stage, moved, placed, dist, refusals>>

\* until it is gone.
Drop(b) ==
  /\ pc[b] = "drop"
  /\ backup' = [backup EXCEPT ![b] = None]
  /\ Goto(b, "promoted")
  /\ UNCHANGED <<stage, moved, placed, dist, refusals>>

\* stat, the first rename and the removal of the backup may fail with an error
\* of their own.
StepFails(b) ==
  /\ pc[b] \in {"stat", "move_away", "drop"}
  /\ Refuse
  /\ Goto(b, "undo")
  /\ UNCHANGED <<stage, backup, moved, placed, dist>>

\* The catch clause of promoteDirectory,
Undo(b) ==
  /\ pc[b] = "undo"
  /\ stage' = [stage EXCEPT ![b] = None]
  /\ Goto(b, "clean_up")
  /\ UNCHANGED <<backup, moved, placed, dist, refusals>>

\* Mutant: buildRuntime leaves the staging directory to promoteDirectory.
CleanUpNothing(b) ==
  /\ pc[b] = "clean_up"
  /\ Goto(b, "failed")
  /\ UNCHANGED <<stage, backup, moved, placed, dist, refusals>>

\* and the one of buildRuntime, which removes the staging directory once more.
CleanUp(b) ==
  /\ pc[b] = "clean_up"
  /\ stage' = [stage EXCEPT ![b] = None]
  /\ Goto(b, "failed")
  /\ UNCHANGED <<backup, moved, placed, dist, refusals>>

\* Both remove it file by file,
UndoPart(b) ==
  /\ pc[b] \in {"undo", "clean_up"} /\ stage[b] # None /\ stage[b].sound
  /\ stage' = [stage EXCEPT ![b] = PartOf(@)]
  /\ UNCHANGED <<pc, backup, moved, placed, dist, refusals>>

\* and a removal that fails leaves what is left.
RemovalFails(b) ==
  /\ pc[b] \in {"undo", "clean_up"} /\ stage[b] # None
  /\ Refuse
  /\ Goto(b, IF pc[b] = "undo" THEN "clean_up" ELSE "failed")
  /\ UNCHANGED <<stage, backup, moved, placed, dist>>

Kill(b) ==
  /\ pc[b] \in Running
  /\ Goto(b, "killed")
  /\ UNCHANGED <<stage, backup, moved, placed, dist, refusals>>

Build(b) ==
  \/ Clean(b) \/ CleanFails(b) \/ Fill(b) \/ FillFails(b) \/ Verify(b) \/ Stat(b)
  \/ MoveAway(b) \/ MoveIn(b) \/ MoveInFails(b) \/ Restore(b) \/ RestoreFails(b)
  \/ DropPart(b) \/ Drop(b) \/ StepFails(b)
  \/ UndoPart(b) \/ Undo(b) \/ CleanUp(b) \/ RemovalFails(b) \/ Kill(b)

Next == \E b \in Builds : Build(b)

Spec == Init /\ [][Next]_vars

-----------------------------------------------------------------------------
(* Properties *)

TypeOK ==
  /\ pc \in [Builds -> Running \cup Ended]
  /\ stage \in [Builds -> Directories]
  /\ backup \in [Builds -> Directories]
  /\ moved \in [Builds -> BOOLEAN]
  /\ placed \in [Builds -> BOOLEAN]
  /\ refusals \in 0 .. MaxRefusals
  /\ dist \in Directories

\* BUILD-RELEASE.md: dist is promoted only after its manifest is re-read.
\* However builds overlap, fail or die, and although removals are not atomic,
\* dist is a whole verified candidate; and so is the dist a build has moved away,
\* for as long as the build's own candidate has not taken its place.
DistIsVerified ==
  /\ dist # None => dist.sound
  /\ \A b \in Builds : backup[b] # None /\ ~placed[b] => backup[b].sound

\* BUILD-RELEASE.md: a failed build leaves the previous candidate intact.  Once
\* a build has moved a dist away there is a whole candidate, in dist or in a
\* backup, whatever fails and whoever is killed in the middle of a removal.
CandidateSurvives ==
  (\E b \in Builds : moved[b]) =>
    \E d \in {dist} \cup {backup[b] : b \in Builds} : d # None /\ d.sound

\* A promotion that fails restores what it moved: when all builds have ended by
\* themselves and the file system has not refused twice, dist is there if one of
\* them had moved it away.
DistComesBack ==
  /\ \A b \in Builds : pc[b] \in {"promoted", "failed"}
  /\ \E b \in Builds : moved[b]
  /\ refusals < 2
  => dist # None

\* A build that was promoted leaves neither a staging directory nor a backup.
\* One that fails leaves its staging directory only if the file system refused
\* to remove it, and even refused twice if the build had moved a dist away.
NoDebris ==
  \A b \in Builds :
    /\ pc[b] = "promoted" => stage[b] = None /\ backup[b] = None
    /\ pc[b] = "failed" /\ stage[b] # None => refusals >= IF moved[b] THEN 2 ELSE 1
=============================================================================
