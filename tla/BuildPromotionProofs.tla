------------------------ MODULE BuildPromotionProofs ------------------------
(* Theorems about what the repository builds: BuildPromotion, for any builds  *)
(* and any number of refusals, and Projections, for any documents and edits.  *)
EXTENDS BuildPromotion, Projections, TLAPS

Waiting == {"clean", "fill", "verify", "stat", "move_away"}

\* What a build has in its hands at each step.
HandsOf(b) ==
  /\ pc[b] \in Waiting => backup[b] = None /\ moved[b] = FALSE
  /\ pc[b] \in Waiting \cup {"move_in", "restore"} => placed[b] = FALSE
  /\ pc[b] = "clean" => stage[b] = None
  /\ pc[b] = "verify" => stage[b] # None
  /\ pc[b] \in {"stat", "move_away", "move_in"} => stage[b] # None /\ stage[b].sound
  /\ pc[b] \in {"move_in", "restore", "drop"} => (moved[b] <=> backup[b] # None)
  /\ pc[b] \in {"restore", "drop"} => moved[b]
  /\ pc[b] = "drop" => placed[b]
  /\ pc[b] \in {"drop", "promoted"} => stage[b] = None
  /\ pc[b] = "promoted" => backup[b] = None

Hands == \A b \in Builds : HandsOf(b)

\* What a build that fails still has to remove, and what that has cost.
DebrisOf(b) ==
  stage[b] # None =>
    /\ pc[b] = "clean_up" /\ moved[b] => refusals >= 1
    /\ pc[b] = "failed" => refusals >= 1
    /\ pc[b] = "failed" /\ moved[b] => refusals >= 2

Debris == \A b \in Builds : DebrisOf(b)

Sound(d) == d # None => d.sound
AllSound == Sound(dist) /\ \A b \in Builds : placed[b] \/ Sound(backup[b])

\* A whole candidate that no build is about to remove.
IsKept == dist # None \/ \E c \in Builds : backup[c] # None /\ backup[c].sound /\ pc[c] # "drop"
Kept == (\E b \in Builds : moved[b]) => IsKept

\* Somebody still has the dist that was moved away and will bring it back,
\* unless the file system refuses a second time.
Holds(b) ==
  /\ moved[b]
  /\ \/ pc[b] \in {"killed", "move_in"}
     \/ pc[b] = "restore" /\ refusals = 1
Held == dist = None /\ (\E b \in Builds : moved[b]) /\ refusals < 2 =>
          \E b \in Builds : Holds(b)

-----------------------------------------------------------------------------
\* Directories and builds keep their types, whatever is promoted or refused.
THEOREM TypeCorrect == Spec => []TypeOK
<1>1. Init => TypeOK
  <2>1. [by |-> Previous, sound |-> TRUE] \in Candidates
    BY DEF Candidates
  <2>2. 0 \in 0 .. MaxRefusals
    BY MaxRefusalsAssumption
  <2> QED BY <2>1, <2>2 DEF Init, TypeOK, Running, Directories
<1>2. TypeOK /\ [Next]_vars => TypeOK'
  <2> SUFFICES ASSUME TypeOK, [Next]_vars PROVE TypeOK'
    OBVIOUS
  <2>1. CASE UNCHANGED vars
    BY <2>1 DEF vars, TypeOK
  <2>2. ASSUME NEW b \in Builds, Build(b) PROVE TypeOK'
    <3> USE MaxRefusalsAssumption DEF TypeOK, Running, Ended, Directories, Candidates
    <3>1. CASE Clean(b)
      BY <3>1 DEF Clean, Goto
    <3>2. CASE CleanFails(b)
      BY <3>2 DEF CleanFails, Goto, Refuse
    <3>3. CASE Fill(b)
      BY <3>3 DEF Fill, Goto
    <3>4. CASE FillFails(b)
      BY <3>4 DEF FillFails, Goto
    <3>5. CASE Verify(b)
      BY <3>5 DEF Verify, Goto, Verified
    <3>6. CASE Stat(b)
      BY <3>6 DEF Stat, Goto
    <3>7. CASE MoveAway(b)
      BY <3>7 DEF MoveAway, Goto
    <3>8. CASE MoveIn(b)
      BY <3>8 DEF MoveIn, Goto
    <3>9. CASE MoveInFails(b)
      BY <3>9 DEF MoveInFails, Goto, AfterFailedMove, Refuse
    <3>10. CASE Restore(b)
      BY <3>10 DEF Restore, Goto
    <3>11. CASE RestoreFails(b)
      BY <3>11 DEF RestoreFails, Goto, Refuse
    <3>12. CASE DropPart(b)
      <4>1. backup[b] \in Candidates
        BY <3>12 DEF DropPart
      <4>2. PartOf(backup[b]) \in Candidates
        BY <4>1 DEF PartOf
      <4> QED BY <3>12, <4>2 DEF DropPart
    <3>13. CASE Drop(b)
      BY <3>13 DEF Drop, Goto
    <3>14. CASE StepFails(b)
      BY <3>14 DEF StepFails, Goto, Refuse
    <3>15. CASE UndoPart(b)
      <4>1. stage[b] \in Candidates
        BY <3>15 DEF UndoPart
      <4>2. PartOf(stage[b]) \in Candidates
        BY <4>1 DEF PartOf
      <4> QED BY <3>15, <4>2 DEF UndoPart
    <3>16. CASE Undo(b)
      BY <3>16 DEF Undo, Goto
    <3>17. CASE CleanUp(b)
      BY <3>17 DEF CleanUp, Goto
    <3>18. CASE RemovalFails(b)
      BY <3>18 DEF RemovalFails, Goto, Refuse
    <3>19. CASE Kill(b)
      BY <3>19 DEF Kill, Goto
    <3> QED BY <2>2, <3>1, <3>2, <3>3, <3>4, <3>5, <3>6, <3>7, <3>8, <3>9, <3>10, <3>11, <3>12, <3>13, <3>14, <3>15, <3>16, <3>17, <3>18, <3>19 DEF Build
  <2> QED BY <2>1, <2>2 DEF Next
<1> QED BY <1>1, <1>2, PTL DEF Spec

-----------------------------------------------------------------------------
\* What a build has in its hands follows from its step alone.
LEMMA HandsKept ==
  ASSUME TypeOK, Hands, [Next]_vars
  PROVE  Hands'
<1>1. CASE UNCHANGED vars
  BY <1>1 DEF vars, Hands, HandsOf, Waiting
<1>2. ASSUME NEW b \in Builds, Build(b) PROVE Hands'
  <2>1. CASE Clean(b)
    <3>1. HandsOf(b)'
      BY <2>1 DEF TypeOK, Hands, HandsOf, Waiting, Clean, Goto
    <3>2. \A c \in Builds \ {b} : HandsOf(c)'
      BY <2>1 DEF TypeOK, Hands, HandsOf, Waiting, Clean, Goto
    <3> QED BY <3>1, <3>2 DEF Hands
  <2>2. CASE CleanFails(b)
    <3>1. HandsOf(b)'
      BY <2>2 DEF TypeOK, Hands, HandsOf, Waiting, CleanFails, Goto, Refuse
    <3>2. \A c \in Builds \ {b} : HandsOf(c)'
      BY <2>2 DEF TypeOK, Hands, HandsOf, Waiting, CleanFails, Goto, Refuse
    <3> QED BY <3>1, <3>2 DEF Hands
  <2>3. CASE Fill(b)
    <3>1. HandsOf(b)'
      BY <2>3, NoneAssumption DEF TypeOK, Hands, HandsOf, Waiting, Fill, Goto, Candidates
    <3>2. \A c \in Builds \ {b} : HandsOf(c)'
      BY <2>3 DEF TypeOK, Hands, HandsOf, Waiting, Fill, Goto
    <3> QED BY <3>1, <3>2 DEF Hands
  <2>4. CASE FillFails(b)
    <3>1. HandsOf(b)'
      BY <2>4, NoneAssumption DEF TypeOK, Hands, HandsOf, Waiting, FillFails, Goto
    <3>2. \A c \in Builds \ {b} : HandsOf(c)'
      BY <2>4 DEF TypeOK, Hands, HandsOf, Waiting, FillFails, Goto
    <3> QED BY <3>1, <3>2 DEF Hands
  <2>5. CASE Verify(b)
    <3>1. HandsOf(b)'
      BY <2>5 DEF TypeOK, Hands, HandsOf, Waiting, Verify, Goto, Verified
    <3>2. \A c \in Builds \ {b} : HandsOf(c)'
      BY <2>5 DEF TypeOK, Hands, HandsOf, Waiting, Verify, Goto, Verified
    <3> QED BY <3>1, <3>2 DEF Hands
  <2>6. CASE Stat(b)
    <3>1. HandsOf(b)'
      BY <2>6 DEF TypeOK, Hands, HandsOf, Waiting, Stat, Goto
    <3>2. \A c \in Builds \ {b} : HandsOf(c)'
      BY <2>6 DEF TypeOK, Hands, HandsOf, Waiting, Stat, Goto
    <3> QED BY <3>1, <3>2 DEF Hands
  <2>7. CASE MoveAway(b)
    <3>1. HandsOf(b)'
      BY <2>7 DEF TypeOK, Hands, HandsOf, Waiting, MoveAway, Goto
    <3>2. \A c \in Builds \ {b} : HandsOf(c)'
      BY <2>7 DEF TypeOK, Hands, HandsOf, Waiting, MoveAway, Goto
    <3> QED BY <3>1, <3>2 DEF Hands
  <2>8. CASE MoveIn(b)
    <3>1. HandsOf(b)'
      BY <2>8 DEF TypeOK, Hands, HandsOf, Waiting, MoveIn, Goto
    <3>2. \A c \in Builds \ {b} : HandsOf(c)'
      BY <2>8 DEF TypeOK, Hands, HandsOf, Waiting, MoveIn, Goto
    <3> QED BY <3>1, <3>2 DEF Hands
  <2>9. CASE MoveInFails(b)
    <3>1. HandsOf(b)'
      BY <2>9 DEF TypeOK, Hands, HandsOf, Waiting, MoveInFails, Goto, AfterFailedMove, Refuse
    <3>2. \A c \in Builds \ {b} : HandsOf(c)'
      BY <2>9 DEF TypeOK, Hands, HandsOf, Waiting, MoveInFails, Goto, AfterFailedMove, Refuse
    <3> QED BY <3>1, <3>2 DEF Hands
  <2>10. CASE Restore(b)
    <3>1. HandsOf(b)'
      BY <2>10 DEF TypeOK, Hands, HandsOf, Waiting, Restore, Goto
    <3>2. \A c \in Builds \ {b} : HandsOf(c)'
      BY <2>10 DEF TypeOK, Hands, HandsOf, Waiting, Restore, Goto
    <3> QED BY <3>1, <3>2 DEF Hands
  <2>11. CASE RestoreFails(b)
    <3>1. HandsOf(b)'
      BY <2>11 DEF TypeOK, Hands, HandsOf, Waiting, RestoreFails, Goto, Refuse
    <3>2. \A c \in Builds \ {b} : HandsOf(c)'
      BY <2>11 DEF TypeOK, Hands, HandsOf, Waiting, RestoreFails, Goto, Refuse
    <3> QED BY <3>1, <3>2 DEF Hands
  <2>12. CASE DropPart(b)
    <3>1. HandsOf(b)'
      <4>1. backup[b] \in Candidates
        BY <2>12 DEF DropPart, TypeOK, Directories
      <4>2. PartOf(backup[b]) \in Candidates
        BY <4>1 DEF PartOf, Candidates
      <4>3. backup'[b] = PartOf(backup[b])
        BY <2>12 DEF DropPart, TypeOK
      <4>4. backup'[b] # None
        BY <4>2, <4>3, NoneAssumption
      <4> QED BY <2>12, <4>4 DEF Hands, HandsOf, Waiting, DropPart
    <3>2. \A c \in Builds \ {b} : HandsOf(c)'
      BY <2>12 DEF TypeOK, Hands, HandsOf, Waiting, DropPart, PartOf
    <3> QED BY <3>1, <3>2 DEF Hands
  <2>13. CASE Drop(b)
    <3>1. HandsOf(b)'
      BY <2>13 DEF TypeOK, Hands, HandsOf, Waiting, Drop, Goto
    <3>2. \A c \in Builds \ {b} : HandsOf(c)'
      BY <2>13 DEF TypeOK, Hands, HandsOf, Waiting, Drop, Goto
    <3> QED BY <3>1, <3>2 DEF Hands
  <2>14. CASE StepFails(b)
    <3>1. HandsOf(b)'
      BY <2>14 DEF TypeOK, Hands, HandsOf, Waiting, StepFails, Goto, Refuse
    <3>2. \A c \in Builds \ {b} : HandsOf(c)'
      BY <2>14 DEF TypeOK, Hands, HandsOf, Waiting, StepFails, Goto, Refuse
    <3> QED BY <3>1, <3>2 DEF Hands
  <2>15. CASE UndoPart(b)
    <3>1. HandsOf(b)'
      BY <2>15, NoneAssumption DEF TypeOK, Hands, HandsOf, Waiting, UndoPart, PartOf, Candidates
    <3>2. \A c \in Builds \ {b} : HandsOf(c)'
      BY <2>15 DEF TypeOK, Hands, HandsOf, Waiting, UndoPart, PartOf
    <3> QED BY <3>1, <3>2 DEF Hands
  <2>16. CASE Undo(b)
    <3>1. HandsOf(b)'
      BY <2>16 DEF TypeOK, Hands, HandsOf, Waiting, Undo, Goto
    <3>2. \A c \in Builds \ {b} : HandsOf(c)'
      BY <2>16 DEF TypeOK, Hands, HandsOf, Waiting, Undo, Goto
    <3> QED BY <3>1, <3>2 DEF Hands
  <2>17. CASE CleanUp(b)
    <3>1. HandsOf(b)'
      BY <2>17 DEF TypeOK, Hands, HandsOf, Waiting, CleanUp, Goto
    <3>2. \A c \in Builds \ {b} : HandsOf(c)'
      BY <2>17 DEF TypeOK, Hands, HandsOf, Waiting, CleanUp, Goto
    <3> QED BY <3>1, <3>2 DEF Hands
  <2>18. CASE RemovalFails(b)
    <3>1. HandsOf(b)'
      BY <2>18 DEF TypeOK, Hands, HandsOf, Waiting, RemovalFails, Goto, Refuse
    <3>2. \A c \in Builds \ {b} : HandsOf(c)'
      BY <2>18 DEF TypeOK, Hands, HandsOf, Waiting, RemovalFails, Goto, Refuse
    <3> QED BY <3>1, <3>2 DEF Hands
  <2>19. CASE Kill(b)
    <3>1. HandsOf(b)'
      BY <2>19 DEF TypeOK, Hands, HandsOf, Waiting, Kill, Goto
    <3>2. \A c \in Builds \ {b} : HandsOf(c)'
      BY <2>19 DEF TypeOK, Hands, HandsOf, Waiting, Kill, Goto
    <3> QED BY <3>1, <3>2 DEF Hands
  <2> QED BY <1>2, <2>1, <2>2, <2>3, <2>4, <2>5, <2>6, <2>7, <2>8, <2>9, <2>10, <2>11, <2>12, <2>13, <2>14, <2>15, <2>16, <2>17, <2>18, <2>19 DEF Build
<1> QED BY <1>1, <1>2 DEF Next

\* A staging directory stays only where a removal was refused.
LEMMA DebrisKept ==
  ASSUME TypeOK, Hands, Debris, [Next]_vars
  PROVE  Debris'
<1>1. CASE UNCHANGED vars
  BY <1>1 DEF vars, Debris, DebrisOf, Hands, HandsOf, Waiting
<1>2. ASSUME NEW b \in Builds, Build(b) PROVE Debris'
  <2>1. CASE Clean(b)
    <3>1. DebrisOf(b)'
      BY <2>1 DEF TypeOK, Debris, DebrisOf, Hands, HandsOf, Waiting, Clean, Goto
    <3>2. \A c \in Builds \ {b} : DebrisOf(c)'
      BY <2>1 DEF TypeOK, Debris, DebrisOf, Hands, HandsOf, Waiting, Clean, Goto
    <3> QED BY <3>1, <3>2 DEF Debris
  <2>2. CASE CleanFails(b)
    <3>1. DebrisOf(b)'
      BY <2>2 DEF TypeOK, Debris, DebrisOf, Hands, HandsOf, Waiting, CleanFails, Goto, Refuse
    <3>2. \A c \in Builds \ {b} : DebrisOf(c)'
      BY <2>2 DEF TypeOK, Debris, DebrisOf, Hands, HandsOf, Waiting, CleanFails, Goto, Refuse
    <3> QED BY <3>1, <3>2 DEF Debris
  <2>3. CASE Fill(b)
    <3>1. DebrisOf(b)'
      BY <2>3, NoneAssumption DEF TypeOK, Debris, DebrisOf, Hands, HandsOf, Waiting, Fill, Goto, Candidates
    <3>2. \A c \in Builds \ {b} : DebrisOf(c)'
      BY <2>3 DEF TypeOK, Debris, DebrisOf, Hands, HandsOf, Waiting, Fill, Goto
    <3> QED BY <3>1, <3>2 DEF Debris
  <2>4. CASE FillFails(b)
    <3>1. DebrisOf(b)'
      BY <2>4, NoneAssumption DEF TypeOK, Debris, DebrisOf, Hands, HandsOf, Waiting, FillFails, Goto
    <3>2. \A c \in Builds \ {b} : DebrisOf(c)'
      BY <2>4 DEF TypeOK, Debris, DebrisOf, Hands, HandsOf, Waiting, FillFails, Goto
    <3> QED BY <3>1, <3>2 DEF Debris
  <2>5. CASE Verify(b)
    <3>1. DebrisOf(b)'
      BY <2>5 DEF TypeOK, Debris, DebrisOf, Hands, HandsOf, Waiting, Verify, Goto, Verified
    <3>2. \A c \in Builds \ {b} : DebrisOf(c)'
      BY <2>5 DEF TypeOK, Debris, DebrisOf, Hands, HandsOf, Waiting, Verify, Goto, Verified
    <3> QED BY <3>1, <3>2 DEF Debris
  <2>6. CASE Stat(b)
    <3>1. DebrisOf(b)'
      BY <2>6 DEF TypeOK, Debris, DebrisOf, Hands, HandsOf, Waiting, Stat, Goto
    <3>2. \A c \in Builds \ {b} : DebrisOf(c)'
      BY <2>6 DEF TypeOK, Debris, DebrisOf, Hands, HandsOf, Waiting, Stat, Goto
    <3> QED BY <3>1, <3>2 DEF Debris
  <2>7. CASE MoveAway(b)
    <3>1. DebrisOf(b)'
      BY <2>7 DEF TypeOK, Debris, DebrisOf, Hands, HandsOf, Waiting, MoveAway, Goto
    <3>2. \A c \in Builds \ {b} : DebrisOf(c)'
      BY <2>7 DEF TypeOK, Debris, DebrisOf, Hands, HandsOf, Waiting, MoveAway, Goto
    <3> QED BY <3>1, <3>2 DEF Debris
  <2>8. CASE MoveIn(b)
    <3>1. DebrisOf(b)'
      BY <2>8 DEF TypeOK, Debris, DebrisOf, Hands, HandsOf, Waiting, MoveIn, Goto
    <3>2. \A c \in Builds \ {b} : DebrisOf(c)'
      BY <2>8 DEF TypeOK, Debris, DebrisOf, Hands, HandsOf, Waiting, MoveIn, Goto
    <3> QED BY <3>1, <3>2 DEF Debris
  <2>9. CASE MoveInFails(b)
    <3>1. DebrisOf(b)'
      BY <2>9 DEF TypeOK, Debris, DebrisOf, Hands, HandsOf, Waiting, MoveInFails, Goto, AfterFailedMove, Refuse
    <3>2. \A c \in Builds \ {b} : DebrisOf(c)'
      BY <2>9 DEF TypeOK, Debris, DebrisOf, Hands, HandsOf, Waiting, MoveInFails, Goto, AfterFailedMove, Refuse
    <3> QED BY <3>1, <3>2 DEF Debris
  <2>10. CASE Restore(b)
    <3>1. DebrisOf(b)'
      BY <2>10 DEF TypeOK, Debris, DebrisOf, Hands, HandsOf, Waiting, Restore, Goto
    <3>2. \A c \in Builds \ {b} : DebrisOf(c)'
      BY <2>10 DEF TypeOK, Debris, DebrisOf, Hands, HandsOf, Waiting, Restore, Goto
    <3> QED BY <3>1, <3>2 DEF Debris
  <2>11. CASE RestoreFails(b)
    <3>1. DebrisOf(b)'
      BY <2>11 DEF TypeOK, Debris, DebrisOf, Hands, HandsOf, Waiting, RestoreFails, Goto, Refuse
    <3>2. \A c \in Builds \ {b} : DebrisOf(c)'
      BY <2>11 DEF TypeOK, Debris, DebrisOf, Hands, HandsOf, Waiting, RestoreFails, Goto, Refuse
    <3> QED BY <3>1, <3>2 DEF Debris
  <2>12. CASE DropPart(b)
    <3>1. DebrisOf(b)'
      BY <2>12, NoneAssumption DEF TypeOK, Debris, DebrisOf, Hands, HandsOf, Waiting, DropPart, PartOf, Candidates
    <3>2. \A c \in Builds \ {b} : DebrisOf(c)'
      BY <2>12 DEF TypeOK, Debris, DebrisOf, Hands, HandsOf, Waiting, DropPart, PartOf
    <3> QED BY <3>1, <3>2 DEF Debris
  <2>13. CASE Drop(b)
    <3>1. DebrisOf(b)'
      BY <2>13 DEF TypeOK, Debris, DebrisOf, Hands, HandsOf, Waiting, Drop, Goto
    <3>2. \A c \in Builds \ {b} : DebrisOf(c)'
      BY <2>13 DEF TypeOK, Debris, DebrisOf, Hands, HandsOf, Waiting, Drop, Goto
    <3> QED BY <3>1, <3>2 DEF Debris
  <2>14. CASE StepFails(b)
    <3>1. DebrisOf(b)'
      BY <2>14 DEF TypeOK, Debris, DebrisOf, Hands, HandsOf, Waiting, StepFails, Goto, Refuse
    <3>2. \A c \in Builds \ {b} : DebrisOf(c)'
      BY <2>14 DEF TypeOK, Debris, DebrisOf, Hands, HandsOf, Waiting, StepFails, Goto, Refuse
    <3> QED BY <3>1, <3>2 DEF Debris
  <2>15. CASE UndoPart(b)
    <3>1. DebrisOf(b)'
      BY <2>15, NoneAssumption DEF TypeOK, Debris, DebrisOf, Hands, HandsOf, Waiting, UndoPart, PartOf, Candidates
    <3>2. \A c \in Builds \ {b} : DebrisOf(c)'
      BY <2>15 DEF TypeOK, Debris, DebrisOf, Hands, HandsOf, Waiting, UndoPart, PartOf
    <3> QED BY <3>1, <3>2 DEF Debris
  <2>16. CASE Undo(b)
    <3>1. DebrisOf(b)'
      BY <2>16 DEF TypeOK, Debris, DebrisOf, Hands, HandsOf, Waiting, Undo, Goto
    <3>2. \A c \in Builds \ {b} : DebrisOf(c)'
      BY <2>16 DEF TypeOK, Debris, DebrisOf, Hands, HandsOf, Waiting, Undo, Goto
    <3> QED BY <3>1, <3>2 DEF Debris
  <2>17. CASE CleanUp(b)
    <3>1. DebrisOf(b)'
      BY <2>17 DEF TypeOK, Debris, DebrisOf, Hands, HandsOf, Waiting, CleanUp, Goto
    <3>2. \A c \in Builds \ {b} : DebrisOf(c)'
      BY <2>17 DEF TypeOK, Debris, DebrisOf, Hands, HandsOf, Waiting, CleanUp, Goto
    <3> QED BY <3>1, <3>2 DEF Debris
  <2>18. CASE RemovalFails(b)
    <3>1. DebrisOf(b)'
      BY <2>18 DEF TypeOK, Debris, DebrisOf, Hands, HandsOf, Waiting, RemovalFails, Goto, Refuse
    <3>2. \A c \in Builds \ {b} : DebrisOf(c)'
      BY <2>18 DEF TypeOK, Debris, DebrisOf, Hands, HandsOf, Waiting, RemovalFails, Goto, Refuse
    <3> QED BY <3>1, <3>2 DEF Debris
  <2>19. CASE Kill(b)
    <3>1. DebrisOf(b)'
      BY <2>19 DEF TypeOK, Debris, DebrisOf, Hands, HandsOf, Waiting, Kill, Goto
    <3>2. \A c \in Builds \ {b} : DebrisOf(c)'
      BY <2>19 DEF TypeOK, Debris, DebrisOf, Hands, HandsOf, Waiting, Kill, Goto
    <3> QED BY <3>1, <3>2 DEF Debris
  <2> QED BY <1>2, <2>1, <2>2, <2>3, <2>4, <2>5, <2>6, <2>7, <2>8, <2>9, <2>10, <2>11, <2>12, <2>13, <2>14, <2>15, <2>16, <2>17, <2>18, <2>19 DEF Build
<1> QED BY <1>1, <1>2 DEF Next

\* Only what a build has verified becomes a dist, or a backup.
LEMMA SoundKept ==
  ASSUME TypeOK, Hands, AllSound, [Next]_vars
  PROVE  AllSound'
<1>1. CASE UNCHANGED vars
  BY <1>1 DEF vars, AllSound, Sound
<1>2. ASSUME NEW b \in Builds, Build(b) PROVE AllSound'
  <2>1. CASE Clean(b)
    BY <2>1 DEF TypeOK, AllSound, Sound, Hands, HandsOf, Waiting, Clean, Goto
  <2>2. CASE CleanFails(b)
    BY <2>2 DEF TypeOK, AllSound, Sound, Hands, HandsOf, Waiting, CleanFails, Goto, Refuse
  <2>3. CASE Fill(b)
    BY <2>3 DEF TypeOK, AllSound, Sound, Hands, HandsOf, Waiting, Fill, Goto, Candidates
  <2>4. CASE FillFails(b)
    BY <2>4 DEF TypeOK, AllSound, Sound, Hands, HandsOf, Waiting, FillFails, Goto
  <2>5. CASE Verify(b)
    BY <2>5 DEF TypeOK, AllSound, Sound, Hands, HandsOf, Waiting, Verify, Goto, Verified
  <2>6. CASE Stat(b)
    BY <2>6 DEF TypeOK, AllSound, Sound, Hands, HandsOf, Waiting, Stat, Goto
  <2>7. CASE MoveAway(b)
    BY <2>7 DEF TypeOK, AllSound, Sound, Hands, HandsOf, Waiting, MoveAway, Goto
  <2>8. CASE MoveIn(b)
    BY <2>8 DEF TypeOK, AllSound, Sound, Hands, HandsOf, Waiting, MoveIn, Goto
  <2>9. CASE MoveInFails(b)
    BY <2>9 DEF TypeOK, AllSound, Sound, Hands, HandsOf, Waiting, MoveInFails, Goto, AfterFailedMove, Refuse
  <2>10. CASE Restore(b)
    BY <2>10 DEF TypeOK, AllSound, Sound, Hands, HandsOf, Waiting, Restore, Goto
  <2>11. CASE RestoreFails(b)
    BY <2>11 DEF TypeOK, AllSound, Sound, Hands, HandsOf, Waiting, RestoreFails, Goto, Refuse
  <2>12. CASE DropPart(b)
    BY <2>12 DEF TypeOK, AllSound, Sound, Hands, HandsOf, Waiting, DropPart, PartOf, Candidates
  <2>13. CASE Drop(b)
    BY <2>13 DEF TypeOK, AllSound, Sound, Hands, HandsOf, Waiting, Drop, Goto
  <2>14. CASE StepFails(b)
    BY <2>14 DEF TypeOK, AllSound, Sound, Hands, HandsOf, Waiting, StepFails, Goto, Refuse
  <2>15. CASE UndoPart(b)
    BY <2>15 DEF TypeOK, AllSound, Sound, Hands, HandsOf, Waiting, UndoPart, PartOf, Candidates
  <2>16. CASE Undo(b)
    BY <2>16 DEF TypeOK, AllSound, Sound, Hands, HandsOf, Waiting, Undo, Goto
  <2>17. CASE CleanUp(b)
    BY <2>17 DEF TypeOK, AllSound, Sound, Hands, HandsOf, Waiting, CleanUp, Goto
  <2>18. CASE RemovalFails(b)
    BY <2>18 DEF TypeOK, AllSound, Sound, Hands, HandsOf, Waiting, RemovalFails, Goto, Refuse
  <2>19. CASE Kill(b)
    BY <2>19 DEF TypeOK, AllSound, Sound, Hands, HandsOf, Waiting, Kill, Goto
  <2> QED BY <1>2, <2>1, <2>2, <2>3, <2>4, <2>5, <2>6, <2>7, <2>8, <2>9, <2>10, <2>11, <2>12, <2>13, <2>14, <2>15, <2>16, <2>17, <2>18, <2>19 DEF Build
<1> QED BY <1>1, <1>2 DEF Next

\* No step loses the last candidate, and no removal touches it.
LEMMA CandidateKept ==
  ASSUME TypeOK, Hands, AllSound, Kept, [Next]_vars
  PROVE  Kept'
<1>1. CASE UNCHANGED vars
  BY <1>1 DEF vars, Kept, IsKept, AllSound, Sound
<1>2. ASSUME NEW b \in Builds, Build(b) PROVE Kept'
  <2>1. CASE Clean(b)
    BY <2>1 DEF TypeOK, Kept, IsKept, AllSound, Sound, Hands, HandsOf, Waiting, Clean, Goto
  <2>2. CASE CleanFails(b)
    BY <2>2 DEF TypeOK, Kept, IsKept, AllSound, Sound, Hands, HandsOf, Waiting, CleanFails, Goto, Refuse
  <2>3. CASE Fill(b)
    BY <2>3 DEF TypeOK, Kept, IsKept, AllSound, Sound, Hands, HandsOf, Waiting, Fill, Goto, Candidates
  <2>4. CASE FillFails(b)
    BY <2>4 DEF TypeOK, Kept, IsKept, AllSound, Sound, Hands, HandsOf, Waiting, FillFails, Goto
  <2>5. CASE Verify(b)
    BY <2>5 DEF TypeOK, Kept, IsKept, AllSound, Sound, Hands, HandsOf, Waiting, Verify, Goto, Verified
  <2>6. CASE Stat(b)
    BY <2>6 DEF TypeOK, Kept, IsKept, AllSound, Sound, Hands, HandsOf, Waiting, Stat, Goto
  <2>7. CASE MoveAway(b)
    BY <2>7 DEF TypeOK, Kept, IsKept, AllSound, Sound, Hands, HandsOf, Waiting, MoveAway, Goto
  <2>8. CASE MoveIn(b)
    BY <2>8 DEF TypeOK, Kept, IsKept, AllSound, Sound, Hands, HandsOf, Waiting, MoveIn, Goto
  <2>9. CASE MoveInFails(b)
    BY <2>9 DEF TypeOK, Kept, IsKept, AllSound, Sound, Hands, HandsOf, Waiting, MoveInFails, Goto, AfterFailedMove, Refuse
  <2>10. CASE Restore(b)
    BY <2>10 DEF TypeOK, Kept, IsKept, AllSound, Sound, Hands, HandsOf, Waiting, Restore, Goto
  <2>11. CASE RestoreFails(b)
    BY <2>11 DEF TypeOK, Kept, IsKept, AllSound, Sound, Hands, HandsOf, Waiting, RestoreFails, Goto, Refuse
  <2>12. CASE DropPart(b)
    BY <2>12 DEF TypeOK, Kept, IsKept, AllSound, Sound, Hands, HandsOf, Waiting, DropPart, PartOf, Candidates
  <2>13. CASE Drop(b)
    BY <2>13 DEF TypeOK, Kept, IsKept, AllSound, Sound, Hands, HandsOf, Waiting, Drop, Goto
  <2>14. CASE StepFails(b)
    BY <2>14 DEF TypeOK, Kept, IsKept, AllSound, Sound, Hands, HandsOf, Waiting, StepFails, Goto, Refuse
  <2>15. CASE UndoPart(b)
    BY <2>15 DEF TypeOK, Kept, IsKept, AllSound, Sound, Hands, HandsOf, Waiting, UndoPart, PartOf, Candidates
  <2>16. CASE Undo(b)
    BY <2>16 DEF TypeOK, Kept, IsKept, AllSound, Sound, Hands, HandsOf, Waiting, Undo, Goto
  <2>17. CASE CleanUp(b)
    BY <2>17 DEF TypeOK, Kept, IsKept, AllSound, Sound, Hands, HandsOf, Waiting, CleanUp, Goto
  <2>18. CASE RemovalFails(b)
    BY <2>18 DEF TypeOK, Kept, IsKept, AllSound, Sound, Hands, HandsOf, Waiting, RemovalFails, Goto, Refuse
  <2>19. CASE Kill(b)
    BY <2>19 DEF TypeOK, Kept, IsKept, AllSound, Sound, Hands, HandsOf, Waiting, Kill, Goto
  <2> QED BY <1>2, <2>1, <2>2, <2>3, <2>4, <2>5, <2>6, <2>7, <2>8, <2>9, <2>10, <2>11, <2>12, <2>13, <2>14, <2>15, <2>16, <2>17, <2>18, <2>19 DEF Build
<1> QED BY <1>1, <1>2 DEF Next

\* Whoever holds the old dist passes it on or brings it back.
LEMMA HolderKept ==
  ASSUME TypeOK, Hands, Held, [Next]_vars
  PROVE  Held'
<1>1. CASE UNCHANGED vars
  BY <1>1 DEF vars, Held, Holds
<1>2. ASSUME NEW b \in Builds, Build(b) PROVE Held'
  <2>1. CASE Clean(b)
    BY <2>1 DEF TypeOK, Held, Holds, Hands, HandsOf, Waiting, Clean, Goto
  <2>2. CASE CleanFails(b)
    BY <2>2 DEF TypeOK, Held, Holds, Hands, HandsOf, Waiting, CleanFails, Goto, Refuse
  <2>3. CASE Fill(b)
    BY <2>3 DEF TypeOK, Held, Holds, Hands, HandsOf, Waiting, Fill, Goto, Candidates
  <2>4. CASE FillFails(b)
    BY <2>4 DEF TypeOK, Held, Holds, Hands, HandsOf, Waiting, FillFails, Goto
  <2>5. CASE Verify(b)
    BY <2>5 DEF TypeOK, Held, Holds, Hands, HandsOf, Waiting, Verify, Goto, Verified
  <2>6. CASE Stat(b)
    BY <2>6 DEF TypeOK, Held, Holds, Hands, HandsOf, Waiting, Stat, Goto
  <2>7. CASE MoveAway(b)
    BY <2>7 DEF TypeOK, Held, Holds, Hands, HandsOf, Waiting, MoveAway, Goto
  <2>8. CASE MoveIn(b)
    BY <2>8 DEF TypeOK, Held, Holds, Hands, HandsOf, Waiting, MoveIn, Goto
  <2>9. CASE MoveInFails(b)
    BY <2>9 DEF TypeOK, Held, Holds, Hands, HandsOf, Waiting, MoveInFails, Goto, AfterFailedMove, Refuse
  <2>10. CASE Restore(b)
    BY <2>10 DEF TypeOK, Held, Holds, Hands, HandsOf, Waiting, Restore, Goto
  <2>11. CASE RestoreFails(b)
    BY <2>11 DEF TypeOK, Held, Holds, Hands, HandsOf, Waiting, RestoreFails, Goto, Refuse
  <2>12. CASE DropPart(b)
    BY <2>12 DEF TypeOK, Held, Holds, Hands, HandsOf, Waiting, DropPart, PartOf, Candidates
  <2>13. CASE Drop(b)
    BY <2>13 DEF TypeOK, Held, Holds, Hands, HandsOf, Waiting, Drop, Goto
  <2>14. CASE StepFails(b)
    BY <2>14 DEF TypeOK, Held, Holds, Hands, HandsOf, Waiting, StepFails, Goto, Refuse
  <2>15. CASE UndoPart(b)
    BY <2>15 DEF TypeOK, Held, Holds, Hands, HandsOf, Waiting, UndoPart, PartOf, Candidates
  <2>16. CASE Undo(b)
    BY <2>16 DEF TypeOK, Held, Holds, Hands, HandsOf, Waiting, Undo, Goto
  <2>17. CASE CleanUp(b)
    BY <2>17 DEF TypeOK, Held, Holds, Hands, HandsOf, Waiting, CleanUp, Goto
  <2>18. CASE RemovalFails(b)
    BY <2>18 DEF TypeOK, Held, Holds, Hands, HandsOf, Waiting, RemovalFails, Goto, Refuse
  <2>19. CASE Kill(b)
    BY <2>19 DEF TypeOK, Held, Holds, Hands, HandsOf, Waiting, Kill, Goto
  <2> QED BY <1>2, <2>1, <2>2, <2>3, <2>4, <2>5, <2>6, <2>7, <2>8, <2>9, <2>10, <2>11, <2>12, <2>13, <2>14, <2>15, <2>16, <2>17, <2>18, <2>19 DEF Build
<1> QED BY <1>1, <1>2 DEF Next

-----------------------------------------------------------------------------
IInv == TypeOK /\ Hands /\ Debris /\ AllSound /\ Kept /\ Held

\* The inductive invariant: builds hold what they should, and nothing is lost.
LEMMA IInvHolds == Spec => []IInv
<1>1. TypeOK /\ Init => IInv
  BY DEF Init, IInv, Hands, HandsOf, Waiting, Debris, DebrisOf, AllSound, Sound, Kept,
         IsKept, Held, Holds
<1>2. TypeOK /\ TypeOK' /\ IInv /\ [Next]_vars => IInv'
  BY HandsKept, DebrisKept, SoundKept, CandidateKept, HolderKept DEF IInv
<1> QED BY TypeCorrect, <1>1, <1>2, PTL DEF Spec

\* dist is a whole verified candidate, and so is a dist that was moved away
\* until another took its place, however builds overlap, fail and are killed,
\* in the middle of a removal too.
THEOREM DistVerified == Spec => []DistIsVerified
<1>1. IInv => DistIsVerified
  BY DEF IInv, AllSound, Sound, DistIsVerified
<1> QED BY IInvHolds, <1>1, PTL

\* Once a dist was moved away there is a whole candidate, in dist or in a backup.
THEOREM CandidatesSurvive == Spec => []CandidateSurvives
<1>1. IInv => CandidateSurvives
  BY DEF IInv, AllSound, Sound, Kept, IsKept, CandidateSurvives
<1> QED BY IInvHolds, <1>1, PTL

\* When all builds have ended by themselves, a dist that was moved away is back
\* or replaced, unless the file system refused twice.
THEOREM DistBack == Spec => []DistComesBack
<1>1. IInv => DistComesBack
  BY DEF IInv, Held, Holds, DistComesBack
<1> QED BY IInvHolds, <1>1, PTL

\* A promoted build leaves nothing behind, and a failed one its staging
\* directory only where the file system refused its removal as often as tried.
THEOREM WithoutDebris == Spec => []NoDebris
<1>1. IInv => NoDebris
  BY DEF IInv, TypeOK, Hands, HandsOf, Debris, DebrisOf, NoDebris
<1> QED BY IInvHolds, <1>1, PTL

(***************************************************************************)
(* The derived files of Projections, the other half of what the repository *)
(* builds, for any documents, paths and revisions.                         *)
(***************************************************************************)

GenerateSteps ==
  {"read", "clear", "openapi.bundle", "events.bundle", "client", "event.types"}
CheckSteps == GenerateSteps \cup {"compare", "pass", "drift"}
PublishSteps == {"empty", "render", "copy", "openapi", "index"}
JobSteps ==
  {"none", "done", "verify", "fail"} \cup CheckSteps \cup PublishSteps

JobRecords ==
  [command : Commands \cup {"none"}, step : JobSteps,
   read : [Sources -> Revisions \cup {Missing}],
   left : SUBSET Documents]

\* Every command keeps to its own steps.
Coherent ==
  /\ job.command = "none" => job.step = "none"
  /\ job.command = "check" => job.step \in CheckSteps
  /\ job.command = "generate" => job.step \in GenerateSteps \cup {"done"}
  /\ job.command = "publish" => job.step \in PublishSteps
  /\ job.command = "verify" => job.step \in {"verify", "pass", "fail"}

JobOK == job \in JobRecords /\ Coherent

\* Being done with a document leaves the others, or begins the next step with
\* all of them.
LEMMA DoneWithOne ==
  ASSUME job \in JobRecords, NEW d \in Documents, NEW step \in JobSteps,
         DoneWith(d, step)
  PROVE  /\ job' \in JobRecords /\ job'.command = job.command /\ job'.read = job.read
         /\ \/ job.left = {d} /\ job'.step = step /\ job'.left = Documents
            \/ job'.step = job.step /\ job'.left = job.left \ {d}
<1>1. CASE job' = [job EXCEPT !.step = step, !.left = Documents] /\ job.left = {d}
  BY <1>1 DEF JobRecords
<1>2. CASE job' = [job EXCEPT !.left = job.left \ {d}]
  BY <1>2 DEF JobRecords
<1> QED BY <1>1, <1>2 DEF DoneWith

\* A step of a command leaves the command what it is.
LEMMA JobStep ==
  ASSUME DerivedTypeOK, JobOK, Command
  PROVE  JobOK' /\ job'.command = job.command
<1>0. /\ job \in JobRecords
      /\ \A s \in Sources : sources[s] \in Revisions
  BY DEF JobOK, DerivedTypeOK
<1> USE DEF JobOK, Coherent, CheckSteps, GenerateSteps, PublishSteps, JobSteps
<1>1. ASSUME NEW s \in Sources, ReadSource(s)
      PROVE  JobOK' /\ job'.command = job.command
  <2> DEFINE step == IF \A o \in Sources \ {s} : job.read[o] # Missing
                     THEN "clear" ELSE "read"
             read == [job.read EXCEPT ![s] = sources[s]]
  <2>1. read \in [Sources -> Revisions \cup {Missing}]
    BY <1>0 DEF JobRecords
  <2>2. job' = [job EXCEPT !.read = read, !.step = step] /\ job.step = "read"
    BY <1>0, <1>1 DEF ReadSource, JobRecords
  <2>3. step \in {"clear", "read"}
    OBVIOUS
  <2> HIDE DEF read, step
  <2>4. /\ job'.command = job.command /\ job'.step = step
        /\ job' \in JobRecords
    BY <1>0, <2>1, <2>2, <2>3 DEF JobRecords
  <2>5. job.command \in {"check", "generate"}
    BY <1>0, <2>2 DEF JobRecords, Commands
  <2> QED BY <2>3, <2>4, <2>5
<1>2. CASE \/ ClearSchemas \/ WriteBundle \/ GenerateClient
           \/ WriteEventTypes \/ Compare
  <2>1. PICK step \in {"openapi.bundle", "events.bundle", "client", "event.types",
                       "compare", "done", "pass", "drift"} :
          /\ job' = [job EXCEPT !.step = step]
          /\ step \in {"compare", "pass", "drift"} => job.command = "check"
          /\ step = "done" => job.command # "check"
          /\ job.command \in {"check", "generate"}
    BY <1>0, <1>2
    DEF JobRecords, Commands, ClearSchemas, WriteBundle,
        GenerateClient, WriteEventTypes, Compare,
        Write, StepTo
  <2> QED BY <1>0, <2>1 DEF JobRecords
<1>3. CASE RemoveFile \/ SiteEmptied \/ WriteOpenapi \/ VerifySite
  BY <1>0, <1>3 DEF JobRecords, RemoveFile, SiteEmptied, WriteOpenapi,
                    VerifySite, StepTo, Commands
<1>4. ASSUME NEW d \in Documents, RenderPage(d) \/ CopyDocument(d)
      PROVE  JobOK' /\ job'.command = job.command
  <2>1. /\ job' \in JobRecords /\ job'.command = job.command
        /\ job'.step \in {"render", "copy", "openapi"}
    BY <1>0, <1>4, DoneWithOne DEF RenderPage, CopyDocument
  <2>2. job.command = "publish"
    BY <1>0, <1>4 DEF JobRecords, RenderPage, CopyDocument,
                      Commands
  <2> QED BY <2>1, <2>2
<1>5. ASSUME NEW i \in Index, WriteIndex(i)
      PROVE  JobOK' /\ job'.command = job.command
  BY <1>5 DEF WriteIndex
<1> QED BY <1>1, <1>2, <1>3, <1>4, <1>5 DEF Command

\* What a tree of projections is after a generation wrote into it.
LEMMA WriteTree ==
  ASSUME DerivedTypeOK, NEW files \in [Projected -> Contents],
         NEW step \in JobSteps, Write(files, step)
  PROVE  LET t == Tree(job.command)
         IN /\ t \in {"committed", "temporary"}
            /\ trees' \in [{"committed", "temporary"} -> [Projected -> Contents]]
            /\ trees'[t] = files
            /\ \A other \in {"committed", "temporary"} \ {t} : trees'[other] = trees[other]
            /\ t = IF job.command = "check" THEN "temporary" ELSE "committed"
<1> DEFINE t == Tree(job.command)
<1>1. /\ t \in {"committed", "temporary"}
      /\ t = IF job.command = "check" THEN "temporary" ELSE "committed"
  BY DEF Tree
<1>2. trees' = [trees EXCEPT ![t] = files]
  BY DEF Write
<1> HIDE DEF t
<1>3. /\ trees' \in [{"committed", "temporary"} -> [Projected -> Contents]]
      /\ trees'[t] = files
      /\ \A other \in {"committed", "temporary"} \ {t} : trees'[other] = trees[other]
  BY <1>1, <1>2 DEF DerivedTypeOK
<1> QED BY <1>1, <1>3 DEF t

\* Every step that generates writes one whole tree of projections: the one it
\* found, with the files of this step.
LEMMA GenerateWrites ==
  ASSUME DerivedTypeOK, JobOK,
         \/ ClearSchemas \/ WriteBundle \/ GenerateClient
         \/ WriteEventTypes
  PROVE  \E files \in [Projected -> Contents], step \in JobSteps :
           Write(files, step)
<1>0. /\ tree \in [Projected -> Contents]
      /\ \A s \in Sources : job.read[s] \in Contents
      /\ Missing \in Contents
  BY DEF JobOK, JobRecords, DerivedTypeOK, tree, Tree,
         Contents, Missing, Revisions
<1> USE DEF JobSteps, CheckSteps, GenerateSteps
<1>1. CASE ClearSchemas
  <2> DEFINE files == [f \in Projected |->
                         IF f \in Bundles THEN Missing ELSE tree[f]]
  <2>1. files \in [Projected -> Contents]
    BY <1>0
  <2>2. Write(files, "openapi.bundle")
    BY <1>1 DEF ClearSchemas
  <2> HIDE DEF files
  <2> QED BY <2>1, <2>2
<1>2. CASE WriteBundle
  <2> DEFINE one == [tree EXCEPT !["openapi.bundle"] = job.read["openapi"]]
             two == [tree EXCEPT !["events.bundle"] = job.read["events"]]
  <2>1. /\ one \in [Projected -> Contents]
        /\ two \in [Projected -> Contents]
    BY <1>0 DEF Sources
  <2>2. Write(one, "events.bundle") \/ Write(two, "client")
    BY <1>2 DEF WriteBundle
  <2> HIDE DEF one, two
  <2> QED BY <2>1, <2>2
<1>3. CASE GenerateClient
  <2>1. PICK types \in {tree["event.types"], Missing} :
          Write([tree EXCEPT !["client"] = tree["openapi.bundle"],
                                             !["event.types"] = types], "event.types")
    BY <1>3 DEF GenerateClient
  <2> DEFINE files == [tree EXCEPT !["client"] = tree["openapi.bundle"],
                                           !["event.types"] = types]
  <2>2. files \in [Projected -> Contents]
    BY <1>0, <2>1 DEF Projected
  <2> HIDE DEF files
  <2>3. Write(files, "event.types")
    BY <2>1 DEF files
  <2> QED BY <2>2, <2>3
<1>4. CASE WriteEventTypes
  <2> DEFINE files == [tree EXCEPT !["event.types"] = job.read["events"]]
  <2>1. files \in [Projected -> Contents]
    BY <1>0 DEF Sources
  <2>2. Write(files, "compare") \/ Write(files, "done")
    BY <1>4 DEF WriteEventTypes
  <2> HIDE DEF files
  <2> QED BY <2>1, <2>2
<1> QED BY <1>1, <1>2, <1>3, <1>4

\* The variables keep their types, and every command keeps to its steps.
LEMMA DerivedTypedStep ==
  ASSUME DerivedTypeOK, JobOK, DerivedNext
  PROVE  DerivedTypeOK' /\ JobOK'
<1>0. Missing \in Contents /\ Patched \in Contents
  BY DEF Contents
<1>1. ASSUME NEW s \in Sources, EditSource(s)
      PROVE  DerivedTypeOK' /\ JobOK'
  <2>1. sources' \in [Sources -> Revisions]
    BY <1>1, EditAssumption DEF EditSource, DerivedTypeOK, Revisions
  <2>2. calm' = FALSE /\ UNCHANGED <<trees, machine, pages, corpus, index, torn, job>>
    BY <1>1 DEF EditSource, site
  <2> QED BY <2>1, <2>2 DEF DerivedTypeOK, JobOK, Coherent
<1>2. ASSUME NEW f \in Projected, EditProjection(f)
      PROVE  DerivedTypeOK' /\ JobOK'
  <2>1. PICK c \in Contents : trees' = [trees EXCEPT !["committed"][f] = c]
    BY <1>0, <1>2 DEF EditProjection
  <2>2. trees' \in [{"committed", "temporary"} -> [Projected -> Contents]]
    BY <2>1 DEF DerivedTypeOK
  <2>3. calm' = FALSE /\ UNCHANGED <<sources, machine, pages, corpus, index, torn, job>>
    BY <1>2 DEF EditProjection, site
  <2> QED BY <2>2, <2>3 DEF DerivedTypeOK, JobOK, Coherent
<1>3. ASSUME NEW c \in Commands, Start(c)
      PROVE  DerivedTypeOK' /\ JobOK'
  <2>1. /\ job' = [command |-> c, step |-> FirstStep(c),
                   read |-> [s \in Sources |-> Missing], left |-> {}]
        /\ calm' = TRUE /\ UNCHANGED <<sources, machine, pages, corpus, index, torn>>
        /\ trees' = [trees EXCEPT !["temporary"] = NoTree]
    BY <1>3 DEF Start, NoJob, site
  <2>2. JobOK'
    BY <2>1 DEF JobOK, JobRecords, Coherent, FirstStep, Commands,
                JobSteps, CheckSteps, GenerateSteps, PublishSteps
  <2>3. NoTree \in [Projected -> Contents]
    BY <1>0 DEF NoTree
  <2>4. DerivedTypeOK'
    <3> HIDE DEF NoTree
    <3> QED BY <2>1, <2>2, <2>3 DEF DerivedTypeOK, JobOK, JobRecords
  <2> QED BY <2>2, <2>4
<1>4. CASE Stop
  BY <1>4 DEF Stop, NoJob, site, DerivedTypeOK, JobOK,
              JobRecords, Coherent, JobSteps
<1>5. CASE Command
  <2>1. JobOK'
    BY <1>5, JobStep
  <2>2. job'.command \in Commands \cup {"none"} /\ job'.left \subseteq Documents
    BY <2>1 DEF JobOK, JobRecords
  <2>3. UNCHANGED <<sources, machine, calm>>
    BY <1>5 DEF Command, ReadSource, ClearSchemas,
                WriteBundle, GenerateClient, WriteEventTypes,
                Compare, RemoveFile, SiteEmptied, WriteOpenapi,
                VerifySite, RenderPage, CopyDocument,
                WriteIndex, Write, site
  <2>4. trees' \in [{"committed", "temporary"} -> [Projected -> Contents]]
    <3>1. CASE \/ ClearSchemas \/ WriteBundle \/ GenerateClient
               \/ WriteEventTypes
      BY <3>1, GenerateWrites, WriteTree
    <3>2. CASE UNCHANGED trees
      BY <3>2 DEF DerivedTypeOK
    <3> QED
      BY <1>5, <3>1, <3>2
      DEF Command, ReadSource, Compare, RemoveFile, SiteEmptied,
          WriteOpenapi, VerifySite, RenderPage,
          CopyDocument, WriteIndex
  <2>5. /\ pages' \subseteq Documents /\ index' \subseteq Index /\ torn' \in BOOLEAN
        /\ corpus' \in [Paths -> Documents \cup {NoDocument}]
    BY <1>5
    DEF Command, ReadSource, ClearSchemas,
        WriteBundle, GenerateClient, WriteEventTypes,
        Compare, RemoveFile, SiteEmptied, WriteOpenapi, VerifySite,
        RenderPage, CopyDocument, WriteIndex, Write,
        site, DerivedTypeOK, Index
  <2> QED BY <2>1, <2>2, <2>3, <2>4, <2>5 DEF DerivedTypeOK
<1> QED BY <1>1, <1>2, <1>3, <1>4, <1>5 DEF DerivedNext

\* What an undisturbed check has read is what the sources are.
Reads ==
  job.command = "check" =>
    /\ calm => \A s \in Sources : job.read[s] \in {Missing, sources[s]}
    /\ job.step # "read" => \A s \in Sources : job.read[s] # Missing

Made(f) == trees["temporary"][f] = job.read[SourceOf[f]]

\* What a check has generated so far into its own tree.
Generated ==
  job.command = "check" =>
    /\ job.step \in {"events.bundle", "client", "event.types", "compare", "pass", "drift"} =>
         Made("openapi.bundle")
    /\ job.step \in {"client", "event.types", "compare", "pass", "drift"} =>
         Made("events.bundle")
    /\ job.step \in {"event.types", "compare", "pass", "drift"} => Made("client")
    /\ job.step \in {"compare", "pass", "drift"} => Made("event.types")

\* An undisturbed check has found what it says.
Verdict ==
  job.command = "check" /\ calm /\ job.step \in {"pass", "drift"} =>
    (job.step = "pass" <=> Differences = {})

CheckOK == Reads /\ Generated /\ Verdict

\* A check reads, generates and compares in this order, whatever is edited.
LEMMA CheckStep ==
  ASSUME DerivedTypeOK, JobOK, CheckOK, DerivedNext
  PROVE  CheckOK'
<1> SUFFICES ASSUME job'.command = "check" PROVE CheckOK'
  BY DEF CheckOK, Reads, Generated, Verdict
<1>1. ASSUME NEW s \in Sources, EditSource(s) PROVE CheckOK'
  BY <1>1 DEF EditSource, CheckOK, Reads, Generated, Verdict, Made
<1>2. ASSUME NEW f \in Projected, EditProjection(f) PROVE CheckOK'
  <2>1. trees'["temporary"] = trees["temporary"] /\ UNCHANGED job /\ ~calm'
    BY <1>2 DEF EditProjection, DerivedTypeOK
  <2> QED BY <2>1 DEF CheckOK, Reads, Generated, Verdict, Made
<1>3. ASSUME NEW c \in Commands, Start(c) PROVE CheckOK'
  <2>1. /\ job'.step \in {"read", "empty", "verify"}
        /\ job'.command = "check" => job'.step = "read"
        /\ \A s \in Sources : job'.read[s] = Missing
    BY <1>3 DEF Start, NoJob, FirstStep, Commands
  <2>2. job'.step = "read"
    BY <2>1
  <2>3. Reads'
    BY <2>1, <2>2 DEF Reads
  <2>4. Generated' /\ Verdict'
    BY <2>2 DEF Generated, Verdict
  <2> QED BY <2>3, <2>4 DEF CheckOK
<1>4. CASE Stop
  BY <1>4 DEF Stop, NoJob
<1>5. CASE Command
  <2>0. /\ job \in JobRecords /\ job.command = "check" /\ job.step \in CheckSteps
        /\ job'.command = "check"
        /\ tree = trees["temporary"] /\ Tree(job.command) = "temporary"
    BY <1>5, JobStep DEF JobOK, Coherent, tree, Tree
  <2>1. ASSUME NEW s \in Sources, ReadSource(s) PROVE CheckOK'
    <3> DEFINE step == IF \A o \in Sources \ {s} : job.read[o] # Missing
                       THEN "clear" ELSE "read"
    <3>1. job' = [job EXCEPT !.read[s] = sources[s], !.step = step]
          /\ UNCHANGED <<sources, trees, calm>>
      BY <2>1 DEF ReadSource
    <3>2. /\ job'.step = step
          /\ \A o \in Sources :
               job'.read[o] = IF o = s THEN sources[s] ELSE job.read[o]
      BY <2>0, <3>1 DEF JobRecords
    <3>3. sources[s] # Missing
      BY EditAssumption DEF DerivedTypeOK, Revisions, Missing
    <3> QED BY <3>1, <3>2, <3>3 DEF CheckOK, Reads, Generated, Verdict
  <2>2. CASE ClearSchemas
    <3>1. /\ job'.step = "openapi.bundle" /\ job'.read = job.read
          /\ job.step = "clear" /\ UNCHANGED <<sources, calm>>
      BY <2>0, <2>2 DEF ClearSchemas, Write, StepTo, JobRecords
    <3> QED BY <2>0, <3>1 DEF CheckOK, Reads, Generated, Verdict
  <2>3. CASE WriteBundle \/ GenerateClient \/ WriteEventTypes
    <3>1. /\ job'.read = job.read /\ UNCHANGED <<sources, calm>>
          /\ \/ /\ job.step = "openapi.bundle" /\ job'.step = "events.bundle"
                /\ trees'["temporary"] =
                     [tree EXCEPT !["openapi.bundle"] = job.read["openapi"]]
             \/ /\ job.step = "events.bundle" /\ job'.step = "client"
                /\ trees'["temporary"] =
                     [tree EXCEPT !["events.bundle"] = job.read["events"]]
             \/ /\ job.step = "client" /\ job'.step = "event.types"
                /\ \E types \in {tree["event.types"], Missing} :
                     trees'["temporary"] =
                       [tree EXCEPT !["client"] = tree["openapi.bundle"],
                                            !["event.types"] = types]
             \/ /\ job.step = "event.types" /\ job'.step = "compare"
                /\ trees'["temporary"] =
                     [tree EXCEPT !["event.types"] = job.read["events"]]
      BY <2>0, <2>3 DEF WriteBundle, GenerateClient,
                        WriteEventTypes, Write, StepTo,
                        JobRecords, DerivedTypeOK
    <3>2. tree \in [Projected -> Contents]
      BY <2>0 DEF DerivedTypeOK
    <3>3. /\ SourceOf["openapi.bundle"] = "openapi"
          /\ SourceOf["client"] = "openapi"
          /\ SourceOf["events.bundle"] = "events"
          /\ SourceOf["event.types"] = "events"
      BY DEF SourceOf, Projected
    <3>4. Reads'
      BY <2>0, <3>1 DEF CheckOK, Reads
    <3>5. Generated'
      BY <2>0, <3>1, <3>2, <3>3 DEF CheckOK, Generated, Made, Projected
    <3>6. Verdict'
      BY <3>1 DEF Verdict
    <3> QED BY <3>4, <3>5, <3>6 DEF CheckOK
  <2>4. CASE Compare
    <3>1. /\ job'.step = IF Differences = {} THEN "pass" ELSE "drift"
          /\ job'.read = job.read /\ job.step = "compare"
          /\ UNCHANGED <<sources, trees, calm>>
          /\ Differences' = Differences
      BY <2>0, <2>4 DEF Compare, Differences, JobRecords
    <3> QED BY <2>0, <3>1 DEF CheckOK, Reads, Generated, Verdict, Made
  <2> QED
    BY <1>5, <2>0, <2>1, <2>2, <2>3, <2>4
    DEF Command, RemoveFile, SiteEmptied, WriteOpenapi, VerifySite,
        RenderPage, CopyDocument, WriteIndex,
        CanWriteIndex, CheckSteps, GenerateSteps
<1> QED BY <1>1, <1>2, <1>3, <1>4, <1>5 DEF DerivedNext

\* Every document is at a path of its own, with its page.
Whole == \A d \in Documents : corpus[machine[d]] = d /\ d \in pages

\* A path of the corpus has the document that is meant for it, or none.
Placed == \A p \in Paths : corpus[p] # NoDocument => machine[corpus[p]] = p

\* How far the publisher is, and what an index or a verification promises.
SiteOK ==
  /\ Accepted(machine) /\ Placed
  /\ "manifest" \in index /\ ~torn => Whole /\ "openapi.json" \in index
  /\ job.step \in {"render", "copy", "openapi"} => index = {}
  /\ job.step = "render" => \A d \in Documents \ job.left : d \in pages
  /\ job.step = "copy" =>
       /\ \A d \in Documents : d \in pages
       /\ \A d \in Documents \ job.left : corpus[machine[d]] = d
  /\ job.step \in {"openapi", "index"} => Whole
  /\ job.step = "index" => "openapi.json" \in index
  /\ job.command = "verify" /\ job.step = "pass" => index = Index /\ Whole

\* The index comes last, over a corpus that is whole; only a build that empties
\* the site makes it less.
LEMMA SiteStep ==
  ASSUME DerivedTypeOK, JobOK, SiteOK, DerivedNext
  PROVE  SiteOK'
<1>0. /\ job \in JobRecords
      /\ \A d \in Documents : machine[d] \in Paths
      /\ UNCHANGED machine
  BY DEF JobOK, DerivedTypeOK, DerivedNext, EditSource, site,
         EditProjection, Start, Stop, Command,
         ReadSource, ClearSchemas, WriteBundle,
         GenerateClient, WriteEventTypes, Compare,
         RemoveFile, SiteEmptied, WriteOpenapi, VerifySite,
         RenderPage, CopyDocument, WriteIndex, Write
<1>1. CASE /\ UNCHANGED <<pages, corpus, index, torn>>
           /\ \/ UNCHANGED job
              \/ /\ job'.step \notin {"render", "copy", "openapi", "index"}
                 /\ job'.command = "verify" /\ job'.step = "pass" =>
                      index = Index /\ Whole
  BY <1>0, <1>1 DEF SiteOK, Whole, Placed, Accepted
<1>2. ASSUME NEW s \in Sources, EditSource(s) PROVE SiteOK'
  BY <1>1, <1>2 DEF EditSource, site
<1>3. ASSUME NEW f \in Projected, EditProjection(f) PROVE SiteOK'
  BY <1>1, <1>3 DEF EditProjection, site
<1>4. ASSUME NEW c \in Commands, Start(c) PROVE SiteOK'
  <2>1. job'.step \in {"read", "empty", "verify"}
    BY <1>4 DEF Start, NoJob, FirstStep, Commands
  <2> QED BY <1>1, <1>4, <2>1 DEF Start, site
<1>5. CASE Stop
  BY <1>1, <1>5 DEF Stop, NoJob, site
<1>6. ASSUME NEW s \in Sources, ReadSource(s) PROVE SiteOK'
  <2>1. job'.step \in {"clear", "read"}
    BY <1>0, <1>6 DEF ReadSource, JobRecords
  <2> QED BY <1>1, <1>6, <2>1 DEF ReadSource, site
<1>7. CASE \/ ClearSchemas \/ WriteBundle \/ GenerateClient
           \/ WriteEventTypes \/ Compare
  <2>1. /\ job'.step \in {"openapi.bundle", "events.bundle", "client", "event.types",
                          "compare", "done", "pass", "drift"}
        /\ UNCHANGED <<pages, corpus, index, torn>>
        /\ job'.step = "pass" => job.step = "compare"
    BY <1>0, <1>7
    DEF JobRecords, ClearSchemas, WriteBundle,
        GenerateClient, WriteEventTypes, Compare,
        Write, StepTo, site
  <2>2. job.step = "compare" => job'.command # "verify"
    <3>1. job'.command = job.command
      BY <1>7, JobStep DEF Command
    <3> QED BY <3>1 DEF JobOK, Coherent
  <2> QED BY <1>1, <2>1, <2>2
<1>8. CASE SiteEmptied
  <2>1. /\ index' = {} /\ job'.step = "render" /\ job'.left = Documents
        /\ UNCHANGED corpus
    BY <1>0, <1>8 DEF SiteEmptied, JobRecords
  <2> QED BY <1>0, <2>1 DEF SiteOK, Placed, Accepted
<1>14. CASE RemoveFile
  <2>1. torn' = TRUE /\ job.step = "empty" /\ UNCHANGED job
    BY <1>14 DEF RemoveFile
  <2>2. \A p \in Paths : corpus'[p] \in {corpus[p], NoDocument}
    BY <1>14 DEF RemoveFile, DerivedTypeOK
  <2>3. Placed'
    BY <1>0, <2>2 DEF SiteOK, Placed
  <2> QED BY <1>0, <2>1, <2>3 DEF SiteOK, Accepted
<1>9. ASSUME NEW d \in Documents, RenderPage(d) PROVE SiteOK'
  <2>1. /\ pages' = pages \cup {d} /\ UNCHANGED <<corpus, index, torn>>
        /\ job.step = "render" /\ index = {}
        /\ \/ job.left = {d} /\ job'.step = "copy" /\ job'.left = Documents
           \/ job'.step = "render" /\ job'.left = job.left \ {d}
    BY <1>0, <1>9, DoneWithOne
    DEF RenderPage, SiteOK, JobSteps, PublishSteps
  <2> QED BY <1>0, <2>1 DEF SiteOK, Placed, Accepted
<1>10. ASSUME NEW d \in Documents, CopyDocument(d) PROVE SiteOK'
  <2>1. /\ corpus' = [corpus EXCEPT ![machine[d]] = d] /\ UNCHANGED <<pages, index>>
        /\ job.step = "copy" /\ index = {}
        /\ \/ job.left = {d} /\ job'.step = "openapi" /\ job'.left = Documents
           \/ job'.step = "copy" /\ job'.left = job.left \ {d}
    BY <1>0, <1>10, DoneWithOne
    DEF CopyDocument, SiteOK, JobSteps, PublishSteps
  <2>2. \A e \in (Documents \ job.left) \cup {d} : corpus'[machine[e]] = e
    BY <1>0, <2>1 DEF SiteOK, Accepted, DerivedTypeOK
  <2>3. Accepted(machine)' /\ index' = {} /\ Placed'
    <3>1. \A p \in Paths : corpus'[p] = IF p = machine[d] THEN d ELSE corpus[p]
      BY <1>0, <2>1 DEF DerivedTypeOK
    <3> QED BY <1>0, <2>1, <3>1 DEF SiteOK, Accepted, Placed
  <2>4. \A e \in Documents : e \in pages'
    BY <2>1 DEF SiteOK
  <2>5. CASE job.left = {d} /\ job'.step = "openapi" /\ job'.left = Documents
    BY <1>0, <2>2, <2>3, <2>4, <2>5 DEF SiteOK, Whole
  <2>6. CASE job'.step = "copy" /\ job'.left = job.left \ {d}
    BY <1>0, <2>2, <2>3, <2>4, <2>6 DEF SiteOK, Whole
  <2> QED BY <2>1, <2>5, <2>6
<1>11. CASE WriteOpenapi
  <2>1. /\ job'.step = "index" /\ job.step = "openapi"
        /\ index' = index \cup {"openapi.json"} /\ UNCHANGED <<pages, corpus>>
    BY <1>0, <1>11 DEF WriteOpenapi, StepTo, JobRecords
  <2> QED BY <1>0, <2>1 DEF SiteOK, Whole, Placed, Accepted
<1>12. ASSUME NEW i \in Index, WriteIndex(i) PROVE SiteOK'
  <2>1. /\ job.step = "index" /\ UNCHANGED <<pages, corpus, job>>
        /\ index \subseteq index'
    BY <1>12 DEF WriteIndex, CanWriteIndex
  <2> QED BY <1>0, <2>1 DEF SiteOK, Whole, Placed, Accepted
<1>13. CASE VerifySite
  <2>1. /\ job'.step = IF Verifies THEN "pass" ELSE "fail"
        /\ UNCHANGED <<pages, corpus, index, torn>>
    BY <1>0, <1>13 DEF VerifySite, StepTo, site, JobRecords
  <2>2. Verifies => index = Index /\ Whole
    <3>1. ASSUME Verifies, NEW d \in Documents PROVE corpus[machine[d]] = d
      <4>1. corpus[machine[d]] \in Documents
        BY <1>0, <3>1 DEF Verifies, DerivedTypeOK
      <4>2. machine[corpus[machine[d]]] = machine[d]
        BY <1>0, <3>1 DEF Verifies, SiteOK, Placed
      <4> QED BY <4>1, <4>2 DEF SiteOK, Accepted
    <3> QED BY <3>1 DEF Verifies, FilesVerified, DerivedTypeOK, Whole
  <2> QED BY <1>1, <2>1, <2>2
<1> QED
  BY <1>2, <1>3, <1>4, <1>5, <1>6, <1>7, <1>8, <1>9, <1>10, <1>11, <1>12, <1>13, <1>14
  DEF DerivedNext, Command

\* The invariant holds initially and every step keeps it.
LEMMA DerivedInvariant ==
  DerivedSpec => [](DerivedTypeOK /\ JobOK /\ CheckOK /\ SiteOK)
<1> DEFINE Inv == DerivedTypeOK /\ JobOK /\ CheckOK /\ SiteOK
<1>1. DerivedInit => Inv
  <2> SUFFICES ASSUME DerivedInit PROVE Inv
    OBVIOUS
  <2>1. Missing \in Contents /\ 0 \in Revisions
    BY EditAssumption DEF Contents, Revisions
  <2>2. job = [command |-> "none", step |-> "none",
               read |-> [s \in Sources |-> Missing], left |-> {}]
    BY DEF DerivedInit, NoJob
  <2>3. JobOK
    BY <2>2 DEF JobOK, JobRecords, Coherent, JobSteps
  <2>4. trees \in [{"committed", "temporary"} -> [Projected -> Contents]]
    BY <2>1 DEF DerivedInit, NoTree, Contents
  <2>5. DerivedTypeOK
    <3>1. corpus \in [Paths -> Documents \cup {NoDocument}]
      BY DEF DerivedInit, NoCorpus
    <3>2. /\ machine \in [Documents -> Paths]
          /\ sources \in [Sources -> Revisions]
      BY <2>1 DEF DerivedInit
    <3>3. /\ job.command \in Commands \cup {"none"}
          /\ job.left \subseteq Documents
      BY <2>2
    <3>4. /\ pages \subseteq Documents
          /\ index \subseteq Index
          /\ torn \in BOOLEAN
          /\ calm \in BOOLEAN
      BY DEF DerivedInit
    <3> QED BY <2>4, <3>1, <3>2, <3>3, <3>4 DEF DerivedTypeOK
  <2>6. CheckOK /\ SiteOK
    BY <2>2 DEF DerivedInit, NoCorpus, CheckOK, Reads, Generated, Verdict, SiteOK, Placed
  <2> QED BY <2>3, <2>5, <2>6
<1>2. Inv /\ [DerivedNext]_derivedVars => Inv'
  <2> SUFFICES ASSUME Inv, [DerivedNext]_derivedVars PROVE Inv'
    OBVIOUS
  <2>1. CASE DerivedNext
    BY <2>1, DerivedTypedStep, CheckStep, SiteStep
  <2>2. CASE UNCHANGED derivedVars
    BY <2>2 DEF derivedVars, site, DerivedTypeOK, JobOK, Coherent, CheckOK,
                Reads, Generated, Verdict, Made, Differences, SiteOK, Whole,
                Placed, Accepted
  <2> QED BY <2>1, <2>2
<1> QED BY <1>1, <1>2, PTL DEF DerivedSpec

\* The variables of the derived files keep their types.
THEOREM DerivedTyped ==
  DerivedSpec => []DerivedTypeOK
BY DerivedInvariant, PTL

\* An undisturbed drift check passes exactly when every committed projection is
\* what its source generates.
THEOREM DriftExact ==
  DerivedSpec => []DriftCheckIsExact
<1>1. DerivedTypeOK /\ JobOK /\ CheckOK => DriftCheckIsExact
  <2> SUFFICES ASSUME DerivedTypeOK, JobOK, CheckOK, job.command = "check",
                      job.step \in {"pass", "drift"}, calm
               PROVE  job.step = "pass" <=>
                        \A f \in Projected :
                          trees["committed"][f] = sources[SourceOf[f]]
    BY DEF DriftCheckIsExact
  <2>1. \A s \in Sources : job.read[s] = sources[s]
    BY DEF CheckOK, Reads
  <2>2. \A f \in Projected : SourceOf[f] \in Sources
    BY DEF SourceOf, Sources
  <2>3. \A f \in Projected : Made(f)
    BY DEF CheckOK, Generated, Projected
  <2>4. job.step = "pass" <=> Differences = {}
    BY DEF CheckOK, Verdict
  <2> QED BY <2>1, <2>2, <2>3, <2>4 DEF Made, Differences
<1> QED BY <1>1, DerivedInvariant, PTL

\* Unless a build was stopped while it emptied the site, a manifest names only
\* documents that are there; a site that passes verification is always whole.
THEOREM CorpusWhole ==
  DerivedSpec => []CorpusIsWhole
<1>1. SiteOK => CorpusIsWhole
  BY DEF SiteOK, Whole, CorpusIsWhole, Index
<1> QED BY <1>1, DerivedInvariant, PTL
=============================================================================
