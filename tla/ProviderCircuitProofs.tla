------------------------ MODULE ProviderCircuitProofs ------------------------
(* Theorems about ProviderCircuit, for any calls, threshold and limit.       *)
EXTENDS ProviderCircuit, TLAPS

CircuitType ==
  /\ failures \in [Kinds -> Nat]
  /\ open \in [Kinds -> BOOLEAN] /\ cooled \in [Kinds -> BOOLEAN]
  /\ blamed \in [Kinds -> Blame]

\* The count of a circuit lies between the faults of the provider and all that
\* justify opening it, and it decides with cooled whether it is open.
CountIsFair ==
  \A k \in Kinds :
    /\ blamed[k].upstream <= failures[k]
    /\ failures[k] <= Earned(k)
    /\ open[k] => failures[k] >= Threshold
    /\ failures[k] >= Threshold /\ ~cooled[k] => open[k]

\* What a call has sent at each stage.
SentByStage ==
  \A c \in Calls :
    /\ stage[c] = "idle" => sent[c] = 0 /\ redirects[c] = 0
    /\ stage[c] \in {"request", "body"} => sent[c] = 1 /\ redirects[c] = 0
    /\ stage[c] \in {"download", "audio"} => sent[c] = redirects[c] + 2
    /\ sent[c] <= MaxRedirects + 2

IInv == TypeOK /\ CountIsFair /\ SentByStage

\* Only one setting makes requests that cannot be formed.
Fails(c) == \E fault : Throw(c, fault) /\ (fault = "unsendable" => setting = "request")

-----------------------------------------------------------------------------
\* A fault of the provider counts, one of a user does not, and of a setting only
\* one that makes requests that cannot be formed.
LEMMA CauseFacts ==
  ASSUME NEW fault
  PROVE  /\ Cause(fault) \in {"user", "setting", "upstream"}
         /\ Cause(fault) = "upstream" => Counts(fault)
         /\ Cause(fault) = "user" => ~Counts(fault)
         /\ Cause(fault) = "setting" /\ Counts(fault) => fault = "unsendable"
BY DEF Cause, Counts, Ineligible

\* A success resets the breaker and the history together.
LEMMA SucceedKeeps ==
  ASSUME TypeOK, CountIsFair, UNCHANGED setting, NEW c \in Calls, Succeed(c)
  PROVE  CircuitType' /\ CountIsFair'
<1> DEFINE k0 == kind[c]
<1>1. k0 \in Kinds /\ CircuitType
  BY DEF TypeOK, CircuitType
<1>2. CircuitType'
  BY <1>1 DEF Succeed, CircuitType, Blame, Nobody
<1>3. ASSUME NEW k \in Kinds, k # k0
      PROVE  /\ failures'[k] = failures[k] /\ open'[k] = open[k]
             /\ blamed'[k] = blamed[k] /\ cooled'[k] = cooled[k]
  BY <1>1, <1>3 DEF Succeed, CircuitType, breakerFor
<1>4. failures'[k0] = 0 /\ ~open'[k0] /\ blamed'[k0] = Nobody
  BY <1>1 DEF Succeed, CircuitType, breakerFor
<1>5. CountIsFair'
  BY <1>1, <1>3, <1>4, ThresholdAssumption DEF CountIsFair, Earned, Nobody
<1> QED BY <1>2, <1>5

\* A fault counts in the history by its cause and in the breaker by its flag.
LEMMA ThrowKeeps ==
  ASSUME TypeOK, CountIsFair, UNCHANGED setting, NEW c \in Calls, NEW fault, Throw(c, fault),
         fault = "unsendable" => setting = "request"
  PROVE  CircuitType' /\ CountIsFair'
<1> DEFINE k0 == kind[c]
           cause == Cause(fault)
           b == blamed[k0]
           more == [b EXCEPT ![cause] = @ + 1]
           extra(blame) == IF setting = "request" THEN blame.setting ELSE 0
<1>1. k0 \in Kinds /\ CircuitType /\ b \in Blame
  BY DEF TypeOK, CircuitType
<1>2. cause \in {"user", "setting", "upstream"}
  BY CauseFacts
<1>3. /\ more \in Blame
      /\ more.upstream = IF cause = "upstream" THEN b.upstream + 1 ELSE b.upstream
      /\ more.setting = IF cause = "setting" THEN b.setting + 1 ELSE b.setting
  <2> HIDE DEF b, cause
  <2> QED BY <1>1, <1>2 DEF Blame
<1>4. blamed' = [blamed EXCEPT ![k0] = more]
  BY DEF Throw
<1>5. blamed'[k0] = more /\ blamed' \in [Kinds -> Blame]
      /\ \A k \in Kinds : k # k0 => blamed'[k] = blamed[k]
  <2> HIDE DEF more
  <2> QED BY <1>1, <1>3, <1>4 DEF CircuitType
<1>6. /\ failures' \in [Kinds -> Nat]
      /\ failures'[k0] = IF Counts(fault) THEN failures[k0] + 1 ELSE failures[k0]
      /\ \A k \in Kinds : k # k0 => failures'[k] = failures[k]
  BY <1>1 DEF Throw, CircuitType, breakerFor
<1>7. /\ open' \in [Kinds -> BOOLEAN]
      /\ open'[k0] <=> open[k0] \/ (Counts(fault) /\ failures'[k0] >= Threshold)
      /\ \A k \in Kinds : k # k0 => (open'[k] <=> open[k])
  BY <1>1 DEF Throw, CircuitType, breakerFor, Opens
<1>8. /\ cooled' \in [Kinds -> BOOLEAN]
      /\ cooled'[k0] <=> cooled[k0] /\ cause # "upstream"
      /\ \A k \in Kinds : k # k0 => (cooled'[k] <=> cooled[k])
  BY <1>1 DEF Throw, CircuitType
<1>9. CircuitType'
  BY <1>5, <1>6, <1>7, <1>8 DEF CircuitType
<1>10. ASSUME NEW k \in Kinds
       PROVE  /\ blamed'[k].upstream <= failures'[k]
              /\ failures'[k] <= Earned(k)'
              /\ open'[k] => failures'[k] >= Threshold
              /\ failures'[k] >= Threshold /\ ~cooled'[k] => open'[k]
  <2> HIDE DEF more, cause
  <2>1. CASE k # k0
    BY <1>5, <1>6, <1>7, <1>8, <2>1 DEF CountIsFair, Earned
  <2>2. CASE k = k0
    <3>1. /\ b.upstream \in Nat /\ b.setting \in Nat /\ failures[k0] \in Nat
          /\ Threshold \in Nat
      BY <1>1, ThresholdAssumption DEF Blame, CircuitType
    <3>2. /\ b.upstream <= failures[k0] /\ failures[k0] <= b.upstream + extra(b)
          /\ open[k0] => failures[k0] >= Threshold
          /\ failures[k0] >= Threshold /\ ~cooled[k0] => open[k0]
      BY <1>1 DEF CountIsFair, Earned
    <3>3. /\ cause = "upstream" => Counts(fault)
          /\ cause = "user" => ~Counts(fault)
          /\ cause = "setting" /\ Counts(fault) => setting = "request"
      BY CauseFacts DEF cause
    <3>4. /\ more.upstream <= failures'[k0]
          /\ failures'[k0] <= more.upstream + extra(more)
      <4> HIDE DEF b, k0
      <4> QED BY <1>2, <1>3, <1>6, <3>1, <3>2, <3>3
    <3>5. open'[k0] => failures'[k0] >= Threshold
      BY <1>6, <1>7, <3>1, <3>2
    <3>6. failures'[k0] >= Threshold /\ ~cooled'[k0] => open'[k0]
      BY <1>6, <1>7, <1>8, <3>1, <3>2, <3>3
    <3>7. Earned(k)' = more.upstream + extra(more)
      <4> HIDE DEF k0
      <4>1. blamed'[k] = more
        BY <1>5, <2>2
      <4>2. setting' = setting
        OBVIOUS
      <4> QED BY <4>1, <4>2 DEF Earned
    <3> HIDE DEF k0, extra
    <3> QED BY <1>5, <2>2, <3>4, <3>5, <3>6, <3>7
  <2> QED BY <2>1, <2>2
<1> QED BY <1>9, <1>10 DEF CountIsFair

\* The end of a cool-down closes a circuit without forgetting its count.
LEMMA CoolDownKeeps ==
  ASSUME TypeOK, CountIsFair, NEW k0 \in Kinds, CoolDown(k0)
  PROVE  CircuitType' /\ CountIsFair'
BY DEF TypeOK, CircuitType, CountIsFair, Earned, CoolDown, config

\* A step that leaves the breakers alone keeps what is said of them.
LEMMA CircuitStays ==
  ASSUME TypeOK, CountIsFair, UNCHANGED setting, UNCHANGED circuit
  PROVE  CircuitType' /\ CountIsFair'
BY DEF TypeOK, CircuitType, CountIsFair, Earned, circuit

-----------------------------------------------------------------------------
\* A step that ends or moves a call keeps the types of what is not the circuit,
\* and, with the right number of requests, SentByStage.
LEMMA MoveKeeps ==
  ASSUME TypeOK, SentByStage, NEW c \in Calls,
         NEW s \in {"idle", "done"} \cup Waiting, NEW m \in 0 .. 1, NEW n \in 0 .. 1,
         Goto(c, s),
         sent' = [sent EXCEPT ![c] = @ + m],
         redirects' = [redirects EXCEPT ![c] = @ + n],
         redirects[c] + n <= MaxRedirects,
         s \in {"request", "body"} => sent[c] + m = 1 /\ redirects[c] + n = 0,
         s \in {"download", "audio"} => sent[c] + m = redirects[c] + n + 2,
         s # "idle",
         sent[c] + m <= MaxRedirects + 2
  PROVE  /\ stage' \in [Calls -> {"idle", "done"} \cup Waiting]
         /\ redirects' \in [Calls -> 0 .. MaxRedirects]
         /\ sent' \in [Calls -> Nat]
         /\ SentByStage'
<1>1. /\ stage \in [Calls -> {"idle", "done"} \cup Waiting]
      /\ redirects \in [Calls -> 0 .. MaxRedirects]
      /\ sent \in [Calls -> Nat]
      /\ MaxRedirects \in Nat
  BY MaxRedirectsAssumption DEF TypeOK
<1>2. /\ stage'[c] = s /\ sent'[c] = sent[c] + m /\ redirects'[c] = redirects[c] + n
      /\ \A d \in Calls : d # c =>
           stage'[d] = stage[d] /\ sent'[d] = sent[d] /\ redirects'[d] = redirects[d]
  BY <1>1 DEF Goto
<1>3. stage' \in [Calls -> {"idle", "done"} \cup Waiting]
  BY <1>1 DEF Goto
<1>4. redirects' \in [Calls -> 0 .. MaxRedirects] /\ sent' \in [Calls -> Nat]
  BY <1>1
<1>5. SentByStage'
  BY <1>1, <1>2 DEF SentByStage
<1> QED BY <1>3, <1>4, <1>5

\* A step of a call: what it does to the circuit, and where it leaves the call.
LEMMA CallKeeps ==
  ASSUME IInv, NEW c \in Calls, UNCHANGED <<config, kind>>,
         NEW s \in {"done"} \cup Waiting, NEW m \in 0 .. 1, NEW n \in 0 .. 1,
         \/ Succeed(c)
         \/ Fails(c)
         \/ UNCHANGED circuit,
         Goto(c, s),
         sent' = [sent EXCEPT ![c] = @ + m],
         redirects' = [redirects EXCEPT ![c] = @ + n],
         redirects[c] + n <= MaxRedirects,
         s \in {"request", "body"} => sent[c] + m = 1 /\ redirects[c] + n = 0,
         s \in {"download", "audio"} => sent[c] + m = redirects[c] + n + 2,
         sent[c] + m <= MaxRedirects + 2
  PROVE  IInv'
<1>1. TypeOK /\ CountIsFair /\ SentByStage
  BY DEF IInv
<1>2. CircuitType' /\ CountIsFair'
  BY <1>1, SucceedKeeps, ThrowKeeps, CircuitStays DEF Fails, config
<1>3. s \in {"idle", "done"} \cup Waiting /\ s # "idle"
  BY DEF Waiting
<1>4. /\ stage' \in [Calls -> {"idle", "done"} \cup Waiting]
      /\ redirects' \in [Calls -> 0 .. MaxRedirects]
      /\ sent' \in [Calls -> Nat]
      /\ SentByStage'
  BY <1>1, <1>3, MoveKeeps
<1>5. TypeOK'
  BY <1>1, <1>2, <1>4 DEF TypeOK, CircuitType, config
<1> QED BY <1>2, <1>4, <1>5 DEF IInv

\* A step that sends nothing and ends the call or lets it read.
LEMMA QuietKeeps ==
  ASSUME IInv, NEW c \in Calls, UNCHANGED <<config, kind, sent, redirects>>,
         NEW s \in {"done"} \cup Waiting,
         \/ Succeed(c)
         \/ Fails(c)
         \/ UNCHANGED circuit,
         Goto(c, s),
         s \in {"request", "body"} => sent[c] = 1 /\ redirects[c] = 0,
         s \in {"download", "audio"} => sent[c] = redirects[c] + 2
  PROVE  IInv'
<1>1. /\ redirects \in [Calls -> 0 .. MaxRedirects] /\ sent \in [Calls -> Nat]
      /\ sent[c] <= MaxRedirects + 2 /\ MaxRedirects \in Nat
  BY MaxRedirectsAssumption DEF IInv, TypeOK, SentByStage
<1>2. /\ sent' = [sent EXCEPT ![c] = @ + 0]
      /\ redirects' = [redirects EXCEPT ![c] = @ + 0]
  BY <1>1
<1>3. redirects[c] + 0 <= MaxRedirects /\ sent[c] + 0 <= MaxRedirects + 2
  BY <1>1
<1>4. /\ s \in {"request", "body"} => sent[c] + 0 = 1 /\ redirects[c] + 0 = 0
      /\ s \in {"download", "audio"} => sent[c] + 0 = redirects[c] + 0 + 2
  BY <1>1
<1>5. 0 \in 0 .. 1 /\ UNCHANGED <<config, kind>>
  OBVIOUS
<1> QED BY <1>2, <1>3, <1>4, <1>5, CallKeeps

\* Nothing has failed at first.
LEMMA InitIInv == Init => IInv
<1> SUFFICES ASSUME Init PROVE IInv
  OBVIOUS
<1>1. TypeOK
  BY MaxRedirectsAssumption DEF Init, TypeOK, Blame, Nobody, Waiting
<1>2. CountIsFair
  BY ThresholdAssumption DEF Init, CountIsFair, Earned, Nobody
<1>3. ASSUME NEW c \in Calls
      PROVE  stage[c] = "idle" /\ sent[c] = 0 /\ redirects[c] = 0
  BY DEF Init
<1>4. MaxRedirects \in Nat /\ 0 <= MaxRedirects + 2
  BY MaxRedirectsAssumption
<1>5. SentByStage
  BY <1>3, <1>4 DEF SentByStage
<1> QED BY <1>1, <1>2, <1>5 DEF IInv

\* Every step keeps the invariant.
LEMMA StepKeeps == IInv /\ [Next]_vars => IInv'
<1> SUFFICES ASSUME IInv, [Next]_vars PROVE IInv'
  OBVIOUS
<1> USE DEF Wait
<1>T. /\ TypeOK /\ SentByStage /\ MaxRedirects \in Nat
      /\ redirects \in [Calls -> 0 .. MaxRedirects] /\ sent \in [Calls -> Nat]
  BY MaxRedirectsAssumption DEF IInv, TypeOK
<1>W. {"request", "body", "download", "audio"} \subseteq {"done"} \cup Waiting
      /\ "done" \in {"done"} \cup Waiting
  BY DEF Waiting
<1>1. ASSUME NEW c \in Calls, FailFast(c) PROVE IInv'
  BY <1>1, <1>W, QuietKeeps DEF FailFast, circuit
<1>2. ASSUME NEW c \in Calls, Refuse(c) PROVE IInv'
  <2>1. Fails(c)
    BY <1>2 DEF Refuse, Fails, Refusals, SettingFaults
  <2>2. Goto(c, "done")
    BY <2>1 DEF Fails, Throw
  <2> QED BY <1>2, <2>1, <2>2, <1>W, QuietKeeps DEF Refuse
<1>3. ASSUME NEW c \in Calls, Mock(c) PROVE IInv'
  <2>1. Goto(c, "done")
    BY <1>3 DEF Mock, Succeed
  <2> QED BY <1>3, <2>1, <1>W, QuietKeeps DEF Mock
<1>4. ASSUME NEW c \in Calls, Request(c) PROVE IInv'
  <2>1. sent[c] = 0 /\ redirects[c] = 0
    BY <1>4, <1>T DEF Request, Admitted, SentByStage
  <2>2. /\ sent' = [sent EXCEPT ![c] = @ + 1]
        /\ redirects' = [redirects EXCEPT ![c] = @ + 0]
    BY <1>4, <1>T DEF Request, Send
  <2>3. /\ Goto(c, "request") /\ UNCHANGED <<config, kind>> /\ UNCHANGED circuit
        /\ redirects[c] + 0 <= MaxRedirects /\ sent[c] + 1 <= MaxRedirects + 2
        /\ sent[c] + 1 = 1 /\ redirects[c] + 0 = 0
        /\ 0 \in 0 .. 1 /\ 1 \in 0 .. 1
    BY <1>4, <2>1, <1>T DEF Request
  <2> QED BY <2>2, <2>3, <1>W, CallKeeps
<1>5. ASSUME NEW c \in Calls, Respond(c) PROVE IInv'
  <2>1. sent[c] = 1 /\ redirects[c] = 0
    BY <1>5, <1>T DEF Respond, SentByStage
  <2>2. CASE Wait(c, "body")
    BY <1>5, <2>1, <2>2, <1>W, QuietKeeps DEF Respond
  <2>3. CASE Fails(c)
    <3>1. Goto(c, "done")
      BY <2>3 DEF Fails, Throw
    <3> QED BY <1>5, <2>3, <3>1, <1>W, QuietKeeps DEF Respond
  <2> QED BY <1>5, <2>2, <2>3 DEF Respond, ResponseFaults, Fails
<1>6. ASSUME NEW c \in Calls, Read(c) PROVE IInv'
  <2>1. sent[c] = 1 /\ redirects[c] = 0
    BY <1>6, <1>T DEF Read, SentByStage
  <2>2. CASE (Succeed(c) \/ Fails(c)) /\ UNCHANGED <<redirects, sent>>
    <3>1. Goto(c, "done") /\ UNCHANGED <<config, kind, sent, redirects>>
      BY <1>6, <2>2 DEF Fails, Throw, Succeed, Read
    <3> QED BY <2>2, <3>1, <1>W, QuietKeeps
  <2>3. CASE Wait(c, "download") /\ Send(c) /\ UNCHANGED redirects
    <3>1. /\ sent' = [sent EXCEPT ![c] = @ + 1]
          /\ redirects' = [redirects EXCEPT ![c] = @ + 0]
      BY <2>3, <1>T DEF Send
    <3>2. /\ Goto(c, "download") /\ UNCHANGED <<config, kind>> /\ UNCHANGED circuit
          /\ redirects[c] + 0 <= MaxRedirects /\ sent[c] + 1 <= MaxRedirects + 2
          /\ sent[c] + 1 = redirects[c] + 0 + 2
          /\ 0 \in 0 .. 1 /\ 1 \in 0 .. 1
      BY <1>6, <2>1, <2>3, <1>T DEF Read
    <3> QED BY <3>1, <3>2, <1>W, CallKeeps
  <2>4. kind[c] \in Kinds
    BY <1>T DEF TypeOK
  <2>5. \A fault \in AnswerFaults[kind[c]] : fault # "unsendable"
    BY <2>4 DEF AnswerFaults, Kinds
  <2> QED BY <1>6, <2>2, <2>3, <2>5 DEF Read, Fails
<1>7. ASSUME NEW c \in Calls, Download(c) PROVE IInv'
  <2>1. sent[c] = redirects[c] + 2
    BY <1>7, <1>T DEF Download, SentByStage
  <2>2. CASE Fails(c) /\ UNCHANGED <<redirects, sent>>
    <3>1. Goto(c, "done") /\ UNCHANGED <<config, kind, sent, redirects>>
      BY <1>7, <2>2 DEF Fails, Throw, Download
    <3> QED BY <2>2, <3>1, <1>W, QuietKeeps
  <2>3. CASE Wait(c, "audio") /\ UNCHANGED <<redirects, sent>>
    <3>1. Goto(c, "audio") /\ UNCHANGED <<config, kind, sent, redirects>>
      BY <1>7, <2>3 DEF Download
    <3> QED BY <2>1, <2>3, <3>1, <1>W, QuietKeeps
  <2>4. CASE /\ MayFollow(c)
             /\ redirects' = [redirects EXCEPT ![c] = @ + 1]
             /\ Wait(c, "download") /\ Send(c)
    <3>1. sent' = [sent EXCEPT ![c] = @ + 1]
      BY <2>4 DEF Send
    <3>2. /\ Goto(c, "download") /\ UNCHANGED <<config, kind>> /\ UNCHANGED circuit
          /\ redirects[c] + 1 <= MaxRedirects /\ sent[c] + 1 <= MaxRedirects + 2
          /\ sent[c] + 1 = redirects[c] + 1 + 2
          /\ 1 \in 0 .. 1
      BY <1>7, <2>1, <2>4, <1>T DEF Download, MayFollow
    <3> QED BY <2>4, <3>1, <3>2, <1>W, CallKeeps
  <2> QED BY <1>7, <2>2, <2>3, <2>4 DEF Download, DownloadFaults, Fails
<1>8. ASSUME NEW c \in Calls, ReadAudio(c) PROVE IInv'
  <2>1. /\ Goto(c, "done") /\ UNCHANGED <<config, kind, sent, redirects>>
        /\ Succeed(c) \/ Fails(c)
    BY <1>8 DEF Fails, Throw, Succeed, ReadAudio, AudioFaults
  <2> QED BY <2>1, <1>W, QuietKeeps
<1>9. ASSUME NEW c \in Calls, Timeout(c) PROVE IInv'
  <2>1. Goto(c, "done") /\ UNCHANGED <<config, kind, sent, redirects>> /\ Fails(c)
    <3>1. Throw(c, "timeout") /\ "timeout" # "unsendable"
      BY <1>9 DEF Timeout
    <3> QED BY <1>9, <3>1 DEF Fails, Throw, Timeout
  <2> QED BY <1>9, <2>1, <1>W, QuietKeeps DEF Timeout
<1>10. ASSUME NEW k \in Kinds, CoolDown(k) PROVE IInv'
  <2>1. CircuitType' /\ CountIsFair'
    BY <1>10, CoolDownKeeps DEF IInv
  <2>2. UNCHANGED <<config, kind, stage, redirects, sent>>
    BY <1>10 DEF CoolDown
  <2> QED BY <2>1, <2>2 DEF IInv, TypeOK, SentByStage, CircuitType, config
<1>11. CASE UNCHANGED vars
  BY <1>11 DEF IInv, TypeOK, CountIsFair, Earned, SentByStage, vars, config, circuit
<1> QED
  BY <1>1, <1>2, <1>3, <1>4, <1>5, <1>6, <1>7, <1>8, <1>9, <1>10, <1>11
     DEF Next, Begin, Answer

\* The inductive invariant: the count of a breaker is fair, and calls are within bounds.
THEOREM Invariance == Spec => []IInv
BY InitIInv, StepKeeps, PTL DEF Spec

\* Type correctness, for any number of calls: no download follows more than
\* MaxRedirects redirects.
THEOREM TypeCorrect == Spec => []TypeOK
<1>1. IInv => TypeOK
  BY DEF IInv
<1> QED BY <1>1, Invariance, PTL

\* An open circuit of src/providers.mjs has seen, since its capability's last
\* success, the threshold of the provider's faults, or of requests no setting
\* allowed it to form, however calls overlap.
THEOREM CircuitEarned == Spec => []OpenIsEarned
<1>1. IInv => OpenIsEarned
  <2> SUFFICES ASSUME IInv, NEW k \in Kinds, open[k]
               PROVE  Earned(k) >= Threshold
    BY DEF OpenIsEarned
  <2>1. /\ Earned(k) \in Nat /\ failures[k] \in Nat /\ Threshold \in Nat
    BY ThresholdAssumption DEF IInv, TypeOK, Blame, Earned
  <2> QED BY <2>1 DEF IInv, CountIsFair
<1> QED BY <1>1, Invariance, PTL

\* The threshold of faults of the provider opens the circuit, and it stays open
\* until the cool-down ends or a call succeeds.
THEOREM CircuitTrips == Spec => []TripsAtThreshold
<1>1. IInv => TripsAtThreshold
  <2> SUFFICES ASSUME IInv, NEW k \in Kinds, blamed[k].upstream >= Threshold, ~cooled[k]
               PROVE  open[k]
    BY DEF TripsAtThreshold
  <2>1. blamed[k].upstream \in Nat /\ failures[k] \in Nat /\ Threshold \in Nat
    BY ThresholdAssumption DEF IInv, TypeOK, Blame
  <2> QED BY <2>1 DEF IInv, CountIsFair
<1> QED BY <1>1, Invariance, PTL

\* A call sends at most one request, one download and its redirects.
THEOREM SendsBounded == Spec => []RequestsBounded
<1>1. IInv => RequestsBounded
  BY DEF IInv, SentByStage, RequestsBounded
<1> QED BY <1>1, Invariance, PTL
=============================================================================
