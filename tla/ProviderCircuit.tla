---------------------------- MODULE ProviderCircuit ----------------------------
(***************************************************************************)
(* The provider facade of src/providers.mjs and its adapters: every call   *)
(* to a provider runs under a deadline and a circuit breaker of its        *)
(* capability and adapter.  A call waits for the network, and others       *)
(* run meanwhile, in four stages: "request" and "body" (the JSON or audio  *)
(* answer to the POST), and, for speech that DashScope returns as a URL,   *)
(* "download" and "audio".  Everything between two waits is one step of    *)
(* the event loop.                                                         *)
(*                                                                         *)
(* A fault is named for what went wrong; what it carries to the breaker is *)
(* Ineligible.  The end of a cool-down is a step that may come at any time.*)
(***************************************************************************)
EXTENDS Naturals

CONSTANTS
  Calls,        \* calls the server makes
  Threshold,    \* faults that open a circuit
  MaxRedirects  \* MAX_AUDIO_REDIRECTS

ASSUME ThresholdAssumption == Threshold \in Nat \ {0}
ASSUME MaxRedirectsAssumption == MaxRedirects \in Nat

VARIABLES
  adapter,   \* the adapter configured for each capability
  setting,   \* what is wrong with the configuration, if anything
  kind,      \* the capability each call uses
  stage,     \* what each call waits for
  redirects, \* redirects its download has followed
  sent,      \* requests it has sent
  failures,  \* the count of each circuit
  open,      \* is its cool-down running?
  blamed,    \* faults of each capability since its last success, by cause
  cooled     \* has a cool-down ended since its last fault?

config == <<adapter, setting>>
circuit == <<failures, open, blamed, cooled>>
vars == <<config, kind, stage, redirects, sent, circuit>>

-----------------------------------------------------------------------------
Kinds == {"asr", "intent", "tts"}
Adapters == {"mock", "openai-compatible", "dashscope"}
Settings == {"sound", "deadline", "request", "model", "limit"}
Waiting == {"request", "body", "download", "audio"}

\* The faults that carry breakerEligible = false: the adapter's own refusals,
\* missing or wrong numbers and names in the configuration, and answers of the
\* provider below 500 other than 429.
Ineligible == {"refused", "unset", "rejected", "unexpected"}

\* Who is to blame for a fault (for the properties).
Cause(fault) ==
  CASE fault \in {"refused", "rejected", "unexpected"} -> "user"
    [] fault \in {"unset", "unsendable"} -> "setting"
    [] OTHER -> "upstream"

Blame == [user : Nat, setting : Nat, upstream : Nat]
Nobody == [user |-> 0, setting |-> 0, upstream |-> 0]

\* What an adapter throws before its first request goes out: what users send
\* differs, a setting that is wrong is wrong for every call.  With the setting
\* "request" no request can be formed: the base URL is no URL, or the API key
\* is no header value.
Refusals(k) ==
  IF k = "tts" \/ (k = "asr" /\ adapter[k] = "dashscope") THEN {"refused"} ELSE {}

SettingFaults(k) ==
  IF setting = "request" /\ adapter[k] # "mock" THEN {"unsendable"}
  ELSE IF setting = "model" /\ k = "intent" /\ adapter[k] = "openai-compatible" THEN {"unset"}
  ELSE {}

\* assertProviderResponse, and a request that fails on its way.
ResponseFaults == {"rejected", "unexpected", "limited", "server", "network"}

\* What the adapters find wrong with an answer they have read.
AnswerFaults ==
  [asr |-> {"oversized", "malformed", "no_transcript"},
   intent |-> {"oversized", "malformed", "off_schema"},
   tts |-> {"oversized", "malformed", "not_audio", "not_allowed"}]

\* A host that is not allowlisted, too many redirects, and any answer but 2xx.
DownloadFaults == {"not_allowed", "redirects", "status", "network"}

AudioFaults == {"oversized", "not_audio"}

Init ==
  /\ adapter \in [Kinds -> Adapters]
  /\ setting \in Settings
  /\ kind \in [Calls -> Kinds]
  /\ stage = [c \in Calls |-> "idle"]
  /\ redirects = [c \in Calls |-> 0]
  /\ sent = [c \in Calls |-> 0]
  /\ failures = [k \in Kinds |-> 0]
  /\ open = [k \in Kinds |-> FALSE]
  /\ blamed = [k \in Kinds |-> Nobody]
  /\ cooled = [k \in Kinds |-> FALSE]

Goto(c, s) == stage' = [stage EXCEPT ![c] = s]

\* Mutant: one breaker for an adapter, whatever the capability.
breakerForAdapter(k) == {x \in Kinds : adapter[x] = adapter[k]}

\* The capabilities that share the breaker of k.
breakerFor(k) == {k}

\* A success closes the circuit, even one that was open.
Succeed(c) ==
  /\ Goto(c, "done")
  /\ failures' = [k \in Kinds |-> IF k \in breakerFor(kind[c]) THEN 0 ELSE failures[k]]
  /\ open' = [k \in Kinds |-> open[k] /\ k \notin breakerFor(kind[c])]
  /\ blamed' = [blamed EXCEPT ![kind[c]] = Nobody]
  /\ cooled' = [cooled EXCEPT ![kind[c]] = FALSE]

\* Mutant: one fault too many.
OpensLate(k) == failures'[k] > Threshold

Opens(k) == failures'[k] >= Threshold

\* Mutant: only the adapters' own refusals are told apart.
CountsMost(fault) == fault # "refused"

Counts(fault) == fault \notin Ineligible

\* The catch of the breaker: an eligible fault is counted, and from the
\* threshold on it starts the cool-down, again if it was running.
Throw(c, fault) ==
  LET counted == IF Counts(fault) THEN breakerFor(kind[c]) ELSE {}
  IN  /\ Goto(c, "done")
      /\ failures' = [k \in Kinds |-> IF k \in counted THEN failures[k] + 1 ELSE failures[k]]
      /\ open' = [k \in Kinds |-> open[k] \/ (k \in counted /\ Opens(k))]
      /\ blamed' = [blamed EXCEPT ![kind[c]][Cause(fault)] = @ + 1]
      /\ cooled' = [cooled EXCEPT ![kind[c]] = @ /\ Cause(fault) # "upstream"]

Wait(c, s) == Goto(c, s) /\ UNCHANGED circuit

Send(c) == sent' = [sent EXCEPT ![c] = @ + 1]

-----------------------------------------------------------------------------
\* A deadline that is not a number, like the name of an adapter that does not
\* exist, fails the call before the breaker sees it; an open circuit fails it
\* without counting it.
FailFast(c) ==
  /\ stage[c] = "idle"
  /\ setting = "deadline" \/ open[kind[c]]
  /\ Goto(c, "done")
  /\ UNCHANGED <<config, kind, redirects, sent, circuit>>

Admitted(c) == stage[c] = "idle" /\ setting # "deadline" /\ ~open[kind[c]]

Refuse(c) ==
  /\ Admitted(c)
  /\ \E fault \in Refusals(kind[c]) \cup SettingFaults(kind[c]) : Throw(c, fault)
  /\ UNCHANGED <<config, kind, redirects, sent>>

\* The mock adapter answers at once.
Mock(c) ==
  /\ Admitted(c)
  /\ adapter[kind[c]] = "mock"
  /\ Succeed(c)
  /\ UNCHANGED <<config, kind, redirects, sent>>

\* transcribe, understand and synthesize post one request.
Request(c) ==
  /\ Admitted(c)
  /\ adapter[kind[c]] # "mock" /\ SettingFaults(kind[c]) = {}
  /\ Wait(c, "request") /\ Send(c)
  /\ UNCHANGED <<config, kind, redirects>>

Respond(c) ==
  /\ stage[c] = "request"
  /\ Wait(c, "body") \/ \E fault \in ResponseFaults : Throw(c, fault)
  /\ UNCHANGED <<config, kind, redirects, sent>>

\* The limit on audio is read only now, before the audio is.
LimitIsWrong(c) == kind[c] = "tts" /\ setting = "limit"

\* The answer is read and checked; DashScope's may name a URL to download.
Read(c) ==
  /\ stage[c] = "body"
  /\ \/ /\ \E fault \in AnswerFaults[kind[c]] : Throw(c, fault)
        /\ UNCHANGED <<redirects, sent>>
     \/ /\ LimitIsWrong(c)
        /\ Throw(c, "unset")
        /\ UNCHANGED <<redirects, sent>>
     \/ /\ ~LimitIsWrong(c)
        /\ Succeed(c)
        /\ UNCHANGED <<redirects, sent>>
     \/ /\ ~LimitIsWrong(c) /\ kind[c] = "tts" /\ adapter[kind[c]] = "dashscope"
        /\ Wait(c, "download") /\ Send(c)
        /\ UNCHANGED redirects
  /\ UNCHANGED <<config, kind>>

MayFollow(c) == redirects[c] < MaxRedirects

\* A redirect is followed, to an allowed host and up to the limit; whatever
\* else goes wrong is a fault of the provider.
Download(c) ==
  /\ stage[c] = "download"
  /\ \/ /\ MayFollow(c)
        /\ redirects' = [redirects EXCEPT ![c] = @ + 1]
        /\ Wait(c, "download") /\ Send(c)
     \/ /\ \E fault \in DownloadFaults : Throw(c, fault)
        /\ UNCHANGED <<redirects, sent>>
     \/ /\ Wait(c, "audio")
        /\ UNCHANGED <<redirects, sent>>
  /\ UNCHANGED <<config, kind>>

ReadAudio(c) ==
  /\ stage[c] = "audio"
  /\ Succeed(c) \/ \E fault \in AudioFaults : Throw(c, fault)
  /\ UNCHANGED <<config, kind, redirects, sent>>

\* Mutant: the deadline is over when the headers arrive.
UnderHeaderDeadline(c) == stage[c] \in {"request", "download"}

UnderDeadline(c) == stage[c] \in Waiting

\* The timer aborts whatever the call waits for.
Timeout(c) ==
  /\ UnderDeadline(c)
  /\ Throw(c, "timeout")
  /\ UNCHANGED <<config, kind, redirects, sent>>

CoolDown(k) ==
  /\ open[k]
  /\ open' = [open EXCEPT ![k] = FALSE]
  /\ cooled' = [cooled EXCEPT ![k] = TRUE]
  /\ UNCHANGED <<config, kind, stage, redirects, sent, failures, blamed>>

Begin(c) == FailFast(c) \/ Refuse(c) \/ Mock(c) \/ Request(c)

Answer(c) == Respond(c) \/ Read(c) \/ Download(c) \/ ReadAudio(c)

Next ==
  \/ \E c \in Calls : Begin(c) \/ Answer(c) \/ Timeout(c)
  \/ \E k \in Kinds : CoolDown(k)

Spec == Init /\ [][Next]_vars

\* The event loop starts what it was asked and fires timers; providers owe
\* nothing.
FairSpec == Spec /\ \A c \in Calls : WF_vars(Begin(c)) /\ WF_vars(Timeout(c))

-----------------------------------------------------------------------------
(* Properties *)

TypeOK ==
  /\ adapter \in [Kinds -> Adapters] /\ setting \in Settings
  /\ kind \in [Calls -> Kinds]
  /\ stage \in [Calls -> {"idle", "done"} \cup Waiting]
  /\ redirects \in [Calls -> 0 .. MaxRedirects]
  /\ sent \in [Calls -> Nat]
  /\ failures \in [Kinds -> Nat]
  /\ open \in [Kinds -> BOOLEAN] /\ cooled \in [Kinds -> BOOLEAN]
  /\ blamed \in [Kinds -> Blame]

\* The faults that justify opening the circuit of k: the provider's, and those
\* of a setting with which no request can be formed.
Earned(k) ==
  blamed[k].upstream + IF setting = "request" THEN blamed[k].setting ELSE 0

\* Circuits are isolated by capability, and neither what a user sends nor a
\* refused or missing setting opens one: however calls overlap, an open circuit
\* has seen, since its own capability's last success, the threshold of faults
\* that are the provider's.  One setting is excepted: a base URL or an API key
\* with which no request can be formed counts as a fault of the provider, which
\* is the subject of ConfigurationOpensNoCircuit.
OpenIsEarned == \A k \in Kinds : open[k] => Earned(k) >= Threshold

\* ARCHITECTURE.md: "User/configuration errors do not open a provider circuit."
\* It takes the threshold of faults of the provider to open one.
ConfigurationOpensNoCircuit ==
  \A k \in Kinds : open[k] => blamed[k].upstream >= Threshold

\* RELEASE-READINESS.md: three faults of the provider open the circuit, even if
\* they belong to calls that overlap others; it then stays open until the
\* cool-down ends or a call succeeds.
TripsAtThreshold ==
  \A k \in Kinds : blamed[k].upstream >= Threshold /\ ~cooled[k] => open[k]

\* A call sends at most one request and follows at most MaxRedirects redirects
\* of one download.
RequestsBounded == \A c \in Calls : sent[c] <= MaxRedirects + 2

\* Each provider call has one end-to-end deadline: it ends even if the provider
\* never answers, at whatever stage it stops answering.
EveryCallEnds == <>(\A c \in Calls : stage[c] = "done")
=============================================================================
