SPECIFICATION FairSpec
CONSTANTS
  Requests = {r1, r2}
  Keys = {k1, k2}
  Payloads = {spoken, typed}
  AudioPayloads = {spoken}
  SpokenPayloads = {spoken}
  Deals = {d1}
  ExpectedVersions = {1}
  None = None
INVARIANTS
  CompletedMeansCommitted ReviewHoldsBack EffectsMatchEvents
  EveryVersionHasOneCommand SuccessIsReplayable AnswerHasTrail
PROPERTIES KeepsPromise EveryAskEnds
CHECK_DEADLOCK FALSE
