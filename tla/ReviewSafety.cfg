SPECIFICATION FairSpec
CONSTANTS
  Deciders = {d1, d2, d3}
  Keys = {k1, k2}
  Reviews = {v1, v2}
  None = None
INVARIANTS DecidedOnce AnswersAgree KeysNameDecisions
PROPERTIES DecisionsStand EveryDecisionEnds
CHECK_DEADLOCK FALSE
