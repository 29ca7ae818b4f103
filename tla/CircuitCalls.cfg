SPECIFICATION FairSpec
CONSTANTS
  Calls = {c1, c2, c3}
  Threshold = 2
  MaxRedirects = 1
INVARIANTS OpenIsEarned TripsAtThreshold
PROPERTY EveryCallEnds
CHECK_DEADLOCK FALSE
