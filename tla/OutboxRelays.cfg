SPECIFICATION FairSpec
CONSTANTS
  Rows = {1, 2, 3}
  Workers = {w1, w2}
  Nobody = Nobody
  Former = Former
  BatchSize = 2
  MaxAttempts = 2
  MaxCrashes = 1
  MaxStalls = 1
INVARIANTS SettledIsOut BudgetIsExact
PROPERTIES KeepsPromise EveryEventSettles
CHECK_DEADLOCK FALSE
