SPECIFICATION FairIncidentSpec
CONSTANTS
  Runs = {a, b}
  MaxPushes = 2
  MaxFaults = 2
INVARIANTS OnlyBlindRunsDuplicate ClosedMeansRecovered
PROPERTY IssueTellsTheTruth
