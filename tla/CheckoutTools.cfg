SPECIFICATION CheckoutSpec
CONSTANTS
  Builds = {b1, b2, b3}
  Previous = previous
  None = none
  MaxRefusals = 2
  Documents = {d1, d2}
  Paths = {p1, p2}
  MaxEdits = 1
  NoDocument = NoDocument
  Sessions = {a, b}
  MaxHandoffs = 1
SYMMETRY BuildSymmetry
INVARIANTS
  DistIsVerified CandidateSurvives DistComesBack NoDebris
  DriftCheckIsExact CorpusIsWhole
  InspectionWasTrue AgentCheckWasTrue RuntimeFileIsWhole
CHECK_DEADLOCK FALSE
