SPECIFICATION IncidentSpec
CONSTANTS
  Runs = {a, b}
  MaxPushes = 2
  MaxFaults = 2
INVARIANT OneDeterministicIssue
