SPECIFICATION Spec
CONSTANTS
  Calls = {c1, c2, c3}
  Threshold = 2
  MaxRedirects = 1
INVARIANT ConfigurationOpensNoCircuit
CHECK_DEADLOCK FALSE
