SPECIFICATION Spec
CONSTANTS
  Requests = {q, r}
  Speeches = {s, t}
  Keys = {k1, k2}
  Payloads = {typed, spoken}
  SpokenPayloads = {spoken}
  None = None
INVARIANTS OneAnswerPerKey OneVoicePerKey
PROPERTY KeepsLedger
SYMMETRY Symmetry
