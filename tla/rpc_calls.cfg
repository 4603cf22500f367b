SPECIFICATION Spec
CONSTANTS
  m1 = m1
  c1 = c1
  c2 = c2
  Calls = {c1, c2}
  Notes = {m1}
  Nobody = Nobody
  Refused = {}
  EchoForms = {"string"}
  Noise = {}
  Logging = FALSE
  MaxAnswers = 1
  MaxInbound = 2
INVARIANTS
  Correlation
  PendingIsLive
  OneCause
PROPERTIES
  KeepsPromise
SYMMETRY MCSymmetry
CHECK_DEADLOCK FALSE
