SPECIFICATION FairSpec
CONSTANTS
  c1 = c1
  Calls = {c1}
  Notes = {}
  Nobody = Nobody
  Refused = {}
  EchoForms = {"int"}
  Noise = {}
  Logging = FALSE
  MaxAnswers = 2
  MaxInbound = 2
PROPERTIES
  ReaderMovesOn
CHECK_DEADLOCK FALSE
