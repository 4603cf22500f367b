SPECIFICATION FairSpec
CONSTANTS
  c1 = c1
  Calls = {c1}
  Notes = {}
  Nobody = Nobody
  Refused = {c1}
  EchoForms = {"float"}
  Noise <- MCNoise
  Logging = TRUE
  MaxAnswers = 1
  MaxInbound = 1
INVARIANTS
  RefusalsEcho
  LogExplains
PROPERTIES
  PromptReturn
  RunEnds
CHECK_DEADLOCK FALSE
