SPECIFICATION FairSpec
CONSTANTS
  c1 = c1
  c2 = c2
  Callers = {c1, c2}
  Primary = "flash"
  Fallbacks <- MCFallbacks
  Unnamed = ""
  MaxAttempts = 2
INVARIANTS
  NoHealthySkipped
  SpentIsTrue
  WithinBudget
PROPERTIES
  GenerateEnds
CHECK_DEADLOCK FALSE
