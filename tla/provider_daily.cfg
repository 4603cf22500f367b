SPECIFICATION Spec
CONSTANTS
  c1 = c1
  c2 = c2
  Callers = {c1, c2}
  Primary = "flash"
  Fallbacks <- MCFallbacks
  Unnamed = ""
  MaxAttempts = 2
INVARIANTS
  NeverWaitsForTomorrow
CHECK_DEADLOCK FALSE
