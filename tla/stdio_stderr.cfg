SPECIFICATION FairSpec
CONSTANTS
  w1 = w1
  Writers = {w1}
  k1 = k1
  Closers = {k1}
  Nobody = Nobody
  Output <- MCOutput
  JsonLines <- MCJsonLines
  LogLines = {"short", "long"}
  Parts = 2
  PipeSize = 1
  MaxLogs = 3
PROPERTIES
  LoggingGoesOn
CHECK_DEADLOCK FALSE
