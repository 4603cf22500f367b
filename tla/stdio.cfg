SPECIFICATION FairSpec
CONSTANTS
  w1 = w1
  w2 = w2
  Writers = {w1, w2}
  k1 = k1
  Closers = {k1}
  Nobody = Nobody
  Output <- MCOutput
  JsonLines <- MCJsonLines
  LogLines = {"short"}
  Parts = 2
  PipeSize = 1
  MaxLogs = 2
INVARIANTS
  WholeFrames
  NothingLost
PROPERTIES
  CloseReleases
  LoggingGoesOn
CHECK_DEADLOCK FALSE
