SPECIFICATION FairSpec
CONSTANTS
  w1 = w1
  w2 = w2
  Writes = {w1, w2}
  Opening = w1
  k1 = k1
  k2 = k2
  Closers = {k1, k2}
  QueueSize = 1
  MaxEvents = 2
  Lines <- MCLines
  MaxLines = 5
INVARIANTS
  QueueClosedLast
  FramesKept
  NoStrangers
  EventsRead
PROPERTIES
  CloseReleases
CHECK_DEADLOCK FALSE
