SPECIFICATION FairSpec
CONSTANTS
  c1 = c1
  c2 = c2
  Reader = Reader
  Nobody = Nobody
  Calls = {c1, c2}
  InCap = 1
  OutCap = 1
  MaxAsks = 2

  
PROPERTIES
  KeepsPromise
  Answered
  CloseFrees
CHECK_DEADLOCK FALSE
