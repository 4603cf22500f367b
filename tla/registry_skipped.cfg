SPECIFICATION StartupSpec
CONSTANTS
  Bytes <- MCBytes
  Letters <- MCLetters
  Digits <- MCDigits
  Continuing <- MCContinuing
  MaxNameLength = 6
  Order <- MCOrder
  Label <- MCLabel
  Catalog <- MCCatalog
  Cursors = {"p", "q"}
  k1 = k1
  Callers = {k1}
  MaxPages = 3
  MaxListed = 2
  Disabled = {"s2"}
INVARIANTS
  SkippedOffersNothing
CHECK_DEADLOCK FALSE
