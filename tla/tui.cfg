SPECIFICATION FairSpec
CONSTANTS
  t1 = t1
  Tools = {t1}
  Outcomes = {"nothing"}
  MaxTurns = 2
  MaxCalls = 2
  MaxAsks = 2
INVARIANTS
  TypeOK
  BusyCoversAsk
  HistoryPaired
  RequestWellFormed
  UsageMatchesHistory
PROPERTIES
  UsedAlone
  CanceledByUser
  NewsMarked
  EscFreesInput
CHECK_DEADLOCK FALSE
