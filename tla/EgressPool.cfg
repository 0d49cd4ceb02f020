SPECIFICATION Spec
CONSTANTS
  None = None
  Urls <- MCUrls
  Labels <- MCLabels
  Pools <- MCPools
  Worker = worker
  Operators = {op}
  Attempts = 2
  FailCooldown = 2
  DegradedCooldown = 1
  GoodTTL = 1
  MarkLimit = 1
  CursorPeriod = 2
  MaxTime = 2
INVARIANTS
  TypeOK
  FailuresRest
PROPERTIES
  ChoosesBest
