CONSTANTS
  None = None
  Tasks = {t1, t2}
  Workers = {w1, w2}
  MaxAttempts = 2
  TargetValid = 2
  RequestAttempts = 2
  RequestTimeout = 1
  KeepFor = 1
  MaxStops = 1
SPECIFICATION Spec
INVARIANTS ShownWhileAtWork NoNewChallenge NoThreadForgotten
PROPERTIES ReportsRestOnEnough TestEnds StopReturns
CHECK_DEADLOCK FALSE
