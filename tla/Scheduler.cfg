SPECIFICATION Spec
CONSTANTS
  None = None
  Auths = {a1}
  Models = {m1, m2}
  DefaultModel = m1
  ProbeCooldown = 1
  FailCooldown = 1
  DegradedCooldown = 1
  OverloadPause = 1
  RejectCooldown = 1
  RetryAfters = {0}
  ScanEvery = 0
  YieldTime = 1
  Worker = w
  Operators = {o1}
PROPERTIES
  NobodyStarves
  DefaultIsServed
  KeepsCadence
