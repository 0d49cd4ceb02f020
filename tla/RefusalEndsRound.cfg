SPECIFICATION Spec
CONSTANTS
  None = None
  Auths = {a1}
  Models = {m1}
  DefaultModel = m1
  AccountOf <- AllPersonal
  Requests = {}
  Worker = worker
  Operators = {}
  PoolSize = 2
  HarvestAttempts = 2
  ProbeCooldown = 1
  FailCooldown = 2
  DegradedCooldown = 3
  OverloadPause = 1
  ObservedLimit = 3
  RetryAfters = {0}
  ProbeReplies = {"rejected", "overloaded", "issued"}
  Statuses = {200, 401}
  Switches = {}
  MaxTime = 1
  MaxRestarts = 0
  Tokens <- TwoTokens
  TTL = 5
  RefreshBefore = 3
  Skew = 1
  RejectCooldown = 2
PROPERTY
  RefusalEndsRound
