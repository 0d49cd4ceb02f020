SPECIFICATION Spec
CONSTANTS
  None = None
  Auths = {a1}
  Models = {m1}
  DefaultModel = m1
  AccountOf <- AllPersonal
  Requests = {}
  Worker = worker
  Operators = {op}
  PoolSize = 2
  HarvestAttempts = 2
  ProbeCooldown = 1
  FailCooldown = 2
  DegradedCooldown = 3
  OverloadPause = 2
  ObservedLimit = 2
  RetryAfters = {2}
  ProbeReplies = {"rejected", "degraded", "overloaded", "issued"}
  Statuses = {200, 401, 429}
  Switches = {}
  MaxTime = 2
  MaxRestarts = 0
  Tokens <- OneToken
  TTL = 5
  RefreshBefore = 3
  Skew = 1
  RejectCooldown = 1
INVARIANTS
  TypeOK
  NoHammering
