SPECIFICATION Spec
CONSTANTS
  None = None
  Auths = {a1}
  Models = {m1, m2}
  DefaultModel = m1
  AccountOf <- AllTeam
  Requests = {r1}
  Worker = worker
  Operators = {}
  PoolSize = 2
  HarvestAttempts = 1
  ProbeCooldown = 1
  FailCooldown = 2
  DegradedCooldown = 3
  OverloadPause = 2
  ObservedLimit = 3
  RetryAfters = {0, 2}
  ProbeReplies = {"issued", "rejected"}
  Statuses = {200, 429}
  Switches = {}
  MaxTime = 1
  MaxRestarts = 1
  Tokens <- TeamToken
  TTL = 3
  RefreshBefore = 3
  Skew = 1
  RejectCooldown = 1
INVARIANTS
  StatesStayHome
PROPERTIES
  LimitNeverLoosens
  RestartKeepsStates
