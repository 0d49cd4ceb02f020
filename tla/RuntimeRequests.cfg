SPECIFICATION Spec
CONSTANTS
  None = None
  Auths = {a1}
  Models = {m1}
  DefaultModel = m1
  AccountOf <- AllPersonal
  Requests = {r1, r2}
  Worker = worker
  Operators = {}
  PoolSize = 2
  HarvestAttempts = 1
  ProbeCooldown = 1
  FailCooldown = 2
  DegradedCooldown = 3
  OverloadPause = 2
  ObservedLimit = 3
  RetryAfters = {0}
  ProbeReplies = {"issued", "failed", "unavailable", "unrecorded"}
  Statuses = {200}
  Switches = {"injection", "fallback"}
  MaxTime = 0
  MaxRestarts = 0
  Tokens <- TwoTokens
  TTL = 5
  RefreshBefore = 3
  Skew = 1
  RejectCooldown = 1
INVARIANTS
  StrikesNeedRequests
PROPERTIES
  AnswerCostsOnlyUsed
  WithdrawnNotInjected
  VerifiedServes
