SPECIFICATION Spec
CONSTANTS
  None = None
  Tokens <- MCTokens
  Times <- MCTimes
  TTL = 5
  RefreshBefore = 3
  Skew = 1
  MaxVersion = 3
  MaxBlame = 2
INVARIANTS
  VersionNamesToken
  ReadyDiffers
  StrikesEarned
  RevokedStaysOut
PROPERTIES
  HealthyStays
  NothingIdle
  IsSlot
