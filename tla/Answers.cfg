SPECIFICATION AnswersSpec
CONSTANTS
  RejectCooldown = 2
  RetryAfters = {0, 1, 3}
  MaxTime = 4
  MaxUsed = 3
  Pieces <- MCPieces
  IdOf <- MCIdOf
  IndexOf <- MCIndexOf
INVARIANTS
  DeadlinesHonoured
  WithheldForAReason
  StatusIsTheVerdict
  LengthTellsBlocks
  SignalIsNoState
  ParseFindsLongestRun
  ScorerUsesWhatRunnerCounts
  GoneCredentialIsSeen
  KeysTellCredentialsApart
