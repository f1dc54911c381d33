SPECIFICATION RunnerSpec
CONSTANTS
  MaxWall = 1
  MaxTurns = 3
  MaxToolCalls = 3
  MaxTokens = Unlimited
  Unlimited = Unlimited
  Batches = {0, 1, 2}
  Usages = {0}
  Concurrent = TRUE
INVARIANT
  SilenceNotCharged
CHECK_DEADLOCK FALSE
