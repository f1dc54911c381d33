SPECIFICATION Spec
CONSTANTS
  MaxWall = 2
  MaxTurns = 3
  MaxToolCalls = 3
  MaxTokens = 3
  Unlimited = Unlimited
  Batches = {0, 1, 2}
  Usages = {0, 1, 2}
INVARIANT
  RequestsRecordedAsSent
CHECK_DEADLOCK FALSE
