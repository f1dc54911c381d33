SPECIFICATION Spec
CONSTANTS
  MaxWall = 2
  MaxTurns = 3
  MaxToolCalls = 3
  MaxTokens = 3
  Unlimited = Unlimited
  Batches = {0, 1, 2}
  Usages = {0, 1, 2}
INVARIANTS
  TypeOK
  MetricsMatchTrajectory
  ConversationComplete
  StatusMatchesTrajectory
  BudgetOutcomesDistinct
PROPERTY
  Termination
CHECK_DEADLOCK FALSE
