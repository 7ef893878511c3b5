SPECIFICATION Spec
CHECK_DEADLOCK FALSE
CONSTANTS
  None = None
  MaxTasks = 2
  Budgets <- SmallBudgets
  Costs <- TwoTokens
  SegmentAction = 1
  SegmentExplore = 1
  PrePlanExplore = 2
  TurnCap = 3
  TokenCeiling = 60
  MaxCrashes = 1
INVARIANTS
  TypeOK
  RoundsStayWithinTheApproval
  PausedTurnCanGoOn
PROPERTIES
  TurnComesToRest
