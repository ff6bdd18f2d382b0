\* Every winner count, weights far apart and equal.
SPECIFICATION Spec
CONSTANTS
  PrizeLists <- MCPrizeLists
  MaxAmount = 7
  MaxPrizeSlots = 3
  Weights = {1, 2, 9}
  BudgetLimit = 12
INVARIANT BudgetCoversPayouts
INVARIANT PoolSpentExactly
INVARIANT SharesFollowDraw
CHECK_DEADLOCK FALSE
