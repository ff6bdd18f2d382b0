\* Every table, folds and undos in any order.
SPECIFICATION Spec
CONSTANTS
  Works = {1, 2, 3}
  Users = {u1}
  Tables = {"resource", "like", "contributor", "daily", "work"}
  Siblings = FALSE
  MaxFolds = 3
  MaxEdits = 1
  MaxRemovals = 1
INVARIANT LedgersLeadToRows
PROPERTY PagesSpec
CHECK_DEADLOCK FALSE
