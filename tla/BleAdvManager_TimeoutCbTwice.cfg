CONSTANTS
  InstCount <- MC_InstCount
  Budgets <- MC_Budgets
  PropsVals <- MC_PropsUndirected
  Statuses <- MC_Statuses
  MaxOps <- MC_MaxOps
  MaxConns <- MC_MaxConns
SPECIFICATION Spec
CHECK_DEADLOCK FALSE
INVARIANT TimeoutCbAtMostOnce
