CONSTANTS
  InstCount <- MC_InstCount
  Budgets <- MC_Budgets
  PropsVals <- MC_PropsUndirected
  Statuses <- MC_Statuses
  MaxOps <- MC_MaxOps
  MaxConns <- MC_MaxConns
SPECIFICATION Spec
\* The manager idles once the bounded client has made its requests and
\* every command, event and alarm has been handled.
CHECK_DEADLOCK FALSE
INVARIANT TypeOK
INVARIANT CallbackAtMostOnce
PROPERTY CallbackEventuallyRuns
PROPERTY DurationEnforced
