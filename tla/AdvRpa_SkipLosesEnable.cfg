CONSTANTS
  InstCount <- MC_InstCount
  Statuses <- MC_Statuses
  MaxOps = 5
  MaxTicks = 2
  SkipReload <- MC_SkipReload
  Budgets = {FALSE, TRUE}
  Bcasts = {TRUE}
  Encs = {FALSE}
  Sizes <- MC_Sizes
  RpaGenOffload = FALSE
  EncEnabled = FALSE
  CarefulClient = TRUE
  Clients <- MC_RpaClients
SPECIFICATION Spec
CHECK_DEADLOCK FALSE
PROPERTY CallbackEventuallyRuns
