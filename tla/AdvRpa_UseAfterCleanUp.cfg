\* Registration with a random address while the stack shuts the manager
\* down: the GenerateRpa completion arrives after CleanUp.
CONSTANTS
  InstCount <- MC_InstCount
  Statuses <- MC_Statuses
  MaxOps = 2
  MaxTicks = 1
  SkipReload <- MC_SkipReload
  Budgets = {FALSE}
  Bcasts = {FALSE}
  Encs = {FALSE}
  Sizes <- MC_SizesShort
  RpaGenOffload = FALSE
  EncEnabled = FALSE
  CarefulClient = TRUE
  Clients <- MC_LifecycleClients
SPECIFICATION Spec
CHECK_DEADLOCK FALSE
INVARIANT NoUseAfterCleanUp
