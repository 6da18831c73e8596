\* Rotation with plaintext payloads and a client that waits for callbacks,
\* with CleanUp possible at any point.
CONSTANTS
  InstCount <- MC_InstCount
  Statuses <- MC_Statuses
  MaxOps = 5
  MaxTicks = 1
  SkipReload <- MC_SkipReload
  Budgets = {FALSE, TRUE}
  Bcasts = {FALSE}
  Encs = {FALSE}
  Sizes <- MC_Sizes
  RpaGenOffload = FALSE
  EncEnabled = FALSE
  CarefulClient = TRUE
  Clients <- MC_LifecycleClients
SPECIFICATION Spec
\* The manager idles once the bounded client and timer are done.
CHECK_DEADLOCK FALSE
INVARIANT TypeOK
INVARIANT AddressOnlyWhileDisabled
INVARIANT CallbackAtMostOnce
INVARIANT EnabledOnlyWhenWanted
PROPERTY CallbackEventuallyRuns
