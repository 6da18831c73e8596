\* StartAdvertisingSet and StartAdvertising with plaintext payloads, raced by
\* the rotation, registration, Enable and Unregister of a careful client.
CONSTANTS
  InstCount <- MC_InstCount
  Statuses <- MC_Statuses
  MaxOps = 2
  MaxTicks = 1
  SkipReload <- MC_SkipReload
  Budgets = {FALSE, TRUE}
  Bcasts = {FALSE}
  Encs = {FALSE}
  Sizes <- MC_Sizes
  RpaGenOffload = FALSE
  EncEnabled = FALSE
  CarefulClient = TRUE
  Clients <- MC_PipeClients
SPECIFICATION Spec
\* The manager idles once the bounded client and timer are done.
CHECK_DEADLOCK FALSE
INVARIANT AddressOnlyWhileDisabled
INVARIANT CallbackAtMostOnce
INVARIANT NoStrandedControllerSet
PROPERTY CallbackEventuallyRuns
PROPERTY NoLeakedSlot
