\* Clients terminate a BIG before unregistering its advertiser.
CONSTANTS
  InstCount <- MC_InstCount
  Statuses <- MC_Statuses
  MaxOps <- MC_MaxOps
  IsoBroadcaster = TRUE
  CarefulClient = TRUE
SPECIFICATION Spec
\* The manager may go idle once the client requests are used up.
CHECK_DEADLOCK FALSE
INVARIANT TypeOK ReleaseOnlyEnded NoOrphanBig BigCallbackAtMostOnce
PROPERTY BigCallbackEventuallyRuns
