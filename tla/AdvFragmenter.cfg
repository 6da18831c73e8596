CONSTANTS
  Lens <- MC_Lens
  Statuses <- MC_Statuses
SPECIFICATION Spec
\* The chain really ends once done_cb has run.
CHECK_DEADLOCK FALSE
INVARIANT TypeOK
INVARIANT SentIsPrefixOfReference
INVARIANT SuccessDeliversPayload
INVARIANT DoneOnceWithFirstError
PROPERTY DoneEventuallyCalled
