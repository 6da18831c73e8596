CONSTANTS
  TickMs = 5
  MaxTime = 60
  Durations <- MC_Durations
  MaxEvs <- MC_MaxEvs
  Intervals <- MC_Intervals
  MaxOps = 5
  MaxConns = 1
SPECIFICATION Spec
\* The clock stops at MaxTime and the client at MaxOps.
CHECK_DEADLOCK FALSE
INVARIANT TypeOK
INVARIANT NeverOverAdvertises
