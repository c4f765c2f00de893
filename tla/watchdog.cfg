SPECIFICATION FairSpec
CONSTANTS
  Procs <- TwoProcs
  Interval <- Intervals
  InitialTimeout = 20
  Second = 2
INVARIANTS
  CheckInNeverThrows
  ReportsOnlyLate
  LateIsReported
PROPERTIES
  StopReturns
