SPECIFICATION FairSpec
CONSTANTS
  MaxTasks = 2
  MaxRetries = 2
  MaxDuration = 1
  MaxLatency = 1
  MaxAccept = 3
INVARIANTS
  RunningIsOwned
  ReorderWindow
  ReportedOnce
PROPERTIES
  ImplementsDelivery
  CallerReturns
