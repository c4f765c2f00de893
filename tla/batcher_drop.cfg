SPECIFICATION Spec
CONSTANTS
  p1 = p1
  p2 = p2
  Producers <- TwoProducers
  Sizes <- TwoSizes
  MaxSize = 2
  MaxCapacity = 2
  HighWaterMark = 2
  QueueMode = "DROP"
  CountEvents = TRUE
  Subsample = FALSE
  Faults <- AllFaults
  MaxAppends = 3
SYMMETRY Threads
INVARIANTS
  SentInOrder
  EveryEventAccounted
  CapacityIsSum
  PassProbIsSurvival
