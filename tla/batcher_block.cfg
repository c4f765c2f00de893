SPECIFICATION FairSpec
CONSTANTS
  p1 = p1
  p2 = p2
  Producers <- TwoProducers
  Sizes <- TwoSizes
  MaxSize = 2
  MaxCapacity = 2
  HighWaterMark = 2
  QueueMode = "BLOCK"
  CountEvents = TRUE
  Subsample = TRUE
  Faults <- NoFaults
  MaxAppends = 4
INVARIANTS
  OvershootBounded
  SnapshotCovered
  CountsAreContiguous
PROPERTIES
  ImplementsChannel
  EventuallyLeaves
  ShutdownCompletes
