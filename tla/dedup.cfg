SPECIFICATION FairSpec
CONSTANTS
  Objects = {"a", "b", "c"}
  Ids = {"a", "b", "c"}
  Hash <- MCHash
  Contexts <- MCContexts
  MaxEvents = 4
  MaxBatch = 2
  MaxFaults = 1
INVARIANTS
  ReferencesBalance
  DecodedIsMeant
PROPERTIES
  CacheIsPayload
  EventsMoveOn
CHECK_DEADLOCK FALSE
