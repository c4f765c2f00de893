SPECIFICATION FairSpec
CONSTANTS
  u1 = u1
  u2 = u2
  Users <- TwoUsers
  Background = TRUE
  Transport = "http"
  Sizes = {0, 1, 2}
  Ticks = {1}
  Faults = {"transport"}
  MaxPublish = 3
  MaxFaults = 2
INVARIANTS
  NoNeedToReload
  
PROPERTIES
  ServesLatest
