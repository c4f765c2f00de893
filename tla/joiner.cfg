SPECIFICATION Spec
CONSTANTS
  EventIds = {e1, e2}
  Interactions <- MCInteractions
  Outcomes <- MCOutcomes
  Configs <- MCConfigs
  Sticky = {"function"}
  MaxPayloads = 2
  MaxEvents = 3
INVARIANTS
  QueueMatchesGroups
  
  LearnedOnce
SYMMETRY Symmetry
CHECK_DEADLOCK FALSE
