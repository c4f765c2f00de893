SPECIFICATION Spec
CONSTANTS
  Users = {u1, u2}
  Setups <- MCSetups
  NumActions = 2
  NumSlots = 2
  Baselines <- MCBaselines
  MaxCalls = 1
INVARIANTS
  FailedIsUnlogged
  LoggedIsShown
  BaselineShown
  
SYMMETRY Symmetry
CHECK_DEADLOCK FALSE
