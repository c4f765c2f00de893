SPECIFICATION Spec
CONSTANTS
  u1 = u1
  u2 = u2
  u3 = u3
  mA = mA
  mB = mB
  Users <- ThreeUsers
  Models <- TwoModels
  InitialModel = mA
  InitSize = 1
  CanFail = TRUE
  MaxUpdates = 2
  MaxFailures = 1
SYMMETRY Threads
INVARIANTS
  ObjectsAccounted
  SizeBounded
PROPERTIES
  ImplementsRegister
