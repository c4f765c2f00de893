SPECIFICATION EpisodeSpec
CONSTANTS
  InteractionIds = {1, 2, 3}
  Times = {1, 2}
  Values = {6}
  Functions = {"sum"}
  MultiFunctions <- MCMulti
  DefaultReward = 1
  Deferred = {2}
  MaxOutcomes = 2
  MaxFaults = 1
INVARIANTS
  OutcomeReachesInteraction
CHECK_DEADLOCK FALSE
