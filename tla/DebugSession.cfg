SPECIFICATION FairSpec
CONSTANTS
  BurstTicks = 2
  ChainLimit = 1
  DepthMax = 2
  IgnoreOS = TRUE
  MaxCommands = 3
INVARIANTS
  PausesWhereAsked
  StateIsTrue
PROPERTY
  ComesToRest
CHECK_DEADLOCK FALSE
