SPECIFICATION Spec
CONSTANTS
  Chains = {c1, c2}
  NoChain = NoChain
  MaxLive = 3
  Generations = 2
  Capacity = 2
  Sizes = {1, 2}
  MaxOccupants = 3
SYMMETRY Symmetry
INVARIANTS
  FreeListThreads
  OneHolder
  StaleIdsDangle
  RoundRobin
  NeighboursInOwnChain
