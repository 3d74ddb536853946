SPECIFICATION Spec
CONSTANTS
  Initiators = {i1, i2}
  NoOne = NoOne
  RingSize = 2
  MaxEntries = 2
  Programs = {p1, p2}
  Tombstone = Tombstone
  NullLocation = NullLocation
  Stale = Stale
  Thresholds = {1, 2}
  MaxWatermarks = 2
  MaxSlot = 4
SYMMETRY Symmetry
INVARIANT ResetBelow
