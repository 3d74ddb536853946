SPECIFICATION TracerSpec
CONSTANTS
  UserBase = 7
  SystemStack = 12
  ContextSize = 2
  OperandSize = 1
  MaxArgs = 2
  WildBase = 3
  WildTag = 1
  WildLength = 4
INVARIANTS
  SlotsTile
  FramesMirror
