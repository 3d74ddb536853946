SPECIFICATION Spec
CONSTANTS
  Word = 8
  FlagSpan = 4
  Ram = {"m"}
  Values = {0, 5}
  Targets = {0, 6}
  Bytes = {1}
  BitXor <- MCXor
  Policy = "YieldDefaultValue"
  Switched = {"cpu", "ram"}
  MaxTicks = 2
  MaxInput = 1
INVARIANT
  UndoRestores
PROPERTY
  ReplayKeepsInput
