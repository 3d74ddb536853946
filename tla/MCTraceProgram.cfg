SPECIFICATION Spec
CONSTANTS
  Initiators = {i1, i2}
  Capacity = 4
  Buffers = {b1, b2}
  NoBuffer = none
  Wide = {ram}
  Narrow = {rom}
  Registers = {reg}
  Ports = {port}
  Boards = {{ram, reg}, {rom}, {port}}
  Sizes = {2}
  Prologue = 1
  Hash <- MCHash
  Threshold = 2
  MaxPending = 1
  MaxBody = 2
  MaxCommits = 3
SYMMETRY Symmetry
INVARIANTS
  ReplaysItsWrites
PROPERTY
  PayloadsKept
