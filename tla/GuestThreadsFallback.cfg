SPECIFICATION Spec
CONSTANTS
  Guests = {{"posix", "main_waits"}}
  Addr = {1}
  WordSpan = 4
  Masks = {}
  MaxThreads = 3
  MaxTid = 2
  MaxQueue = 3
INVARIANT
  BlockedDoesNotRun
CHECK_DEADLOCK FALSE
