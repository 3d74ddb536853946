SPECIFICATION FairSpec
CONSTANTS
  Guests = {{"posix"}, {"native"}, {"posix", "kill"}, {"native", "yield_to", "main_waits", "threadcall"}}
  Addr = {5}
  WordSpan = 4
  Masks = {{1}}
  MaxThreads = 3
  MaxTid = 2
  MaxQueue = 2
INVARIANTS
  OnePlace
  FreshRegisters
PROPERTIES
  AnswersDelivered
  NoStarvation
CHECK_DEADLOCK FALSE
