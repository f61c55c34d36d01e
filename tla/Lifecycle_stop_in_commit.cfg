SPECIFICATION FairSpec
CONSTANTS
  Callers = {k1, k2}
  Routine = r
  msgQueueSize = 2
  tickTockBufferSize = 3
  MaxTicks = 0
  MaxTocks = 2
  StopInCommit = TRUE
PROPERTIES
  CallsReturn
CHECK_DEADLOCK FALSE
