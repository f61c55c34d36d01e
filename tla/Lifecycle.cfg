SPECIFICATION FairSpec
CONSTANTS
  Callers = {k1, k2}
  Routine = r
  msgQueueSize = 2
  tickTockBufferSize = 2
  MaxTicks = 2
  MaxTocks = 2
  StopInCommit = TRUE
INVARIANTS
  Inv
  ClosesOnce
  StartedIsTrue
PROPERTIES
  OneReceiveRoutine
  HandlersEnd
  CallsReturnUnlessStuck
CHECK_DEADLOCK FALSE
