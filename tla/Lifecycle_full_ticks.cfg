SPECIFICATION Spec
CONSTANTS
  Callers = {k1, k2}
  Routine = r
  msgQueueSize = 2
  tickTockBufferSize = 10
  MaxTicks = 2
  MaxTocks = 2
  StopInCommit = FALSE
INVARIANTS
  ScheduleTimeoutWontBlock
