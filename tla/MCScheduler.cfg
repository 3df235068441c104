\* When stop() has returned, or is never called, the system may stop; a null
\* scheduler ends the process.
SPECIFICATION Spec
CONSTANTS
  Workers = {w1, w2}
  Fibers = {f1, f2}
  Callbacks = {c1}
  Fds = {fd1}
  OutsideTimers = TRUE
  MaxTurns = 1
  MaxTasks = 2
INVARIANTS CountersMatch FiberOnce NothingLeft
PROPERTIES TaskTaken StopReturns ImplementsTaskPool
CHECK_DEADLOCK FALSE
