\* All calls made: a behaviour may stop.
SPECIFICATION Spec
CONSTANTS
  Fds = {2}
  Fibers = {f1, f2}
  InitialSize = 2
  MaxCtxs = 2
  MaxCalls = 2
  MaxTimers = 2
INVARIANTS TypeOK WaiterKept TimerOfCall TimeoutKept
CHECK_DEADLOCK FALSE
