\* One fiber, one call with up to two tries.
SPECIFICATION Spec
CONSTANTS
  Fds = {2}
  Fibers = {f1}
  InitialSize = 2
  MaxCtxs = 1
  MaxCalls = 1
  MaxTimers = 2
INVARIANT TimeoutArmed
CHECK_DEADLOCK FALSE
