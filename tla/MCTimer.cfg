\* All timers used and the clock at its bound: a behaviour may stop.
SPECIFICATION Spec
CONSTANTS
  Timers = {1, 2}
  Workers = {w1, w2}
  Delays = {1, 3}
  MaxTimeout = 2
  Hour = 1
  IntMax = 7
  Word = 64
  MaxInterrupts = 1
  StartTime = 5
  EndTime = 6
INVARIANTS CallbackIffRegistered CancelledOrCollected WakeCovered
PROPERTIES NeverEarly
SYMMETRY WorkerSymmetry
CHECK_DEADLOCK FALSE
