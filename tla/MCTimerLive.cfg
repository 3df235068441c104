\* All timers used and the clock at its bound: a behaviour may stop.
SPECIFICATION FairSpec
CONSTANTS
  Timers = {1}
  Workers = {w1, w2}
  Delays = {1, 3}
  MaxTimeout = 2
  Hour = 4
  IntMax = 7
  Word = 64
  MaxInterrupts = 0
  StartTime = 5
  EndTime = 7
PROPERTIES DueCollected
CHECK_DEADLOCK FALSE
