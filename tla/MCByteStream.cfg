\* After the end, or when both callers have failed, nothing is left to do.
SPECIFICATION StreamSpec
CONSTANTS
  MAX_BUFF = 2
  Capacity = 2
  MaxBytes = 4
  MaxSignals = 1
INVARIANTS StreamIntact ZeroIsEnd
PROPERTY AllArrives
CHECK_DEADLOCK FALSE
