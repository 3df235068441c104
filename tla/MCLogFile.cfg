\* All appends made, or the last process killed: a behaviour may stop.
SPECIFICATION Spec
CONSTANTS
  Lens = {1, 2}
  KMAXFileSize = 3
  FlushEveryN = 2
  MaxAppends = 4
  EndTime = 2
  Pids = {9, 10}
INVARIANTS TypeOK NothingLost FilesInOrder LossBounded
CHECK_DEADLOCK FALSE
