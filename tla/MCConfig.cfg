\* All changes made and all listeners used: a behaviour may stop.
SPECIFICATION Spec
CONSTANTS
  Names = {x, y}
  Values = {0, 1, 2}
  Default = 0
  Threads = {t1, t2}
  Listeners = {l1, l2}
  MaxSets = 3
INVARIANTS ListenersFollow KeyIsOwn
CHECK_DEADLOCK FALSE
