\* Callers wait for READ only.
SPECIFICATION Spec
CONSTANTS
  Fds = {1}
  Threads = {t1}
  Workers = {w1}
  Events = {{"IN"}}
  InitialSize = 2
  Word = 8
  MaxAdds = 1
  MaxContexts = 1
INVARIANTS TriggersRegistered
CHECK_DEADLOCK FALSE
