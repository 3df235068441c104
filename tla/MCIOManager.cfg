\* A bad access or a null scheduler ends the process.
SPECIFICATION Spec
CONSTANTS
  Fds = {3, 5}
  Threads = {t1, t2}
  Workers = {w1}
  Events = {{"IN"}}
  InitialSize = 2
  Word = 8
  MaxAdds = 3
  MaxContexts = 2
INVARIANTS TypeOK ContextsMatch PendingCounted EpollMatches OneContextPerFd
PROPERTIES FateFinal
CHECK_DEADLOCK FALSE
