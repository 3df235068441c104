\* pthread_create may fail, and AsyncLogging::start() then waits for good:
\* the system really stops.
SPECIFICATION Spec
CONSTANT Loggers = {l1, l2, l3}
INVARIANTS TypeOK AppendWhenReady
PROPERTIES OutputReturns
CHECK_DEADLOCK FALSE
