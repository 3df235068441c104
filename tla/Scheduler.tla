------------------------------ MODULE Scheduler ------------------------------
(***************************************************************************)
(* Scheduler of scheduler.{h,cpp}, with the idle(), stopping() and         *)
(* tickle() that IOManager gives it: the task queue, the loop of run() in  *)
(* every worker, and stop() by the thread outside that owns the manager    *)
(* (use_caller is false).                                                  *)
(*                                                                         *)
(* This commit has the bodies of Fiber::resume() and yield() empty, and    *)
(* start() makes the Threads without starting them.  The model takes from  *)
(* run() what it relies on: the workers are in run(), and resume() runs a  *)
(* fiber until it ends or yields (scheduler.cpp 164).  What run() does     *)
(* itself is as it is written; so a callback, whose fiber it makes and     *)
(* never resumes, is dropped (the assertion in ~Fiber that would end the   *)
(* process there, fiber.cpp 94, is compiled out).                          *)
(*                                                                         *)
(* What m_mutex covers is one action; a tickle() comes after it.  When     *)
(* timers are due and what epoll reports is in modules TimerManager and    *)
(* IOManager: here a timer is a callback, an event the fiber that waits    *)
(* for it, and either may come at any time.  What triggers an event is     *)
(* here as it is there: READ is 0x1 and WRITE 0x3, and idle() triggers     *)
(* both of a descriptor, one of them for nobody unless two fibers wait,    *)
(* and so schedules on a null scheduler, which ends the process.           *)
(***************************************************************************)
EXTENDS Integers, FiniteSets, SequencesExt

CONSTANTS
  Workers,        (* threads in run()                                      *)
  Fibers,         (* tasks that are fibers                                 *)
  Callbacks,      (* tasks that are callbacks                              *)
  Fds,            (* descriptors that fibers may wait for                  *)
  OutsideTimers,  (* whether the owner adds timers before it calls stop()  *)
  MaxTurns,       (* BOUND: how often a fiber yields before it ends        *)
  MaxTasks        (* BOUND: how many tasks are given                       *)

Tasks     == Fibers \cup Callbacks
AnyThread == "any"       (* the parameter thread is -1                     *)
Outside   == "outside"   (* the thread that owns the manager               *)
NoTask    == "none"
NoFd      == "no fd"

ASSUME WorkersAssumption ==
  Workers # {} /\ IsFiniteSet(Workers) /\ {AnyThread, Outside} \cap Workers = {}
ASSUME TasksAssumption ==
  IsFiniteSet(Tasks) /\ Fibers \cap Callbacks = {} /\ NoTask \notin Tasks
ASSUME FdsAssumption == Fds \cap Callbacks = {} /\ NoFd \notin Fds
ASSUME SchedulerBoundsAssumption == {MaxTurns, MaxTasks} \subseteq Nat /\ OutsideTimers \in BOOLEAN

VARIABLES
  m_tasks,              (* the queue: tasks, each with its thread          *)
  m_activeThreadCount,
  m_idleThreadCount,
  m_stopping,
  m_pendingEventCount,
  events,               (* fibers that wait for a registered event         *)
  waitsFor,             (* descriptor and event that each waits (waited)   *)
                        (* for                                             *)
  timers,               (* callbacks whose timer is in m_timers            *)
  edge,                 (* the pipe has an event for epoll_wait            *)
  pc,                   (* where each worker is                            *)
  task,                 (* what it runs, or NoTask                         *)
  hand,                 (* what idle() has got to handle: callbacks, and   *)
                        (* descriptors that epoll_wait reported            *)
  fd_ctx,               (* the descriptor whose FdContext it has locked    *)
  drain,                (* its epoll_wait returned the pipe's event        *)
  ended,                (* its idle fiber is in state TERM                 *)
  owes,                 (* per thread, whether a tickle() is due           *)
  used, over,           (* tasks in use so far, and those that have ended  *)
  turns,                (* how often a fiber has yielded                   *)
  late,                 (* ghost: a timer or event came after a worker had *)
                        (* found that there was none                       *)
  process,              (* "up", or how it ended                           *)
  stopper, tickles      (* where stop() is, and its tickles to come        *)

counters == <<m_activeThreadCount, m_idleThreadCount, m_pendingEventCount>>
sources  == <<events, waitsFor, timers>>
idler    == <<hand, fd_ctx, drain, ended>>
life     == <<used, over, turns, late, process>>
stop     == <<m_stopping, stopper, tickles>>
vars == <<m_tasks, counters, sources, edge, pc, task, idler, owes, life, stop>>

Init ==
  /\ m_tasks = <<>>
  /\ m_activeThreadCount = 0
  /\ m_idleThreadCount = 0
  /\ m_stopping = FALSE
  /\ m_pendingEventCount = 0
  /\ events = {}
  /\ waitsFor = [f \in Fibers |-> <<>>]
  /\ timers = {}
  /\ edge = FALSE
  /\ pc = [w \in Workers |-> "look"]
  /\ task = [w \in Workers |-> NoTask]
  /\ hand = [w \in Workers |-> {}]
  /\ fd_ctx = [w \in Workers |-> NoFd]
  /\ drain = [w \in Workers |-> FALSE]
  /\ ended = [w \in Workers |-> FALSE]
  /\ owes = [t \in Workers \cup {Outside} |-> FALSE]
  /\ used = {}
  /\ over = {}
  /\ turns = [f \in Fibers |-> 0]
  /\ late = FALSE
  /\ process = "up"
  /\ stopper = "idle"
  /\ tickles = 0

-----------------------------------------------------------------------------
Goto(w, from, to) == pc[w] = from /\ ~ owes[w] /\ pc' = [pc EXCEPT ![w] = to]

(* schedule(): the task is queued under m_mutex; a tickle() follows if the *)
(* queue was empty.                                                        *)
schedule(by, t, thread) ==
  /\ m_tasks' = Append(m_tasks, [task |-> t, thread |-> thread])
  /\ owes' = [owes EXCEPT ![by] = (m_tasks = <<>>)]

(* tickle() writes to the pipe if a worker is idle.                        *)
tickle == edge' = (edge \/ m_idleThreadCount > 0)

Tickle(th) ==
  /\ owes[th]
  /\ owes' = [owes EXCEPT ![th] = FALSE]
  /\ tickle
  /\ UNCHANGED <<m_tasks, counters, sources, pc, task, idler, life, stop>>

-----------------------------------------------------------------------------
(* run() under m_mutex: the first task in the queue that is not for        *)
(* another thread and not a fiber that still runs.                         *)
Elsewhere(w, i) == m_tasks[i].thread \notin {AnyThread, w}

IsRunning(t) == t \in Fibers /\ \E v \in Workers : task[v] = t

(* MUTANT of MayRun: the state of the fiber is not looked at.              *)
MayRun_AnyState(w, i) == ~ Elsewhere(w, i)

MayRun(w, i) == ~ Elsewhere(w, i) /\ ~ IsRunning(m_tasks[i].task)

FirstTask(w, i) == MayRun(w, i) /\ \A j \in 1 .. i - 1 : ~ MayRun(w, j)

TakeTask(w) ==
  /\ Goto(w, "look", "run")
  /\ \E i \in DOMAIN m_tasks :
       /\ FirstTask(w, i)
       /\ task' = [task EXCEPT ![w] = m_tasks[i].task]
       /\ m_tasks' = RemoveAt(m_tasks, i)
       /\ owes' = [owes EXCEPT ![w] =
                     i < Len(m_tasks) \/ \E j \in 1 .. i - 1 : Elsewhere(w, j)]
  /\ m_activeThreadCount' = m_activeThreadCount + 1
  /\ UNCHANGED <<m_idleThreadCount, m_pendingEventCount, sources, edge, idler, life, stop>>

FindNone(w) ==
  /\ Goto(w, "look", "none")
  /\ \A i \in DOMAIN m_tasks : ~ MayRun(w, i)
  /\ owes' = [owes EXCEPT ![w] = \E i \in DOMAIN m_tasks : Elsewhere(w, i)]
  /\ UNCHANGED <<m_tasks, counters, sources, edge, task, idler, life, stop>>

(* MUTANT of DropCallback: the worker stays active.                        *)
DropCallback_StaysActive(w) ==
  /\ task[w] \in Callbacks
  /\ Goto(w, "run", "look")
  /\ task' = [task EXCEPT ![w] = NoTask]
  /\ over' = over \cup {task[w]}
  /\ UNCHANGED <<m_tasks, counters, sources, edge, idler, owes, used, turns, late, process,
                 stop>>

(* run() with a callback: it gets a fiber, which is destroyed as it is.    *)
DropCallback(w) ==
  /\ task[w] \in Callbacks
  /\ Goto(w, "run", "look")
  /\ task' = [task EXCEPT ![w] = NoTask]
  /\ over' = over \cup {task[w]}
  /\ m_activeThreadCount' = m_activeThreadCount - 1
  /\ UNCHANGED <<m_tasks, m_idleThreadCount, m_pendingEventCount, sources, edge, idler, owes,
                 used, turns, late, process, stop>>

(* resume() returns.                                                       *)
FiberReturns(w) ==
  /\ Goto(w, "yield", "look")
  /\ task' = [task EXCEPT ![w] = NoTask]
  /\ m_activeThreadCount' = m_activeThreadCount - 1
  /\ UNCHANGED <<m_tasks, m_idleThreadCount, m_pendingEventCount, sources, edge, idler, owes,
                 life, stop>>

-----------------------------------------------------------------------------
(* A new task: which fiber or callback it is makes no difference.          *)
Unused(S) == IF S \subseteq used THEN {} ELSE {CHOOSE t \in S \ used : TRUE}

New(S) ==
  IF Cardinality(used) < MaxTasks THEN Unused(S \cap Fibers) \cup Unused(S \cap Callbacks)
                                  ELSE {}

(* What a fiber may do while it runs: schedule a new task, ...             *)
Spawn(w) ==
  /\ task[w] \in Fibers
  /\ Goto(w, "run", "run")
  /\ \E t \in New(Tasks) :
       schedule(w, t, AnyThread) /\ used' = used \cup {t}
  /\ UNCHANGED <<counters, sources, edge, task, idler, over, turns, late, process, stop>>

(* A timer or an event is added, when a worker may have looked already.    *)
Awaits(looked) ==
  late' = (late \/ \E w \in Workers : pc[w] \in looked \/ ended[w])

(* ... add a timer, which tickles or not, ...                              *)
FiberAddsTimer(w) ==
  /\ task[w] \in Fibers
  /\ Goto(w, "run", "run")
  /\ \E c \in New(Callbacks) : timers' = timers \cup {c} /\ used' = used \cup {c}
  /\ \E front \in BOOLEAN : owes' = [owes EXCEPT ![w] = front]
  /\ Awaits({"pending", "queue"})
  /\ UNCHANGED <<m_tasks, counters, events, waitsFor, edge, task, idler, over, turns, process,
                 stop>>

(* ... add an event for itself, or schedule itself, and then yield, ...    *)
Turn(f) == turns[f] < MaxTurns /\ turns' = [turns EXCEPT ![f] = @ + 1]

Waits(f, fd, event) == f \in events /\ waitsFor[f] = <<fd, event>>

Locked(fd) == \E w \in Workers : fd_ctx[w] = fd

AddEvent(w) ==
  /\ task[w] \in Fibers
  /\ Goto(w, "run", "yield")
  /\ Turn(task[w])
  /\ \E fd \in Fds, event \in {"READ", "WRITE"} :
       /\ ~ Locked(fd)
       /\ \A f \in events : ~ Waits(f, fd, event)
       /\ waitsFor' = [waitsFor EXCEPT ![task[w]] = <<fd, event>>]
  /\ events' = events \cup {task[w]}
  /\ m_pendingEventCount' = m_pendingEventCount + 1
  /\ Awaits({"queue"})
  /\ UNCHANGED <<m_tasks, m_activeThreadCount, m_idleThreadCount, timers, edge, task, idler,
                 owes, used, over, process, stop>>

ScheduleSelf(w) ==
  /\ task[w] \in Fibers
  /\ Goto(w, "run", "yield")
  /\ Turn(task[w])
  /\ schedule(w, task[w], AnyThread)
  /\ UNCHANGED <<counters, sources, edge, task, idler, used, over, late, process, stop>>

(* ... or end.                                                             *)
End(w) ==
  /\ task[w] \in Fibers
  /\ Goto(w, "run", "yield")
  /\ over' = over \cup {task[w]}
  /\ UNCHANGED <<m_tasks, counters, sources, edge, task, idler, owes, used, turns, late,
                 process, stop>>

-----------------------------------------------------------------------------
(* run() has no task: it ends with the idle fiber, or resumes it.          *)
Leave(w) ==
  /\ ended[w]
  /\ Goto(w, "none", "left")
  /\ UNCHANGED <<m_tasks, counters, sources, edge, task, idler, owes, life, stop>>

EnterIdle(w) ==
  /\ ~ ended[w]
  /\ Goto(w, "none", "timers")
  /\ m_idleThreadCount' = m_idleThreadCount + 1
  /\ UNCHANGED <<m_tasks, m_activeThreadCount, m_pendingEventCount, sources, edge, task,
                 idler, owes, life, stop>>

(* stopping() looks at the timers, at m_pendingEventCount and at the       *)
(* Scheduler one after the other, and no further than to the first that    *)
(* says no.                                                                *)
StoppingTimers(w) ==
  /\ IF timers = {} THEN Goto(w, "timers", "pending") ELSE Goto(w, "timers", "wait")
  /\ UNCHANGED <<m_tasks, counters, sources, edge, task, idler, owes, life, stop>>

(* MUTANT of NonePending: the count is not looked at.                      *)
NonePending_Always == TRUE

NonePending == m_pendingEventCount = 0

StoppingEvents(w) ==
  /\ IF NonePending THEN Goto(w, "pending", "queue") ELSE Goto(w, "pending", "wait")
  /\ UNCHANGED <<m_tasks, counters, sources, edge, task, idler, owes, life, stop>>

stopping == m_stopping /\ m_tasks = <<>> /\ m_activeThreadCount = 0

StoppingScheduler(w) ==
  /\ IF stopping THEN Goto(w, "queue", "back") ELSE Goto(w, "queue", "wait")
  /\ ended' = [ended EXCEPT ![w] = stopping]
  /\ UNCHANGED <<m_tasks, counters, sources, edge, task, hand, fd_ctx, drain, owes, life,
                 stop>>

(* MUTANT of TimesOut: epoll_wait has no timeout.                          *)
TimesOut_Never == FALSE

TimesOut == TRUE

(* The descriptors that epoll has events for.                              *)
Registered == {waitsFor[f][1] : f \in events}

(* epoll_wait returns: with the pipe's event, which being edge-triggered   *)
(* it reports to one worker, with events of descriptors, or after a while  *)
(* with nothing; then listExpiredCb() takes timers that are due.           *)
Wake(w) ==
  /\ Goto(w, "wait", "handle")
  /\ \E tickled \in {FALSE, edge}, ready \in SUBSET Registered, expired \in SUBSET timers :
       /\ tickled \/ ready # {} \/ TimesOut
       /\ edge' = (edge /\ ~ tickled)
       /\ drain' = [drain EXCEPT ![w] = tickled]
       /\ hand' = [hand EXCEPT ![w] = ready \cup expired]
       /\ timers' = timers \ expired
  /\ UNCHANGED <<m_tasks, counters, events, waitsFor, task, fd_ctx, ended, owes, life,
                 stop>>

(* idle() schedules the callbacks ...                                      *)
ScheduleCallback(w) ==
  /\ Goto(w, "handle", "handle")
  /\ \E c \in hand[w] \cap Callbacks :
       /\ schedule(w, c, AnyThread)
       /\ hand' = [hand EXCEPT ![w] = @ \ {c}]
  /\ UNCHANGED <<counters, sources, edge, task, fd_ctx, drain, ended, life, stop>>

(* ... and goes on to the descriptors, each with its FdContext locked: one *)
(* may have no event any more that it could trigger, or epoll_ctl fails;   *)
LeaveFd(w) ==
  /\ Goto(w, "handle", "handle")
  /\ \E fd \in hand[w] \ Callbacks :
       ~ Locked(fd) /\ hand' = [hand EXCEPT ![w] = @ \ {fd}]
  /\ UNCHANGED <<m_tasks, counters, sources, edge, task, fd_ctx, drain, ended, owes, life,
                 stop>>

(* MUTANT of triggerEvent: the event stays registered.                     *)
triggerEvent_Keeps(w, fd, event, to) ==
  \E f \in events :
    /\ Waits(f, fd, event)
    /\ Goto(w, pc[w], to)
    /\ schedule(w, f, AnyThread)
    /\ UNCHANGED <<events, process>>

(* triggerEvent(): the fiber that waits for the event is scheduled on the  *)
(* scheduler that addEvent() has noted for it; if nobody does, there is    *)
(* none.                                                                   *)
triggerEvent(w, fd, event, to) ==
  \/ \E f \in events :
       /\ Waits(f, fd, event)
       /\ Goto(w, pc[w], to)
       /\ events' = events \ {f}
       /\ schedule(w, f, AnyThread)
       /\ UNCHANGED process
  \/ /\ ~ owes[w] /\ \A f \in events : ~ Waits(f, fd, event)
     /\ process' = "null scheduler"
     /\ UNCHANGED <<m_tasks, events, pc, owes>>

(* any other has its READ triggered and counted off, and then its WRITE.   *)
TriggerRead(w) ==
  /\ pc[w] = "handle" /\ hand[w] \cap Callbacks = {}
  /\ \E fd \in hand[w] \cap Registered :
       /\ ~ Locked(fd)
       /\ hand' = [hand EXCEPT ![w] = @ \ {fd}]
       /\ fd_ctx' = [fd_ctx EXCEPT ![w] = fd]
       /\ triggerEvent(w, fd, "READ", "count READ")
  /\ UNCHANGED <<counters, waitsFor, timers, edge, task, drain, ended, used, over, turns,
                 late, stop>>

TriggerWrite(w) ==
  /\ pc[w] = "WRITE"
  /\ triggerEvent(w, fd_ctx[w], "WRITE", "count WRITE")
  /\ UNCHANGED <<counters, waitsFor, timers, edge, task, idler, used, over, turns, late, stop>>

CountOff(w) ==
  /\ \/ Goto(w, "count READ", "WRITE") /\ UNCHANGED fd_ctx
     \/ Goto(w, "count WRITE", "handle") /\ fd_ctx' = [fd_ctx EXCEPT ![w] = NoFd]
  /\ m_pendingEventCount' = m_pendingEventCount - 1
  /\ UNCHANGED <<m_tasks, m_activeThreadCount, m_idleThreadCount, sources, edge, task, hand,
                 drain, ended, owes, life, stop>>

(* The pipe is read until it is empty, and the idle fiber yields.          *)
Yield(w) ==
  /\ hand[w] = {}
  /\ Goto(w, "handle", "back")
  /\ edge' = (edge /\ ~ drain[w])
  /\ drain' = [drain EXCEPT ![w] = FALSE]
  /\ UNCHANGED <<m_tasks, counters, sources, task, hand, fd_ctx, ended, owes, life, stop>>

BackInRun(w) ==
  /\ Goto(w, "back", "look")
  /\ m_idleThreadCount' = m_idleThreadCount - 1
  /\ UNCHANGED <<m_tasks, m_activeThreadCount, m_pendingEventCount, sources, edge, task,
                 idler, owes, life, stop>>

-----------------------------------------------------------------------------
(* The thread outside: it schedules tasks, for any worker or for one, and  *)
(* perhaps adds timers, until it calls stop().                             *)
Schedule ==
  /\ ~ m_stopping /\ ~ owes[Outside]
  /\ \E t \in New(Tasks), thread \in Workers \cup {AnyThread} :
       schedule(Outside, t, thread) /\ used' = used \cup {t}
  /\ UNCHANGED <<counters, sources, edge, pc, task, idler, over, turns, late, process, stop>>

AddTimer ==
  /\ OutsideTimers /\ ~ m_stopping /\ ~ owes[Outside]
  /\ \E c \in New(Callbacks) : timers' = timers \cup {c} /\ used' = used \cup {c}
  /\ \E front \in BOOLEAN : owes' = [owes EXCEPT ![Outside] = front]
  /\ Awaits({"pending", "queue"})
  /\ UNCHANGED <<m_tasks, counters, events, waitsFor, edge, pc, task, idler, over, turns,
                 process, stop>>

(* stop(): m_stopping, a tickle for every worker, and join.                *)
Stop ==
  /\ stopper = "idle" /\ ~ owes[Outside]
  /\ m_stopping' = TRUE
  /\ stopper' = "tickle"
  /\ tickles' = Cardinality(Workers)
  /\ UNCHANGED <<m_tasks, counters, sources, edge, pc, task, idler, owes, life>>

StopTickle ==
  /\ stopper = "tickle"
  /\ tickles' = tickles - 1
  /\ stopper' = IF tickles = 1 THEN "join" ELSE "tickle"
  /\ tickle
  /\ UNCHANGED <<m_tasks, counters, sources, pc, task, idler, owes, life, m_stopping>>

AllLeft == \A w \in Workers : pc[w] = "left"

Join ==
  /\ stopper = "join" /\ AllLeft
  /\ stopper' = "stopped"
  /\ UNCHANGED <<m_tasks, counters, sources, edge, pc, task, idler, owes, life, m_stopping,
                 tickles>>

run(w) ==
  \/ TakeTask(w) \/ FindNone(w) \/ DropCallback(w) \/ FiberReturns(w)
  \/ Leave(w) \/ EnterIdle(w) \/ BackInRun(w)

idle(w) ==
  \/ StoppingTimers(w) \/ StoppingEvents(w) \/ StoppingScheduler(w)
  \/ Wake(w)
  \/ ScheduleCallback(w) \/ LeaveFd(w) \/ TriggerRead(w) \/ TriggerWrite(w)
  \/ CountOff(w) \/ Yield(w)

Fiber(w) ==
  \/ Spawn(w) \/ FiberAddsTimer(w) \/ AddEvent(w) \/ ScheduleSelf(w) \/ End(w)

Up == process = "up"

Next ==
  /\ Up
  /\ \/ \E w \in Workers : run(w) \/ idle(w) \/ Fiber(w) \/ Tickle(w)
     \/ Schedule \/ AddTimer \/ Tickle(Outside)
     \/ Stop \/ StopTickle \/ Join

(* The workers are running threads, whose fibers go on until they yield or *)
(* end, and whose epoll_waits end by their timeout at the latest; a call   *)
(* of schedule() or stop() goes on.  Nobody is obliged to call either, and *)
(* neither a timer nor an event to come.                                   *)
Fairness ==
  /\ \A w \in Workers : WF_vars(Up /\ (run(w) \/ idle(w) \/ Fiber(w) \/ Tickle(w)))
  /\ WF_vars(Up /\ (Tickle(Outside) \/ StopTickle \/ Join))

Spec == Init /\ [][Next]_vars /\ Fairness

-----------------------------------------------------------------------------
WaitsOK ==
  /\ waitsFor \in [Fibers -> (Fds \X {"READ", "WRITE"}) \cup {<<>>}]
  /\ \A f \in events : waitsFor[f] \in Fds \X {"READ", "WRITE"}

TypeOK ==
  /\ m_tasks \in Seq([task : Tasks, thread : Workers \cup {AnyThread}])
  /\ {m_activeThreadCount, m_idleThreadCount, m_pendingEventCount, tickles} \subseteq Nat
  /\ m_stopping \in BOOLEAN
  /\ events \subseteq Fibers
  /\ WaitsOK
  /\ timers \subseteq Callbacks
  /\ edge \in BOOLEAN
  /\ pc \in [Workers -> {"look", "run", "yield", "none", "timers", "pending", "queue", "wait",
                         "handle", "count READ", "WRITE", "count WRITE", "back", "left"}]
  /\ task \in [Workers -> Tasks \cup {NoTask}]
  /\ hand \in [Workers -> SUBSET (Callbacks \cup Fds)]
  /\ fd_ctx \in [Workers -> Fds \cup {NoFd}]
  /\ drain \in [Workers -> BOOLEAN]
  /\ ended \in [Workers -> BOOLEAN]
  /\ owes \in [Workers \cup {Outside} -> BOOLEAN]
  /\ used \subseteq Tasks
  /\ over \subseteq Tasks
  /\ turns \in [Fibers -> 0 .. MaxTurns]
  /\ late \in BOOLEAN
  /\ process \in {"up", "null scheduler"}
  /\ stopper \in {"idle", "tickle", "join", "stopped"}

(* The counters that stopping() and hasIdleThreads() read without a lock   *)
(* tell what the workers are doing; m_pendingEventCount may be late, but   *)
(* only to say that an event is still pending.                             *)
CountersMatch ==
  /\ m_activeThreadCount = Cardinality({w \in Workers : task[w] # NoTask})
  /\ m_idleThreadCount =
       Cardinality({w \in Workers : pc[w] \notin {"look", "run", "yield", "none", "left"}})
  /\ m_pendingEventCount =
       Cardinality(events) +
       Cardinality({w \in Workers : pc[w] \in {"count READ", "count WRITE"}})

(* A fiber that adds an event or schedules itself can be in the queue      *)
(* before it has yielded (iomanager.cpp 155, hook.cpp 128-137): no other   *)
(* worker resumes it until then, and it is never in two places.            *)
Places(t) ==
  Cardinality({w \in Workers : task[w] = t /\ pc[w] = "run"}) +
  Cardinality({i \in DOMAIN m_tasks : m_tasks[i].task = t}) +
  (IF t \in events \cup timers THEN 1 ELSE 0)

FiberOnce ==
  /\ \A v, w \in Workers : v # w /\ task[v] # NoTask => task[v] # task[w]
  /\ \A t \in Tasks : Places(t) <= 1

(* iomanager.cpp 302-303: the manager stops only when every I/O event that *)
(* was to be scheduled has run and no timer is left.  stopping() asks for  *)
(* the timers, the events and the tasks one after the other; unless one of *)
(* the first two came behind its back, nothing that was given to the       *)
(* manager is on its way when the last worker has left run().              *)
NothingLeft ==
  AllLeft /\ ~ late => m_tasks = <<>> /\ events = {} /\ timers = {} /\ used = over

(* A task that was scheduled is taken, though the tickle for it may find   *)
(* no worker idle, wake another one than the one it is for, or be read     *)
(* away by a worker that is about to yield; unless the process ends.       *)
Queued(t) == \E i \in DOMAIN m_tasks : m_tasks[i].task = t

TaskTaken == \A t \in Tasks : Queued(t) ~> ~ Queued(t) \/ ~ Up

(* Once no timer and no event is awaited any more, stop() returns: every   *)
(* worker finds out, with one pipe for all of them; unless the process     *)
(* ends.                                                                   *)
StopReturns ==
  <>[](events = {} /\ timers = {}) => (m_stopping ~> stopper = "stopped" \/ ~ Up)
=============================================================================
