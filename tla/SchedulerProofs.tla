-------------------------- MODULE SchedulerProofs --------------------------
(***************************************************************************)
(* Proofs of Scheduler's safety properties, and that it implements         *)
(* TaskPool, for any workers, fibers and callbacks.                        *)
(***************************************************************************)
EXTENDS SchedulerRefinement, FiniteSetTheorems, SequenceTheorems, TLAPS

-----------------------------------------------------------------------------
(* Every task that is in use is in one place, and only such a task is.  A  *)
(* fiber that idle() holds is still awaited until its event is triggered,  *)
(* a callback that it holds is not.                                        *)
OnePlace(t) ==
  /\ t \in used <=> Queued(t) \/ Running(t) \/ Awaited(t) \/ Handed(t) \/ t \in over
  /\ Queued(t) => ~ Running(t) /\ ~ Awaited(t) /\ ~ Handed(t) /\ t \notin over
  /\ Running(t) => ~ Awaited(t) /\ ~ Handed(t) /\ t \notin over
  /\ Awaited(t) => ~ Handed(t) /\ t \notin over
  /\ Handed(t) => t \notin over

(* And it is there once.                                                   *)
OneWorker == \A v, w \in Workers : v # w /\ task[v] # NoTask => task[v] # task[w]
OneSlot   == \A i, j \in DOMAIN m_tasks : i # j => m_tasks[i].task # m_tasks[j].task
OneHand   == \A v, w \in Workers : v # w => hand[v] \cap hand[w] \cap Callbacks = {}

Lives == OneWorker /\ OneSlot /\ OneHand /\ \A t \in Tasks : OnePlace(t)

(* What a worker has at each place of run() and idle().                    *)
Doing ==
  \A w \in Workers :
    /\ task[w] # NoTask <=> pc[w] \in {"run", "yield"}
    /\ pc[w] = "yield" => task[w] \in Fibers
    /\ hand[w] # {} => pc[w] \in {"handle", "count READ", "WRITE", "count WRITE"}
    /\ ended[w] => pc[w] \in {"back", "look", "run", "yield", "none", "left"}
    /\ pc[w] = "left" => ended[w]

(* What stopping() has seen is still so, unless something came late; and   *)
(* when the last worker has seen the queue empty and nobody active, it is. *)
Seen ==
  /\ stopper = "tickle" => tickles \in Nat \ {0}
  /\ \A w \in Workers : ended[w] => m_stopping
  /\ ~ late =>
       /\ \A w \in Workers : pc[w] \in {"pending", "queue"} \/ ended[w] => timers = {}
       /\ \A w \in Workers : pc[w] = "queue" \/ ended[w] =>
            events = {} /\ \A v \in Workers : pc[v] \notin {"count READ", "count WRITE"}
       /\ (\A w \in Workers : ended[w]) =>
            m_tasks = <<>> /\ \A w \in Workers : task[w] = NoTask

IInv == TypeOK /\ CountersMatch /\ Doing /\ Lives /\ Seen

-----------------------------------------------------------------------------
Entry == [task : Tasks, thread : Workers \cup {AnyThread}]

(* What is in the queue is a task.                                         *)
LEMMA EntryTask ==
  ASSUME TypeOK, NEW i \in DOMAIN m_tasks
  PROVE  m_tasks[i].task \in Tasks
  <1>1. m_tasks \in Seq(Entry)
    BY DEF TypeOK, Entry
  <1>2. m_tasks[i] \in Entry
    BY <1>1
  <1> QED
    BY <1>2 DEF Entry

(* What Doing and Seen need of the types.                                  *)
PerWorker ==
  /\ pc = [w \in Workers |-> pc[w]]
  /\ task = [w \in Workers |-> task[w]]
  /\ hand = [w \in Workers |-> hand[w]]
  /\ ended = [w \in Workers |-> ended[w]]

(* They are functions on the workers.                                      *)
LEMMA PerWorkerAre ==
  ASSUME TypeOK
  PROVE  PerWorker
  BY DEF TypeOK, PerWorker

(* What Append and RemoveAt do to a sequence.                              *)
LEMMA Appended ==
  ASSUME NEW S, NEW s \in Seq(S), NEW e \in S
  PROVE  /\ Append(s, e) \in Seq(S) /\ DOMAIN Append(s, e) = 1 .. Len(s) + 1
         /\ \A i \in 1 .. Len(s) : Append(s, e)[i] = s[i]
         /\ Append(s, e)[Len(s) + 1] = e
  OBVIOUS

(* A sequence with an element is not empty.                                *)
LEMMA HasElement ==
  ASSUME NEW S, NEW s \in Seq(S), NEW i \in DOMAIN s
  PROVE  s # <<>>
  OBVIOUS

(* A sequence with one element taken out.                                  *)
LEMMA Removed ==
  ASSUME NEW S, NEW s \in Seq(S), NEW i \in DOMAIN s
  PROVE  /\ RemoveAt(s, i) \in Seq(S) /\ DOMAIN RemoveAt(s, i) = 1 .. Len(s) - 1
         /\ \A j \in 1 .. Len(s) - 1 :
              RemoveAt(s, i)[j] = IF j < i THEN s[j] ELSE s[j + 1]
  <1> DEFINE before == SubSeq(s, 1, i - 1)  after == SubSeq(s, i + 1, Len(s))
  <1>1. i \in 1 .. Len(s) /\ Len(s) \in Nat
    OBVIOUS
  <1>2. /\ before \in Seq(S) /\ Len(before) = i - 1
        /\ \A j \in 1 .. i - 1 : before[j] = s[j]
    BY <1>1
  <1>3. /\ after \in Seq(S) /\ Len(after) = Len(s) - i
        /\ \A j \in 1 .. Len(s) - i : after[j] = s[i + j]
    BY <1>1
  <1>4. RemoveAt(s, i) = before \o after
    BY DEF RemoveAt
  <1> HIDE DEF before, after
  <1>5. /\ before \o after \in Seq(S)
        /\ Len(before \o after) = Len(before) + Len(after)
        /\ \A j \in 1 .. Len(before) + Len(after) :
             (before \o after)[j] =
               IF j <= Len(before) THEN before[j] ELSE after[j - Len(before)]
    BY <1>2, <1>3, ConcatProperties
  <1>6. Len(before) + Len(after) = Len(s) - 1
    BY <1>1, <1>2, <1>3
  <1>7. ASSUME NEW j \in 1 .. Len(s) - 1
        PROVE  (before \o after)[j] = IF j < i THEN s[j] ELSE s[j + 1]
    <2>1. CASE j < i
      <3>1. j \in 1 .. i - 1 /\ j <= Len(before)
        BY <1>1, <1>2, <2>1
      <3> QED
        BY <1>2, <1>5, <1>6, <2>1, <3>1
    <2>2. CASE ~ (j < i)
      <3>1. j - (i - 1) \in 1 .. Len(s) - i /\ i + (j - (i - 1)) = j + 1 /\ ~ (j <= Len(before))
        BY <1>1, <1>2, <2>2
      <3>2. (before \o after)[j] = after[j - (i - 1)]
        BY <1>2, <1>5, <1>6, <3>1
      <3> QED
        BY <1>3, <2>2, <3>1, <3>2
    <2> QED
      BY <2>1, <2>2
  <1>8. DOMAIN (before \o after) = 1 .. Len(s) - 1
    BY <1>5, <1>6
  <1> QED
    BY <1>4, <1>5, <1>7, <1>8

(* A finite set that gets one element more, or loses one.                  *)
LEMMA Counted ==
  ASSUME NEW W, IsFiniteSet(W), NEW A \in SUBSET W, NEW x
  PROVE  /\ Cardinality(A) \in Nat
         /\ x \notin A => Cardinality(A \cup {x}) = Cardinality(A) + 1
         /\ x \in A => Cardinality(A \ {x}) = Cardinality(A) - 1
  BY FS_Subset, FS_AddElement, FS_RemoveElement, FS_CardinalityType

(* A set whose elements are all the same has one at most.                  *)
LEMMA AtMostOne ==
  ASSUME NEW S, \A x, y \in S : x = y
  PROVE  /\ Cardinality(S) \in 0 .. 1
         /\ S = {} => Cardinality(S) = 0
  <1>1. CASE S = {}
    BY <1>1, FS_EmptySet
  <1>2. CASE S # {}
    <2>1. PICK x : S = {x}
      BY <1>2
    <2>2. Cardinality({x}) = 1
      BY FS_Singleton
    <2> QED
      BY <2>1, <2>2
  <1> QED
    BY <1>1, <1>2

(* A new task is one that is not in use.                                   *)
LEMMA NewIsUnused ==
  ASSUME NEW S \in SUBSET Tasks, NEW t \in New(S)
  PROVE  t \in S \ used
  <1>1. ASSUME NEW T, NEW u \in Unused(T)
        PROVE  u \in T \ used
    <2>1. \E v : v \in T \ used
      BY <1>1 DEF Unused
    <2>2. u = CHOOSE v \in T \ used : TRUE
      BY <1>1 DEF Unused
    <2> QED
      BY <2>1, <2>2
  <1>2. t \in Unused(S \cap Fibers) \/ t \in Unused(S \cap Callbacks)
    BY DEF New
  <1> QED
    BY <1>1, <1>2

(* The same for the queue: what is scheduled is added, once, ...           *)
LEMMA QueueGrows ==
  ASSUME TypeOK, NEW by, NEW t \in Tasks, NEW thread \in Workers \cup {AnyThread},
         schedule(by, t, thread)
  PROVE  /\ m_tasks' \in Seq(Entry) /\ m_tasks' # <<>>
         /\ \A u : Queued(u)' <=> Queued(u) \/ u = t
         /\ OneSlot /\ ~ Queued(t) => OneSlot'
  <1> DEFINE e == [task |-> t, thread |-> thread]
  <1>1. m_tasks \in Seq(Entry) /\ e \in Entry /\ m_tasks' = Append(m_tasks, e)
    BY DEF TypeOK, Entry, schedule
  <1>2. /\ m_tasks' \in Seq(Entry) /\ DOMAIN m_tasks' = 1 .. Len(m_tasks) + 1
        /\ \A i \in 1 .. Len(m_tasks) : m_tasks'[i] = m_tasks[i]
        /\ m_tasks'[Len(m_tasks) + 1] = e
    BY <1>1, Appended
  <1>3. e.task = t /\ DOMAIN m_tasks = 1 .. Len(m_tasks) /\ Len(m_tasks) \in Nat
    BY <1>1
  <1> HIDE DEF e
  <1>4. m_tasks' # <<>>
    BY <1>2, <1>3
  <1>5. ASSUME NEW u
        PROVE  Queued(u)' <=> Queued(u) \/ u = t
    BY <1>2, <1>3 DEF Queued
  <1>6. OneSlot /\ ~ Queued(t) => OneSlot'
    BY <1>2, <1>3 DEF OneSlot, Queued
  <1> QED
    BY <1>2, <1>4, <1>5, <1>6

(* ... and what is taken is gone.                                          *)
LEMMA QueueShrinks ==
  ASSUME TypeOK, NEW i \in DOMAIN m_tasks, m_tasks' = RemoveAt(m_tasks, i), OneSlot
  PROVE  /\ m_tasks' \in Seq(Entry) /\ OneSlot'
         /\ \A u : Queued(u)' <=> Queued(u) /\ u # m_tasks[i].task
  <1>1. m_tasks \in Seq(Entry)
    BY DEF TypeOK, Entry
  <1>2. /\ m_tasks' \in Seq(Entry) /\ DOMAIN m_tasks' = 1 .. Len(m_tasks) - 1
        /\ \A j \in 1 .. Len(m_tasks) - 1 :
             m_tasks'[j] = IF j < i THEN m_tasks[j] ELSE m_tasks[j + 1]
    BY <1>1, Removed
  <1>3. DOMAIN m_tasks = 1 .. Len(m_tasks) /\ Len(m_tasks) \in Nat /\ i \in Nat
    BY <1>1
  <1>4. OneSlot'
    <2> SUFFICES ASSUME NEW j \in DOMAIN m_tasks', NEW k \in DOMAIN m_tasks', j # k
                 PROVE  m_tasks'[j].task # m_tasks'[k].task
      BY DEF OneSlot
    <2> DEFINE was(n) == IF n < i THEN n ELSE n + 1
    <2>1. /\ was(j) \in DOMAIN m_tasks /\ m_tasks'[j] = m_tasks[was(j)]
          /\ was(k) \in DOMAIN m_tasks /\ m_tasks'[k] = m_tasks[was(k)]
          /\ was(j) # was(k)
      BY <1>2, <1>3
    <2> HIDE DEF was
    <2> QED
      BY <2>1 DEF OneSlot
  <1>5. ASSUME NEW u, Queued(u)'
        PROVE  Queued(u) /\ u # m_tasks[i].task
    <2>1. PICK j \in 1 .. Len(m_tasks) - 1 : m_tasks'[j].task = u
      BY <1>2, <1>5 DEF Queued
    <2>2. PICK k \in DOMAIN m_tasks : k # i /\ m_tasks[k].task = u
      BY <1>2, <1>3, <2>1
    <2> QED
      BY <2>2 DEF OneSlot, Queued
  <1>6. ASSUME NEW u, Queued(u), u # m_tasks[i].task
        PROVE  Queued(u)'
    <2>1. PICK k \in DOMAIN m_tasks : m_tasks[k].task = u
      BY <1>6 DEF Queued
    <2>2. CASE k < i
      BY <1>2, <1>3, <2>1, <2>2 DEF Queued
    <2>3. CASE k > i
      <3>1. k - 1 \in DOMAIN m_tasks' /\ m_tasks'[k - 1] = m_tasks[k]
        BY <1>2, <1>3, <2>1, <2>3
      <3> QED
        BY <2>1, <3>1 DEF Queued
    <2> QED
      BY <1>3, <1>6, <2>1, <2>2, <2>3
  <1> QED
    BY <1>2, <1>4, <1>5, <1>6

(* What TriggerRead and TriggerWrite have in common: the fiber that waits  *)
(* for the event is scheduled, or the process ends.                        *)
Schedules(w) ==
  \E f \in events :
    /\ events' = events \ {f} /\ schedule(w, f, AnyThread)
    /\ \/ Goto(w, "handle", "count READ") \/ Goto(w, "WRITE", "count WRITE")

(* That is what they do, and to nothing else that matters here.            *)
LEMMA Triggers ==
  ASSUME NEW w \in Workers, TriggerRead(w) \/ TriggerWrite(w)
  PROVE  /\ Schedules(w) \/ UNCHANGED <<m_tasks, events, pc, owes>>
         /\ UNCHANGED <<counters, waitsFor, timers, edge, task, drain, ended, used, over,
                        turns, late, stop>>
         /\ pc[w] \in {"handle", "WRITE"}
  <1>1. CASE TriggerRead(w)
    <2>1. PICK fd : triggerEvent(w, fd, "READ", "count READ")
      BY <1>1 DEF TriggerRead
    <2>2. /\ pc[w] = "handle"
          /\ UNCHANGED <<counters, waitsFor, timers, edge, task, drain, ended, used, over,
                         turns, late, stop>>
      BY <1>1 DEF TriggerRead
    <2>3. Schedules(w) \/ UNCHANGED <<m_tasks, events, pc, owes>>
      BY <2>1, <2>2 DEF triggerEvent, Schedules
    <2> QED
      BY <2>2, <2>3
  <1>2. CASE TriggerWrite(w)
    <2>1. triggerEvent(w, fd_ctx[w], "WRITE", "count WRITE") /\ pc[w] = "WRITE"
      BY <1>2 DEF TriggerWrite
    <2>2. Schedules(w) \/ UNCHANGED <<m_tasks, events, pc, owes>>
      BY <2>1 DEF triggerEvent, Schedules
    <2> QED
      BY <1>2, <2>1, <2>2 DEF TriggerWrite, idler
  <1> QED
    BY <1>1, <1>2

(* What epoll_wait reports are descriptors, which are no tasks.            *)
LEMMA RegisteredFds ==
  ASSUME TypeOK
  PROVE  Registered \subseteq Fds /\ Registered \cap Callbacks = {}
  <1>1. ASSUME NEW f \in events
        PROVE  waitsFor[f][1] \in Fds
    BY <1>1 DEF TypeOK, WaitsOK
  <1> QED
    BY <1>1, FdsAssumption DEF Registered

(* A fiber waits for an event of a descriptor.                             *)
LEMMA WaitsNext ==
  ASSUME TypeOK, [Next]_vars
  PROVE  WaitsOK'
  <1> USE DEF counters, sources, idler, life, stop
  <1>1. ASSUME UNCHANGED waitsFor, events' \subseteq events
        PROVE  WaitsOK'
    BY <1>1 DEF TypeOK, WaitsOK
  <1>2. ASSUME NEW w \in Workers, AddEvent(w)
        PROVE  WaitsOK'
    <2>1. PICK fd \in Fds, event \in {"READ", "WRITE"} :
            waitsFor' = [waitsFor EXCEPT ![task[w]] = <<fd, event>>]
      BY <1>2 DEF AddEvent
    <2>2. task[w] \in Fibers /\ events' = events \cup {task[w]} /\ events \subseteq Fibers
      BY <1>2 DEF AddEvent, TypeOK
    <2>3. PICK on \in Fds \X {"READ", "WRITE"} : on = <<fd, event>>
      OBVIOUS
    <2>4. /\ waitsFor \in [Fibers -> (Fds \X {"READ", "WRITE"}) \cup {<<>>}]
          /\ \A f \in events : waitsFor[f] \in Fds \X {"READ", "WRITE"}
      BY DEF TypeOK, WaitsOK
    <2> DEFINE On == Fds \X {"READ", "WRITE"}
    <2> HIDE DEF On
    <2>5. /\ waitsFor' \in [Fibers -> On \cup {<<>>}]
          /\ \A f \in events' : waitsFor'[f] \in On
      BY <2>1, <2>2, <2>3, <2>4 DEF On
    <2> QED
      BY <2>5 DEF WaitsOK, On
  <1>3. ASSUME NEW w \in Workers, TriggerRead(w) \/ TriggerWrite(w)
        PROVE  UNCHANGED waitsFor /\ events' \subseteq events
    BY <1>3, Triggers DEF Schedules
  <1>4. ASSUME NEW w \in Workers, run(w)
        PROVE  UNCHANGED <<waitsFor, events>>
    BY <1>4 DEF run, TakeTask, FindNone, DropCallback, FiberReturns, Leave, EnterIdle,
                BackInRun
  <1>5. ASSUME NEW w \in Workers,
               \/ StoppingTimers(w) \/ StoppingEvents(w) \/ StoppingScheduler(w)
               \/ Wake(w) \/ ScheduleCallback(w) \/ LeaveFd(w) \/ CountOff(w) \/ Yield(w)
        PROVE  UNCHANGED <<waitsFor, events>>
    BY <1>5 DEF StoppingTimers, StoppingEvents, StoppingScheduler, Wake, ScheduleCallback,
                LeaveFd, CountOff, Yield
  <1>6. ASSUME NEW w \in Workers,
               Spawn(w) \/ FiberAddsTimer(w) \/ ScheduleSelf(w) \/ End(w)
        PROVE  UNCHANGED <<waitsFor, events>>
    BY <1>6 DEF Spawn, FiberAddsTimer, ScheduleSelf, End
  <1>7. ASSUME NEW th, Tickle(th)
        PROVE  UNCHANGED <<waitsFor, events>>
    BY <1>7 DEF Tickle
  <1>8. CASE Schedule \/ AddTimer \/ Stop \/ StopTickle \/ Join \/ UNCHANGED vars
    BY <1>1, <1>8 DEF Schedule, AddTimer, Stop, StopTickle, Join, vars
  <1> QED
    BY <1>1, <1>2, <1>3, <1>4, <1>5, <1>6, <1>7, <1>8 DEF Next, idle, Fiber

-----------------------------------------------------------------------------
(* The sets that the counters count.                                       *)
Active   == {w \in Workers : task[w] # NoTask}
Idle     == {w \in Workers : pc[w] \notin {"look", "run", "yield", "none", "left"}}
Counting == {w \in Workers : pc[w] \in {"count READ", "count WRITE"}}

(* The counters count disjoint sets of threads and fibers.                 *)
LEMMA CountersAre ==
  CountersMatch <=>
    /\ m_activeThreadCount = Cardinality(Active)
    /\ m_idleThreadCount = Cardinality(Idle)
    /\ m_pendingEventCount = Cardinality(events) + Cardinality(Counting)
  BY DEF CountersMatch, Active, Idle, Counting

(* All of them are finite.                                                 *)
LEMMA SetsFinite ==
  ASSUME TypeOK
  PROVE  /\ IsFiniteSet(Workers) /\ IsFiniteSet(Fibers) /\ events \subseteq Fibers
         /\ {Active, Idle, Counting} \subseteq SUBSET Workers
         /\ NoTask \notin Tasks
  <1>1. IsFiniteSet(Tasks) /\ Fibers \in SUBSET Tasks
    BY TasksAssumption DEF Tasks
  <1>2. IsFiniteSet(Fibers)
    BY <1>1, FS_Subset
  <1> QED
    BY <1>2, WorkersAssumption, TasksAssumption DEF TypeOK, Active, Idle, Counting

(* A worker is active from taking a task to resume()'s return.             *)
LEMMA ActiveNext ==
  ASSUME TypeOK, Doing, CountersMatch, [Next]_vars
  PROVE  m_activeThreadCount' = Cardinality(Active')
  <1>0. m_activeThreadCount = Cardinality(Active)
    BY CountersAre
  <1>p. /\ pc = [w \in Workers |-> pc[w]] /\ task = [w \in Workers |-> task[w]]
        /\ IsFiniteSet(Workers) /\ NoTask \notin Tasks /\ Active \subseteq Workers
    BY SetsFinite DEF TypeOK, Active
  <1>d. \A w \in Workers : task[w] # NoTask <=> pc[w] \in {"run", "yield"}
    BY DEF Doing
  <1> USE <1>p DEF Goto, counters, sources, idler, life, stop
  <1>1. ASSUME UNCHANGED <<task, m_activeThreadCount>>
        PROVE  m_activeThreadCount' = Cardinality(Active')
    <2>1. Active' = Active
      BY <1>1 DEF Active
    <2> QED
      BY <1>0, <1>1, <2>1
  <1>2. ASSUME NEW w \in Workers, TakeTask(w)
        PROVE  m_activeThreadCount' = Cardinality(Active')
    <2>1. PICK t \in Tasks : task' = [task EXCEPT ![w] = t]
      BY <1>2, EntryTask DEF TakeTask
    <2>2. w \notin Active
      BY <1>d, <1>2 DEF Active, TakeTask
    <2>3. Active' = Active \cup {w}
      BY <2>1 DEF Active
    <2> QED
      BY <1>0, <1>2, <2>2, <2>3, Counted DEF TakeTask
  <1>3. ASSUME NEW w \in Workers, DropCallback(w) \/ FiberReturns(w)
        PROVE  m_activeThreadCount' = Cardinality(Active')
    <2>0. pc[w] \in {"run", "yield"} /\ task' = [task EXCEPT ![w] = NoTask]
      BY <1>3 DEF DropCallback, FiberReturns
    <2>1. w \in Active /\ Active' = Active \ {w}
      BY <1>d, <2>0 DEF Active
    <2> QED
      BY <1>0, <1>3, <2>1, Counted DEF DropCallback, FiberReturns
  <1>4. ASSUME NEW w \in Workers,
               FindNone(w) \/ Leave(w) \/ EnterIdle(w) \/ BackInRun(w) \/ idle(w) \/ Fiber(w)
        PROVE  UNCHANGED <<task, m_activeThreadCount>>
    BY <1>4 DEF FindNone, Leave, EnterIdle, BackInRun, idle, StoppingTimers, StoppingEvents,
                StoppingScheduler, Wake, ScheduleCallback, LeaveFd, TriggerRead, TriggerWrite,
                CountOff, Yield, Fiber, Spawn, FiberAddsTimer, AddEvent, ScheduleSelf, End
  <1>5. ASSUME NEW th, Tickle(th)
        PROVE  UNCHANGED <<task, m_activeThreadCount>>
    BY <1>5 DEF Tickle
  <1>6. CASE Schedule \/ AddTimer \/ Stop \/ StopTickle \/ Join \/ UNCHANGED vars
    BY <1>1, <1>6 DEF Schedule, AddTimer, Stop, StopTickle, Join, vars
  <1> QED
    BY <1>1, <1>2, <1>3, <1>4, <1>5, <1>6 DEF Next, run

(* A worker is idle from resuming its idle fiber to that fiber's yield.    *)
LEMMA IdleNext ==
  ASSUME TypeOK, CountersMatch, [Next]_vars
  PROVE  m_idleThreadCount' = Cardinality(Idle')
  <1>0. m_idleThreadCount = Cardinality(Idle)
    BY CountersAre
  <1>p. pc = [w \in Workers |-> pc[w]] /\ IsFiniteSet(Workers) /\ Idle \subseteq Workers
    BY SetsFinite DEF TypeOK, Idle
  <1> USE <1>p DEF Goto, counters, sources, idler, life, stop
  <1>1. ASSUME m_idleThreadCount' = m_idleThreadCount, Idle' = Idle
        PROVE  m_idleThreadCount' = Cardinality(Idle')
    BY <1>0, <1>1
  <1>2. ASSUME NEW w \in Workers, EnterIdle(w)
        PROVE  m_idleThreadCount' = Cardinality(Idle')
    <2>1. w \notin Idle /\ Idle' = Idle \cup {w}
      BY <1>2 DEF Idle, EnterIdle
    <2> QED
      BY <1>0, <1>2, <2>1, Counted DEF EnterIdle
  <1>3. ASSUME NEW w \in Workers, BackInRun(w)
        PROVE  m_idleThreadCount' = Cardinality(Idle')
    <2>1. w \in Idle /\ Idle' = Idle \ {w}
      BY <1>3 DEF Idle, BackInRun
    <2> QED
      BY <1>0, <1>3, <2>1, Counted DEF BackInRun
  <1>4. ASSUME NEW w \in Workers,
               TakeTask(w) \/ FindNone(w) \/ DropCallback(w) \/ FiberReturns(w) \/ Leave(w)
        PROVE  m_idleThreadCount' = m_idleThreadCount /\ Idle' = Idle
    BY <1>4 DEF TakeTask, FindNone, DropCallback, FiberReturns, Leave, Idle
  <1>5. ASSUME NEW w \in Workers, idle(w)
        PROVE  m_idleThreadCount' = m_idleThreadCount /\ Idle' = Idle
    <2>1. CASE TriggerRead(w) \/ TriggerWrite(w)
      BY <2>1, Triggers DEF Schedules, Idle
    <2>2. CASE CountOff(w)
      BY <2>2 DEF CountOff, Idle
    <2> QED
      BY <1>5, <2>1, <2>2
         DEF idle, StoppingTimers, StoppingEvents, StoppingScheduler, Wake,
             ScheduleCallback, LeaveFd, Yield, Idle
  <1>6. ASSUME NEW w \in Workers, Fiber(w)
        PROVE  m_idleThreadCount' = m_idleThreadCount /\ Idle' = Idle
    BY <1>6 DEF Fiber, Spawn, FiberAddsTimer, AddEvent, ScheduleSelf, End, Idle
  <1>7. ASSUME NEW th, Tickle(th)
        PROVE  m_idleThreadCount' = m_idleThreadCount /\ Idle' = Idle
    BY <1>7 DEF Tickle, Idle
  <1>8. CASE Schedule \/ AddTimer \/ Stop \/ StopTickle \/ Join \/ UNCHANGED vars
    BY <1>1, <1>8 DEF Schedule, AddTimer, Stop, StopTickle, Join, vars, Idle
  <1> QED
    BY <1>1, <1>2, <1>3, <1>4, <1>5, <1>6, <1>7, <1>8 DEF Next, run

(* An event is counted from addEvent() until idle() has counted it off,    *)
(* which is after it was scheduled.                                        *)
LEMMA PendingNext ==
  ASSUME TypeOK, Doing, Lives, CountersMatch, [Next]_vars
  PROVE  m_pendingEventCount' = Cardinality(events') + Cardinality(Counting')
  <1> DEFINE Matches == m_pendingEventCount' = Cardinality(events') + Cardinality(Counting')
  <1>0. /\ m_pendingEventCount = Cardinality(events) + Cardinality(Counting)
        /\ Cardinality(events) \in Nat /\ Cardinality(Counting) \in Nat
    BY CountersAre, SetsFinite, Counted
  <1>p. pc = [w \in Workers |-> pc[w]] /\ events \subseteq Fibers
    BY DEF TypeOK
  <1> USE <1>p DEF Goto, counters, sources, idler, life, stop
  <1> SUFFICES Matches
    BY DEF Matches
  <1> HIDE DEF Matches
  <1>1. ASSUME UNCHANGED <<m_pendingEventCount, events>>, Counting' = Counting
        PROVE  Matches
    BY <1>0, <1>1 DEF Matches
  <1>2. ASSUME NEW w \in Workers, AddEvent(w)
        PROVE  Matches
    <2>1. task[w] \notin events /\ events' = events \cup {task[w]}
      BY <1>2 DEF AddEvent, Lives, OnePlace, Running, Awaited, Tasks
    <2>2. Counting' = Counting /\ m_pendingEventCount' = m_pendingEventCount + 1
      BY <1>2 DEF AddEvent, Counting
    <2>3. Cardinality(events \cup {task[w]}) = Cardinality(events) + 1
      BY <2>1, SetsFinite, Counted
    <2> QED
      BY <1>0, <2>1, <2>2, <2>3 DEF Matches
  <1>3. ASSUME NEW w \in Workers, TriggerRead(w) \/ TriggerWrite(w)
        PROVE  Matches
    <2>1. m_pendingEventCount' = m_pendingEventCount
      BY <1>3, Triggers
    <2>2. CASE Schedules(w)
      <3>1. PICK f \in events :
              /\ events' = events \ {f}
              /\ Goto(w, "handle", "count READ") \/ Goto(w, "WRITE", "count WRITE")
        BY <2>2 DEF Schedules
      <3>2. w \notin Counting /\ Counting' = Counting \cup {w}
        BY <3>1 DEF Counting
      <3>3. /\ Cardinality(events \ {f}) = Cardinality(events) - 1
            /\ Cardinality(Counting \cup {w}) = Cardinality(Counting) + 1
        BY <3>1, <3>2, SetsFinite, Counted
      <3>4. events' = events \ {f}
        BY <3>1
      <3> HIDE DEF Goto, counters, sources, idler, life, stop
      <3> QED
        BY <1>0, <2>1, <3>2, <3>3, <3>4 DEF Matches
    <2>3. CASE UNCHANGED <<m_tasks, events, pc, owes>>
      BY <1>1, <2>1, <2>3 DEF Counting
    <2> QED
      BY <1>3, <2>2, <2>3, Triggers
  <1>4. ASSUME NEW w \in Workers, CountOff(w)
        PROVE  Matches
    <2>1. \/ pc[w] = "count READ" /\ pc' = [pc EXCEPT ![w] = "WRITE"]
          \/ pc[w] = "count WRITE" /\ pc' = [pc EXCEPT ![w] = "handle"]
      BY <1>4 DEF CountOff
    <2>2. w \in Counting /\ Counting' = Counting \ {w}
      BY <2>1 DEF Counting
    <2>3. m_pendingEventCount' = m_pendingEventCount - 1 /\ events' = events
      BY <1>4 DEF CountOff
    <2>4. Cardinality(Counting \ {w}) = Cardinality(Counting) - 1
      BY <2>2, SetsFinite, Counted
    <2> QED
      BY <1>0, <2>2, <2>3, <2>4 DEF Matches
  <1>5. ASSUME NEW w \in Workers, run(w)
        PROVE  UNCHANGED <<m_pendingEventCount, events>> /\ Counting' = Counting
    BY <1>5 DEF run, TakeTask, FindNone, DropCallback, FiberReturns, Leave, EnterIdle,
                BackInRun, Counting
  <1>6. ASSUME NEW w \in Workers,
               \/ StoppingTimers(w) \/ StoppingEvents(w) \/ StoppingScheduler(w)
               \/ Wake(w) \/ ScheduleCallback(w) \/ LeaveFd(w) \/ Yield(w)
        PROVE  UNCHANGED <<m_pendingEventCount, events>> /\ Counting' = Counting
    BY <1>6 DEF StoppingTimers, StoppingEvents, StoppingScheduler, Wake, ScheduleCallback,
                LeaveFd, Yield, Counting
  <1>7. ASSUME NEW w \in Workers,
               Spawn(w) \/ FiberAddsTimer(w) \/ ScheduleSelf(w) \/ End(w)
        PROVE  UNCHANGED <<m_pendingEventCount, events>> /\ Counting' = Counting
    BY <1>7 DEF Spawn, FiberAddsTimer, ScheduleSelf, End, Counting
  <1>8. ASSUME NEW th, Tickle(th)
        PROVE  UNCHANGED <<m_pendingEventCount, events>> /\ Counting' = Counting
    BY <1>8 DEF Tickle, Counting
  <1>9. CASE Schedule \/ AddTimer \/ Stop \/ StopTickle \/ Join \/ UNCHANGED vars
    BY <1>1, <1>9 DEF Schedule, AddTimer, Stop, StopTickle, Join, vars, Counting
  <1> QED
    BY <1>1, <1>2, <1>3, <1>4, <1>5, <1>6, <1>7, <1>8, <1>9 DEF Next, idle, Fiber

-----------------------------------------------------------------------------
(* Each worker goes through run() and idle() in their order.               *)
LEMMA DoingNext ==
  ASSUME TypeOK, Doing, [Next]_vars
  PROVE  Doing'
  <1>t. PerWorker
    BY PerWorkerAre
  <1> USE <1>t, SetsFinite DEF PerWorker, Doing, Goto, counters, sources, idler, life, stop
  <1>1. ASSUME UNCHANGED <<pc, task, hand, ended>>
        PROVE  Doing'
    BY <1>1
  <1>2. ASSUME NEW w \in Workers, TakeTask(w)
        PROVE  Doing'
    <2>1. PICK t \in Tasks : task' = [task EXCEPT ![w] = t]
      BY <1>2, EntryTask DEF TakeTask
    <2> QED
      BY <1>2, <2>1 DEF TakeTask
  <1>3. ASSUME NEW w \in Workers, DropCallback(w) \/ FiberReturns(w)
        PROVE  Doing'
    <2>1. CASE DropCallback(w)
      BY <2>1 DEF DropCallback
    <2>2. CASE FiberReturns(w)
      BY <2>2 DEF FiberReturns
    <2> QED
      BY <1>3, <2>1, <2>2
  <1>4. ASSUME NEW w \in Workers, FindNone(w) \/ Leave(w) \/ EnterIdle(w) \/ BackInRun(w)
        PROVE  Doing'
    <2>1. UNCHANGED <<task, hand, ended>>
      BY <1>4 DEF FindNone, Leave, EnterIdle, BackInRun
    <2>2. \/ pc[w] = "look" /\ pc' = [pc EXCEPT ![w] = "none"]
          \/ pc[w] = "none" /\ ended[w] /\ pc' = [pc EXCEPT ![w] = "left"]
          \/ pc[w] = "none" /\ ~ ended[w] /\ pc' = [pc EXCEPT ![w] = "timers"]
          \/ pc[w] = "back" /\ pc' = [pc EXCEPT ![w] = "look"]
      BY <1>4 DEF FindNone, Leave, EnterIdle, BackInRun
    <2> QED
      BY <2>1, <2>2
  <1>5. ASSUME NEW w \in Workers, StoppingTimers(w) \/ StoppingEvents(w)
        PROVE  Doing'
    <2>1. /\ UNCHANGED <<task, hand, ended>> /\ pc[w] \in {"timers", "pending"}
          /\ \E to \in {"pending", "queue", "wait"} : pc' = [pc EXCEPT ![w] = to]
      BY <1>5 DEF StoppingTimers, StoppingEvents
    <2> QED
      BY <2>1
  <1>6. ASSUME NEW w \in Workers, StoppingScheduler(w)
        PROVE  Doing'
    <2>1. /\ UNCHANGED <<task, hand>> /\ pc[w] = "queue"
          /\ ended' = [ended EXCEPT ![w] = stopping]
          /\ \/ stopping /\ pc' = [pc EXCEPT ![w] = "back"]
             \/ ~ stopping /\ pc' = [pc EXCEPT ![w] = "wait"]
      BY <1>6 DEF StoppingScheduler
    <2> QED
      BY <2>1
  <1>7. ASSUME NEW w \in Workers, Wake(w)
        PROVE  Doing'
    BY <1>7 DEF Wake
  <1>8. ASSUME NEW w \in Workers, ScheduleCallback(w) \/ LeaveFd(w)
        PROVE  Doing'
    <2>1. /\ UNCHANGED <<pc, task, ended>> /\ pc[w] = "handle"
          /\ \E t : hand' = [hand EXCEPT ![w] = @ \ {t}]
      BY <1>8 DEF ScheduleCallback, LeaveFd
    <2> QED
      BY <2>1
  <1>9. ASSUME NEW w \in Workers, TriggerRead(w) \/ TriggerWrite(w)
        PROVE  Doing'
    <2>1. \/ UNCHANGED hand
          \/ pc[w] = "handle" /\ \E fd : hand' = [hand EXCEPT ![w] = @ \ {fd}]
      BY <1>9 DEF TriggerRead, TriggerWrite
    <2>2. /\ UNCHANGED <<task, ended>> /\ pc[w] \in {"handle", "WRITE"}
          /\ pc' \in {pc, [pc EXCEPT ![w] = "count READ"], [pc EXCEPT ![w] = "count WRITE"]}
      BY <1>9, Triggers DEF Schedules
    <2> QED
      BY <2>1, <2>2
  <1>10. ASSUME NEW w \in Workers, CountOff(w) \/ Yield(w)
         PROVE  Doing'
    <2>1. CASE CountOff(w)
      BY <2>1 DEF CountOff
    <2>2. CASE Yield(w)
      BY <2>2 DEF Yield
    <2> QED
      BY <1>10, <2>1, <2>2
  <1>11. ASSUME NEW w \in Workers, Fiber(w)
         PROVE  Doing'
    <2>1. CASE Spawn(w) \/ FiberAddsTimer(w)
      <3>1. pc' = [pc EXCEPT ![w] = "run"] /\ pc[w] = "run"
        BY <2>1 DEF Spawn, FiberAddsTimer
      <3>2. UNCHANGED <<task, hand, ended>>
        BY <2>1 DEF Spawn, FiberAddsTimer
      <3> QED
        BY <1>1, <3>1, <3>2
    <2>2. CASE AddEvent(w)
      BY <2>2 DEF AddEvent
    <2>3. CASE ScheduleSelf(w)
      BY <2>3 DEF ScheduleSelf
    <2>4. CASE End(w)
      BY <2>4 DEF End
    <2> QED
      BY <1>11, <2>1, <2>2, <2>3, <2>4 DEF Fiber
  <1>12. ASSUME NEW th, Tickle(th)
         PROVE  Doing'
    BY <1>1, <1>12 DEF Tickle
  <1>13. CASE Schedule \/ AddTimer \/ Stop \/ StopTickle \/ Join \/ UNCHANGED vars
    BY <1>1, <1>13 DEF Schedule, AddTimer, Stop, StopTickle, Join, vars
  <1> QED
    BY <1>2, <1>3, <1>4, <1>5, <1>6, <1>7, <1>8, <1>9, <1>10, <1>11, <1>12, <1>13
       DEF Next, run, idle

-----------------------------------------------------------------------------
(* A step moves at most one task; where the others are does not change.    *)
LEMMA OneMove ==
  ASSUME Lives, NEW t, OneWorker', OneSlot', OneHand', t \in Tasks => OnePlace(t)',
         \A u \in Tasks \ {t} :
           /\ u \in used' <=> u \in used
           /\ Queued(u)' <=> Queued(u)
           /\ Running(u)' <=> Running(u)
           /\ Awaited(u)' <=> Awaited(u)
           /\ Handed(u)' <=> Handed(u)
           /\ u \in over' <=> u \in over
  PROVE  Lives'
  <1>1. ASSUME NEW u \in Tasks \ {t}
        PROVE  OnePlace(u)'
    BY <1>1 DEF Lives, OnePlace
  <1> QED
    BY <1>1 DEF Lives

(* run() moves a task from the queue to a worker, ...                      *)
LEMMA LivesTake ==
  ASSUME TypeOK, Doing, Lives, NEW w \in Workers, TakeTask(w)
  PROVE  Lives'
  <1>p. PerWorker
    BY PerWorkerAre
  <1> USE <1>p DEF PerWorker, sources, life, idler
  <1>1. PICK i \in DOMAIN m_tasks :
          /\ FirstTask(w, i)
          /\ task' = [task EXCEPT ![w] = m_tasks[i].task]
          /\ m_tasks' = RemoveAt(m_tasks, i)
    BY DEF TakeTask
  <1>t. PICK t \in Tasks : t = m_tasks[i].task
    BY EntryTask
  <1>2. /\ Queued(t) /\ OnePlace(t) /\ t # NoTask
        /\ ~ IsRunning(t)
    BY <1>1, <1>t, SetsFinite DEF Lives, Queued, FirstTask, MayRun
  <1>3. OneSlot' /\ \A u : Queued(u)' <=> Queued(u) /\ u # t
    BY <1>1, <1>t, QueueShrinks DEF Lives
  <1>4. task' = [task EXCEPT ![w] = t]
    BY <1>1, <1>t
  <1>5. /\ task[w] = NoTask /\ pc[w] = "look" /\ pc' = [pc EXCEPT ![w] = "run"]
        /\ UNCHANGED <<events, timers, hand, used, over>>
    BY DEF Doing, TakeTask, Goto
  <1>6. \A v \in Workers : task[v] # t
    <2>1. t \in Fibers => \A v \in Workers : task[v] # t
      BY <1>2 DEF IsRunning
    <2>2. t \notin Fibers => \A v \in Workers : task[v] # t
      BY <1>2 DEF Doing, OnePlace, Running
    <2> QED
      BY <2>1, <2>2
  <1>7. OneWorker' /\ OneHand'
    BY <1>2, <1>4, <1>5, <1>6 DEF Lives, OneWorker, OneHand
  <1>8. \A u : Running(u)' <=> Running(u) \/ u = t
    BY <1>4, <1>5 DEF Running, Doing
  <1>9. \A u : (Awaited(u)' <=> Awaited(u)) /\ (Handed(u)' <=> Handed(u))
    BY <1>5 DEF Awaited, Handed
  <1>10. OnePlace(t)'
    BY <1>2, <1>3, <1>5, <1>8, <1>9 DEF OnePlace
  <1> QED
    BY <1>3, <1>5, <1>7, <1>8, <1>9, <1>10, OneMove

(* ... drops a callback, or goes on after a fiber has yielded or ended.    *)
LEMMA LivesLeaveTask ==
  ASSUME TypeOK, Doing, Lives, NEW w \in Workers, DropCallback(w) \/ FiberReturns(w)
  PROVE  Lives'
  <1>p. PerWorker
    BY PerWorkerAre
  <1> USE <1>p DEF PerWorker, sources, life, idler
  <1>t. PICK t \in Tasks : t = task[w]
    <2>1. task[w] # NoTask
      BY DEF Doing, DropCallback, FiberReturns, Goto
    <2> QED
      BY <2>1 DEF TypeOK
  <1>1. /\ pc[w] \in {"run", "yield"} /\ pc' = [pc EXCEPT ![w] = "look"]
        /\ task' = [task EXCEPT ![w] = NoTask]
        /\ OnePlace(t) /\ task[w] = t
        /\ UNCHANGED <<m_tasks, events, timers, hand, used>>
    BY <1>t DEF Doing, DropCallback, FiberReturns, Goto, Lives
  <1>2. OneWorker' /\ OneSlot' /\ OneHand'
    BY <1>1 DEF Lives, OneWorker, OneSlot, OneHand
  <1>3. \A u : /\ Queued(u)' <=> Queued(u)
               /\ Awaited(u)' <=> Awaited(u)
               /\ Handed(u)' <=> Handed(u)
    BY <1>1 DEF Queued, Awaited, Handed
  <1>4. \A u \in Tasks : Running(u)' <=> Running(u) /\ u # t
    BY <1>1, SetsFinite DEF Running, Lives, OneWorker
  <1>5. CASE DropCallback(w)
    <2>1. over' = over \cup {t} /\ pc[w] = "run"
      BY <1>5, <1>t DEF DropCallback, Goto
    <2>2. OnePlace(t)'
      BY <1>1, <1>3, <1>4, <2>1 DEF OnePlace, Running
    <2> QED
      BY <1>1, <1>2, <1>3, <1>4, <2>1, <2>2, OneMove
  <1>6. CASE FiberReturns(w)
    <2>1. over' = over /\ pc[w] = "yield"
      BY <1>6 DEF FiberReturns, Goto
    <2>2. ~ Running(t)
      BY <1>1, <2>1, SetsFinite DEF Running, Lives, OneWorker
    <2>3. OnePlace(t)'
      BY <1>1, <1>3, <1>4, <2>1, <2>2 DEF OnePlace
    <2> QED
      BY <1>1, <1>2, <1>3, <1>4, <2>1, <2>3, OneMove
  <1> QED
    BY <1>5, <1>6

(* A task that was not in use is queued, or its timer added.               *)
LEMMA LivesNew ==
  ASSUME TypeOK, Lives, NEW t \in Tasks \ used, used' = used \cup {t},
         UNCHANGED <<task, events, hand, over>>,
         \A w \in Workers : pc'[w] = "run" <=> pc[w] = "run",
         \/ /\ \E by, thread \in Workers \cup {AnyThread, Outside} :
                 thread # Outside /\ schedule(by, t, thread)
            /\ UNCHANGED timers
         \/ timers' = timers \cup {t} /\ UNCHANGED m_tasks
  PROVE  Lives'
  <1>1. OnePlace(t) /\ ~ Queued(t) /\ ~ Running(t) /\ ~ Awaited(t) /\ ~ Handed(t) /\ t \notin over
    BY DEF Lives, OnePlace
  <1>2. OneWorker' /\ OneHand'
    BY DEF Lives, OneWorker, OneHand
  <1>3. \A u : (Running(u)' <=> Running(u)) /\ (Handed(u)' <=> Handed(u))
    BY DEF Running, Handed
  <1>4. CASE /\ \E by, thread \in Workers \cup {AnyThread, Outside} :
                  thread # Outside /\ schedule(by, t, thread)
             /\ UNCHANGED timers
    <2>1. OneSlot' /\ \A u : Queued(u)' <=> Queued(u) \/ u = t
      BY <1>1, <1>4, QueueGrows DEF Lives
    <2>2. \A u : Awaited(u)' <=> Awaited(u)
      BY <1>4 DEF Awaited
    <2>3. OnePlace(t)'
      BY <1>1, <1>3, <2>1, <2>2 DEF OnePlace
    <2> QED
      BY <1>2, <1>3, <2>1, <2>2, <2>3, OneMove
  <1>5. CASE timers' = timers \cup {t} /\ UNCHANGED m_tasks
    <2>1. OneSlot' /\ \A u : Queued(u)' <=> Queued(u)
      BY <1>5 DEF Lives, OneSlot, Queued
    <2>2. \A u : Awaited(u)' <=> Awaited(u) \/ u = t
      BY <1>5 DEF Awaited
    <2>3. OnePlace(t)'
      BY <1>1, <1>3, <2>1, <2>2 DEF OnePlace
    <2> QED
      BY <1>2, <1>3, <2>1, <2>2, <2>3, OneMove
  <1> QED
    BY <1>4, <1>5

(* A running fiber goes where it waits, or ends.                           *)
LEMMA LivesYield ==
  ASSUME TypeOK, Doing, Lives, NEW w \in Workers, AddEvent(w) \/ ScheduleSelf(w) \/ End(w)
  PROVE  Lives'
  <1>p. PerWorker
    BY PerWorkerAre
  <1> USE <1>p DEF PerWorker, sources, life, idler
  <1>t. PICK t \in Fibers : t = task[w]
    BY DEF AddEvent, ScheduleSelf, End
  <1>1. /\ t \in Tasks /\ OnePlace(t) /\ Running(t)
        /\ pc[w] = "run" /\ pc' = [pc EXCEPT ![w] = "yield"]
        /\ UNCHANGED <<task, timers, hand, used>>
    BY <1>t DEF AddEvent, ScheduleSelf, End, Goto, Lives, Running, Tasks
  <1>2. OneWorker' /\ OneHand' /\ \A u : Handed(u)' <=> Handed(u)
    BY <1>1 DEF Lives, OneWorker, OneHand, Handed
  <1>3. \A u \in Tasks : Running(u)' <=> Running(u) /\ u # t
    BY <1>1, <1>t, SetsFinite DEF Running, Lives, OneWorker
  <1>4. ~ Queued(t) /\ ~ Awaited(t) /\ ~ Handed(t) /\ t \notin over
    BY <1>1 DEF OnePlace
  <1>5. CASE AddEvent(w)
    <2>1. events' = events \cup {t} /\ UNCHANGED <<m_tasks, over>>
      BY <1>5, <1>t DEF AddEvent
    <2>2. OneSlot' /\ \A u : (Queued(u)' <=> Queued(u)) /\ (Awaited(u)' <=> Awaited(u) \/ u = t)
      BY <1>1, <2>1 DEF Lives, OneSlot, Queued, Awaited
    <2>3. OnePlace(t)'
      BY <1>1, <1>2, <1>3, <1>4, <2>1, <2>2 DEF OnePlace
    <2> QED
      BY <1>1, <1>2, <1>3, <2>1, <2>2, <2>3, OneMove
  <1>6. CASE ScheduleSelf(w)
    <2>1. schedule(w, t, AnyThread) /\ UNCHANGED <<events, over>>
      BY <1>6, <1>t DEF ScheduleSelf
    <2>2. OneSlot' /\ \A u : Queued(u)' <=> Queued(u) \/ u = t
      BY <1>1, <1>4, <2>1, QueueGrows DEF Lives
    <2>3. \A u : Awaited(u)' <=> Awaited(u)
      BY <1>1, <2>1 DEF Awaited
    <2>4. OnePlace(t)'
      BY <1>1, <1>2, <1>3, <1>4, <2>1, <2>2, <2>3 DEF OnePlace
    <2> QED
      BY <1>1, <1>2, <1>3, <2>1, <2>2, <2>3, <2>4, OneMove
  <1>7. CASE End(w)
    <2>1. over' = over \cup {t} /\ UNCHANGED <<m_tasks, events>>
      BY <1>7, <1>t DEF End
    <2>2. OneSlot' /\ \A u : (Queued(u)' <=> Queued(u)) /\ (Awaited(u)' <=> Awaited(u))
      BY <1>1, <2>1 DEF Lives, OneSlot, Queued, Awaited
    <2>3. OnePlace(t)'
      BY <1>1, <1>2, <1>3, <1>4, <2>1, <2>2 DEF OnePlace
    <2> QED
      BY <1>1, <1>2, <1>3, <2>1, <2>2, <2>3, OneMove
  <1> QED
    BY <1>5, <1>6, <1>7

(* idle() takes callbacks out of m_timers, all at once, ...                *)
LEMMA LivesWake ==
  ASSUME TypeOK, Doing, Lives, NEW w \in Workers, Wake(w)
  PROVE  Lives'
  <1>p. PerWorker
    BY PerWorkerAre
  <1> USE <1>p DEF PerWorker, sources, life, idler
  <1>1. PICK ready \in SUBSET Registered, expired \in SUBSET timers :
          hand' = [hand EXCEPT ![w] = ready \cup expired] /\ timers' = timers \ expired
    BY DEF Wake
  <1>2. /\ hand[w] = {} /\ pc[w] = "wait" /\ pc' = [pc EXCEPT ![w] = "handle"]
        /\ UNCHANGED <<m_tasks, task, events, used, over>>
    BY DEF Wake, Goto, Doing
  <1>3. ready \cap Callbacks = {} /\ expired \subseteq Callbacks /\ events \cap expired = {}
    <2>1. events \subseteq Fibers /\ timers \subseteq Callbacks
      BY DEF TypeOK
    <2> QED
      BY <1>1, <2>1, TasksAssumption, RegisteredFds
  <1>4. \A u \in expired : u \in Tasks /\ Awaited(u) /\ ~ Handed(u)
    BY <1>1, <1>3 DEF Lives, OnePlace, Awaited, Tasks
  <1>5. OneWorker' /\ OneSlot'
    BY <1>2 DEF Lives, OneWorker, OneSlot
  <1>6. OneHand'
    <2> SUFFICES ASSUME NEW v \in Workers, NEW x \in Workers, v # x,
                        NEW u \in hand'[v] \cap hand'[x] \cap Callbacks
                 PROVE  FALSE
      BY DEF OneHand
    <2>1. CASE v # w /\ x # w
      BY <1>1, <2>1 DEF Lives, OneHand
    <2>2. ASSUME NEW y \in Workers \ {w}, u \in hand[y]
          PROVE  u \notin hand'[w]
      BY <1>1, <1>3, <1>4, <2>2 DEF Handed
    <2> QED
      BY <1>1, <2>1, <2>2
  <1>7. \A u : (Queued(u)' <=> Queued(u)) /\ (Running(u)' <=> Running(u))
    BY <1>2 DEF Queued, Running
  <1>8. \A u : Awaited(u)' <=> Awaited(u) /\ u \notin expired
    BY <1>1, <1>2, <1>3 DEF Awaited
  <1>9. \A u : Handed(u)' <=> Handed(u) \/ u \in expired
    BY <1>1, <1>2, <1>3 DEF Handed
  <1>10. ASSUME NEW u \in Tasks
         PROVE  OnePlace(u)'
    <2>1. OnePlace(u)
      BY DEF Lives
    <2> QED
      BY <1>2, <1>4, <1>7, <1>8, <1>9, <2>1 DEF OnePlace
  <1> QED
    BY <1>5, <1>6, <1>10 DEF Lives

(* ... and schedules them, ...                                             *)
LEMMA LivesHandle ==
  ASSUME TypeOK, Lives, NEW w \in Workers, ScheduleCallback(w)
  PROVE  Lives'
  <1>p. PerWorker
    BY PerWorkerAre
  <1> USE <1>p, TasksAssumption DEF PerWorker, sources, life, idler
  <1>1. PICK t \in hand[w] \cap Callbacks :
          schedule(w, t, AnyThread) /\ hand' = [hand EXCEPT ![w] = @ \ {t}]
    BY DEF ScheduleCallback
  <1>2. /\ t \in Tasks /\ OnePlace(t)
        /\ UNCHANGED <<pc, task, events, timers, used, over>>
    BY DEF ScheduleCallback, Goto, Lives, Tasks
  <1>3. OneWorker' /\ OneHand' /\ \A u : Running(u)' <=> Running(u)
    BY <1>1, <1>2 DEF Lives, OneWorker, OneHand, Running
  <1>4. \A u : Handed(u)' <=> Handed(u) /\ u # t
    BY <1>1 DEF Handed, Lives, OneHand
  <1>5. Handed(t) /\ ~ Queued(t)
    BY <1>2 DEF Handed, OnePlace
  <1>6. OneSlot' /\ \A u : Queued(u)' <=> Queued(u) \/ u = t
    BY <1>1, <1>2, <1>5, QueueGrows DEF Lives
  <1>7. \A u : Awaited(u)' <=> Awaited(u)
    BY <1>2 DEF Awaited
  <1>8. OnePlace(t)'
    BY <1>2, <1>3, <1>4, <1>5, <1>6, <1>7 DEF OnePlace
  <1> QED
    BY <1>2, <1>3, <1>4, <1>6, <1>7, <1>8, OneMove

(* ... and the fibers whose events are registered; what it has of          *)
(* descriptors is no task.                                                 *)
LEMMA LivesTrigger ==
  ASSUME TypeOK, Lives, NEW w \in Workers, TriggerRead(w) \/ TriggerWrite(w)
  PROVE  Lives'
  <1>p. PerWorker
    BY PerWorkerAre
  <1> USE <1>p, TasksAssumption DEF PerWorker, sources, life, idler
  <1>1. \A v \in Workers : hand'[v] \cap Callbacks = hand[v] \cap Callbacks
    <2>1. \/ UNCHANGED hand
          \/ \E fd \in Registered : hand' = [hand EXCEPT ![w] = @ \ {fd}]
      BY DEF TriggerRead, TriggerWrite
    <2>2. CASE UNCHANGED hand
      BY <2>2
    <2>3. ASSUME NEW fd \in Registered, hand' = [hand EXCEPT ![w] = @ \ {fd}]
          PROVE  \A v \in Workers : hand'[v] \cap Callbacks = hand[v] \cap Callbacks
      <3>1. fd \notin Callbacks
        BY RegisteredFds
      <3> QED
        BY <2>3, <3>1
    <2> QED
      BY <2>1, <2>2, <2>3
  <1>2. UNCHANGED <<task, timers, used, over>>
    BY Triggers
  <1>3. \A v \in Workers : pc'[v] = "run" <=> pc[v] = "run"
    BY Triggers DEF Schedules, Goto
  <1>4. OneWorker' /\ OneHand' /\ \A u : (Running(u)' <=> Running(u)) /\ (Handed(u)' <=> Handed(u))
    <2>1. OneWorker' /\ \A u : Running(u)' <=> Running(u)
      BY <1>2, <1>3 DEF Lives, OneWorker, Running
    <2>2. OneHand'
      <3> SUFFICES ASSUME NEW u \in Workers, NEW v \in Workers, u # v
                   PROVE  hand'[u] \cap hand'[v] \cap Callbacks = {}
        BY DEF OneHand
      <3>1. hand[u] \cap hand[v] \cap Callbacks = {}
        BY DEF Lives, OneHand
      <3>2. /\ hand'[u] \cap Callbacks = hand[u] \cap Callbacks
            /\ hand'[v] \cap Callbacks = hand[v] \cap Callbacks
        BY <1>1
      <3> HIDE DEF TypeOK
      <3> QED
        BY <3>1, <3>2
    <2>3. \A u : Handed(u)' <=> Handed(u)
      BY <1>1 DEF Handed
    <2> QED
      BY <2>1, <2>2, <2>3
  <1>5. CASE Schedules(w)
    <2>1. PICK t \in events : events' = events \ {t} /\ schedule(w, t, AnyThread)
      BY <1>5 DEF Schedules
    <2>t. t \in Fibers /\ timers \subseteq Callbacks
      BY DEF TypeOK
    <2>2. t \in Tasks /\ OnePlace(t) /\ Awaited(t) /\ ~ Queued(t) /\ t \notin timers
      BY <2>1, <2>t DEF Awaited, OnePlace, Lives, Tasks
    <2>3. OneSlot' /\ \A u : Queued(u)' <=> Queued(u) \/ u = t
      BY <2>1, <2>2, QueueGrows DEF Lives
    <2>4. \A u : Awaited(u)' <=> Awaited(u) /\ u # t
      BY <1>2, <2>1, <2>2 DEF Awaited
    <2>5. OnePlace(t)'
      BY <1>2, <1>4, <2>2, <2>3, <2>4 DEF OnePlace
    <2> QED
      BY <1>2, <1>4, <2>2, <2>3, <2>4, <2>5, OneMove
  <1>6. CASE UNCHANGED <<m_tasks, events, pc, owes>>
    <2>1. OneSlot' /\ \A u : (Queued(u)' <=> Queued(u)) /\ (Awaited(u)' <=> Awaited(u))
      BY <1>2, <1>6 DEF Lives, OneSlot, Queued, Awaited
    <2>2. ASSUME NEW u \in Tasks
          PROVE  OnePlace(u)'
      BY <1>2, <1>4, <2>1 DEF Lives, OnePlace
    <2> QED
      BY <1>4, <2>1, <2>2 DEF Lives
  <1> QED
    BY <1>5, <1>6, Triggers

(* The other steps move no task.                                           *)
LEMMA LivesSame ==
  ASSUME Lives, UNCHANGED <<m_tasks, task, events, timers, used, over>>,
         \A w \in Workers : /\ pc'[w] = "run" <=> pc[w] = "run"
                            /\ hand'[w] \cap Callbacks = hand[w] \cap Callbacks
  PROVE  Lives'
  <1>1. OneWorker' /\ OneSlot' /\ OneHand'
    BY DEF Lives, OneWorker, OneSlot, OneHand
  <1>2. \A u : /\ Queued(u)' <=> Queued(u)
               /\ Running(u)' <=> Running(u)
               /\ Awaited(u)' <=> Awaited(u)
               /\ Handed(u)' <=> Handed(u)
    BY DEF Queued, Running, Awaited, Handed
  <1>3. ASSUME NEW u \in Tasks
        PROVE  OnePlace(u)'
    BY <1>2 DEF Lives, OnePlace
  <1> QED
    BY <1>1, <1>3 DEF Lives

(* No task is in two places, or in none.                                   *)
LEMMA LivesNext ==
  ASSUME TypeOK, Doing, Lives, [Next]_vars
  PROVE  Lives'
  <1>t. PerWorker
    BY PerWorkerAre
  <1> USE <1>t, WorkersAssumption DEF PerWorker, Goto, counters, sources, idler, life, stop
  <1>1. ASSUME NEW w \in Workers, run(w)
        PROVE  Lives'
    <2>1. CASE FindNone(w) \/ Leave(w) \/ EnterIdle(w) \/ BackInRun(w)
      BY <2>1, LivesSame DEF FindNone, Leave, EnterIdle, BackInRun
    <2> QED
      BY <1>1, <2>1, LivesTake, LivesLeaveTask DEF run
  <1>2. ASSUME NEW w \in Workers, idle(w)
        PROVE  Lives'
    <2>1. CASE \/ StoppingTimers(w) \/ StoppingEvents(w) \/ StoppingScheduler(w)
               \/ CountOff(w)
      BY <2>1, LivesSame
         DEF StoppingTimers, StoppingEvents, StoppingScheduler, CountOff
    <2>2. CASE Yield(w)
      BY <2>2, LivesSame DEF Yield
    <2>3. CASE LeaveFd(w)
      <3>1. PICK fd \in hand[w] \ Callbacks : hand' = [hand EXCEPT ![w] = @ \ {fd}]
        BY <2>3 DEF LeaveFd
      <3>2. \A v \in Workers : hand'[v] \cap Callbacks = hand[v] \cap Callbacks
        BY <3>1
      <3>3. UNCHANGED <<m_tasks, task, events, timers, used, over, pc>>
        BY <2>3 DEF LeaveFd
      <3> QED
        BY <3>2, <3>3, LivesSame
    <2> QED
      BY <1>2, <2>1, <2>2, <2>3, LivesWake, LivesHandle, LivesTrigger DEF idle
  <1>3. ASSUME NEW w \in Workers, Spawn(w) \/ FiberAddsTimer(w)
        PROVE  Lives'
    <2>1. \A v \in Workers : pc'[v] = "run" <=> pc[v] = "run"
      BY <1>3 DEF Spawn, FiberAddsTimer
    <2>2. AnyThread # Outside
      BY DEF AnyThread, Outside
    <2>3. CASE Spawn(w)
      <3>1. PICK t \in Tasks \ used : schedule(w, t, AnyThread) /\ used' = used \cup {t}
        BY <2>3, NewIsUnused DEF Spawn
      <3>2. UNCHANGED <<task, events, timers, hand, over>>
        BY <2>3 DEF Spawn
      <3> QED
        BY <2>1, <2>2, <3>1, <3>2, LivesNew
    <2>4. CASE FiberAddsTimer(w)
      <3>1. PICK t \in Callbacks \ used : timers' = timers \cup {t} /\ used' = used \cup {t}
        BY <2>4, NewIsUnused DEF FiberAddsTimer, Tasks
      <3>2. t \in Tasks /\ UNCHANGED <<m_tasks, task, events, hand, over>>
        BY <2>4 DEF FiberAddsTimer, Tasks
      <3> QED
        BY <2>1, <3>1, <3>2, LivesNew
    <2> QED
      BY <1>3, <2>3, <2>4
  <1>4. CASE Schedule
    <2>1. PICK t \in Tasks \ used, thread \in Workers \cup {AnyThread} :
            schedule(Outside, t, thread) /\ used' = used \cup {t}
      BY <1>4, NewIsUnused DEF Schedule
    <2>2. thread # Outside /\ UNCHANGED <<pc, task, events, timers, hand, over>>
      BY <1>4 DEF Schedule, AnyThread, Outside
    <2> QED
      BY <2>1, <2>2, LivesNew
  <1>5. CASE AddTimer
    <2>1. PICK t \in Callbacks \ used : timers' = timers \cup {t} /\ used' = used \cup {t}
      BY <1>5, NewIsUnused DEF AddTimer, Tasks
    <2>2. t \in Tasks /\ UNCHANGED <<m_tasks, pc, task, events, hand, over>>
      BY <1>5 DEF AddTimer, Tasks
    <2> QED
      BY <2>1, <2>2, LivesNew
  <1>6. ASSUME NEW th, Tickle(th)
        PROVE  Lives'
    BY <1>6, LivesSame DEF Tickle
  <1>7. CASE Stop \/ StopTickle \/ Join \/ UNCHANGED vars
    BY <1>7, LivesSame DEF Stop, StopTickle, Join, vars
  <1> QED
    BY <1>1, <1>2, <1>3, <1>4, <1>5, <1>6, <1>7, LivesYield DEF Next, Fiber

-----------------------------------------------------------------------------
(* There is a worker that stop() tickles for.                              *)
LEMMA SomeWorkers == Cardinality(Workers) \in Nat \ {0}
  BY WorkersAssumption, FS_CardinalityType, FS_EmptySet

(* Types, given that the counters count.                                   *)
LEMMA TypeNext ==
  ASSUME TypeOK, WaitsOK', CountersMatch', Seen, [Next]_vars
  PROVE  TypeOK'
  <1> DEFINE Counters == {m_activeThreadCount, m_idleThreadCount, m_pendingEventCount} \subseteq Nat
             Queue == m_tasks \in Seq([task : Tasks, thread : Workers \cup {AnyThread}])
             Steps == pc \in [Workers ->
               {"look", "run", "yield", "none", "timers", "pending", "queue", "wait",
                "handle", "count READ", "WRITE", "count WRITE", "back", "left"}]
  <1>c. events' \subseteq Fibers => Counters'
    <2> SUFFICES ASSUME events' \subseteq Fibers
                 PROVE  Counters'
      OBVIOUS
    <2>1. {Active', Idle', Counting'} \subseteq SUBSET Workers
      BY DEF Active, Idle, Counting
    <2>2. /\ Cardinality(Active') \in Nat /\ Cardinality(Idle') \in Nat
          /\ Cardinality(Counting') \in Nat /\ Cardinality(events') \in Nat
      BY <2>1, SetsFinite, Counted
    <2>3. /\ m_activeThreadCount' = Cardinality(Active')
          /\ m_idleThreadCount' = Cardinality(Idle')
          /\ m_pendingEventCount' = Cardinality(events') + Cardinality(Counting')
      BY DEF CountersMatch, Active, Idle, Counting
    <2> QED
      BY <2>2, <2>3
  <1>q. ASSUME NEW by, NEW t \in Tasks, NEW thread \in Workers \cup {AnyThread},
               schedule(by, t, thread)
        PROVE  Queue' /\ owes' \in [Workers \cup {Outside} -> BOOLEAN]
    <2>1. Queue'
      BY <1>q, QueueGrows DEF Entry
    <2> QED
      BY <1>q, <2>1 DEF schedule, TypeOK
  <1>t. turns \in [Fibers -> 0 .. MaxTurns] /\ MaxTurns \in Nat
    BY SchedulerBoundsAssumption DEF TypeOK
  <1>f. ASSUME NEW f \in Fibers, Turn(f)
        PROVE  turns' \in [Fibers -> 0 .. MaxTurns]
    BY <1>t, <1>f DEF Turn
  <1>n. ASSUME NEW c \in New(Callbacks), timers' = timers \cup {c}, used' = used \cup {c}
        PROVE  timers' \subseteq Callbacks /\ used' \subseteq Tasks
    <2>1. c \in Callbacks /\ c \in Tasks /\ timers \subseteq Callbacks /\ used \subseteq Tasks
      BY NewIsUnused DEF Tasks, TypeOK
    <2> QED
      BY <1>n, <2>1
  <1>s. ASSUME StopTickle
        PROVE  tickles' \in Nat
    <2>1. tickles \in Nat \ {0} /\ tickles' = tickles - 1
      BY <1>s DEF StopTickle, Seen
    <2> QED
      BY <2>1
  <1> HIDE DEF Counters
  <1> USE DEF TypeOK, Goto, counters, sources, idler, life, stop
  <1>1. ASSUME NEW w \in Workers, TakeTask(w)
        PROVE  TypeOK'
    <2>1. PICK i \in DOMAIN m_tasks :
            /\ task' = [task EXCEPT ![w] = m_tasks[i].task]
            /\ m_tasks' = RemoveAt(m_tasks, i)
            /\ owes' = [owes EXCEPT ![w] =
                          i < Len(m_tasks) \/ \E j \in 1 .. i - 1 : Elsewhere(w, j)]
      BY <1>1 DEF TakeTask
    <2>2. Queue' /\ m_tasks[i].task \in Tasks
      BY <2>1, Removed, EntryTask
    <2> QED
      BY <1>1, <1>c, <2>1, <2>2 DEF TakeTask, Counters
  <1>2. ASSUME NEW w \in Workers, FindNone(w) \/ Leave(w) \/ EnterIdle(w) \/ BackInRun(w)
        PROVE  TypeOK'
    <2>1. Counters'
      BY <1>2, <1>c DEF FindNone, Leave, EnterIdle, BackInRun
    <2>2. CASE FindNone(w)
      BY <2>2 DEF FindNone
    <2>3. CASE Leave(w)
      BY <2>3 DEF Leave
    <2>4. CASE EnterIdle(w)
      BY <2>1, <2>4 DEF EnterIdle, Counters
    <2>5. CASE BackInRun(w)
      BY <2>1, <2>5 DEF BackInRun, Counters
    <2> QED
      BY <1>2, <2>2, <2>3, <2>4, <2>5
  <1>3. ASSUME NEW w \in Workers, DropCallback(w) \/ FiberReturns(w)
        PROVE  TypeOK'
    <2>1. Counters' /\ task' \in [Workers -> Tasks \cup {NoTask}] /\ over' \subseteq Tasks
      BY <1>3, <1>c DEF DropCallback, FiberReturns, Tasks
    <2>2. CASE DropCallback(w)
      BY <2>1, <2>2 DEF DropCallback, Counters
    <2>3. CASE FiberReturns(w)
      BY <2>1, <2>3 DEF FiberReturns, Counters
    <2> QED
      BY <1>3, <2>2, <2>3
  <1>4. ASSUME NEW w \in Workers, StoppingTimers(w) \/ StoppingEvents(w) \/ StoppingScheduler(w)
        PROVE  TypeOK'
    <2>1. CASE StoppingTimers(w)
      BY <2>1 DEF StoppingTimers
    <2>2. CASE StoppingEvents(w)
      BY <2>2 DEF StoppingEvents
    <2>3. CASE StoppingScheduler(w)
      BY <2>3 DEF StoppingScheduler, stopping
    <2> QED
      BY <1>4, <2>1, <2>2, <2>3
  <1>5. ASSUME NEW w \in Workers, Wake(w)
        PROVE  TypeOK'
    <2>1. PICK tickled \in {FALSE, edge}, ready \in SUBSET Registered,
               expired \in SUBSET timers :
            /\ tickled \/ ready # {} \/ TimesOut
            /\ edge' = (edge /\ ~ tickled)
            /\ drain' = [drain EXCEPT ![w] = tickled]
            /\ hand' = [hand EXCEPT ![w] = ready \cup expired]
            /\ timers' = timers \ expired
      BY <1>5, Zenon DEF Wake
    <2>2. ready \cup expired \in SUBSET (Callbacks \cup Fds) /\ tickled \in BOOLEAN
      BY <2>1, RegisteredFds
    <2>3. /\ hand' \in [Workers -> SUBSET (Callbacks \cup Fds)]
          /\ drain' \in [Workers -> BOOLEAN]
          /\ timers' \subseteq Callbacks
      BY <2>1, <2>2
    <2>4. edge' \in BOOLEAN
      BY <2>1, <2>2
    <2> QED
      BY <1>5, <2>3, <2>4 DEF Wake
  <1>6. ASSUME NEW w \in Workers, ScheduleCallback(w)
        PROVE  TypeOK'
    <2>1. PICK c \in hand[w] \cap Callbacks :
            schedule(w, c, AnyThread) /\ hand' = [hand EXCEPT ![w] = @ \ {c}]
      BY <1>6 DEF ScheduleCallback
    <2>2. Queue' /\ owes' \in [Workers \cup {Outside} -> BOOLEAN]
      BY <1>q, <2>1 DEF Tasks
    <2> QED
      BY <1>6, <2>1, <2>2 DEF ScheduleCallback
  <1>7. ASSUME NEW w \in Workers, TriggerRead(w) \/ TriggerWrite(w)
        PROVE  TypeOK'
    <2>1. /\ events' \subseteq events /\ Queue' /\ Steps'
          /\ owes' \in [Workers \cup {Outside} -> BOOLEAN]
      <3>1. CASE Schedules(w)
        <4>1. PICK f \in events :
                /\ events' = events \ {f} /\ schedule(w, f, AnyThread)
                /\ \E to \in {"count READ", "count WRITE"} : pc' = [pc EXCEPT ![w] = to]
          BY <3>1 DEF Schedules
        <4> QED
          BY <1>q, <4>1 DEF Tasks
      <3>2. CASE UNCHANGED <<m_tasks, events, pc, owes>>
        BY <3>2
      <3> QED
        BY <1>7, <3>1, <3>2, Triggers
    <2>2. /\ hand' \in [Workers -> SUBSET (Callbacks \cup Fds)]
          /\ fd_ctx' \in [Workers -> Fds \cup {NoFd}]
      <3>1. CASE TriggerRead(w)
        <4>1. PICK fd \in Fds :
                /\ hand' = [hand EXCEPT ![w] = @ \ {fd}]
                /\ fd_ctx' = [fd_ctx EXCEPT ![w] = fd]
          BY <3>1, RegisteredFds DEF TriggerRead
        <4> QED
          BY <4>1
      <3>2. CASE TriggerWrite(w)
        BY <3>2 DEF TriggerWrite
      <3> QED
        BY <1>7, <3>1, <3>2
    <2>3. process' \in {"up", "null scheduler"}
      BY <1>7 DEF TriggerRead, TriggerWrite, triggerEvent
    <2>4. /\ UNCHANGED <<counters, waitsFor, timers, edge, task, drain, ended, used, over,
                         turns, late, stop>>
      BY <1>7, Triggers
    <2> QED
      BY <2>1, <2>2, <2>3, <2>4
  <1>8. ASSUME NEW w \in Workers, CountOff(w) \/ Yield(w) \/ LeaveFd(w)
        PROVE  TypeOK'
    <2>1. CASE CountOff(w)
      <3>1. Counters' /\ Steps'
        BY <1>c, <2>1 DEF CountOff
      <3>2. fd_ctx' \in [Workers -> Fds \cup {NoFd}]
        BY <2>1 DEF CountOff
      <3> QED
        BY <2>1, <3>1, <3>2 DEF CountOff, Counters
    <2>2. CASE Yield(w)
      <3>1. edge' \in BOOLEAN /\ drain' \in [Workers -> BOOLEAN] /\ Steps'
        BY <2>2 DEF Yield
      <3> QED
        BY <2>2, <3>1 DEF Yield
    <2>3. CASE LeaveFd(w)
      <3>1. hand' \in [Workers -> SUBSET (Callbacks \cup Fds)] /\ Steps'
        BY <2>3 DEF LeaveFd
      <3> QED
        BY <2>3, <3>1 DEF LeaveFd
    <2> QED
      BY <1>8, <2>1, <2>2, <2>3
  <1>9. ASSUME NEW w \in Workers, Spawn(w)
        PROVE  TypeOK'
    <2>1. PICK t \in Tasks \ used : schedule(w, t, AnyThread) /\ used' = used \cup {t}
      BY <1>9, NewIsUnused DEF Spawn
    <2>2. Queue' /\ owes' \in [Workers \cup {Outside} -> BOOLEAN]
      BY <1>q, <2>1
    <2> QED
      BY <1>9, <2>1, <2>2 DEF Spawn
  <1>10. ASSUME NEW w \in Workers, FiberAddsTimer(w)
         PROVE  TypeOK'
    <2>1. timers' \subseteq Callbacks /\ used' \subseteq Tasks
      BY <1>10, <1>n DEF FiberAddsTimer
    <2> QED
      BY <1>10, <2>1 DEF FiberAddsTimer, Awaits
  <1>12. ASSUME NEW w \in Workers, AddEvent(w)
         PROVE  TypeOK'
    <2>1. turns' \in [Fibers -> 0 .. MaxTurns] /\ events' \subseteq Fibers
      BY <1>f, <1>12 DEF AddEvent
    <2> QED
      BY <1>12, <1>c, <2>1 DEF AddEvent, Awaits, Counters
  <1>13. ASSUME NEW w \in Workers, ScheduleSelf(w)
         PROVE  TypeOK'
    <2>1. turns' \in [Fibers -> 0 .. MaxTurns]
      BY <1>f, <1>13 DEF ScheduleSelf
    <2>2. Queue' /\ owes' \in [Workers \cup {Outside} -> BOOLEAN]
      BY <1>13, <1>q DEF ScheduleSelf, Tasks
    <2> QED
      BY <1>13, <2>1, <2>2 DEF ScheduleSelf
  <1>14. ASSUME NEW w \in Workers, End(w)
         PROVE  TypeOK'
    BY <1>14 DEF End, Tasks
  <1>15. ASSUME NEW th \in Workers \cup {Outside}, Tickle(th)
         PROVE  TypeOK'
    BY <1>15 DEF Tickle, tickle
  <1>16. CASE Schedule
    <2>1. PICK t \in Tasks \ used, thread \in Workers \cup {AnyThread} :
            schedule(Outside, t, thread) /\ used' = used \cup {t}
      BY <1>16, NewIsUnused DEF Schedule
    <2>2. Queue' /\ owes' \in [Workers \cup {Outside} -> BOOLEAN]
      BY <1>q, <2>1
    <2> QED
      BY <1>16, <2>1, <2>2 DEF Schedule
  <1>17. CASE AddTimer
    <2>1. timers' \subseteq Callbacks /\ used' \subseteq Tasks
      BY <1>17, <1>n DEF AddTimer
    <2> QED
      BY <1>17, <2>1 DEF AddTimer, Awaits
  <1>18. CASE Stop
    BY <1>18, SomeWorkers DEF Stop
  <1>19. CASE StopTickle
    <2>1. tickles' \in Nat
      BY <1>s, <1>19
    <2>2. edge' \in BOOLEAN /\ stopper' \in {"idle", "tickle", "join", "stopped"}
      BY <1>19 DEF StopTickle, tickle
    <2> QED
      BY <1>19, <2>1, <2>2 DEF StopTickle
  <1>20. CASE Join \/ UNCHANGED vars
    BY <1>20 DEF Join, vars
  <1> QED
    BY <1>1, <1>2, <1>3, <1>4, <1>5, <1>6, <1>7, <1>8, <1>9, <1>10, <1>12, <1>13, <1>14,
       <1>15, <1>16, <1>17, <1>18, <1>19, <1>20 DEF Next, run, idle, Fiber

-----------------------------------------------------------------------------
(* One tickle less.                                                        *)
LEMMA OneLess ==
  ASSUME NEW n \in Nat \ {0}
  PROVE  n - 1 \in Nat /\ (n # 1 => n - 1 # 0)
  OBVIOUS

(* Numbers that add up to nothing.                                         *)
LEMMA Neither ==
  ASSUME NEW m \in Nat, NEW n \in Nat, m + n = 0
  PROVE  m = 0 /\ n = 0
  OBVIOUS

(* A worker that finds no timer, no event and nothing to run is right.     *)
LEMMA SeenStopping ==
  ASSUME TypeOK, Doing, CountersMatch, Seen, NEW w \in Workers,
         StoppingTimers(w) \/ StoppingEvents(w) \/ StoppingScheduler(w)
  PROVE  Seen'
  <1>t. PerWorker
    BY PerWorkerAre
  <1> USE <1>t DEF PerWorker, Doing, Seen, Goto, counters, sources, idler, life, stop
  <1>1. CASE StoppingTimers(w)
    <2>1. /\ pc[w] = "timers"
          /\ \/ timers = {} /\ pc' = [pc EXCEPT ![w] = "pending"]
             \/ pc' = [pc EXCEPT ![w] = "wait"]
          /\ UNCHANGED <<m_tasks, events, timers, task, ended, late, m_stopping, stopper, tickles>>
      BY <1>1 DEF StoppingTimers
    <2> QED
      BY <2>1
  <1>2. CASE StoppingEvents(w)
    <2>1. NonePending =>
            events = {} /\ \A v \in Workers : pc[v] \notin {"count READ", "count WRITE"}
      <3> SUFFICES ASSUME m_pendingEventCount = 0
                   PROVE  events = {} /\ Counting = {}
        BY DEF NonePending, Counting
      <3>1. /\ Cardinality(events) \in Nat /\ Cardinality(Counting) \in Nat
            /\ Cardinality(events) + Cardinality(Counting) = 0
        BY SetsFinite, Counted, CountersAre
      <3>2. IsFiniteSet(events) /\ IsFiniteSet(Counting)
        BY SetsFinite, FS_Subset
      <3>3. Cardinality(events) = 0 /\ Cardinality(Counting) = 0
        BY <3>1, Neither
      <3> QED
        BY <3>2, <3>3, FS_EmptySet
    <2>2. /\ pc[w] = "pending"
          /\ \/ NonePending /\ pc' = [pc EXCEPT ![w] = "queue"]
             \/ pc' = [pc EXCEPT ![w] = "wait"]
          /\ UNCHANGED <<m_tasks, events, timers, task, ended, late, m_stopping, stopper, tickles>>
      BY <1>2 DEF StoppingEvents
    <2> QED
      BY <2>1, <2>2
  <1>3. CASE StoppingScheduler(w)
    <2>1. stopping => m_stopping /\ m_tasks = <<>> /\ \A v \in Workers : task[v] = NoTask
      <3> SUFFICES ASSUME m_activeThreadCount = 0
                   PROVE  Active = {}
        BY DEF stopping, Active
      <3>1. IsFiniteSet(Active) /\ Cardinality(Active) = 0
        BY SetsFinite, FS_Subset, CountersAre
      <3> QED
        BY <3>1, FS_EmptySet
    <2>2. /\ pc[w] = "queue"
          /\ \/ stopping /\ pc' = [pc EXCEPT ![w] = "back"]
             \/ ~ stopping /\ pc' = [pc EXCEPT ![w] = "wait"]
          /\ ended' = [ended EXCEPT ![w] = stopping]
          /\ UNCHANGED <<m_tasks, events, timers, task, late, m_stopping, stopper, tickles>>
      BY <1>3 DEF StoppingScheduler
    <2> QED
      BY <2>1, <2>2
  <1> QED
    BY <1>1, <1>2, <1>3

(* What a worker that runs a task adds is late, unless some worker has yet *)
(* to look.                                                                *)
LEMMA SeenFiber ==
  ASSUME TypeOK, Doing, Seen, NEW w \in Workers, Fiber(w)
  PROVE  Seen'
  <1>t. PerWorker
    BY PerWorkerAre
  <1> USE <1>t DEF PerWorker, Doing, Seen, Goto, counters, sources, idler, life, stop
  <1>1. task[w] \in Fibers /\ task[w] # NoTask /\ pc[w] = "run"
    BY SetsFinite DEF Fiber, Spawn, FiberAddsTimer, AddEvent, ScheduleSelf, End
  <1>2. /\ UNCHANGED <<ended, task, m_stopping, stopper, tickles>>
        /\ pc' \in {pc, [pc EXCEPT ![w] = "yield"]}
    BY DEF Fiber, Spawn, FiberAddsTimer, AddEvent, ScheduleSelf, End
  <1>3. CASE Spawn(w) \/ ScheduleSelf(w) \/ End(w)
    <2>1. UNCHANGED <<events, timers, late>>
      BY <1>3 DEF Spawn, ScheduleSelf, End
    <2> QED
      BY <1>1, <1>2, <2>1
  <1>4. CASE FiberAddsTimer(w)
    <2>1. UNCHANGED <<m_tasks, events, pc>> /\ Awaits({"pending", "queue"})
      BY <1>4 DEF FiberAddsTimer
    <2> QED
      BY <1>1, <1>2, <2>1 DEF Awaits
  <1>5. CASE AddEvent(w)
    <2>1. UNCHANGED <<m_tasks, timers>> /\ Awaits({"queue"})
      BY <1>5 DEF AddEvent
    <2>2. CASE late'
      BY <1>1, <1>2, <2>1, <2>2
    <2>3. CASE ~ late'
      <3>1. ~ late /\ \A v \in Workers : pc[v] # "queue" /\ ~ ended[v]
        BY <2>1, <2>3 DEF Awaits
      <3>2. \A v \in Workers : pc'[v] # "queue" /\ (pc'[v] = "pending" => pc[v] = "pending")
        BY <1>2, <3>1
      <3> QED
        BY <1>1, <1>2, <2>1, <3>1, <3>2
    <2> QED
      BY <2>2, <2>3
  <1> QED
    BY <1>3, <1>4, <1>5 DEF Fiber

(* What stopping() has seen stays so, unless something comes late.         *)
LEMMA SeenNext ==
  ASSUME TypeOK, Doing, CountersMatch, Seen, [Next]_vars
  PROVE  Seen'
  <1>e. m_tasks \in Seq(Entry) /\ tickles \in Nat
    BY DEF TypeOK, Entry
  <1>s. stopper = "tickle" => tickles \in Nat \ {0}
    BY DEF Seen
  <1>t. PerWorker
    BY PerWorkerAre
  <1> USE <1>t DEF PerWorker, Doing, Seen, Goto, counters, sources, idler, life, stop
  <1>1. ASSUME NEW w \in Workers, TakeTask(w)
        PROVE  Seen'
    <2>1. PICK i \in DOMAIN m_tasks : TRUE
      BY <1>1 DEF TakeTask
    <2>2. m_tasks # <<>>
      BY <1>e, <2>1, HasElement
    <2>3. /\ pc' = [pc EXCEPT ![w] = "run"]
          /\ UNCHANGED <<events, timers, ended, late, m_stopping, stopper, tickles>>
      BY <1>1 DEF TakeTask
    <2> QED
      BY <2>2, <2>3
  <1>2. ASSUME NEW w \in Workers, DropCallback(w) \/ FiberReturns(w)
        PROVE  Seen'
    <2>1. CASE DropCallback(w)
      BY <2>1 DEF DropCallback
    <2>2. CASE FiberReturns(w)
      BY <2>2 DEF FiberReturns
    <2> QED
      BY <1>2, <2>1, <2>2
  <1>3. ASSUME NEW w \in Workers, FindNone(w) \/ Leave(w) \/ EnterIdle(w) \/ BackInRun(w)
        PROVE  Seen'
    <2>1. CASE FindNone(w)
      BY <2>1 DEF FindNone
    <2>2. CASE Leave(w)
      BY <2>2 DEF Leave
    <2>3. CASE EnterIdle(w)
      BY <2>3 DEF EnterIdle
    <2>4. CASE BackInRun(w)
      BY <2>4 DEF BackInRun
    <2> QED
      BY <1>3, <2>1, <2>2, <2>3, <2>4
  <1>4. ASSUME NEW w \in Workers, Wake(w)
        PROVE  Seen'
    <2>1. /\ pc' = [pc EXCEPT ![w] = "handle"] /\ timers' \subseteq timers
          /\ UNCHANGED <<m_tasks, events, task, ended, late, m_stopping, stopper, tickles>>
      BY <1>4 DEF Wake
    <2> QED
      BY <2>1
  <1>5. ASSUME NEW w \in Workers, ScheduleCallback(w) \/ TriggerRead(w) \/ TriggerWrite(w)
        PROVE  Seen'
    <2>1. /\ pc[w] \in {"handle", "WRITE"} /\ ~ ended[w]
          /\ UNCHANGED <<timers, task, ended, late, m_stopping, stopper, tickles>>
      BY <1>5, Triggers DEF ScheduleCallback
    <2>2. \/ UNCHANGED <<pc, events>>
          \/ /\ events # {} /\ events' \subseteq events
             /\ \E to \in {"count READ", "count WRITE"} : pc' = [pc EXCEPT ![w] = to]
      BY <1>5, Triggers DEF ScheduleCallback, Schedules
    <2> QED
      BY <2>1, <2>2
  <1>6. ASSUME NEW w \in Workers, CountOff(w) \/ Yield(w) \/ LeaveFd(w)
        PROVE  Seen'
    <2>1. CASE CountOff(w)
      BY <2>1 DEF CountOff
    <2>2. CASE Yield(w)
      BY <2>2 DEF Yield
    <2>3. CASE LeaveFd(w)
      BY <2>3 DEF LeaveFd
    <2> QED
      BY <1>6, <2>1, <2>2, <2>3
  <1>7. ASSUME NEW th, Tickle(th)
        PROVE  Seen'
    BY <1>7 DEF Tickle
  <1>8. CASE Schedule
    <2>1. \A w \in Workers : ~ ended[w]
      BY <1>8 DEF Schedule
    <2> QED
      BY <1>8, <2>1, WorkersAssumption DEF Schedule
  <1>9. CASE AddTimer
    <2>1. UNCHANGED <<m_tasks, events, pc, task, ended, m_stopping, stopper, tickles>>
      BY <1>9 DEF AddTimer
    <2>2. Awaits({"pending", "queue"})
      BY <1>9 DEF AddTimer
    <2>3. ~ late' => /\ ~ late
                     /\ \A w \in Workers : pc[w] \notin {"pending", "queue"} /\ ~ ended[w]
      BY <2>2 DEF Awaits
    <2> QED
      BY <2>1, <2>3, WorkersAssumption
  <1>10. CASE Stop
    BY <1>10, SomeWorkers DEF Stop
  <1>11. CASE StopTickle
    <2>1. /\ tickles \in Nat \ {0} /\ tickles' = tickles - 1
          /\ stopper' = IF tickles = 1 THEN "join" ELSE "tickle"
      BY <1>s, <1>11 DEF StopTickle
    <2>2. stopper' = "tickle" => tickles' \in Nat \ {0}
      BY <2>1, OneLess
    <2> QED
      BY <1>11, <2>2 DEF StopTickle
  <1>12. CASE Join \/ UNCHANGED vars
    <2>1. /\ UNCHANGED <<m_tasks, events, timers, pc, task, ended, late, m_stopping, tickles>>
          /\ stopper' \in {stopper, "stopped"}
      BY <1>12 DEF Join, vars
    <2> QED
      BY <2>1
  <1> QED
    BY <1>1, <1>2, <1>3, <1>4, <1>5, <1>6, <1>7, <1>8, <1>9, <1>10, <1>11, <1>12,
       SeenStopping, SeenFiber DEF Next, run, idle

-----------------------------------------------------------------------------
(* At first there is no task, and nobody is idle.                          *)
LEMMA IInvInit == Init => IInv
  <1> SUFFICES ASSUME Init
               PROVE  IInv
    OBVIOUS
  <1>1. TypeOK
    <2>1. /\ m_tasks \in Seq([task : Tasks, thread : Workers \cup {AnyThread}])
          /\ turns \in [Fibers -> 0 .. MaxTurns]
          /\ {m_activeThreadCount, m_idleThreadCount, m_pendingEventCount, tickles} \subseteq Nat
      BY SchedulerBoundsAssumption, EmptySeq DEF Init
    <2>2. WaitsOK
      BY DEF Init, WaitsOK
    <2> QED
      BY <2>1, <2>2 DEF Init, TypeOK
  <1>2. CountersMatch
    <2>1. Active = {} /\ Idle = {} /\ Counting = {} /\ events = {}
      BY DEF Init, Active, Idle, Counting
    <2> QED
      BY <2>1, FS_EmptySet, CountersAre DEF Init
  <1>3. Doing /\ Lives /\ Seen
    BY SetsFinite, <1>1, WorkersAssumption
       DEF Init, Doing, Lives, OneWorker, OneSlot, OneHand, OnePlace, Queued, Running,
           Awaited, Handed, Seen
  <1> QED
    BY <1>1, <1>2, <1>3 DEF IInv

(* The parts of the invariant, together, are inductive.                    *)
LEMMA IInvNext == IInv /\ [Next]_vars => IInv'
  <1> SUFFICES ASSUME IInv, [Next]_vars
               PROVE  IInv'
    OBVIOUS
  <1> USE DEF IInv
  <1>1. CountersMatch'
    <2>1. /\ m_activeThreadCount' = Cardinality(Active')
          /\ m_idleThreadCount' = Cardinality(Idle')
          /\ m_pendingEventCount' = Cardinality(events') + Cardinality(Counting')
      BY ActiveNext, IdleNext, PendingNext
    <2> QED
      BY <2>1 DEF CountersMatch, Active, Idle, Counting
  <1>2. TypeOK' /\ Doing' /\ Lives' /\ Seen'
    BY <1>1, WaitsNext, TypeNext, DoingNext, LivesNext, SeenNext
  <1> QED
    BY <1>1, <1>2

(* The invariant holds in all behaviours.                                  *)
LEMMA IInvInvariant == Spec => []IInv
  BY IInvInit, IInvNext, PTL DEF Spec

(* Workers that have left have seen that there was nothing any more, and a *)
(* task that is in none of its places has ended.                           *)
LEMMA LeftIsDone == IInv => NothingLeft
  <1> SUFFICES ASSUME IInv, AllLeft, ~ late
               PROVE  m_tasks = <<>> /\ events = {} /\ timers = {} /\ used = over
    BY DEF NothingLeft
  <1>1. \A w \in Workers : pc[w] = "left" /\ ended[w] /\ hand[w] = {}
    BY DEF IInv, AllLeft, Doing
  <1>2. m_tasks = <<>> /\ events = {} /\ timers = {}
    BY <1>1, WorkersAssumption DEF IInv, Seen
  <1>3. ASSUME NEW t \in Tasks
        PROVE  t \in used <=> t \in over
    <2>1. ~ Queued(t) /\ ~ Running(t) /\ ~ Awaited(t) /\ ~ Handed(t)
      BY <1>1, <1>2 DEF Queued, Running, Awaited, Handed
    <2> QED
      BY <2>1 DEF IInv, Lives, OnePlace
  <1> QED
    BY <1>2, <1>3 DEF IInv, TypeOK

(* Types, for any workers and tasks.                                       *)
THEOREM TypeCorrect == Spec => []TypeOK
  <1>1. IInv => TypeOK
    BY DEF IInv
  <1> QED
    BY <1>1, IInvInvariant, PTL

(* What stopping() and hasIdleThreads() read without a lock is what the    *)
(* workers are doing.                                                      *)
THEOREM CountersTrue == Spec => []CountersMatch
  <1>1. IInv => CountersMatch
    BY DEF IInv
  <1> QED
    BY <1>1, IInvInvariant, PTL

(* No fiber runs on two threads, and no task is in two places, though a    *)
(* fiber may be queued again before it has yielded.                        *)
THEOREM NoFiberTwice == Spec => []FiberOnce
  <1>1. IInv => FiberOnce
    <2> SUFFICES ASSUME IInv, NEW t \in Tasks
                 PROVE  Places(t) <= 1
      BY DEF FiberOnce, IInv, Lives, OneWorker
    <2> DEFINE runners == {w \in Workers : task[w] = t /\ pc[w] = "run"}
               slots == {i \in DOMAIN m_tasks : m_tasks[i].task = t}
               awaits == IF t \in events \cup timers THEN 1 ELSE 0
    <2>1. OnePlace(t) /\ OneWorker /\ OneSlot /\ t # NoTask
      BY SetsFinite DEF IInv, Lives
    <2>2. \A v, w \in runners : v = w
      BY <2>1 DEF OneWorker
    <2>3. \A i, j \in slots : i = j
      BY <2>1 DEF OneSlot
    <2>4. /\ runners # {} <=> Running(t)
          /\ slots # {} <=> Queued(t)
          /\ awaits = 1 <=> Awaited(t)
          /\ awaits \in 0 .. 1
      BY DEF Running, Queued, Awaited
    <2>5. Places(t) = Cardinality(runners) + Cardinality(slots) + awaits
      BY DEF Places
    <2> HIDE DEF runners, slots, awaits
    <2>6. /\ Cardinality(runners) \in 0 .. 1 /\ (runners = {} => Cardinality(runners) = 0)
          /\ Cardinality(slots) \in 0 .. 1 /\ (slots = {} => Cardinality(slots) = 0)
      BY <2>2, <2>3, AtMostOne
    <2> QED
      BY <2>1, <2>4, <2>5, <2>6 DEF OnePlace
  <1> QED
    BY <1>1, IInvInvariant, PTL

(* When every worker has left run(), nothing that was given to the manager *)
(* in time is left undone.                                                 *)
THEOREM StopsDone == Spec => []NothingLeft
  BY LeftIsDone, IInvInvariant, PTL

-----------------------------------------------------------------------------
(* The pool that a state of the scheduler stands for: a task is in exactly *)
(* one status, and never lost.                                             *)
LEMMA StatusIs ==
  ASSUME Lives, NEW t \in Tasks
  PROVE  /\ Status(t) = "over" <=> t \in over
         /\ Status(t) = "queued" <=> Queued(t)
         /\ Status(t) = "running" <=> Running(t)
         /\ Status(t) = "awaited" <=> Awaited(t) \/ Handed(t)
         /\ Status(t) = "fresh" <=> t \notin used
         /\ Status(t) \in {"over", "queued", "running", "awaited", "fresh"}
  BY DEF Lives, OnePlace, Status

(* It is known from four of the places: what is in use and in none of the  *)
(* other three is awaited.                                                 *)
SamePlace(u) ==
  /\ u \in used' <=> u \in used
  /\ Queued(u)' <=> Queued(u)
  /\ Running(u)' <=> Running(u)
  /\ u \in over' <=> u \in over

(* A task that is where it was has the status that it had.                 *)
LEMMA SameStatus ==
  ASSUME Lives, Lives', NEW u \in Tasks, SamePlace(u)
  PROVE  Status(u)' = Status(u)
  <1>1. OnePlace(u) /\ OnePlace(u)'
    BY DEF Lives
  <1> QED
    BY <1>1 DEF SamePlace, OnePlace, Status

(* One task goes from one status to another, while some worker is there.   *)
LEMMA Becoming ==
  ASSUME Lives, Lives', ~ AllLeft, ~ AllLeft', NEW t \in Tasks, NEW from, NEW to,
         Status(t) = from, Status(t)' = to, \A u \in Tasks \ {t} : SamePlace(u)
  PROVE  Pool!Becomes(t, from, to)
  <1>1. \A u \in Tasks \ {t} : Status(u)' = Status(u)
    BY SameStatus
  <1>2. [u \in Tasks |-> Status(u)]' = [[u \in Tasks |-> Status(u)] EXCEPT ![t] = to]
    BY <1>1
  <1> QED
    BY <1>2 DEF Pool!Becomes

(* No task changes its status, no worker its task, and some worker is      *)
(* still there: the pool does not see the step.                            *)
LEMMA Unseen ==
  ASSUME Lives, Lives', \A u \in Tasks : SamePlace(u), UNCHANGED <<task, late>>,
         AllLeft' <=> AllLeft
  PROVE  UNCHANGED (Pool!vars)
  <1>1. \A u \in Tasks : Status(u)' = Status(u)
    BY SameStatus
  <1>2. [u \in Tasks |-> Status(u)]' = [u \in Tasks |-> Status(u)]
    BY <1>1
  <1> QED
    BY <1>2 DEF Pool!vars, AllLeft

(* Workers leave one by one, at the end of run() only.                     *)
LEMMA SomeoneIn ==
  ASSUME TypeOK, NEW w \in Workers, NEW from, NEW to, Goto(w, from, to),
         from # "left", to # "left"
  PROVE  ~ AllLeft /\ ~ AllLeft'
  BY DEF TypeOK, Goto, AllLeft

(* The owner gives tasks only before it stops the manager, when nobody has *)
(* left.                                                                   *)
LEMMA OwnerBefore ==
  ASSUME Doing, Seen, ~ m_stopping, UNCHANGED pc
  PROVE  ~ AllLeft /\ ~ AllLeft'
  BY WorkersAssumption DEF Doing, Seen, AllLeft

(* A task that is scheduled for the first time is submitted, ...           *)
LEMMA SubmitStep ==
  ASSUME TypeOK, Lives, Lives', ~ AllLeft, ~ AllLeft',
         NEW t \in Tasks \ used, used' = used \cup {t}, UNCHANGED <<over, task, late>>,
         NEW by, NEW thread \in Workers \cup {AnyThread}, schedule(by, t, thread),
         \A w \in Workers : pc'[w] = "run" <=> pc[w] = "run"
  PROVE  Pool!Submit(t)
  <1>1. \A u : Queued(u)' <=> Queued(u) \/ u = t
    BY QueueGrows
  <1>2. \A u : Running(u)' <=> Running(u)
    BY DEF Running
  <1>3. Status(t) = "fresh" /\ Status(t)' = "queued"
    BY <1>1, StatusIs DEF Lives, OnePlace, Status
  <1>4. \A u \in Tasks \ {t} : SamePlace(u)
    BY <1>1, <1>2 DEF SamePlace
  <1>5. Pool!Becomes(t, "fresh", "queued")
    BY <1>3, <1>4, Becoming
  <1> QED
    BY <1>5 DEF Pool!Submit

(* ... and one whose timer is added is armed.                              *)
LEMMA ArmStep ==
  ASSUME TypeOK, Lives, Lives', ~ AllLeft, ~ AllLeft',
         NEW t \in Tasks \ used, used' = used \cup {t}, timers' = timers \cup {t},
         UNCHANGED <<m_tasks, events, hand, over, task>>, NEW looked, Awaits(looked),
         \A w \in Workers : pc'[w] = "run" <=> pc[w] = "run"
  PROVE  Pool!Arm(t)
  <1>1. \A u : (Queued(u)' <=> Queued(u)) /\ (Running(u)' <=> Running(u))
    BY DEF Queued, Running
  <1>2. Status(t) = "fresh"
    BY StatusIs
  <1>3. Status(t)' = "awaited"
    <2>1. OnePlace(t) /\ OnePlace(t)' /\ Awaited(t)'
      BY DEF Lives, Awaited
    <2> QED
      BY <2>1 DEF OnePlace, Status
  <1>4. \A u \in Tasks \ {t} : SamePlace(u)
    BY <1>1 DEF SamePlace
  <1>5. Pool!Becomes(t, "fresh", "awaited")
    BY <1>2, <1>3, <1>4, Becoming
  <1>6. Pool!MayBeLate
    BY DEF Pool!MayBeLate, Awaits, TypeOK
  <1> QED
    BY <1>5, <1>6 DEF Pool!Arm

(* run() takes a task, which no worker is on any more, though its fiber    *)
(* may have been queued before it yielded.                                 *)
LEMMA TakeStep ==
  ASSUME TypeOK, Doing, Lives, Lives', NEW w \in Workers, TakeTask(w)
  PROVE  \E t \in Tasks : Pool!Take(w, t)
  <1>p. PerWorker
    BY PerWorkerAre
  <1> USE <1>p DEF PerWorker, sources, life, idler
  <1>1. PICK i \in DOMAIN m_tasks :
          /\ FirstTask(w, i)
          /\ task' = [task EXCEPT ![w] = m_tasks[i].task]
          /\ m_tasks' = RemoveAt(m_tasks, i)
    BY DEF TakeTask
  <1>t. PICK t \in Tasks : t = m_tasks[i].task
    BY EntryTask
  <1>2. Queued(t) /\ OnePlace(t) /\ OnePlace(t)' /\ t # NoTask /\ ~ IsRunning(t)
    BY <1>1, <1>t, SetsFinite DEF Lives, Queued, FirstTask, MayRun
  <1>3. \A u : Queued(u)' <=> Queued(u) /\ u # t
    BY <1>1, <1>t, QueueShrinks DEF Lives
  <1>4. /\ task' = [task EXCEPT ![w] = t] /\ Goto(w, "look", "run")
        /\ task[w] = NoTask
        /\ UNCHANGED <<used, over, late>>
    BY <1>1, <1>t DEF Doing, TakeTask, Goto
  <1>5. \A v \in Workers : task[v] # t
    <2>1. t \in Fibers => \A v \in Workers : task[v] # t
      BY <1>2 DEF IsRunning
    <2>2. t \notin Fibers => \A v \in Workers : task[v] # t
      BY <1>2 DEF Doing, OnePlace, Running
    <2> QED
      BY <2>1, <2>2
  <1>6. \A u : Running(u)' <=> Running(u) \/ u = t
    BY <1>4 DEF Running, Doing, Goto
  <1>7. Status(t) = "queued" /\ Status(t)' = "running"
    BY <1>2, <1>3, <1>6 DEF OnePlace, Status
  <1>8. \A u \in Tasks \ {t} : SamePlace(u)
    BY <1>3, <1>4, <1>6 DEF SamePlace
  <1>9. ~ AllLeft /\ ~ AllLeft'
    BY <1>4, SomeoneIn
  <1>10. Pool!Becomes(t, "queued", "running")
    BY <1>7, <1>8, <1>9, Becoming
  <1> QED
    BY <1>4, <1>5, <1>10 DEF Pool!Take

(* A callback's worker is off it as it is dropped, ...                     *)
LEMMA DropStep ==
  ASSUME TypeOK, Doing, Lives, Lives', NEW w \in Workers, DropCallback(w)
  PROVE  Pool!Work(w)
  <1>p. PerWorker
    BY PerWorkerAre
  <1> USE <1>p DEF PerWorker, sources, life, idler
  <1>t. PICK t \in Tasks : t = task[w]
    BY DEF DropCallback, Tasks
  <1>1. /\ pc[w] = "run" /\ Goto(w, "run", "look") /\ t # NoTask
        /\ task' = [task EXCEPT ![w] = NoTask] /\ over' = over \cup {t}
        /\ UNCHANGED <<m_tasks, used, late>>
    BY <1>t, SetsFinite DEF DropCallback, Goto
  <1>2. \A u : Queued(u)' <=> Queued(u)
    BY <1>1 DEF Queued
  <1>3. \A u \in Tasks : Running(u)' <=> Running(u) /\ u # t
    BY <1>1, <1>t, SetsFinite DEF Running, Lives, OneWorker, Goto
  <1>4. Status(t) = "running"
    BY <1>1, <1>t, StatusIs DEF Running
  <1>5. Status(t)' = "over"
    <2>1. OnePlace(t)' /\ t \in over'
      BY <1>1 DEF Lives
    <2> QED
      BY <2>1 DEF OnePlace, Status
  <1>6. \A u \in Tasks \ {t} : SamePlace(u)
    BY <1>1, <1>2, <1>3 DEF SamePlace
  <1>7. ~ AllLeft /\ ~ AllLeft'
    BY <1>1, SomeoneIn
  <1>8. Pool!Becomes(t, "running", "over")
    BY <1>4, <1>5, <1>6, <1>7, Becoming
  <1> QED
    BY <1>t, <1>1, <1>8 DEF Pool!Work, Pool!Finish

(* ... and a fiber's when resume() returns.                                *)
LEMMA ReleaseStep ==
  ASSUME TypeOK, Doing, Lives, Lives', NEW w \in Workers, FiberReturns(w)
  PROVE  Pool!Work(w)
  <1>p. PerWorker
    BY PerWorkerAre
  <1> USE <1>p DEF PerWorker, sources, life, idler
  <1>t. PICK t \in Tasks : t = task[w]
    <2>1. task[w] # NoTask
      BY DEF Doing, FiberReturns, Goto
    <2> QED
      BY <2>1 DEF TypeOK
  <1>1. /\ pc[w] = "yield" /\ Goto(w, "yield", "look") /\ t # NoTask
        /\ task' = [task EXCEPT ![w] = NoTask]
        /\ UNCHANGED <<m_tasks, used, over, late>>
    BY <1>t, SetsFinite DEF FiberReturns, Goto
  <1>2. ~ Running(t)
    BY <1>1, <1>t DEF Running, Lives, OneWorker
  <1>3. \A u \in Tasks : (Queued(u)' <=> Queued(u)) /\ (Running(u)' <=> Running(u))
    BY <1>1, SetsFinite DEF Queued, Running, Goto
  <1>4. Status(t) # "running"
    BY <1>2, StatusIs
  <1>5. \A u \in Tasks : Status(u)' = Status(u)
    BY <1>1, <1>3, SameStatus DEF SamePlace
  <1>6. [u \in Tasks |-> Status(u)]' = [u \in Tasks |-> Status(u)]
    BY <1>5
  <1>7. ~ AllLeft /\ ~ AllLeft'
    BY <1>1, SomeoneIn
  <1>8. UNCHANGED late
    BY <1>1
  <1> HIDE DEF TypeOK
  <1> QED
    BY <1>t, <1>1, <1>4, <1>6, <1>7, <1>8 DEF Pool!Work, Pool!Release

(* A fiber that yields has been queued again, awaits its event, or is over.*)
LEMMA YieldStep ==
  ASSUME TypeOK, Doing, Lives, Lives', NEW w \in Workers,
         AddEvent(w) \/ ScheduleSelf(w) \/ End(w)
  PROVE  Pool!Work(w)
  <1>p. PerWorker
    BY PerWorkerAre
  <1> USE <1>p DEF PerWorker, sources, life, idler
  <1>t. PICK t \in Fibers : t = task[w]
    BY DEF AddEvent, ScheduleSelf, End
  <1>1. /\ t \in Tasks /\ t # NoTask /\ Running(t) /\ Goto(w, "run", "yield")
        /\ UNCHANGED <<task, used>>
    BY <1>t, SetsFinite DEF AddEvent, ScheduleSelf, End, Goto, Running, Tasks
  <1>2. OnePlace(t) /\ OnePlace(t)' /\ Status(t) = "running"
    BY <1>1, StatusIs DEF Lives
  <1>3. \A u \in Tasks : Running(u)' <=> Running(u) /\ u # t
    BY <1>1, <1>t, SetsFinite DEF Running, Lives, OneWorker, Goto
  <1>4. ~ AllLeft /\ ~ AllLeft'
    BY <1>1, SomeoneIn
  <1>5. ASSUME NEW to, Status(t)' = to, \A u \in Tasks \ {t} : SamePlace(u)
        PROVE  Pool!Becomes(task[w], "running", to)
    BY <1>1, <1>t, <1>2, <1>4, <1>5, Becoming
  <1>6. CASE AddEvent(w)
    <2>1. events' = events \cup {t} /\ UNCHANGED <<m_tasks, over>> /\ Awaits({"queue"})
      BY <1>6, <1>t DEF AddEvent
    <2>2. Awaited(t)' /\ \A u : Queued(u)' <=> Queued(u)
      BY <2>1 DEF Awaited, Queued
    <2>3. Status(t)' = "awaited"
      BY <1>2, <2>2 DEF OnePlace, Status
    <2>4. \A u \in Tasks \ {t} : SamePlace(u)
      BY <1>1, <1>3, <2>1, <2>2 DEF SamePlace
    <2>5. Pool!MayBeLate
      BY <2>1 DEF Pool!MayBeLate, Awaits, TypeOK
    <2> QED
      BY <1>1, <1>t, <1>5, <2>3, <2>4, <2>5 DEF Pool!Work, Pool!Await
  <1>7. CASE ScheduleSelf(w)
    <2>1. schedule(w, t, AnyThread) /\ UNCHANGED <<over, late>>
      BY <1>7, <1>t DEF ScheduleSelf
    <2>2. \A u : Queued(u)' <=> Queued(u) \/ u = t
      BY <1>1, <2>1, QueueGrows
    <2>3. Status(t)' = "queued"
      BY <1>2, <2>2 DEF OnePlace, Status
    <2>4. \A u \in Tasks \ {t} : SamePlace(u)
      BY <1>1, <1>3, <2>1, <2>2 DEF SamePlace
    <2> QED
      BY <1>1, <1>t, <1>5, <2>1, <2>3, <2>4 DEF Pool!Work, Pool!Requeue
  <1>8. CASE End(w)
    <2>1. over' = over \cup {t} /\ UNCHANGED <<m_tasks, late>>
      BY <1>8, <1>t DEF End
    <2>2. Status(t)' = "over" /\ \A u : Queued(u)' <=> Queued(u)
      BY <1>2, <2>1 DEF OnePlace, Status, Queued
    <2>3. \A u \in Tasks \ {t} : SamePlace(u)
      BY <1>1, <1>3, <2>1, <2>2 DEF SamePlace
    <2> QED
      BY <1>1, <1>t, <1>5, <2>1, <2>2, <2>3 DEF Pool!Work, Pool!Finish
  <1> QED
    BY <1>6, <1>7, <1>8

(* idle() schedules what was awaited: a callback that it holds, or a fiber *)
(* whose event is registered.                                              *)
LEMMA TriggerStep ==
  ASSUME TypeOK, Lives, Lives', NEW w \in Workers,
         NEW t \in Tasks, Awaited(t) \/ Handed(t), schedule(w, t, AnyThread),
         NEW from \in {"handle", "WRITE"}, NEW to \in {"handle", "count READ", "count WRITE"},
         Goto(w, from, to), UNCHANGED <<task, used, over, late>>
  PROVE  Pool!Trigger(t)
  <1>1. OnePlace(t) /\ OnePlace(t)'
    BY DEF Lives
  <1>2. \A u : Running(u)' <=> Running(u)
    BY DEF Running, Goto, TypeOK
  <1>3. ~ AllLeft /\ ~ AllLeft'
    BY SomeoneIn
  <1>4. \A u : Queued(u)' <=> Queued(u) \/ u = t
    BY QueueGrows
  <1>5. Status(t) = "awaited"
    BY StatusIs
  <1>6. Status(t)' = "queued"
    BY <1>1, <1>4 DEF OnePlace, Status
  <1>7. \A u \in Tasks \ {t} : SamePlace(u)
    BY <1>2, <1>4 DEF SamePlace
  <1>8. Pool!Becomes(t, "awaited", "queued")
    BY <1>3, <1>5, <1>6, <1>7, Becoming
  <1> QED
    BY <1>8 DEF Pool!Trigger

(* The last worker to leave closes the pool.                               *)
LEMMA CloseStep ==
  ASSUME IInv, IInv', NEW w \in Workers, Leave(w)
  PROVE  Pool!Close \/ UNCHANGED (Pool!vars)
  <1>1. /\ pc[w] = "none" /\ pc' = [pc EXCEPT ![w] = "left"] /\ ~ AllLeft
        /\ UNCHANGED <<m_tasks, task, used, over, late>>
    BY DEF Leave, Goto, AllLeft, sources, life, idler
  <1>2. Lives /\ Lives' /\ \A u \in Tasks : SamePlace(u)
    <2>1. \A u : (Queued(u)' <=> Queued(u)) /\ (Running(u)' <=> Running(u))
      BY <1>1 DEF Queued, Running, IInv, TypeOK
    <2> QED
      BY <1>1, <2>1 DEF SamePlace, IInv
  <1>3. CASE ~ AllLeft'
    BY <1>1, <1>2, <1>3, Unseen
  <1>4. CASE AllLeft'
    <2>1. \A u \in Tasks : Status(u)' = Status(u)
      BY <1>2, SameStatus
    <2>2. [u \in Tasks |-> Status(u)]' = [u \in Tasks |-> Status(u)]
      BY <2>1
    <2>3. task = [v \in Workers |-> NoTask]
      <3>1. \A v \in Workers : task'[v] = NoTask
        BY <1>4 DEF IInv, Doing, AllLeft
      <3> QED
        BY <1>1, <3>1 DEF IInv, TypeOK
    <2>4. NothingLeft'
      BY LeftIsDone, PTL
    <2>5. late \/ \A t \in Tasks : Status(t) \in {"fresh", "over"}
      <3> SUFFICES ASSUME ~ late, NEW t \in Tasks
                   PROVE  Status(t) \in {"fresh", "over"}
        OBVIOUS
      <3>1. t \in used <=> t \in over
        BY <1>1, <1>4, <2>4 DEF NothingLeft
      <3> QED
        BY <1>2, <3>1, StatusIs
    <2> QED
      BY <1>1, <1>4, <2>2, <2>3, <2>5 DEF Pool!Close
  <1> QED
    BY <1>3, <1>4

(* The other steps change no status, and no worker's task.                 *)
LEMMA InternalStep ==
  ASSUME TypeOK, Lives, Lives', UNCHANGED <<m_tasks, task, used, over, late>>,
         \A w \in Workers : /\ pc'[w] = "run" <=> pc[w] = "run"
                            /\ pc'[w] = "left" <=> pc[w] = "left"
  PROVE  UNCHANGED (Pool!vars)
  <1>1. \A u : (Queued(u)' <=> Queued(u)) /\ (Running(u)' <=> Running(u))
    BY DEF Queued, Running
  <1>2. AllLeft' <=> AllLeft
    BY DEF AllLeft
  <1> QED
    BY <1>1, <1>2, Unseen DEF SamePlace

(* Every step of the scheduler is one of the pool, or unseen.              *)
LEMMA PoolNext ==
  ASSUME IInv, IInv', [Next]_vars
  PROVE  [Pool!Next]_(Pool!vars)
  <1> USE DEF IInv
  <1>1. ASSUME NEW w \in Workers, run(w)
        PROVE  [Pool!Next]_(Pool!vars)
    <2>1. CASE FindNone(w) \/ EnterIdle(w) \/ BackInRun(w)
      <3>1. /\ UNCHANGED <<m_tasks, task, used, over, late>>
            /\ \A v \in Workers : /\ pc'[v] = "run" <=> pc[v] = "run"
                                  /\ pc'[v] = "left" <=> pc[v] = "left"
        BY <2>1 DEF FindNone, EnterIdle, BackInRun, Goto, TypeOK, sources, idler, life
      <3> QED
        BY <3>1, InternalStep
    <2> QED
      BY <1>1, <2>1, TakeStep, DropStep, ReleaseStep, CloseStep DEF run, Pool!Next
  <1>2. ASSUME NEW w \in Workers, idle(w)
        PROVE  [Pool!Next]_(Pool!vars)
    <2>1. CASE \/ StoppingTimers(w) \/ StoppingEvents(w) \/ StoppingScheduler(w)
               \/ Wake(w) \/ LeaveFd(w) \/ CountOff(w) \/ Yield(w)
      <3>1. /\ UNCHANGED <<m_tasks, task, used, over, late>>
            /\ pc[w] \notin {"run", "left"}
            /\ \E to : to \notin {"run", "left"} /\ pc' = [pc EXCEPT ![w] = to]
        BY <2>1 DEF StoppingTimers, StoppingEvents, StoppingScheduler, Wake, LeaveFd, CountOff,
                    Yield, Goto, sources, idler, life
      <3>2. \A v \in Workers : /\ pc'[v] = "run" <=> pc[v] = "run"
                               /\ pc'[v] = "left" <=> pc[v] = "left"
        BY <3>1, PerWorkerAre DEF PerWorker
      <3> QED
        BY <3>1, <3>2, InternalStep
    <2>2. CASE ScheduleCallback(w)
      <3>1. PICK c \in hand[w] \cap Callbacks : schedule(w, c, AnyThread)
        BY <2>2 DEF ScheduleCallback
      <3>2. /\ Goto(w, "handle", "handle") /\ UNCHANGED <<task, used, over, late>>
            /\ c \in Tasks /\ Handed(c)
        BY <2>2, <3>1 DEF ScheduleCallback, Handed, Tasks, life
      <3>3. Pool!Trigger(c)
        BY <3>1, <3>2, TriggerStep
      <3> QED
        BY <3>2, <3>3 DEF Pool!Next
    <2>3. CASE TriggerRead(w) \/ TriggerWrite(w)
      <3>1. UNCHANGED <<task, used, over, late>>
        BY <2>3, Triggers
      <3>2. CASE Schedules(w)
        <4>1. PICK f \in events :
                /\ schedule(w, f, AnyThread)
                /\ Goto(w, "handle", "count READ") \/ Goto(w, "WRITE", "count WRITE")
          BY <3>2 DEF Schedules
        <4>2. f \in Tasks /\ Awaited(f)
          BY <4>1 DEF Awaited, Tasks, TypeOK
        <4>3. Pool!Trigger(f)
          BY <3>1, <4>1, <4>2, TriggerStep
        <4> QED
          BY <4>2, <4>3 DEF Pool!Next
      <3>3. CASE UNCHANGED <<m_tasks, events, pc, owes>>
        BY <3>1, <3>3, InternalStep
      <3> QED
        BY <2>3, <3>2, <3>3, Triggers
    <2> QED
      BY <1>2, <2>1, <2>2, <2>3 DEF idle
  <1>3. ASSUME NEW w \in Workers, Spawn(w)
        PROVE  [Pool!Next]_(Pool!vars)
    <2>1. PICK t \in Tasks \ used : schedule(w, t, AnyThread) /\ used' = used \cup {t}
      BY <1>3, NewIsUnused DEF Spawn
    <2>2. /\ Goto(w, "run", "run") /\ UNCHANGED <<over, task, late>>
          /\ \A v \in Workers : pc'[v] = "run" <=> pc[v] = "run"
      BY <1>3 DEF Spawn, Goto, TypeOK
    <2>3. ~ AllLeft /\ ~ AllLeft'
      BY <2>2, SomeoneIn
    <2>4. Pool!Submit(t)
      BY <2>1, <2>2, <2>3, SubmitStep
    <2> QED
      BY <2>4 DEF Pool!Next
  <1>4. ASSUME NEW w \in Workers, FiberAddsTimer(w)
        PROVE  [Pool!Next]_(Pool!vars)
    <2>1. PICK t \in Callbacks \ used : timers' = timers \cup {t} /\ used' = used \cup {t}
      BY <1>4, NewIsUnused DEF FiberAddsTimer, Tasks
    <2>2. /\ t \in Tasks \ used /\ Goto(w, "run", "run") /\ Awaits({"pending", "queue"})
          /\ UNCHANGED <<m_tasks, events, hand, over, task>>
          /\ \A v \in Workers : pc'[v] = "run" <=> pc[v] = "run"
      BY <1>4 DEF FiberAddsTimer, Goto, TypeOK, Tasks, idler
    <2>3. ~ AllLeft /\ ~ AllLeft'
      BY <2>2, SomeoneIn
    <2>4. Pool!Arm(t)
      BY <2>1, <2>2, <2>3, ArmStep
    <2> QED
      BY <2>2, <2>4 DEF Pool!Next
  <1>5. ASSUME NEW w \in Workers, AddEvent(w) \/ ScheduleSelf(w) \/ End(w)
        PROVE  [Pool!Next]_(Pool!vars)
    BY <1>5, YieldStep DEF Pool!Next
  <1>6. CASE Schedule
    <2>1. PICK t \in Tasks \ used, thread \in Workers \cup {AnyThread} :
            schedule(Outside, t, thread) /\ used' = used \cup {t}
      BY <1>6, NewIsUnused DEF Schedule
    <2>2. UNCHANGED <<pc, over, task, late>> /\ ~ m_stopping
      BY <1>6 DEF Schedule
    <2>3. ~ AllLeft /\ ~ AllLeft'
      BY <2>2, OwnerBefore
    <2>4. Pool!Submit(t)
      BY <2>1, <2>2, <2>3, SubmitStep
    <2> QED
      BY <2>4 DEF Pool!Next
  <1>7. CASE AddTimer
    <2>1. PICK t \in Callbacks \ used : timers' = timers \cup {t} /\ used' = used \cup {t}
      BY <1>7, NewIsUnused DEF AddTimer, Tasks
    <2>2. /\ t \in Tasks \ used /\ ~ m_stopping /\ Awaits({"pending", "queue"})
          /\ UNCHANGED <<m_tasks, pc, events, hand, over, task>>
      BY <1>7 DEF AddTimer, Tasks, idler
    <2>3. ~ AllLeft /\ ~ AllLeft'
      BY <2>2, OwnerBefore
    <2>4. Pool!Arm(t)
      BY <2>1, <2>2, <2>3, ArmStep
    <2> QED
      BY <2>2, <2>4 DEF Pool!Next
  <1>8. ASSUME NEW th, Tickle(th)
        PROVE  [Pool!Next]_(Pool!vars)
    BY <1>8, InternalStep DEF Tickle, life
  <1>9. CASE Stop \/ StopTickle \/ Join \/ UNCHANGED vars
    BY <1>9, InternalStep DEF Stop, StopTickle, Join, vars, life
  <1> QED
    BY <1>1, <1>2, <1>3, <1>4, <1>5, <1>6, <1>7, <1>8, <1>9 DEF Next, Fiber

(* At first every task is fresh.                                           *)
LEMMA PoolInit == Init => Pool!Init
  <1> SUFFICES ASSUME Init
               PROVE  Pool!Init
    OBVIOUS
  <1>1. \A t \in Tasks : Status(t) = "fresh"
    BY IInvInit, StatusIs DEF Init, IInv
  <1>2. ~ AllLeft
    BY WorkersAssumption DEF Init, AllLeft
  <1> QED
    BY <1>1, <1>2 DEF Init, Pool!Init

(* For any workers, fibers and callbacks, the scheduler is a pool of tasks *)
(* to those who give it tasks: no task is lost, run by two workers, or     *)
(* left by the last worker that leaves, unless it came too late.           *)
THEOREM SchedulerIsATaskPool == Spec => ImplementsTaskPool
  <1>1. IInv /\ IInv' /\ [Next]_vars => [Pool!Next]_(Pool!vars)
    BY PoolNext
  <1> QED
    BY <1>1, IInvInit, IInvNext, PoolInit, PTL DEF Spec, ImplementsTaskPool, Pool!Spec
=============================================================================
