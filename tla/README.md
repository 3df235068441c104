# TLA+ models and proofs for C-High-Performance-Server-Framework

The repository (`src/resylar/base`) is the lower half of a C++ network server:
an asynchronous logger, and the parts of a coroutine scheduler with timers and
epoll. This directory models its concurrent core in TLA+, checks the models
with TLC, and proves the main safety properties with TLAPS. Line numbers below
are those of the files under `src/resylar/base`.

## 1. Inventory

| Component | State | Operations | Used by |
|---|---|---|---|
| `AsyncLogging` | `currentBuffer_`, `nextBuffer_`, `buffers_` under `mutex_`; the back end's `newBuffer1/2`, `buffersToWrite`; `running_` | `append`, `threadFunc`, `start`, `stop` | `output()` |
| `FixedBuffer` (LogStream.h) | bytes and `cur_` | `append`, `avail`, `reset` | AsyncLogging, LogStream |
| `CountDownLatch`, `Condition`, `MutexLock` | a count, a wait set, a mutex | `wait`, `countDown`, `notify`, `waitForSeconds` | Thread, AsyncLogging |
| `Thread` | `started_`, `joined_`, `tid_` | `start`, `runInThread`, `join` | AsyncLogging, Scheduler |
| Logging front end | `once_control_`, `AsyncLogger_` | `output`, `once_init` | every `LOG_*` |
| `LogFile`, `AppendFile` | stdio buffer, `count_`, `curSize_`, the files | `append`, `flush`, `rollFile` | AsyncLogging's back end |
| `Timer`, `TimerManager` | the ordered set `m_timers`, `m_tickled`, `m_previouseTime`; per timer `m_next`, `m_ms`, `m_cb` | `addTimer`, `cancel`, `refresh`, `reset`, `getNextTimer`, `listExpiredCb` | IOManager, hooks |
| `IOManager` | `m_fdContexts` with their `events` and `EventContext`s, `m_pendingEventCount`, epoll's interest list, the tickle pipe | `addEvent`, `delEvent`, `cancelEvent`, `cancelAll`, `idle`, `tickle`, `stopping` | hooks, Scheduler |
| `Scheduler` | `m_tasks`, active and idle counts, `m_stopping` | `schedule`, `run`, `stop` | everybody |
| `Fiber` | context and state | `resume`, `yield`, `reset` (empty bodies) | Scheduler, hooks |
| hooks (`do_io`) | `timer_info` per call, with `cancelled` | the body of a hooked read or write; the callback of its timer | applications |
| `FdManager`, `FdCtx` | `m_datas`, one `FdCtx` per descriptor, with its timeouts | `get`, `del`, `setTimeout` | hooks |
| `Config`, `ConfigVar` | the map of names; value, listeners and mutex per name; `s_fun_id` per type | `Lookup`, `setValue`, `addListener`, `delListener`, `clearListener` | hooks |
| `Util` | the string that holds what is not yet written or has been read | five forms of `readn` and `writen` | nobody here |
| LogStream formatting, `CurrentThread`, `Singleton` | none shared | sequential helpers | |

How they interact. A `LOG_*` line is formatted and passed to `output()`, which
starts the logger on the first call and appends to it; the back-end thread swaps
the full buffers out and writes them through `LogFile`. `IOManager` is a
`Scheduler` and a `TimerManager`: its workers are in `Scheduler::run()`, take
tasks from the queue, and with none left are in `IOManager::idle()`, in
`epoll_wait`, until a descriptor, a tickle through the pipe, or the timeout of
the next timer wakes them; `idle()` turns due timers and events into tasks.

What is hard. Buffers change hands between threads while being written and
reset. Conditions are waited for with a timeout and without a loop. Timers are
cancelled while a worker collects them, with a clock read before the lock. One
pipe and one flag (`m_tickled`) wake all workers. Epoll reports an event that
another thread deletes before it is handled. `stopping()` combines three answers
of different moments. The timer of a hooked read cancels whatever waits for its
descriptor, at whatever time its callback runs. Listeners are told under one lock
of a value that is assigned under the next. Processes are killed with unflushed lines. PROJECT.json
lists these hazards with their lines and the properties aimed at them.

State of the code. Only the logging half is built by `tests/makefile`. The
scheduler half does not compile at this commit (`scheduler.h` 87 has a stray
slash; `hook.cpp` mixes two namespaces; `config.h` 159 names an undeclared
type), `Scheduler::start()` makes its Threads without starting them, and
`Fiber::reset/resume/yield/MainFunc` are empty. The models of that half take the
code as it is written, and where it calls something empty, what the caller
relies on; section 3 says where. `IOManager` and `Scheduler` are modelled with
assertions compiled out: the one in `triggerEvent()` (iomanager.cpp 36-39) is
inverted and would end the process at the first event that is registered as it
should be.

## 2. Modules

| Module | Models | About |
|---|---|---|
| `FixedBuffer` | LogStream.h 12-41 | a buffer as its lines and its length |
| `AsyncLogging` | AsyncLogging.{h,cpp} | front end, back end and `stop()` |
| `LogChannel` | the promise of the logger | numbered lines, delivered in order; a backlog may lose some |
| `AsyncLoggingRefinement` | | AsyncLogging implements LogChannel |
| `AsyncLoggingProofs` | | theorems of AsyncLogging |
| `CountDownLatch` | CountDownLatch.cpp | a latch as a record with its sleepers |
| `LoggerStartup` | Logging.cpp, Thread.cpp, AsyncLogging.h 21-25 | first log lines of many threads |
| `LogFile` | LogFile.cpp, FileUtil.cpp | files, stdio, kills and restarts |
| `TimerManager`, `MCTimer` | timer.{h,cpp}, the sleep of iomanager.cpp 313-366 | timers and sleeping workers |
| `TimerManagerProofs` | | theorems of TimerManager |
| `LoggerStartupProofs`, `LogFileProofs`, `IOManagerProofs`, `SchedulerProofs`, `HookedIOProofs`, `ConfigProofs` | | theorems of the module each is named after; `HookedIOProofs` also those of ByteStream |
| `IOManager` | iomanager.{h,cpp} but for timers and tickles | events of descriptors |
| `Scheduler` | scheduler.{h,cpp}, iomanager.cpp 289-306 and the round of `idle()` | queue, workers, stop |
| `TaskPool` | the promise of the scheduler | tasks, each in one status; one worker on each; none left |
| `SchedulerRefinement` | | Scheduler implements TaskPool |
| `FdManager` | fd_manager.{h,cpp} | contexts of descriptors |
| `HookedIO` | hook.cpp 79-150 | EXTENDS FdManager: reads of fibers, their timers and events |
| `Config` | config.{h,cpp} | variables and listeners |
| `ByteStream` | Util.{h,cpp} | `writen` and `readn` at the ends of a connection |

Operators whose name has an underscore after that of another operator and whose
comment begins with MUTANT (`reset_Omitted`, `MayRun_AnyState`, ...) are not
part of a specification. Each is the operator before it with a plausible
mistake, and putting it in its place violates a property: PROJECT.json says
which. They show that no property holds by the shape of the model alone.

## 3. From the code to the models

**Atomicity.** What a mutex covers is one action; what is outside of it is one
action for each access to shared state. So `append()` is one action, the back
end's collecting block one (two if it waits, since `waitForSeconds` gives the
mutex up), `stop()` three, `listExpiredCb()` three (the clock, a look at the set
under the lock, the collection under a second lock), `addEvent()` a look at the
size without the lock, the lookup, and the work under the context's mutex.

**AsyncLogging.** A line is the number of its `append()`; a buffer is an
identity with contents in `store`, and a `shared_ptr` is such an identity or
`NoBuffer`. `pc` tells where `threadFunc()` is. The file is the sequence of lines given to
`output.append`, `flushed` a prefix of it. A line is shorter than a buffer
(a LogStream holds 4000 bytes, a buffer 4000 * 1000). For `LogChannel` the queue is
the set of the lines in the batch, the queued buffers and the current one; an
`append()` is an Accept, the writing of a buffer a Deliver, and the `erase()`
behind a backlog an Overflow, which never takes the two oldest lines.

**LoggerStartup.** `pc` of a logging thread follows `output()`, `pthread_once`,
`once_init()`, `AsyncLogging::start()`, `Thread::start()`, both `latch.wait()`s;
`backEnd` follows the new thread to its loop. `pthread_create` may fail.

**LogFile.** What is appended is the number of an `append()` call (the back end
appends whole buffers). `buffered` is what stdio holds, `disk` what each file has. A name
is the second and the process id (the constant parts are left out); the wall
clock does not go back, and process ids come in any order. A write may spill the stdio
buffer at any time. Writes fail, too: `fwrite` breaks off (`cut`), and a spill, an
`fflush` or the `fclose` behind a roll drops what stdio held (`lost`; C leaves
open how much). `fflush()`'s result is ignored (FileUtil.cpp 35) and `count_` starts
again all the same. `Kill` loses the stdio buffer, `Restart` begins a new process.

**TimerManager.** `m_timers` is the set, ordered by `Before` (the Comparator);
`Before` breaks ties by the identity of the timer, as the code does by address.
`looked[w]` is when a worker asked for the next timer, and `until[w]` when its
`epoll_wait` ends, which begins in a step of its own (`EpollWait`): what passes in
between is not taken off the timeout. The pipe is `edge`: there
is an event for `epoll_wait` to report, to one worker. Integers keep their width
where the code converts: the cast of the timeout to `int` (`ToInt`) and the
unsigned subtraction in `detectClockRollover`. A signal (`Interrupt`) makes a
wait begin again with the whole `next_timeout`.

**IOManager.** A context is `<<fd, n>>`, the n-th one made for a descriptor,
with its `events` bits and, for READ and WRITE, the `addEvent()` call that
waits. Events are sets of bits, so that WRITE = 0x3 overlaps READ as in the
code. `fate` is the history of a call: waiting, scheduled, deleted, failed.
Callers of `addEvent()` belong to a scheduler, and nobody adds an event that is
registered for the descriptor already (`MayAdd`): the code's assertions
(iomanager.cpp 127, 147) demand it. The runs use READ only: WRITE overlaps it,
so that adding both for one descriptor breaks that rule. An access outside
`m_fdContexts` or a call of `schedule()` on no scheduler ends the process, and
that is what `idle()` does after it has dispatched any event (`io_dispatch`);
what `io_events` shows goes up to there.

**Scheduler.** `pc` follows a worker through `run()` and `idle()`. Events are as in
IOManager: for a descriptor that is ready `idle()` triggers READ and then WRITE with its
context locked (`fd_ctx`), and counts each off in a step of its own. Two fibers that
wait for READ and WRITE of one descriptor are both scheduled and the worker goes on;
otherwise one of the two triggers is for nobody, calls `schedule()` on a null scheduler, and
the process ends (`process`). Since `addEvent()` of WRITE on a descriptor registered for READ
trips the assertion in line 127, which is compiled out here, the two get their
EventContexts. `resume()` is
taken to run a fiber until it yields or ends; while it runs it may schedule,
add timers, add an event for itself and yield, or end. A callback task is
dropped as the code does it: `run()` makes a fiber for it and destroys the fiber
without resuming it (scheduler.cpp 168-176). Which timer is due and what
epoll reports is left open here, since TimerManager and IOManager say it.
`use_caller` is false. `late` is a history variable: a timer or event was added
when a worker had already looked for one in its last `stopping()`. For `TaskPool`
the status of a task is where it is: in `m_tasks`, on a worker that runs it, in a
timer or event (or taken out of `m_timers` by `idle()` and not scheduled yet), or
over. A task that was taken on and is in none of these places is lost, a status
that no task of the pool can get.

**FdManager and HookedIO.** A context is `<<fd, n>>`, as in IOManager. `get(fd,
true)` is a step that looks and one that makes a context without looking again.
HookedIO extends it with fibers in `do_io()`, whose `pc` stops where another
worker can come between: after the system call, between the timer and the event,
in the wait, and before `cancelled` is tested. The callback of a timer goes
through three places of its own (test, set, cancel), since it runs on any worker.
IOManager, TimerManager and Scheduler appear as what their own modules check:
a timer is cancelled or collected (`CancelledOrCollected`), a registered event
ends once (`FateFinal`), a scheduled fiber is resumed when it has yielded
(`FiberOnce`). A callback that was collected is called at any time, or destroyed
uncalled (`Drop`), as `run()` at this commit does with all. An event may be cancelled by
others; one that comes schedules its fiber and, in the next step of the worker,
ends the process (`EventComes`, `TriggerWrite`). One descriptor has one reader at a time
(iomanager.cpp 127).
Opening, setting the timeout and closing are the callers': the hooks that would
do it are not in the repository.

**Config.** All variables have one type, as those of hook.cpp. What a variable's
mutex covers is one step, but `addListener()`: `s_fun_id` is shared by all
variables of the type while each locks its own mutex, so that its load, store and
two later reads are steps. `addListener()` tells the listener nothing: its user has
read the value in a call before (`GetValue`; hook.cpp 59-61), and `told` is that value or
the one the listener was told last.

**ByteStream.** One system call is one step, and moves any number of bytes it may,
or says EINTR, EAGAIN, end or error. The bytes sent are 1, 2, 3, ...: a lost, repeated
or swapped one shows. The callers, which the repository does not have, keep the
rest of a raw buffer by the value returned and give up after -1 (the string form
leaves in `sbuff` what it had written by then). Its definitions have names of their own
(`StreamInit`, `StreamSpec`), since one module holds its proofs and those of HookedIO.

## 4. Runs

| Run | Module and cfg | Shows |
|---|---|---|
| `async_logging` | AsyncLoggingRefinement, MCAsyncLogging.cfg | ownership of buffers, order, nothing vanishes, the channel, delivery, `stop()` returns |
| `logger_startup` | LoggerStartup, MCLoggerStartup.cfg | one logger, started before anybody appends; every `output()` returns |
| `log_file` | LogFile, MCLogFile.cfg | nothing lost or doubled by rolls, flushes, restarts; bounded loss on a kill while writes succeed |
| `timer` | MCTimer, MCTimer.cfg | callbacks, cancel, no early timers, some worker wakes in time |
| `timer_live` | TimerManager, MCTimerLive.cfg | a due timer is collected, cancelled or postponed |
| `io_events` | IOManager, MCIOManager.cfg | contexts, pending count and epoll agree; growing keeps the contexts in use; a registration ends once |
| `io_dispatch` | IOManager, MCIODispatch.cfg | **violation**: `idle()` triggers an event nobody registered |
| `scheduler` | SchedulerRefinement, MCScheduler.cfg | a fiber in one place, the task pool, tasks taken, `stop()` returns and leaves nothing, unless the process ends |
| `hooked_io` | HookedIO, MCHookedIO.cfg | a waiting fiber is kept, a call fails by its own timer, every wait with a timeout has a timer of its own |
| `hook_timeout` | HookedIO, MCHookTimeout.cfg | **violation**: a timeout is used up before the wait it is for |
| `config` | Config, MCConfig.cfg | listeners follow the value, keys are their own |
| `byte_stream` | ByteStream, MCByteStream.cfg | the stream is intact, ends where it ends, and arrives |

The two violations are real disagreements between the code and its own
comments; PROJECT.json quotes them under "findings". A run checks what is worth
its time: the type invariants and the invariants of AsyncLogging and TimerManager
that only serve the proofs (`BackEndAsserts`, `FlushedBeforeSleep`, `WaitBounded`,
`NoRollover`, the `TypeOK` of Config and of Scheduler, the `StreamTypeOK` of
ByteStream) are proved and not run.

**What the code does not promise.** Some passing properties are stated for
less than the comments in the code hope for. Each condition is there because
TLC finds a counterexample without it:
- `NeverEarly` (and `NoRollover`, timer.cpp 152) needs a manager made when the clock is
  past its first hour (`PastFirstHour`): before, `m_previouseTime - 60*60*1000` wraps, and
  a worker with an older reading of the clock collects every timer. How long the manager
  runs is left open. A worker that is held up for more than an hour between reading the
  clock and getting the mutex is excused (`UpToDate`): its reading is a rollover to the code.
- `WakeCovered` (iomanager.cpp 330) lets a wait end late by what passed between
  `getNextTimer()` and the beginning of `epoll_wait`; a signal begins the
  wait again with the old timeout, and adds what was slept before it.
- `DueCollected` excuses a clock that stops for good while a worker that was held up in
  that way sleeps.
- `NothingLost` excuses what `fwrite` broke off and stdio dropped, and what `flush()`
  saves is what had been written when it succeeded; its caller is not told whether.
  `LossBounded` (LogFile.h 13) is for files of which no write has failed.
- `FilesInOrder` is for files of different seconds. Within one second names differ in
  the process id, as text, where 10000 comes before 9999.
- `TaskTaken`, `StopReturns` and all runs of HookedIO go up to the end of the process by
  an event for nobody (`io_dispatch`).
- `OneContextPerFd` (iomanager.h 26) needs `~ shrunk`: of two threads behind the
  end of `m_fdContexts` the one with the smaller descriptor may resize it to less,
  and a context that waits is cut off.
- `NothingLeft` (iomanager.cpp 302-303) needs `~ late`: a worker that has seen no
  timer leaves although the owner adds one and then calls `stop()`.
- `TimeoutKept` does not say that a wait with a timeout ends (fd_manager.h 65-69), but
  that it has a timer of its own until that is collected, unless the context was lost in
  the race of `get()`. `hook_timeout` shows that it may go on for ever although callbacks
  are run; at this commit `run()` destroys them (scheduler.cpp 168-176), and no
  timeout ends any wait.
- `ListenersFollow` is for variables whose last change met no other call and no user
  between `getValue()` and the end of `addListener()`, and `KeyIsOwn` until two calls of
  `addListener()` meet in `s_fun_id`. Apart from that keys are unique (config.h 136)
  among the variables of a type.

**Bounds.** Each BOUND is a named constant.
- `async_logging`: buffers of 3 units and lines of 1 or 2, so lines fit, fit
  exactly and do not fit; six lines fill up to five buffers; the backlog limit
  is 3 instead of 25, so that it is passed; twelve buffers are more than can be
  in use at once.
- `logger_startup`: three threads: one in `once_init()`, one that waits for it,
  one that comes later. No other bound.
- `log_file`: four appends of length 1 or 2, a roll at 3, a flush every 2, two
  process ids and three seconds: a roll within one second, a restart within one
  second, a flush between two rolls, and a failed one of each happen.
- `timer`: two timers and two workers, delays of 1 and 3 around a longest wait
  of 2, a clock that moves once, one signal. Two timers are
  needed for a first one that changes, two workers for one that overtakes the
  other. `timer_live` has one timer, a clock that moves twice and no signal.
  `Hour` is 1 in `timer` and 4 in `timer_live` in place of an hour, `IntMax` 7, `Word` 64.
- `io_events`: two threads and two descriptors behind the end of the table
  (`InitialSize` 2, descriptors 3 and 5: the table grows to 4 or 7, and shrinks from 7
  to 4), one worker (an event it dispatches is its last), three `addEvent()` calls, and
  `MaxContexts` for contexts made anew after a shrink.
- `scheduler`: two workers, two fibers that yield once each, one callback, one
  descriptor, two tasks given (`MaxTasks`). Two workers are needed for a fiber that is
  resumed too early, a tickle that wakes the wrong one, and an exit that only one of
  them notices; two fibers for a descriptor with both events.
- `hooked_io`: two fibers, two calls and two timers each, one descriptor behind the
  end of `m_datas`: enough for a late callback of one call to meet the next call
  of the same fiber or a call of the other (4.6 million states). `hook_timeout` needs one fiber only.
- `config`: two threads, two variables, three values, two listeners and three changes.
- `byte_stream`: four bytes through a connection that holds two, reads of at most
  two, one signal: every transfer can be partial, and EAGAIN comes at both ends.

**Symmetry** is used in `timer` only, for workers, where all properties are
invariants or action properties.

**Fairness.** Threads run: the back end, the logging threads, the workers and a
call of `stop()` that has begun have weak fairness, each as a whole. A timeout
of `waitForSeconds` is kept apart (`TimeoutsFire`), so that a property says
whether it rests on the timeout: `LineDelivered` and `StopReturns` do,
`FullBufferCollected` does not. Nobody is obliged to log, to call `stop()`,
to add or cancel a timer or to make a descriptor ready; in TimerManager even the
clock need not move. A worker is obliged to nothing once the process has ended (`Up`). In ByteStream both callers call again while there is
something to do; they are not obliged to have bytes to send, and signals are
bounded, since a call that is interrupted for ever makes no progress. A fiber that runs is expected to yield or to end. The
kernel's scheduler and pthread mutexes that are held for bounded times justify
this; strong fairness is nowhere needed.

## 5. Proofs

**AsyncLoggingProofs**: for all numbers of buffers, lengths, limits and lines,
from the assumptions on the constants in `AsyncLogging` and `FixedBuffer`.
- `TypeCorrect`, `Ownership`, `AssertionsHold`. `BufferOwnership` is not
  inductive: that the back end finds a buffer for each of its spares depends on
  how many it has collected, and that on whether it gave away one spare or two.
  `Phases` says, for every place in `threadFunc()`, which spares are
  null and how long the batch is at least (if `nextBuffer_` is null, a full
  buffer is queued); `SparesEmpty`, that buffers kept for later are
  empty. `Inv1 == TypeOK /\ BufferOwnership /\ Phases /\ SparesEmpty` is inductive.
- `InOrder`: `Order` says that the file, the unwritten part of the batch, the
  queue and the current buffer are, in this order, older and older lines the
  nearer they are to the file; every step moves lines along this pipeline.
- `Flushed`, `NothingVanishes`: on top of both.
- `LoggerIsAChannel`: every step is one of LogChannel, or changes nothing of it.
  The channel counts lines and the code counts buffers, so that the proof needs
  `Filled`: every queued buffer has a line, and so has every buffer of a batch of two
  or more (a batch of one may be an empty current buffer, after a timeout). Buffers
  share no line (`Order`), so they map one to one into the lines, and a batch of
  more than `MaxBacklog` buffers has more than `MaxBacklog` lines; the two that are
  kept have the two oldest. That a buffer which is written is what the channel
  delivers is `Order` again: its lines are the smallest, and ascend.

**TimerManagerProofs**: for all timers, workers and delays.
- `TypeCorrect` with `Arming`; `CallbacksRegistered` and `CancelDecides` from `Lives`: what
  `status`, `m_cb`, `m_timers`, `collected` and `cancelled` may be together in
  the life of one timer.
- `TimersCovered` (delays that fit an `int`): the invariant
  `Covered` says that if a timer is registered, somebody is up, or the pipe has an
  event, or a sleeping worker's wait ends in time (late by no more than what passed
  since it asked for the next timer); and if `m_tickled`
  suppresses tickles, that somebody is up who will look at the timers again.
- `WaitsBounded` (delays that fit): no wait is longer than `MAX_TIMEOUT`.
- `ClockNeverBack` and `NoTimerEarly`, if the manager was made when the clock was past its
  first hour (`PastFirstHour`), for workers that collect within an hour of reading it.
  Section 4 says why the first assumption is needed.

`DelaysFit` (delays below 2^31 ms, about 25 days) is needed too: a larger one
becomes negative in the cast of iomanager.cpp 336, and `epoll_wait` has no
timeout.

The other proof modules have one inductive invariant each, `IInv`: the types, and
the properties the runs check or what these follow from. What they need besides:

**LoggerStartupProofs**: for all sets of logging threads. `TypeCorrect` (no
latch is counted below 0) and `NobodyTooEarly`. That `append()` comes after the
back end has passed its latch rests on all that was done before it:
`OneInitialises` (one thread is in `once_init()`, and only while `pthread_once` says
so), `LatchesTell` (a latch at 0 tells how far the new thread is) and `StepsDone`
(what is done at each place of `once_init()`).

**LogFileProofs**: for all lengths, sizes, limits and clocks. `TypeCorrect`,
`AppendsAccounted`, `FilesReadInOrder`, `KillCostsLittle`. The order of the files
is not inductive without what stdio holds: `Ordered` reads the files in the order of
their seconds and then the stdio buffer, and says that no file behind the one
that is open has anything; `FileLeft`, that the open file is named by a time
that has passed and that a killed process holds nothing. `CountHolds` bounds the buffer
by `count_`, at each place of `append()`, and says that nothing is held for a file that
is left, both while no write of the open file has failed.

**IOManagerProofs**, in two layers. The first, `Table`, is about `m_fdContexts`, for
READ and WRITE and any number of threads: every call and epoll's `ptr` have a
context of their own descriptor, and as long as the vector has not shrunk the
contexts in use are those in it. From it follows `OneContext`. The second,
`Registered`, follows the calls of `addEvent()`: each that has not ended is known by
one thread or one context, no two are for the same descriptor, and contexts,
epoll and `m_pendingEventCount` agree on who waits. From it follow
`TypeCorrect`, `WaitersInContexts`, `CountIsWaiting`, `EpollKnows` and `ToldOnce`, for
a table that shrinks, too. These theorems have the hypothesis `Events = {READ}`. Without
it TLC finds the invariants violated: WRITE (0x3) has the bit of READ, so that
`delEvent()` of one removes the other from `events` and leaves its callback behind
(section 3). `ToldOnce` is the only one for which TLC finds no such counterexample (two calls);
its proof rests on the others.

**SchedulerProofs**: for all workers, fibers and callbacks. `TypeCorrect`,
`CountersTrue`, `NoFiberTwice`, `StopsDone`. That a fiber is in one place needs `Lives`:
each task that is in use is queued, run, awaited, in the hand of `idle()` or over,
once and not twice; each worker has a task exactly in the places that say so
(`Doing`). `StopsDone` needs `Seen`: what the three reads of the last
`stopping()` have found stays true, unless the ghost `late` says otherwise, and when
all workers have left, the last one has seen an empty queue and nobody active.
`SchedulerIsATaskPool`: every step of a worker, of `schedule()` and of `stop()` is a step
of TaskPool or leaves it alone. `Lives` gives each task one status; each action is then
shown to change the status of one task (`Becoming`) or of none (`Unseen`). The last
worker to leave is the pool's Close, where nothing left behind is `StopsDone`.

**HookedIOProofs**: for all descriptors, fibers, calls and timers. `TypeCorrect`,
`NoWaiterForgotten`, `TimeoutsAreOwn`, `TimeoutsKept`. What has to be strengthened is about callbacks that
are late: `Callbacks` says that one whose call still goes on is for the descriptor of
that call, and has set `cancelled` before it cancels; `Timed`, that a call with a timeout
has a timer from EAGAIN on; `Contexts`, that a context somebody
holds is the one in `m_datas`, unless it was lost in the race of `get()`.
The module holds the theorems of ByteStream too, for any number of bytes and any
capacity: `NoByteLost` and `EndIsTrue`. `StreamInv` has three parts besides the types:
`Numbered` (what was returned, what a call of `readn` has, the connection, what a call of
`writen` has left, and `sbuff` count on from one another: no byte between them is missing
or there twice), `CallsHold` (a call of `writen` is for no more bytes than `sbuff` has, and only a raw
`readn` has a buffer of its own) and `Ended` (who shuts the stream has an empty `sbuff`,
and after a 0 all bytes have been read).

**ConfigProofs**: for all variables, values, listeners and threads. `TypeCorrect`: a
race may set `s_fun_id` back, and never beyond the number of listeners it was
stored for (`FunIdCounts`). `ListenersKnow` needs `RegisteredOnce` (telling the
listeners of one variable tells none of another), `AloneMeans` (a change that
met no other call is the only one under way) and `ReadersKnow` (what a user has read of
such a variable is its value until the listener is in `m_cbs`). `KeysTheirOwn` needs `KeysFollow`: with no
race one thread is in `addListener()`, it finds `s_fun_id` as it has left it, and
no key in use is greater.

The constants of the models are assumed to be what the `ASSUME`s beside their
declarations say; TLC evaluates each in the runs. Bounds (`MaxAdds`, `MaxSets`,
`MaxCtxs`, ...) are such constants: the theorems hold for every value of them.

No leaf needs the time it may take: all are proved with a fifth of the provers' default
timeouts (`tlapm --stretch 0.2`), so that a slow machine proves them, too.

**Only model-checked.** Liveness, in all modules: `LineDelivered`,
`FullBufferCollected`, `StopReturns` (of the logger and of the scheduler),
`OutputReturns`, `DueCollected`, `TaskTaken`, `AllArrives`. It rests on fairness, and
TLAPS has no reasoning about ENABLED here. Every invariant, action property and
refinement that a passing run checks is stated by a theorem. For IOManager and
TimerManager the theorems have the hypotheses named above.

## 6. Not modelled

- `Fiber`: no code in the functions that matter.
- Of `hook.cpp`: `hook_init()`, and the connect timeout, which nothing reads. Of
  `FdCtx`: the flags that make `do_io()` pass a call on, and the send timeout, which is
  like the receive timeout. Two fibers that read one descriptor at once.
- A listener that uses its own variable, or `Lookup()`: it would wait for a mutex
  that is held (config.h 102; 159-169 takes the two in the other order). The
  listener of the repository does neither.
- Formatting of log lines (`LogStream.cpp`, `formatTime`): sequential; the
  property would be about digits.
- The destructors of IOManager, AsyncLogging and Thread, thread names, levels.
- Conditional timers: the weak_ptr is looked at when the callback runs.
- A full tickle pipe, `MAX_EVNETS` (256), delays in milliseconds, descriptors
  closed behind epoll's back.
- The data race on `running_`: the model reads the current value.
- `Config::Lookup()` of a name with other characters: it throws and changes nothing. (Its
  list of legal characters, config.h 174, lacks the 9 that the comment in 154 has.)
- A wall clock that steps back (LogFile names): files would be appended to and
  their order would not be that of their names.

## 7. Plan

Done: models and runs of all components above; proofs of the safety properties
of all of them, and that AsyncLogging implements LogChannel and Scheduler
implements TaskPool. To come, the most important first:

1. Tasks with what they run in one model: a pool above HookedIO, IOManager and
   TimerManager, whose fibers end in `TaskPool`'s statuses.
2. An abstract byte stream that ByteStream implements, on top of `Numbered`.
3. `LogStream`'s `convert` as an operator against a reference definition.
