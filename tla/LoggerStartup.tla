---------------------------- MODULE LoggerStartup ----------------------------
(***************************************************************************)
(* How the first log lines of a process bring the asynchronous logger up.  *)
(*                                                                         *)
(* Every thread that logs calls output() of Logging.cpp.  pthread_once     *)
(* lets one of them run once_init(), which constructs AsyncLogger_ and     *)
(* calls AsyncLogging::start(); that calls Thread::start(), which creates  *)
(* the back-end thread and waits for Thread::latch_, counted down by       *)
(* ThreadData::runInThread(); start() itself then waits for                *)
(* AsyncLogging::latch_, counted down by threadFunc().  Only then may the  *)
(* callers go on to append().                                              *)
(***************************************************************************)
EXTENDS CountDownLatch, FiniteSets

CONSTANT Loggers       (* threads that log *)

ASSUME LoggersAssumption == Loggers # {} /\ IsFiniteSet(Loggers)

VARIABLES
  pc,            (* where each logger is                                   *)
  once,          (* once_control_: "unset", "running" or "done"            *)
  constructed,   (* how often AsyncLogger_ was assigned                    *)
  running,       (* AsyncLogging::running_                                 *)
  started,       (* Thread::started_                                       *)
  tid,           (* Thread::tid_ is set                                    *)
  created,       (* threads pthread_create has made                        *)
  backEnd,       (* where the back-end thread is                           *)
  threadLatch,   (* Thread::latch_                                         *)
  asyncLatch     (* AsyncLogging::latch_                                   *)

thread == <<started, tid, created>>
vars == <<pc, once, constructed, running, thread, backEnd, threadLatch, asyncLatch>>

Init ==
  /\ pc = [l \in Loggers |-> "idle"]
  /\ once = "unset"
  /\ constructed = 0
  /\ running = FALSE
  /\ started = FALSE
  /\ tid = FALSE
  /\ created = 0
  /\ backEnd = "none"
  /\ threadLatch = NewLatch(1)
  /\ asyncLatch = NewLatch(1)

Goto(l, from, to) == pc[l] = from /\ pc' = [pc EXCEPT ![l] = to]

(* output(): a thread has a line to log.                                   *)
Output(l) ==
  /\ Goto(l, "idle", "once")
  /\ UNCHANGED <<once, constructed, running, thread, backEnd, threadLatch, asyncLatch>>

(* MUTANT of EnterOnce: a static flag that is set when the work is done    *)
(* stands in for pthread_once.                                             *)
EnterOnce_FlagAfter(l) ==
  /\ once # "done"
  /\ Goto(l, "once", "construct")
  /\ UNCHANGED <<once, constructed, running, thread, backEnd, threadLatch, asyncLatch>>

(* pthread_once: the first caller runs once_init(), the callers that come  *)
(* while it does are blocked.                                              *)
EnterOnce(l) ==
  /\ once = "unset"
  /\ Goto(l, "once", "construct")
  /\ once' = "running"
  /\ UNCHANGED <<constructed, running, thread, backEnd, threadLatch, asyncLatch>>

PassOnce(l) ==
  /\ once = "done"
  /\ Goto(l, "once", "append")
  /\ UNCHANGED <<once, constructed, running, thread, backEnd, threadLatch, asyncLatch>>

(* once_init(): AsyncLogger_ = new AsyncLogging, with its Thread and the   *)
(* two latches.                                                            *)
Construct(l) ==
  /\ Goto(l, "construct", "setRunning")
  /\ constructed' = constructed + 1
  /\ running' = FALSE
  /\ started' = FALSE
  /\ tid' = FALSE
  /\ threadLatch' = NewLatch(1)
  /\ asyncLatch' = NewLatch(1)
  /\ UNCHANGED <<once, created, backEnd>>

(* AsyncLogging::start(): running_ = true.                                 *)
SetRunning(l) ==
  /\ Goto(l, "setRunning", "create")
  /\ running' = TRUE
  /\ UNCHANGED <<once, constructed, thread, backEnd, threadLatch, asyncLatch>>

(* Thread::start(): pthread_create succeeds ...                            *)
CreateThread(l) ==
  /\ Goto(l, "create", "waitThread")
  /\ started' = TRUE
  /\ created' = created + 1
  /\ backEnd' = "setTid"
  /\ UNCHANGED <<once, constructed, running, tid, threadLatch, asyncLatch>>

(* ... or fails, and start() returns all the same.                         *)
CreateFails(l) ==
  /\ Goto(l, "create", "waitAsync")
  /\ started' = FALSE
  /\ UNCHANGED <<once, constructed, running, tid, created, backEnd, threadLatch,
                 asyncLatch>>

(* latch_.wait() of Thread::start(): through, or asleep until woken, be it *)
(* by notifyAll() or spuriously, to look again.                            *)
WaitThread(l) ==
  /\ \/ /\ Open(threadLatch)
        /\ Goto(l, "waitThread", "waitAsync")
        /\ UNCHANGED threadLatch
     \/ /\ ~ Open(threadLatch)
        /\ Goto(l, "waitThread", "asleepThread")
        /\ threadLatch' = FallAsleep(threadLatch, l)
  /\ UNCHANGED <<once, constructed, running, thread, backEnd, asyncLatch>>

WakeThread(l) ==
  /\ l \notin threadLatch.asleep
  /\ Goto(l, "asleepThread", "waitThread")
  /\ UNCHANGED <<once, constructed, running, thread, backEnd, threadLatch, asyncLatch>>

(* MUTANT of WaitAsync: AsyncLogging::start() has no latch_.wait().        *)
WaitAsync_Omitted(l) ==
  /\ Goto(l, "waitAsync", "onceDone")
  /\ UNCHANGED <<once, constructed, running, thread, backEnd, threadLatch, asyncLatch>>

(* latch_.wait() of AsyncLogging::start().                                 *)
WaitAsync(l) ==
  /\ \/ /\ Open(asyncLatch)
        /\ Goto(l, "waitAsync", "onceDone")
        /\ UNCHANGED asyncLatch
     \/ /\ ~ Open(asyncLatch)
        /\ Goto(l, "waitAsync", "asleepAsync")
        /\ asyncLatch' = FallAsleep(asyncLatch, l)
  /\ UNCHANGED <<once, constructed, running, thread, backEnd, threadLatch>>

WakeAsync(l) ==
  /\ l \notin asyncLatch.asleep
  /\ Goto(l, "asleepAsync", "waitAsync")
  /\ UNCHANGED <<once, constructed, running, thread, backEnd, threadLatch, asyncLatch>>

(* once_init() returns; pthread_once lets everybody through.               *)
LeaveOnce(l) ==
  /\ Goto(l, "onceDone", "append")
  /\ once' = "done"
  /\ UNCHANGED <<constructed, running, thread, backEnd, threadLatch, asyncLatch>>

(* AsyncLogger_->append(), which module AsyncLogging models.               *)
AppendLine(l) ==
  /\ Goto(l, "append", "idle")
  /\ UNCHANGED <<once, constructed, running, thread, backEnd, threadLatch, asyncLatch>>

StartUp(l) ==
  \/ EnterOnce(l) \/ PassOnce(l) \/ LeaveOnce(l)
  \/ Construct(l) \/ SetRunning(l)
  \/ WaitThread(l) \/ WakeThread(l) \/ WaitAsync(l) \/ WakeAsync(l)
  \/ AppendLine(l)

Spurious(l) ==
  /\ \/ /\ l \in threadLatch.asleep
        /\ threadLatch' = [threadLatch EXCEPT !.asleep = @ \ {l}]
        /\ UNCHANGED asyncLatch
     \/ /\ l \in asyncLatch.asleep
        /\ asyncLatch' = [asyncLatch EXCEPT !.asleep = @ \ {l}]
        /\ UNCHANGED threadLatch
  /\ UNCHANGED <<pc, once, constructed, running, thread, backEnd>>

-----------------------------------------------------------------------------
(* runInThread(): *tid_, the latch of Thread, then func_(), which is       *)
(* threadFunc(): the latch of AsyncLogging, then its loop.                 *)
SetTid ==
  /\ backEnd = "setTid"
  /\ tid' = TRUE
  /\ backEnd' = "countThread"
  /\ UNCHANGED <<pc, once, constructed, running, started, created, threadLatch, asyncLatch>>

CountThread ==
  /\ backEnd = "countThread"
  /\ threadLatch' = countDown(threadLatch)
  /\ backEnd' = "enter"
  /\ UNCHANGED <<pc, once, constructed, running, thread, asyncLatch>>

CountAsync ==
  /\ backEnd = "enter"
  /\ asyncLatch' = countDown(asyncLatch)
  /\ backEnd' = "loop"
  /\ UNCHANGED <<pc, once, constructed, running, thread, threadLatch>>

BackEnd == SetTid \/ CountThread \/ CountAsync

Next ==
  \/ \E l \in Loggers :
       \/ Output(l)
       \/ StartUp(l)
       \/ CreateThread(l) \/ CreateFails(l)
       \/ Spurious(l)
  \/ BackEnd

(* The threads run, and pthread_create returns.                            *)
Fairness ==
  /\ \A l \in Loggers : WF_vars(StartUp(l) \/ CreateThread(l) \/ CreateFails(l))
  /\ WF_vars(BackEnd)

Spec == Init /\ [][Next]_vars /\ Fairness

-----------------------------------------------------------------------------
(* The count of a latch for one event never falls below 0, and one logger  *)
(* is made: a second one would write the same file with a second back end. *)
Latch == [count : 0 .. 1, asleep : SUBSET Loggers]

TypeOK ==
  /\ pc \in [Loggers -> {"idle", "once", "construct", "setRunning", "create",
                         "waitThread", "asleepThread", "waitAsync", "asleepAsync",
                         "onceDone", "append"}]
  /\ once \in {"unset", "running", "done"}
  /\ constructed \in 0 .. 1
  /\ running \in BOOLEAN
  /\ started \in BOOLEAN
  /\ tid \in BOOLEAN
  /\ created \in 0 .. 1
  /\ backEnd \in {"none", "setTid", "countThread", "enter", "loop"}
  /\ threadLatch \in Latch
  /\ asyncLatch \in Latch

(* CountDownLatch.h 6-7: the latch makes sure that the function given to   *)
(* Thread has really started before the outer start returns.  So whoever   *)
(* gets to append(), the thread of once_init() or one that came later,     *)
(* finds one logger whose back end is in threadFunc(), and a call of       *)
(* stop() would find a thread to join.                                     *)
AppendWhenReady ==
  (\E l \in Loggers : pc[l] = "append") =>
     constructed = 1 /\ created = 1 /\ started /\ running /\ backEnd = "loop"

(* output() returns to every caller, first or not, unless pthread_create   *)
(* has failed: AsyncLogging::start() cannot tell, and waits for good.      *)
CreateFailed ==
  backEnd = "none" /\ \E l \in Loggers : pc[l] \in {"waitAsync", "asleepAsync"}

OutputReturns ==
  \A l \in Loggers : pc[l] # "idle" ~> (pc[l] = "idle" \/ CreateFailed)
=============================================================================
