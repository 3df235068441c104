---------------------------- MODULE TimerManager ----------------------------
(***************************************************************************)
(* Timer and TimerManager of timer.{h,cpp}, and the loop of                *)
(* IOManager::idle() that sleeps for them, collects them and is woken by   *)
(* tickle().                                                               *)
(*                                                                         *)
(* Any thread may add, cancel, refresh and reset timers, and several       *)
(* workers may be in idle() at once.  What a function does under m_mutex   *)
(* is one action; the clock is read before the mutex is asked for in the   *)
(* constructor of Timer and in listExpiredCb(), and may go on in between.  *)
(* I/O events, the task queue and what a worker does outside idle() are    *)
(* left out: they can wake a worker or tickle at any time.                 *)
(***************************************************************************)
EXTENDS Integers, FiniteSets

CONSTANTS
  Timers,      (* the Timer objects; their order is that of their addresses *)
  Workers,     (* threads that run idle()                                  *)
  Delays,      (* values of the parameters `ms`                            *)
  MaxTimeout,  (* MAX_TIMEOUT, 5000 ms in the code                         *)
  Hour,        (* 60 * 60 * 1000 ms                                        *)
  IntMax,      (* the largest int, 2^31 - 1                                *)
  Word,        (* a uint64_t is below this, 2^64                           *)
  StartTime,   (* GetElapsedMS() when the manager is constructed           *)
  MaxInterrupts, (* BOUND: signals that interrupt an epoll_wait            *)
  EndTime      (* BOUND: when the clock of the model stops                 *)

ASSUME TimersAssumption  == Timers \subseteq Nat /\ IsFiniteSet(Timers)
ASSUME WorkersAssumption == Workers # {}   (* assert(threads > 0), Scheduler *)
ASSUME DelaysAssumption  == Delays \subseteq Nat
ASSUME WidthsAssumption  ==
  /\ {MaxTimeout, Hour, IntMax, Word} \subseteq Nat
  /\ MaxTimeout <= IntMax /\ IntMax < Word /\ Hour < Word
ASSUME ClockAssumption   ==
  StartTime \in Nat /\ EndTime \in Nat /\ StartTime <= EndTime
ASSUME InterruptsAssumption == MaxInterrupts \in Nat

VARIABLES
  now,              (* CLOCK_MONOTONIC_RAW, in ms                          *)
  status,           (* Timer: "none", constructed but not yet in m_timers  *)
                    (* ("made"), or added ("in")                           *)
  m_next, m_ms, m_recurring,
  m_cb,             (* m_cb is not null                                    *)
  m_timers,         (* the set, ordered by Comparator                      *)
  m_tickled,
  m_previouseTime,
  edge,             (* the pipe of tickle() has an event for epoll_wait    *)
  pc,               (* where each worker is                                *)
  looked,           (* when it last asked for the next timer               *)
  next_timeout,     (* the timeout for epoll_wait that it made of that     *)
  until,            (* when its epoll_wait times out, or Never             *)
  drain,            (* its epoll_wait returned the pipe's event            *)
  now_ms,           (* the local of listExpiredCb()                        *)
  cbs,              (* how many callbacks it has left to schedule          *)
  collected,        (* how often (twice stands for more) listExpiredCb()   *)
                    (* took a timer that does not recur                    *)
  cancelled,        (* timers whose cancel() returned true                 *)
  interrupts        (* signals so far                                      *)

timer   == <<status, m_next, m_ms, m_recurring, m_cb>>
manager == <<m_timers, m_tickled, m_previouseTime>>
sleep   == <<looked, next_timeout, until>>
worker  == <<pc, sleep, drain, now_ms, cbs>>
history == <<collected, cancelled, interrupts>>
vars == <<now, timer, manager, edge, worker, history>>

Never == -1

-----------------------------------------------------------------------------
(* Comparator: by m_next, then by address; both arguments are not null.    *)
Before(next, t, u) == next[t] < next[u] \/ (next[t] = next[u] /\ t < u)

First(next, t, S) == \A u \in S \ {t} : Before(next, t, u)

Init ==
  /\ now = StartTime
  /\ status = [t \in Timers |-> "none"]
  /\ m_next = [t \in Timers |-> 0]
  /\ m_ms = [t \in Timers |-> 0]
  /\ m_recurring = [t \in Timers |-> FALSE]
  /\ m_cb = [t \in Timers |-> FALSE]
  /\ m_timers = {}
  /\ m_tickled = FALSE
  /\ m_previouseTime = StartTime
  /\ edge = FALSE
  /\ pc = [w \in Workers |-> "busy"]
  /\ looked = [w \in Workers |-> 0]
  /\ until = [w \in Workers |-> 0]
  /\ next_timeout = [w \in Workers |-> 0]
  /\ drain = [w \in Workers |-> FALSE]
  /\ now_ms = [w \in Workers |-> 0]
  /\ cbs = [w \in Workers |-> 0]
  /\ collected = [t \in Timers |-> 0]
  /\ cancelled = {}
  /\ interrupts = 0

(* Time passes, however long a thread takes.                               *)
Tick ==
  /\ now < EndTime
  /\ now' = now + 1
  /\ UNCHANGED <<timer, manager, edge, worker, history>>

-----------------------------------------------------------------------------
(* Scheduler::hasIdleThreads(), and tickle(), which writes to the pipe     *)
(* only if there are any.                                                  *)
hasIdleThreads == \E w \in Workers : pc[w] # "busy"

tickle(needed) == edge' = (edge \/ (needed /\ hasIdleThreads))

(* MUTANT of addTimer: at_front does not look at the whole of m_timers but *)
(* only at whether there was a timer before.                               *)
addTimer_WhenEmpty(t) ==
  LET at_front == m_timers = {} /\ ~ m_tickled IN
  /\ m_timers' = m_timers \cup {t}
  /\ m_tickled' = (m_tickled \/ at_front)
  /\ tickle(at_front)

(* The protected addTimer(): insert, and tickle for a new front unless     *)
(* that was done since the last getNextTimer().                            *)
addTimer(t) ==
  LET at_front == First(m_next', t, m_timers) /\ ~ m_tickled IN
  /\ m_timers' = m_timers \cup {t}
  /\ m_tickled' = (m_tickled \/ at_front)
  /\ tickle(at_front)

(* The public addTimer(): the constructor of Timer reads the clock, and    *)
(* m_mutex is taken afterwards.                                            *)
NewTimer(t, ms, recurring) ==
  /\ status[t] = "none"
  /\ status' = [status EXCEPT ![t] = "made"]
  /\ m_ms' = [m_ms EXCEPT ![t] = ms]
  /\ m_next' = [m_next EXCEPT ![t] = now + ms]
  /\ m_recurring' = [m_recurring EXCEPT ![t] = recurring]
  /\ m_cb' = [m_cb EXCEPT ![t] = TRUE]
  /\ UNCHANGED <<now, manager, edge, worker, history>>

AddTimer(t) ==
  /\ status[t] = "made"
  /\ status' = [status EXCEPT ![t] = "in"]
  /\ UNCHANGED m_next
  /\ addTimer(t)
  /\ UNCHANGED <<now, m_ms, m_recurring, m_cb, m_previouseTime, worker, history>>

(* cancel() returning true; it returns false, and does nothing, without    *)
(* m_cb.                                                                   *)
Cancel(t) ==
  /\ status[t] = "in"
  /\ m_cb[t]
  /\ m_cb' = [m_cb EXCEPT ![t] = FALSE]
  /\ m_timers' = m_timers \ {t}
  /\ cancelled' = cancelled \cup {t}
  /\ UNCHANGED <<now, status, m_next, m_ms, m_recurring, m_tickled,
                 m_previouseTime, edge, worker, collected, interrupts>>

(* refresh() returning true: m_next starts over; the new position is not   *)
(* looked at, since it can only be a later one.                            *)
Refresh(t) ==
  /\ status[t] = "in"
  /\ m_cb[t] /\ t \in m_timers
  /\ m_next' = [m_next EXCEPT ![t] = now + m_ms[t]]
  /\ UNCHANGED <<now, status, m_ms, m_recurring, m_cb, manager, edge, worker, history>>

(* MUTANT of Reset: reset() inserts the timer as refresh() does.           *)
Reset_Inserts(t, ms, from_now) ==
  LET start == IF from_now THEN now ELSE m_next[t] - m_ms[t] IN
  /\ status[t] = "in"
  /\ m_cb[t] /\ t \in m_timers
  /\ m_ms' = [m_ms EXCEPT ![t] = ms]
  /\ m_next' = [m_next EXCEPT ![t] = start + ms]
  /\ UNCHANGED <<now, status, m_recurring, m_cb, manager, edge, worker, history>>

(* reset() behind its early return, which compares ms with m_ms without    *)
(* the mutex: m_ms may have become ms by the time the mutex is taken, so   *)
(* the comparison restricts nothing here.                                  *)
Reset(t, ms, from_now) ==
  LET start == IF from_now THEN now ELSE m_next[t] - m_ms[t] IN
  /\ status[t] = "in"
  /\ m_cb[t] /\ t \in m_timers
  /\ m_ms' = [m_ms EXCEPT ![t] = ms]
  /\ m_next' = [m_next EXCEPT ![t] = start + ms]
  /\ addTimer(t)
  /\ UNCHANGED <<now, status, m_recurring, m_cb, m_previouseTime, worker, history>>

User ==
  \E t \in Timers :
    \/ \E ms \in Delays, b \in BOOLEAN : NewTimer(t, ms, b) \/ Reset(t, ms, b)
    \/ Cancel(t)
    \/ Refresh(t)

-----------------------------------------------------------------------------
Goto(w, from, to) == pc[w] = from /\ pc' = [pc EXCEPT ![w] = to]

(* Scheduler::run() resumes idle(), which counts as idle from then on.     *)
EnterIdle(w) ==
  /\ Goto(w, "busy", "next")
  /\ UNCHANGED <<now, timer, manager, edge, sleep, drain, now_ms, cbs, history>>

(* The conversion to int of a uint64_t.                                    *)
ToInt(x) ==
  LET r == x % (2 * (IntMax + 1)) IN IF r > IntMax THEN r - 2 * (IntMax + 1) ELSE r

(* The time for epoll_wait: std::min in int; a negative one is no timeout. *)
Timeout(next) == IF ToInt(next) < MaxTimeout THEN ToInt(next) ELSE MaxTimeout

(* MUTANT of ClearTickled: getNextTimer() leaves m_tickled alone.          *)
ClearTickled_Omitted == UNCHANGED m_tickled

ClearTickled == m_tickled' = FALSE

(* The value of getNextTimer() when t is the first timer.                  *)
TimeLeft(t) == IF now >= m_next[t] THEN 0 ELSE m_next[t] - now

(* stopping() has asked for the next timer, and idle() makes a timeout of  *)
(* the answer.                                                             *)
Plan(w, timeout) ==
  /\ looked' = [looked EXCEPT ![w] = now]
  /\ next_timeout' = [next_timeout EXCEPT ![w] = timeout]

(* epoll_wait begins: it is from now on that the timeout counts.           *)
SleepFor(w, timeout) ==
  /\ until' = [until EXCEPT ![w] = IF timeout < 0 THEN Never ELSE now + timeout]
  /\ next_timeout' = [next_timeout EXCEPT ![w] = timeout]
  /\ UNCHANGED looked

Awake(w) ==
  /\ looked' = [looked EXCEPT ![w] = 0]
  /\ next_timeout' = [next_timeout EXCEPT ![w] = 0]
  /\ until' = [until EXCEPT ![w] = 0]

(* getNextTimer(), called through stopping(), and what idle() makes of it. *)
GetNextTimer(w) ==
  /\ Goto(w, "next", "timed")
  /\ ClearTickled
  /\ \/ m_timers = {} /\ Plan(w, MaxTimeout)
     \/ \E t \in m_timers :
          First(m_next, t, m_timers) /\ Plan(w, Timeout(TimeLeft(t)))
  /\ UNCHANGED <<now, timer, m_timers, m_previouseTime, edge, until, drain, now_ms, cbs,
                 history>>

(* Any time later, the wait.                                               *)
EpollWait(w) ==
  /\ Goto(w, "timed", "waiting")
  /\ SleepFor(w, next_timeout[w])
  /\ UNCHANGED <<now, timer, manager, edge, drain, now_ms, cbs, history>>

(* A signal: epoll_wait is called again with the whole timeout, not with   *)
(* what is left of it.  -1 is the value that idle() takes for no timer.    *)
Again(timeout) == IF timeout = -1 THEN MaxTimeout ELSE timeout

Interrupt(w) ==
  /\ interrupts < MaxInterrupts
  /\ pc[w] = "waiting"
  /\ interrupts' = interrupts + 1
  /\ SleepFor(w, Again(next_timeout[w]))
  /\ UNCHANGED <<now, timer, manager, edge, pc, drain, now_ms, cbs, collected, cancelled>>

(* epoll_wait returns with the pipe's event, which being edge-triggered it *)
(* reports to one worker, ...                                              *)
WakeTickled(w) ==
  /\ edge
  /\ Goto(w, "waiting", "list")
  /\ edge' = FALSE
  /\ drain' = [drain EXCEPT ![w] = TRUE]
  /\ Awake(w)
  /\ UNCHANGED <<now, timer, manager, now_ms, cbs, history>>

(* ... or after its timeout ...                                            *)
WakeTimeout(w) ==
  /\ until[w] # Never /\ now >= until[w]
  /\ Goto(w, "waiting", "list")
  /\ Awake(w)
  /\ UNCHANGED <<now, timer, manager, edge, drain, now_ms, cbs, history>>

(* ... or with an event of another descriptor.                             *)
WakeEvent(w) ==
  /\ Goto(w, "waiting", "list")
  /\ Awake(w)
  /\ UNCHANGED <<now, timer, manager, edge, drain, now_ms, cbs, history>>

(* listExpiredCb() reads the clock, ...                                    *)
ReadClock(w) ==
  /\ Goto(w, "list", "peek")
  /\ now_ms' = [now_ms EXCEPT ![w] = now]
  /\ UNCHANGED <<now, timer, manager, edge, sleep, drain, cbs, history>>

(* ... looks under m_mutex whether there are timers, gives it up ...       *)
Peek(w) ==
  /\ \/ /\ m_timers = {}
        /\ Goto(w, "peek", "schedule")
        /\ now_ms' = [now_ms EXCEPT ![w] = 0]
     \/ m_timers # {} /\ Goto(w, "peek", "take") /\ UNCHANGED now_ms
  /\ UNCHANGED <<now, timer, manager, edge, sleep, drain, cbs, history>>

(* MUTANT of detectClockRollover: any step back counts.                    *)
detectClockRollover_NoMargin(ms) == ms < m_previouseTime

(* The subtraction is one of uint64_t: it wraps in the first hour.         *)
detectClockRollover(ms) ==
  ms < m_previouseTime /\ ms < (m_previouseTime - Hour) % Word

(* ... and takes it again: everything due by now_ms is collected, or all   *)
(* if the clock rolled over.                                               *)
Expired(ms) ==
  IF detectClockRollover(ms) THEN m_timers ELSE {t \in m_timers : m_next[t] <= ms}

(* MUTANT of Disarmed: a one-shot timer keeps its callback.                *)
Disarmed_Keeps(t) == FALSE

(* m_cb = nullptr for an expired timer that does not recur.                *)
Disarmed(t) == ~ m_recurring[t]

Take(w) ==
  /\ Goto(w, "take", "schedule")
  /\ IF m_timers = {}
     THEN UNCHANGED <<timer, m_timers, m_previouseTime, cbs, collected>>
     ELSE LET expired == Expired(now_ms[w]) IN
          /\ m_previouseTime' = now_ms[w]
          /\ m_timers' = m_timers \ {t \in expired : ~ m_recurring[t]}
          /\ m_next' = [t \in Timers |->
                          IF t \in expired /\ m_recurring[t]
                          THEN now_ms[w] + m_ms[t] ELSE m_next[t]]
          /\ m_cb' = [t \in Timers |-> m_cb[t] /\ ~ (t \in expired /\ Disarmed(t))]
          /\ cbs' = [cbs EXCEPT ![w] = Cardinality(expired)]
          /\ collected' = [t \in Timers |->
                             IF t \in expired /\ ~ m_recurring[t] /\ collected[t] < 2
                             THEN collected[t] + 1 ELSE collected[t]]
          /\ UNCHANGED <<status, m_ms, m_recurring>>
  /\ now_ms' = [now_ms EXCEPT ![w] = 0]
  /\ UNCHANGED <<now, m_tickled, edge, sleep, drain, cancelled, interrupts>>

(* schedule(cb): it tickles if the task queue was empty.                   *)
Schedule(w) ==
  /\ cbs[w] > 0
  /\ Goto(w, "schedule", "schedule")
  /\ cbs' = [cbs EXCEPT ![w] = @ - 1]
  /\ \E wasEmpty \in BOOLEAN : tickle(wasEmpty)
  /\ UNCHANGED <<now, timer, manager, sleep, drain, now_ms, history>>

(* The events: the pipe is read until it is empty, so that an event it may *)
(* have got since is gone too.  Then yield().                              *)
Yield(w) ==
  /\ cbs[w] = 0
  /\ Goto(w, "schedule", "busy")
  /\ edge' = (edge /\ ~ drain[w])
  /\ drain' = [drain EXCEPT ![w] = FALSE]
  /\ UNCHANGED <<now, timer, manager, sleep, now_ms, cbs, history>>

(* Somebody else calls schedule() or stop().                               *)
OtherTickle ==
  /\ tickle(TRUE)
  /\ UNCHANGED <<now, timer, manager, worker, history>>

WorkerStep(w) ==
  \/ EnterIdle(w) \/ GetNextTimer(w) \/ EpollWait(w)
  \/ WakeTickled(w) \/ WakeTimeout(w)
  \/ ReadClock(w) \/ Peek(w) \/ Take(w) \/ Schedule(w) \/ Yield(w)

Next ==
  \/ Tick
  \/ User
  \/ \E t \in Timers : AddTimer(t)
  \/ \E w \in Workers : WorkerStep(w) \/ WakeEvent(w) \/ Interrupt(w)
  \/ OtherTickle

(* The workers are running threads, and the tasks they run end.  Neither   *)
(* the clock nor any user is obliged to move.                              *)
Fairness == \A w \in Workers : WF_vars(WorkerStep(w))

Spec     == Init /\ [][Next]_vars
FairSpec == Spec /\ Fairness

-----------------------------------------------------------------------------
TypeOK ==
  /\ now \in Nat
  /\ status \in [Timers -> {"none", "made", "in"}]
  /\ m_next \in [Timers -> Nat]
  /\ m_ms \in [Timers -> Nat]
  /\ m_recurring \in [Timers -> BOOLEAN]
  /\ m_cb \in [Timers -> BOOLEAN]
  /\ m_timers \subseteq Timers
  /\ m_tickled \in BOOLEAN
  /\ m_previouseTime \in Nat
  /\ edge \in BOOLEAN
  /\ pc \in [Workers -> {"busy", "next", "timed", "waiting", "list", "peek", "take",
                         "schedule"}]
  /\ looked \in [Workers -> Nat]
  /\ until \in [Workers -> Nat \cup {Never}]
  /\ next_timeout \in [Workers -> Int]
  /\ drain \in [Workers -> BOOLEAN]
  /\ now_ms \in [Workers -> Nat]
  /\ cbs \in [Workers -> Nat]
  /\ collected \in [Timers -> 0 .. 2]
  /\ cancelled \subseteq Timers
  /\ interrupts \in 0 .. MaxInterrupts

(* cancel() erases find(this) without looking at it: a timer with a        *)
(* callback must be in m_timers, whatever listExpiredCb() did to it, and   *)
(* one without must not, or the workers schedule an empty function         *)
(* (timer.cpp 41-45, 168-175).                                             *)
CallbackIffRegistered ==
  \A t \in Timers : status[t] = "in" => (m_cb[t] <=> t \in m_timers)

(* A user who got true from cancel() may free what the callback uses: the  *)
(* callback of a one-shot timer was not and will not be collected.  And it *)
(* is collected once at most, by whichever worker comes first.             *)
CancelledOrCollected ==
  \A t \in Timers :
    ~ m_recurring[t] => collected[t] <= (IF t \in cancelled THEN 0 ELSE 1)

(* A worker that is held up for more than an hour between reading the      *)
(* clock and getting the mutex may take its own reading for a clock that   *)
(* rolled over, and then collects everything; all others ...               *)
UpToDate(w) == now - now_ms[w] <= Hour

(* ... never collect a timer before it is due, although they compare with  *)
(* a clock they read before they got the mutex, that another worker may    *)
(* have overtaken.                                                         *)
CollectsDue ==
  \A w \in Workers, t \in m_timers :
    /\ pc[w] = "take" /\ pc'[w] # "take" /\ UpToDate(w)
    /\ t \notin m_timers' \/ m_next'[t] # m_next[t]
    => m_next[t] <= now

NeverEarly == [][CollectsDue]_vars

(* What the theorems assume of the surroundings, and the runs choose so:   *)
(* delays are below 2^31 ms (almost 25 days); the host has been up for an  *)
(* hour when the manager is made, and the clock does not wrap.             *)
DelaysFit == \A ms \in Delays : ms <= IntMax

PastFirstHour == StartTime >= Hour /\ EndTime < Word

(* timer.cpp 152: with CLOCK_MONOTONIC_RAW, time should never be seen to   *)
(* go back; no worker about to collect finds that it did.                  *)
NoRollover ==
  \A w \in Workers :
    pc[w] = "take" /\ m_timers # {} /\ UpToDate(w) => ~ detectClockRollover(now_ms[w])

(* No timer is slept over.  If all workers sleep, and no tickle is on its  *)
(* way, one of them wakes at once or before any timer is due, but for the  *)
(* time that has passed between its getNextTimer() and the epoll_wait it   *)
(* is in: the timeout is not computed anew, neither when the thread is     *)
(* held up before the call nor when a signal has it call again             *)
(* (iomanager.cpp 341).  This is what m_tickled, which suppresses tickles, *)
(* and the edge-triggered pipe, which one worker empties for all, put at   *)
(* risk.                                                                   *)
Began(w) == until[w] - next_timeout[w]

WakesInTime(w) ==
  /\ until[w] # Never
  /\ \/ until[w] <= now
     \/ \A t \in m_timers : until[w] <= m_next[t] + (Began(w) - looked[w])

WakeCovered ==
  (m_timers # {} /\ ~ edge /\ \A w \in Workers : pc[w] = "waiting") =>
     \E w \in Workers : WakesInTime(w)

(* iomanager.cpp 333: the wait is cut to MAX_TIMEOUT lest a timer too far  *)
(* away make epoll_wait block for good.                                    *)
WaitBounded ==
  \A w \in Workers :
    pc[w] = "waiting" => until[w] # Never /\ until[w] <= now + MaxTimeout

(* A timer that is due does not stay so: it is collected, or its user      *)
(* cancels or postpones it.  The workers need not wait for MAX_TIMEOUT     *)
(* for that: the clock is not obliged to move, and where it stops for      *)
(* good, the only excuse is a worker who has been held up before its       *)
(* epoll_wait and wakes in time but for that.                              *)
Due(t) == t \in m_timers /\ m_next[t] <= now

HeldUp ==
  \E w \in Workers : pc[w] = "waiting" /\ WakesInTime(w) /\ now < until[w]

DueCollected == \A t \in Timers : (Due(t) ~> ~ Due(t)) \/ <>[]HeldUp
=============================================================================
