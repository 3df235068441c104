------------------------- MODULE TimerManagerProofs -------------------------
(***************************************************************************)
(* Proofs of TimerManager's safety properties, for any number of timers,   *)
(* workers and delays.                                                     *)
(***************************************************************************)
EXTENDS TimerManager, FiniteSetTheorems, TLAPS

-----------------------------------------------------------------------------
(* Every timer was armed with its period at a time that has come, and no   *)
(* clock reading lies in the future.                                       *)
Arming ==
  /\ \A t \in Timers :
       m_next[t] <= now + m_ms[t] /\ m_ms[t] <= m_next[t] /\ m_ms[t] \in Delays \cup {0}
  /\ m_previouseTime <= now
  /\ \A w \in Workers : now_ms[w] <= now

(* How far a timer has come in its life, and what that says of m_timers.   *)
LifeOf(t) ==
  /\ status[t] = "none" => t \notin m_timers /\ ~ m_cb[t]
  /\ status[t] = "made" => t \notin m_timers /\ m_cb[t]
  /\ status[t] # "in" => collected[t] = 0 /\ t \notin cancelled
  /\ status[t] = "in" => (m_cb[t] <=> t \in m_timers)
  /\ ~ m_recurring[t] /\ m_cb[t] => collected[t] = 0
  /\ t \in cancelled => ~ m_cb[t]
  /\ ~ m_recurring[t] => collected[t] <= (IF t \in cancelled THEN 0 ELSE 1)

Lives == \A t \in Timers : LifeOf(t)

(* Somebody is going to call getNextTimer() before sleeping again.         *)
SomeoneUp == edge \/ \E w \in Workers : pc[w] \notin {"timed", "waiting"}

(* When the worker asked for the next timer, it was told to be back before *)
(* any timer is due, or at once.                                           *)
Aims(w) ==
  /\ next_timeout[w] >= 0
  /\ \/ next_timeout[w] = 0
     \/ \A t \in m_timers : looked[w] + next_timeout[w] <= m_next[t]

Covered ==
  /\ m_tickled => SomeoneUp
  /\ m_timers # {} => SomeoneUp \/ \E w \in Workers : Aims(w)

(* What epoll_wait is given, first or again, and when it returns at last.  *)
Waits ==
  \A w \in Workers :
    /\ pc[w] \in {"timed", "waiting"} => next_timeout[w] \in 0 .. MaxTimeout
    /\ pc[w] = "waiting" => until[w] \in Nat /\ until[w] <= now + next_timeout[w]

(* The readings of the clock lie between the bounds of the model.          *)
Clock ==
  /\ StartTime <= m_previouseTime
  /\ now <= EndTime
  /\ \A w \in Workers : pc[w] \in {"peek", "take"} => StartTime <= now_ms[w]

-----------------------------------------------------------------------------
(* The conversion of getNextTimer()'s value to int, and what std::min      *)
(* makes of it.                                                            *)
LEMMA ModSmall ==
  ASSUME NEW x \in Nat, NEW d \in Nat \ {0}, x < d
  PROVE  x % d = x
  OBVIOUS

(* The rest of a division is below the divisor.                            *)
LEMMA ModRange ==
  ASSUME NEW x \in Int, NEW d \in Nat \ {0}
  PROVE  x % d \in 0 .. d - 1
  OBVIOUS

(* The timeout is an integer, and no longer than MAX_TIMEOUT.              *)
LEMMA TimeoutType ==
  ASSUME NEW x \in Nat
  PROVE  Timeout(x) \in Int /\ Timeout(x) <= MaxTimeout
  <1>1. 2 * (IntMax + 1) \in Nat \ {0}
    BY WidthsAssumption
  <1>2. x % (2 * (IntMax + 1)) \in Int
    BY <1>1, ModRange
  <1>3. ToInt(x) \in Int
    BY <1>1, <1>2 DEF ToInt
  <1> QED
    BY <1>3, WidthsAssumption DEF Timeout

(* A value that an int holds is only cut.                                  *)
LEMMA TimeoutFits ==
  ASSUME NEW x \in Nat, x <= IntMax
  PROVE  Timeout(x) \in 0 .. x
  <1>1. 2 * (IntMax + 1) \in Nat \ {0} /\ x < 2 * (IntMax + 1)
    BY WidthsAssumption
  <1>2. ToInt(x) = x
    BY <1>1, ModSmall, WidthsAssumption DEF ToInt
  <1> QED
    BY <1>2, WidthsAssumption DEF Timeout

-----------------------------------------------------------------------------
(* The initial state has the types, and its clocks agree.                  *)
LEMMA TypeInit == Init => TypeOK /\ Arming
  <1> SUFFICES ASSUME Init
               PROVE  TypeOK /\ Arming
    OBVIOUS
  <1>1. /\ m_recurring \in [Timers -> BOOLEAN]
        /\ m_cb \in [Timers -> BOOLEAN]
        /\ drain \in [Workers -> BOOLEAN]
    BY Zenon DEF Init
  <1>2. Arming
    BY ClockAssumption DEF Init, Arming
  <1>3. /\ status \in [Timers -> {"none", "made", "in"}]
        /\ pc \in [Workers -> {"busy", "next", "timed", "waiting", "list", "peek",
                              "take", "schedule"}]
    BY DEF Init
  <1>4. /\ m_next \in [Timers -> Nat]
        /\ m_ms \in [Timers -> Nat]
        /\ collected \in [Timers -> 0 .. 2]
    BY DEF Init
  <1>5. /\ until \in [Workers -> Nat \cup {Never}]
        /\ looked \in [Workers -> Nat]
        /\ next_timeout \in [Workers -> Int]
        /\ now_ms \in [Workers -> Nat]
        /\ cbs \in [Workers -> Nat]
    BY DEF Init
  <1>6. interrupts \in 0 .. MaxInterrupts
    BY InterruptsAssumption DEF Init
  <1> QED
    BY <1>1, <1>2, <1>3, <1>4, <1>5, <1>6, ClockAssumption DEF Init, TypeOK

(* No step leaves the types: reset() subtracts a period the timer was      *)
(* armed with, and a wait has a timeout or none.                           *)
LEMMA TypeNext ==
  ASSUME TypeOK, Arming, [Next]_vars
  PROVE  TypeOK' /\ Arming'
  <1> USE DEF TypeOK, Arming, timer, manager, worker, sleep, history, Awake
  <1>1. CASE Tick
    BY <1>1 DEF Tick
  <1>2. ASSUME NEW t \in Timers, NEW ms \in Delays, NEW b \in BOOLEAN, NewTimer(t, ms, b)
        PROVE  TypeOK' /\ Arming'
    BY <1>2, DelaysAssumption DEF NewTimer
  <1>3. ASSUME NEW t \in Timers, NEW ms \in Delays, NEW b \in BOOLEAN, Reset(t, ms, b)
        PROVE  TypeOK' /\ Arming'
    <2> DEFINE start == IF b THEN now ELSE m_next[t] - m_ms[t]
    <2>1. start \in Nat /\ start <= now /\ ms \in Nat
      BY <1>3, DelaysAssumption
    <2>2. m_next' = [m_next EXCEPT ![t] = start + ms] /\ m_ms' = [m_ms EXCEPT ![t] = ms]
      BY <1>3 DEF Reset
    <2>3. /\ m_timers' = m_timers \cup {t}
          /\ m_tickled' \in BOOLEAN /\ edge' \in BOOLEAN
      BY <1>3 DEF Reset, addTimer, tickle
    <2>4. UNCHANGED <<now, status, m_recurring, m_cb, m_previouseTime, worker, history>>
      BY <1>3 DEF Reset
    <2> HIDE DEF start
    <2> QED
      BY <2>1, <2>2, <2>3, <2>4
  <1>4. ASSUME NEW t \in Timers, Cancel(t)
        PROVE  TypeOK' /\ Arming'
    BY <1>4 DEF Cancel
  <1>5. ASSUME NEW t \in Timers, Refresh(t)
        PROVE  TypeOK' /\ Arming'
    BY <1>5 DEF Refresh
  <1>6. ASSUME NEW t \in Timers, AddTimer(t)
        PROVE  TypeOK' /\ Arming'
    <2>1. m_tickled' \in BOOLEAN /\ edge' \in BOOLEAN
      BY <1>6 DEF AddTimer, addTimer, tickle
    <2> QED
      BY <1>6, <2>1 DEF AddTimer, addTimer
  <1>7. ASSUME NEW w \in Workers, WorkerStep(w) \/ WakeEvent(w) \/ Interrupt(w)
        PROVE  TypeOK' /\ Arming'
    <2>1. CASE EnterIdle(w)
      BY <2>1 DEF EnterIdle, Goto
    <2>2. CASE GetNextTimer(w)
      <3>1. PICK timeout \in Int : Plan(w, timeout)
        <4>1. CASE m_timers = {} /\ Plan(w, MaxTimeout)
          BY <4>1, WidthsAssumption
        <4>2. ASSUME NEW t \in m_timers, Plan(w, Timeout(TimeLeft(t)))
              PROVE  \E timeout \in Int : Plan(w, timeout)
          <5>1. TimeLeft(t) \in Nat
            BY DEF TimeLeft
          <5> QED
            BY <4>2, <5>1, TimeoutType
        <4> QED
          BY <2>2, <4>1, <4>2 DEF GetNextTimer
      <3>2. looked' \in [Workers -> Nat] /\ next_timeout' \in [Workers -> Int]
        BY <3>1 DEF Plan
      <3> QED
        BY <2>2, <3>2 DEF GetNextTimer, Goto, ClearTickled
    <2>3. CASE EpollWait(w)
      <3>1. next_timeout[w] \in Int /\ now \in Nat
        OBVIOUS
      <3>2. until' \in [Workers -> Nat \cup {Never}] /\ next_timeout' \in [Workers -> Int]
        BY <2>3, <3>1 DEF EpollWait, SleepFor, Never
      <3>3. UNCHANGED looked
        BY <2>3 DEF EpollWait, SleepFor
      <3> QED
        BY <2>3, <3>2, <3>3 DEF EpollWait, Goto
    <2>4. CASE WakeTickled(w)
      <3>1. /\ until' \in [Workers -> Nat \cup {Never}] /\ next_timeout' \in [Workers -> Int]
            /\ looked' \in [Workers -> Nat]
        BY <2>4 DEF WakeTickled, Awake
      <3>2. drain' \in [Workers -> BOOLEAN]
        BY <2>4, Zenon DEF WakeTickled
      <3> QED
        BY <2>4, <3>1, <3>2 DEF WakeTickled, Goto
    <2>5. CASE WakeTimeout(w)
      BY <2>5 DEF WakeTimeout, Goto, Awake
    <2>6. CASE WakeEvent(w)
      BY <2>6 DEF WakeEvent, Goto, Awake
    <2>7. CASE ReadClock(w)
      BY <2>7 DEF ReadClock, Goto
    <2>8. CASE Peek(w)
      <3>1. now_ms' \in [Workers -> Nat] /\ \A v \in Workers : now_ms'[v] <= now
        BY <2>8 DEF Peek
      <3>2. pc' \in [Workers ->
              {"busy", "next", "timed", "waiting", "list", "peek", "take", "schedule"}]
        BY <2>8 DEF Peek, Goto
      <3> QED
        BY <2>8, <3>1, <3>2 DEF Peek
    <2>9. CASE Take(w)
      <3> DEFINE expired == Expired(now_ms[w])
      <3>1. expired \subseteq Timers
        BY DEF Expired
      <3>2. Cardinality(expired) \in Nat
        BY <3>1, TimersAssumption, FS_Subset, FS_CardinalityType
      <3>3. CASE m_timers = {}
        BY <2>9, <3>3 DEF Take, Goto
      <3>4. CASE m_timers # {}
        <4>1. /\ m_previouseTime' = now_ms[w]
              /\ m_timers' = m_timers \ {t \in expired : ~ m_recurring[t]}
              /\ m_next' = [t \in Timers |->
                              IF t \in expired /\ m_recurring[t]
                              THEN now_ms[w] + m_ms[t] ELSE m_next[t]]
              /\ m_cb' = [t \in Timers |-> m_cb[t] /\ ~ (t \in expired /\ Disarmed(t))]
              /\ cbs' = [cbs EXCEPT ![w] = Cardinality(expired)]
              /\ collected' = [t \in Timers |->
                                 IF t \in expired /\ ~ m_recurring[t] /\ collected[t] < 2
                                 THEN collected[t] + 1 ELSE collected[t]]
              /\ now_ms' = [now_ms EXCEPT ![w] = 0]
              /\ Goto(w, "take", "schedule")
              /\ UNCHANGED <<status, m_ms, m_recurring, now, m_tickled, edge, sleep,
                             drain, cancelled, interrupts>>
          BY <2>9, <3>4 DEF Take
        <4> HIDE DEF expired
        <4>2. m_next' \in [Timers -> Nat] /\ collected' \in [Timers -> 0 .. 2]
          BY <4>1
        <4>3. m_cb' \in [Timers -> BOOLEAN]
          BY <4>1
        <4>4. \A t \in Timers : m_next'[t] <= now + m_ms[t] /\ m_ms[t] <= m_next'[t]
          BY <4>1
        <4>5. cbs' \in [Workers -> Nat] /\ pc' \in [Workers ->
                {"busy", "next", "timed", "waiting", "list", "peek", "take", "schedule"}]
          BY <3>2, <4>1 DEF Goto
        <4>6. now_ms' \in [Workers -> Nat] /\ \A v \in Workers : now_ms'[v] <= now
          BY <4>1
        <4> QED
          BY <4>1, <4>2, <4>3, <4>4, <4>5, <4>6
      <3> QED
        BY <3>3, <3>4
    <2>10. CASE Schedule(w)
      <3>1. edge' \in BOOLEAN
        BY <2>10 DEF Schedule, tickle
      <3> QED
        BY <2>10, <3>1 DEF Schedule, Goto
    <2>11. CASE Yield(w)
      <3>1. edge' \in BOOLEAN
        BY <2>11 DEF Yield
      <3> QED
        BY <2>11, <3>1 DEF Yield, Goto
    <2>12. CASE Interrupt(w)
      <3>1. Again(next_timeout[w]) \in Int
        BY WidthsAssumption DEF Again
      <3>2. until' \in [Workers -> Nat \cup {Never}] /\ next_timeout' \in [Workers -> Int]
        BY <2>12, <3>1 DEF Interrupt, SleepFor, Never
      <3>3. UNCHANGED looked
        BY <2>12 DEF Interrupt, SleepFor
      <3> QED
        BY <2>12, <3>2, <3>3, InterruptsAssumption DEF Interrupt
    <2> QED
      BY <1>7, <2>1, <2>2, <2>3, <2>4, <2>5, <2>6, <2>7, <2>8, <2>9, <2>10, <2>11, <2>12
         DEF WorkerStep
  <1>8. CASE OtherTickle
    <2>1. edge' \in BOOLEAN
      BY <1>8 DEF OtherTickle, tickle
    <2> QED
      BY <1>8, <2>1 DEF OtherTickle
  <1>9. CASE UNCHANGED vars
    BY <1>9 DEF vars
  <1> QED
    BY <1>1, <1>2, <1>3, <1>4, <1>5, <1>6, <1>7, <1>8, <1>9 DEF Next, User

(* The type invariant, with the bounds on the clocks it needs.             *)
LEMMA TypeAndArming == Spec => [](TypeOK /\ Arming)
  <1>1. (TypeOK /\ Arming) /\ [Next]_vars => (TypeOK /\ Arming)'
    BY TypeNext
  <1> QED
    BY <1>1, TypeInit, PTL DEF Spec

(* The variables keep their types.                                         *)
THEOREM TypeCorrect == Spec => []TypeOK
  BY TypeAndArming, PTL

-----------------------------------------------------------------------------
(* No timer exists yet.                                                    *)
LEMMA LivesInit == Init => Lives
  BY DEF Init, Lives, LifeOf

(* A worker that collects decides the fate of each timer it takes under    *)
(* m_mutex, as cancel() does: the life of a timer goes on from there.      *)
LEMMA LivesTake ==
  ASSUME TypeOK, Lives, NEW w \in Workers, Take(w), NEW t \in Timers
  PROVE  LifeOf(t)'
  <1>1. LifeOf(t)
    BY DEF Lives
  <1>2. CASE m_timers = {}
    BY <1>1, <1>2 DEF Take, timer, LifeOf
  <1>3. CASE m_timers # {}
    <2> DEFINE expired == Expired(now_ms[w])
    <2>1. expired \subseteq m_timers
      BY DEF Expired
    <2>2. /\ m_timers' = m_timers \ {u \in expired : ~ m_recurring[u]}
          /\ m_cb' = [u \in Timers |-> m_cb[u] /\ ~ (u \in expired /\ Disarmed(u))]
          /\ collected' = [u \in Timers |->
                             IF u \in expired /\ ~ m_recurring[u] /\ collected[u] < 2
                             THEN collected[u] + 1 ELSE collected[u]]
          /\ UNCHANGED <<status, m_recurring, cancelled>>
      BY <1>3 DEF Take
    <2>3. m_cb'[t] = (m_cb[t] /\ ~ (t \in expired /\ ~ m_recurring[t]))
      BY <2>2, Zenon DEF Disarmed
    <2>4. t \in m_timers' <=> t \in m_timers /\ ~ (t \in expired /\ ~ m_recurring[t])
      BY <2>2
    <2>5. collected'[t] = IF t \in expired /\ ~ m_recurring[t] /\ collected[t] < 2
                          THEN collected[t] + 1 ELSE collected[t]
      BY <2>2
    <2>6. /\ status[t] \in {"none", "made", "in"} /\ collected[t] \in 0 .. 2
          /\ m_cb[t] \in BOOLEAN /\ m_recurring[t] \in BOOLEAN
      BY DEF TypeOK
    <2>7. UNCHANGED <<status[t], m_recurring[t], cancelled>>
      BY <2>2
    <2> HIDE DEF expired
    <2> QED
      BY <1>1, <2>1, <2>3, <2>4, <2>5, <2>6, <2>7 DEF LifeOf
  <1> QED
    BY <1>2, <1>3

(* The other steps move one timer on, or none.                             *)
LEMMA LivesNext ==
  ASSUME TypeOK, Lives, [Next]_vars
  PROVE  Lives'
  <1> SUFFICES ASSUME NEW u \in Timers
               PROVE  LifeOf(u)'
    BY DEF Lives
  <1>0. LifeOf(u)
    BY DEF Lives
  <1> USE DEF timer, manager, history
  <1>1. CASE Tick
    BY <1>0, <1>1 DEF Tick, LifeOf
  <1>2. ASSUME NEW t \in Timers, NEW ms \in Delays, NEW b \in BOOLEAN, NewTimer(t, ms, b)
        PROVE  LifeOf(u)'
    BY <1>0, <1>2 DEF NewTimer, LifeOf, TypeOK
  <1>3. ASSUME NEW t \in Timers, NEW ms \in Delays, NEW b \in BOOLEAN, Reset(t, ms, b)
        PROVE  LifeOf(u)'
    <2>1. /\ m_timers' = m_timers /\ UNCHANGED <<status, m_recurring, m_cb, history>>
      BY <1>3 DEF Reset, addTimer
    <2> QED
      BY <1>0, <2>1 DEF LifeOf
  <1>4. ASSUME NEW t \in Timers, Cancel(t)
        PROVE  LifeOf(u)'
    BY <1>0, <1>4 DEF Cancel, LifeOf, TypeOK
  <1>5. ASSUME NEW t \in Timers, Refresh(t)
        PROVE  LifeOf(u)'
    BY <1>0, <1>5 DEF Refresh, LifeOf
  <1>6. ASSUME NEW t \in Timers, AddTimer(t)
        PROVE  LifeOf(u)'
    <2>1. /\ status[t] = "made" /\ status' = [status EXCEPT ![t] = "in"]
          /\ m_timers' = m_timers \cup {t}
          /\ UNCHANGED <<m_recurring, m_cb, history>>
      BY <1>6 DEF AddTimer, addTimer
    <2> QED
      BY <1>0, <2>1 DEF LifeOf, TypeOK
  <1>7. ASSUME NEW w \in Workers, WorkerStep(w) \/ WakeEvent(w) \/ Interrupt(w)
        PROVE  LifeOf(u)'
    <2>1. CASE Take(w)
      BY <2>1, LivesTake
    <2>2. CASE ~ Take(w)
      <3>1. UNCHANGED <<timer, m_timers, collected, cancelled>>
        BY <1>7, <2>2
           DEF WorkerStep, EnterIdle, GetNextTimer, EpollWait, WakeTickled, WakeTimeout,
               WakeEvent, Interrupt, ReadClock, Peek, Schedule, Yield
      <3> QED
        BY <1>0, <3>1 DEF LifeOf
    <2> QED
      BY <2>1, <2>2
  <1>8. CASE OtherTickle
    BY <1>0, <1>8 DEF OtherTickle, LifeOf
  <1>9. CASE UNCHANGED vars
    BY <1>0, <1>9 DEF vars, LifeOf
  <1> QED
    BY <1>1, <1>2, <1>3, <1>4, <1>5, <1>6, <1>7, <1>8, <1>9 DEF Next, User

(* The lives of all timers, as an invariant of the specification.          *)
LEMMA LivesInvariant == Spec => []Lives
  <1>1. TypeOK /\ Lives /\ [Next]_vars => Lives'
    BY LivesNext
  <1> QED
    BY <1>1, LivesInit, TypeCorrect, PTL DEF Spec

(* An added timer has a callback exactly while it is in m_timers, so that  *)
(* cancel() always finds what it erases.                                   *)
THEOREM CallbacksRegistered == Spec => []CallbackIffRegistered
  <1>1. Lives => CallbackIffRegistered
    BY DEF Lives, LifeOf, CallbackIffRegistered
  <1> QED
    BY <1>1, LivesInvariant, PTL

(* A one-shot timer is collected once at most, and not at all if cancel()  *)
(* returned true.                                                          *)
THEOREM CancelDecides == Spec => []CancelledOrCollected
  <1>1. Lives => CancelledOrCollected
    BY DEF Lives, LifeOf, CancelledOrCollected
  <1> QED
    BY <1>1, LivesInvariant, PTL

-----------------------------------------------------------------------------
(* All workers are busy, and there are some.                               *)
LEMMA CoveredInit == Init => Covered
  BY WorkersAssumption DEF Init, Covered, SomeoneUp

(* Inserting a timer tickles whoever sleeps, unless a tickle is already on *)
(* its way or an earlier timer is there, which somebody wakes up for.      *)
LEMMA CoveredInsert ==
  ASSUME TypeOK, Covered, NEW t \in Timers, addTimer(t),
         UNCHANGED <<pc, looked, next_timeout>>,
         m_next' \in [Timers -> Nat],
         \A u \in m_timers \ {t} : m_next'[u] = m_next[u]
  PROVE  Covered'
  <1>1. SomeoneUp => SomeoneUp'
    BY DEF addTimer, tickle, SomeoneUp
  <1>2. CASE First(m_next', t, m_timers)
    <2>1. SomeoneUp'
      <3>1. CASE m_tickled
        BY <1>1, <3>1 DEF Covered
      <3>2. CASE ~ m_tickled
        <4>1. edge' \/ ~ hasIdleThreads
          BY <1>2, <3>2 DEF addTimer, tickle
        <4>2. ~ hasIdleThreads => \A w \in Workers : pc'[w] = "busy"
          BY DEF hasIdleThreads
        <4> QED
          BY <4>1, <4>2, WorkersAssumption DEF SomeoneUp
      <3> QED
        BY <3>1, <3>2
    <2> QED
      BY <2>1 DEF Covered
  <1>3. CASE ~ First(m_next', t, m_timers)
    <2>1. PICK u \in m_timers \ {t} : ~ Before(m_next', t, u)
      BY <1>3 DEF First
    <2>2. u \in Timers /\ m_next'[u] <= m_next'[t]
      BY <2>1 DEF TypeOK, Before
    <2>3. m_timers' = m_timers \cup {t} /\ m_tickled' = m_tickled
      BY <1>3 DEF addTimer, TypeOK
    <2>4. ASSUME NEW w \in Workers, Aims(w)
          PROVE  Aims(w)'
      <3>1. looked[w] \in Nat /\ next_timeout[w] \in Int
        BY DEF TypeOK
      <3>2. CASE next_timeout[w] = 0
        BY <3>2 DEF Aims
      <3>3. CASE \A v \in m_timers : looked[w] + next_timeout[w] <= m_next[v]
        <4>1. looked[w] + next_timeout[w] <= m_next'[u]
          BY <2>1, <3>3
        <4>2. looked[w] + next_timeout[w] <= m_next'[t]
          BY <2>2, <3>1, <4>1
        <4>3. \A v \in m_timers' : looked[w] + next_timeout[w] <= m_next'[v]
          BY <2>3, <3>3, <4>2
        <4> QED
          BY <2>4, <4>3 DEF Aims
      <3> QED
        BY <2>4, <3>2, <3>3 DEF Aims
    <2>5. SomeoneUp \/ \E w \in Workers : Aims(w)
      BY <2>1 DEF Covered
    <2>6. SomeoneUp' \/ \E w \in Workers : Aims(w)'
      BY <1>1, <2>4, <2>5
    <2>7. m_tickled' => SomeoneUp'
      BY <1>1, <2>3 DEF Covered
    <2> QED
      BY <2>6, <2>7 DEF Covered
  <1> QED
    BY <1>2, <1>3

(* A worker that looks at the timers wakes up for the first of them.       *)
LEMMA CoveredLook ==
  ASSUME DelaysFit, TypeOK, Arming, Covered, NEW w \in Workers, GetNextTimer(w)
  PROVE  Covered'
  <1>1. m_timers' = m_timers /\ m_next' = m_next /\ now' = now /\ ~ m_tickled'
    BY DEF GetNextTimer, ClearTickled, timer
  <1>2. CASE m_timers = {}
    BY <1>1, <1>2 DEF Covered
  <1>3. CASE m_timers # {}
    <2>1. PICK t \in m_timers : First(m_next, t, m_timers) /\ Plan(w, Timeout(TimeLeft(t)))
      BY <1>3 DEF GetNextTimer
    <2>2. t \in Timers /\ now \in Nat /\ m_next \in [Timers -> Nat] /\ m_timers \subseteq Timers
      BY DEF TypeOK
    <2>3. m_ms[t] \in Nat /\ m_ms[t] <= IntMax /\ m_next[t] <= now + m_ms[t]
      <3>1. IntMax \in Nat
        BY WidthsAssumption
      <3>2. m_ms[t] \in Delays \cup {0} /\ m_next[t] <= now + m_ms[t]
        BY <2>2, DelaysAssumption DEF Arming
      <3>3. m_ms[t] \in Nat
        BY <2>2 DEF TypeOK
      <3>4. m_ms[t] <= IntMax
        <4>1. CASE m_ms[t] \in Delays
          BY <4>1 DEF DelaysFit
        <4>2. CASE m_ms[t] = 0
          BY <3>1, <4>2
        <4> QED
          BY <3>2, <4>1, <4>2
      <3> QED
        BY <3>2, <3>3, <3>4
    <2>4. TimeLeft(t) \in Nat /\ TimeLeft(t) <= IntMax
      BY <2>2, <2>3, WidthsAssumption DEF TimeLeft
    <2>5. Timeout(TimeLeft(t)) \in 0 .. TimeLeft(t)
      BY <2>4, TimeoutFits
    <2>6. looked'[w] = now /\ next_timeout'[w] = Timeout(TimeLeft(t))
      BY <2>1 DEF Plan, TypeOK
    <2>7. /\ next_timeout'[w] \in Nat
          /\ next_timeout'[w] = 0 \/ looked'[w] + next_timeout'[w] <= m_next[t]
      BY <2>2, <2>4, <2>5, <2>6 DEF TimeLeft
    <2>8. \A u \in m_timers : m_next[t] <= m_next[u]
      BY <2>1, <2>2 DEF First, Before
    <2>9. next_timeout'[w] = 0 \/ \A u \in m_timers : looked'[w] + next_timeout'[w] <= m_next[u]
      BY <2>2, <2>6, <2>7, <2>8
    <2>10. Aims(w)'
      BY <1>1, <2>7, <2>9 DEF Aims
    <2> QED
      BY <1>1, <2>10 DEF Covered
  <1> QED
    BY <1>2, <1>3

(* No step uncovers the timers: all but an insertion and a look only make  *)
(* them later or fewer, or show that their worker is not asleep.           *)
LEMMA CoveredNext ==
  ASSUME DelaysFit, TypeOK, TypeOK', Arming, Lives, Covered, Waits, [Next]_vars
  PROVE  Covered'
  <1>0. ASSUME UNCHANGED <<pc, looked, next_timeout, edge, m_tickled>>,
               m_timers' \subseteq m_timers,
               \A u \in m_timers : m_next'[u] \in Nat /\ m_next[u] <= m_next'[u]
        PROVE  Covered'
    <2>1. SomeoneUp' = SomeoneUp
      BY <1>0 DEF SomeoneUp
    <2>2. ASSUME NEW w \in Workers, Aims(w)
          PROVE  Aims(w)'
      <3>1. /\ looked[w] \in Nat /\ next_timeout[w] \in Int
            /\ \A u \in m_timers : m_next[u] \in Nat
        BY DEF TypeOK
      <3> QED
        BY <1>0, <2>2, <3>1 DEF Aims
    <2> QED
      BY <1>0, <2>1, <2>2 DEF Covered
  <1>t. /\ now \in Nat /\ m_timers \subseteq Timers
        /\ m_next \in [Timers -> Nat] /\ m_next' \in [Timers -> Nat]
    BY DEF TypeOK
  <1>1. CASE Tick
    BY <1>0, <1>1, <1>t DEF Tick, timer, manager, worker, sleep
  <1>2. ASSUME NEW t \in Timers, NEW ms \in Delays, NEW b \in BOOLEAN, NewTimer(t, ms, b)
        PROVE  Covered'
    <2>1. t \notin m_timers
      BY <1>2 DEF NewTimer, Lives, LifeOf
    <2>2. \A u \in m_timers : m_next'[u] = m_next[u]
      BY <1>2, <1>t, <2>1 DEF NewTimer
    <2> QED
      BY <1>0, <1>2, <1>t, <2>2 DEF NewTimer, manager, worker, sleep
  <1>3. ASSUME NEW t \in Timers, NEW ms \in Delays, NEW b \in BOOLEAN, Reset(t, ms, b)
        PROVE  Covered'
    <2>1. \A u \in m_timers \ {t} : m_next'[u] = m_next[u]
      BY <1>3, <1>t DEF Reset
    <2> QED
      BY <1>3, <1>t, <2>1, CoveredInsert DEF Reset, worker, sleep
  <1>4. ASSUME NEW t \in Timers, Cancel(t)
        PROVE  Covered'
    BY <1>0, <1>4, <1>t DEF Cancel, worker, sleep
  <1>5. ASSUME NEW t \in Timers, Refresh(t)
        PROVE  Covered'
    <2>1. \A u \in m_timers : m_next[u] <= m_next'[u]
      BY <1>5, <1>t DEF Refresh, Arming, TypeOK
    <2> QED
      BY <1>0, <1>5, <1>t, <2>1 DEF Refresh, manager, worker, sleep
  <1>6. ASSUME NEW t \in Timers, AddTimer(t)
        PROVE  Covered'
    BY <1>6, <1>t, CoveredInsert DEF AddTimer, worker, sleep
  <1>7. ASSUME NEW w \in Workers, WorkerStep(w) \/ WakeEvent(w) \/ Interrupt(w)
        PROVE  Covered'
    <2>1. CASE GetNextTimer(w)
      BY <2>1, CoveredLook
    <2>2. CASE EpollWait(w) \/ Interrupt(w)
      <3>1. pc[w] \in {"timed", "waiting"} /\ next_timeout[w] \in 0 .. MaxTimeout
        BY <2>2 DEF EpollWait, Interrupt, Goto, Waits
      <3>2. Again(next_timeout[w]) = next_timeout[w]
        BY <3>1, WidthsAssumption DEF Again
      <3>3. next_timeout' = next_timeout
        BY <2>2, <3>2 DEF EpollWait, Interrupt, SleepFor, TypeOK
      <3>4. UNCHANGED <<m_next, m_timers, m_tickled, looked, edge>>
        BY <2>2 DEF EpollWait, Interrupt, SleepFor, timer, manager
      <3>5. \A v \in Workers : pc'[v] \in {"timed", "waiting"} => pc[v] \in {"timed", "waiting"}
        BY <2>2, <3>1 DEF EpollWait, Interrupt, Goto, TypeOK
      <3>6. SomeoneUp => SomeoneUp'
        BY <3>4, <3>5 DEF SomeoneUp
      <3> QED
        BY <3>3, <3>4, <3>6 DEF Covered, Aims
    <2>3. CASE ~ GetNextTimer(w) /\ ~ EpollWait(w) /\ ~ Interrupt(w)
      <3>1. pc'[w] \in {"busy", "next", "list", "peek", "take", "schedule"}
        BY <1>7, <2>3
           DEF WorkerStep, EnterIdle, WakeTickled, WakeTimeout, WakeEvent,
               ReadClock, Peek, Take, Schedule, Yield, Goto, TypeOK
      <3> QED
        BY <3>1 DEF Covered, SomeoneUp
    <2> QED
      BY <2>1, <2>2, <2>3
  <1>8. CASE OtherTickle
    <2>1. SomeoneUp => SomeoneUp'
      BY <1>8 DEF OtherTickle, tickle, worker, sleep, SomeoneUp
    <2> QED
      BY <1>8, <2>1 DEF OtherTickle, timer, manager, worker, sleep, Covered, Aims
  <1>9. CASE UNCHANGED vars
    BY <1>0, <1>9, <1>t DEF vars, timer, manager, worker, sleep
  <1> QED
    BY <1>1, <1>2, <1>3, <1>4, <1>5, <1>6, <1>7, <1>8, <1>9 DEF Next, User

-----------------------------------------------------------------------------
(* No worker has looked at the timers yet.                                 *)
LEMMA BoundedInit == Init => Waits
  BY DEF Init, Waits

(* std::min bounds the wait from above, DelaysFit keeps it from turning    *)
(* negative.                                                               *)
LEMMA BoundedNext ==
  ASSUME DelaysFit, TypeOK, Arming, Waits, [Next]_vars
  PROVE  Waits'
  <1>t. /\ now \in Nat /\ MaxTimeout \in Nat
        /\ \A w \in Workers : until[w] \in Nat \cup {Never} /\ next_timeout[w] \in Int
    BY WidthsAssumption DEF TypeOK
  <1>1. ASSUME UNCHANGED <<pc, sleep>>, now' \in {now, now + 1}
        PROVE  Waits'
    BY <1>1, <1>t DEF Waits, sleep
  <1>2. CASE Tick \/ OtherTickle \/ UNCHANGED vars
    BY <1>1, <1>2 DEF Tick, OtherTickle, vars, worker, sleep
  <1>3. ASSUME NEW t \in Timers,
               \/ \E ms \in Delays, b \in BOOLEAN : NewTimer(t, ms, b) \/ Reset(t, ms, b)
               \/ Cancel(t) \/ Refresh(t) \/ AddTimer(t)
        PROVE  Waits'
    BY <1>1, <1>3 DEF NewTimer, Reset, Cancel, Refresh, AddTimer, worker, sleep
  <1>4. ASSUME NEW w \in Workers, WorkerStep(w) \/ WakeEvent(w) \/ Interrupt(w)
        PROVE  Waits'
    <2>1. CASE GetNextTimer(w)
      <3>1. PICK timeout \in 0 .. MaxTimeout : Plan(w, timeout)
        <4>1. CASE m_timers = {} /\ Plan(w, MaxTimeout)
          BY <4>1, <1>t
        <4>2. ASSUME NEW t \in m_timers, Plan(w, Timeout(TimeLeft(t)))
              PROVE  \E timeout \in 0 .. MaxTimeout : Plan(w, timeout)
          <5>1. t \in Timers /\ m_next[t] \in Nat /\ IntMax \in Nat
            BY WidthsAssumption DEF TypeOK
          <5>2. m_ms[t] \in Delays \cup {0} /\ m_next[t] <= now + m_ms[t]
            BY <5>1 DEF Arming
          <5>3. m_ms[t] \in Nat /\ m_ms[t] <= IntMax
            BY <5>1, <5>2, DelaysAssumption DEF DelaysFit
          <5>4. TimeLeft(t) \in Nat /\ TimeLeft(t) <= IntMax
            BY <1>t, <5>1, <5>2, <5>3 DEF TimeLeft
          <5>5. Timeout(TimeLeft(t)) \in 0 .. TimeLeft(t) /\ Timeout(TimeLeft(t)) <= MaxTimeout
            BY <5>4, TimeoutFits, TimeoutType
          <5>6. Timeout(TimeLeft(t)) \in 0 .. MaxTimeout
            BY <1>t, <5>4, <5>5
          <5> QED
            BY <4>2, <5>6
        <4> QED
          BY <2>1, <4>1, <4>2 DEF GetNextTimer
      <3>2. now' = now /\ pc' = [pc EXCEPT ![w] = "timed"]
            /\ next_timeout' = [next_timeout EXCEPT ![w] = timeout] /\ until' = until
        BY <2>1, <3>1 DEF Plan, GetNextTimer, Goto
      <3>3. /\ pc'[w] = "timed" /\ next_timeout'[w] = timeout
            /\ \A v \in Workers \ {w} : pc'[v] = pc[v] /\ next_timeout'[v] = next_timeout[v]
        BY <3>2 DEF TypeOK
      <3> QED
        BY <3>1, <3>2, <3>3 DEF Waits
    <2>2. CASE EpollWait(w) \/ Interrupt(w)
      <3>1. pc[w] \in {"timed", "waiting"} /\ next_timeout[w] \in 0 .. MaxTimeout
        BY <2>2 DEF EpollWait, Interrupt, Goto, Waits
      <3>2. Again(next_timeout[w]) = next_timeout[w]
        BY <1>t, <3>1 DEF Again
      <3>3. SleepFor(w, next_timeout[w]) /\ now' = now
        BY <2>2, <3>2 DEF EpollWait, Interrupt
      <3>4. ~ (next_timeout[w] < 0)
        BY <1>t, <3>1
      <3>5. (IF next_timeout[w] < 0 THEN Never ELSE now + next_timeout[w])
              = now + next_timeout[w]
        BY <3>4
      <3>6. until' = [until EXCEPT ![w] = now + next_timeout[w]]
        BY <3>3, <3>5 DEF SleepFor
      <3>7. next_timeout' = next_timeout
        BY <3>3 DEF SleepFor, TypeOK
      <3>8. pc'[w] = "waiting" /\ \A v \in Workers \ {w} : pc'[v] = pc[v]
        BY <2>2 DEF EpollWait, Interrupt, Goto, TypeOK
      <3>9. until'[w] = now + next_timeout[w] /\ \A v \in Workers \ {w} : until'[v] = until[v]
        BY <3>6 DEF TypeOK
      <3>10. until'[w] \in Nat /\ until'[w] <= now + next_timeout[w]
        BY <1>t, <3>1, <3>9
      <3> QED
        BY <3>1, <3>3, <3>7, <3>8, <3>9, <3>10 DEF Waits
    <2>3. CASE ~ GetNextTimer(w) /\ ~ EpollWait(w) /\ ~ Interrupt(w)
      <3>1. now' = now /\ pc'[w] \in {"busy", "next", "list", "peek", "take", "schedule"}
        BY <1>4, <2>3
           DEF WorkerStep, EnterIdle, WakeTickled, WakeTimeout, WakeEvent,
               ReadClock, Peek, Take, Schedule, Yield, Goto, TypeOK
      <3>2. \A v \in Workers \ {w} :
              pc'[v] = pc[v] /\ until'[v] = until[v] /\ next_timeout'[v] = next_timeout[v]
        BY <1>4, <2>3
           DEF WorkerStep, EnterIdle, WakeTickled, WakeTimeout, WakeEvent,
               ReadClock, Peek, Take, Schedule, Yield, Goto, TypeOK, Awake, sleep
      <3> QED
        BY <3>1, <3>2 DEF Waits
    <2> QED
      BY <2>1, <2>2, <2>3
  <1> QED
    BY <1>2, <1>3, <1>4 DEF Next, User

(* The waits, as an invariant of the specification.                        *)
LEMMA WaitsInvariant == ASSUME DelaysFit PROVE Spec => []Waits
  <1>1. TypeOK /\ Arming /\ Waits /\ [Next]_vars => Waits'
    BY BoundedNext
  <1> QED
    BY <1>1, TypeAndArming, BoundedInit, PTL DEF Spec

(* With delays an int can hold, no wait is longer than MAX_TIMEOUT.        *)
THEOREM WaitsBounded == ASSUME DelaysFit PROVE Spec => []WaitBounded
  <1>1. ASSUME TypeOK, Waits, NEW w \in Workers, pc[w] = "waiting"
        PROVE  until[w] # Never /\ until[w] <= now + MaxTimeout
    <2>1. /\ until[w] \in Nat /\ until[w] <= now + next_timeout[w]
          /\ next_timeout[w] \in 0 .. MaxTimeout
      BY <1>1 DEF Waits
    <2>2. now \in Nat /\ MaxTimeout \in Nat
      BY <1>1, WidthsAssumption DEF TypeOK
    <2> QED
      BY <2>1, <2>2 DEF Never
  <1>2. TypeOK /\ Waits => WaitBounded
    BY <1>1 DEF WaitBounded
  <1> QED
    BY <1>2, TypeCorrect, WaitsInvariant, PTL

(* A worker that was told to be back in time is, but for the time between  *)
(* its asking and its epoll_wait.                                          *)
LEMMA AimsInTime ==
  ASSUME TypeOK, Waits, NEW w \in Workers, pc[w] = "waiting", Aims(w)
  PROVE  WakesInTime(w)
  <1>1. /\ until[w] \in Nat /\ until[w] <= now + next_timeout[w]
        /\ next_timeout[w] \in Nat /\ looked[w] \in Nat /\ now \in Nat
    BY WidthsAssumption DEF Waits, TypeOK
  <1>2. until[w] # Never
    BY <1>1 DEF Never
  <1>3. CASE next_timeout[w] = 0
    BY <1>1, <1>2, <1>3 DEF WakesInTime
  <1>4. CASE \A t \in m_timers : looked[w] + next_timeout[w] <= m_next[t]
    <2>1. ASSUME NEW t \in m_timers
          PROVE  until[w] <= m_next[t] + (Began(w) - looked[w])
      <3>1. m_next[t] \in Nat /\ looked[w] + next_timeout[w] <= m_next[t]
        BY <1>4 DEF TypeOK
      <3>2. Began(w) = until[w] - next_timeout[w]
        BY DEF Began
      <3> QED
        BY <1>1, <3>1, <3>2
    <2> QED
      BY <1>2, <2>1 DEF WakesInTime
  <1> QED
    BY <1>3, <1>4 DEF Aims

(* No timer is slept over: with delays an int can hold, the suppressed     *)
(* tickles, the pipe that one worker empties for all and the workers that  *)
(* went to sleep earlier leave somebody who wakes up for the first timer,  *)
(* no later than he began his wait after he had asked for it.              *)
THEOREM TimersCovered == ASSUME DelaysFit PROVE Spec => []WakeCovered
  <1>1. TypeOK /\ TypeOK' /\ Arming /\ Lives /\ Waits /\ Covered /\ [Next]_vars => Covered'
    BY CoveredNext
  <1>2. TypeOK /\ Waits /\ Covered => WakeCovered
    <2> SUFFICES ASSUME TypeOK, Waits, Covered,
                        m_timers # {}, ~ edge, \A w \in Workers : pc[w] = "waiting"
                 PROVE  \E w \in Workers : WakesInTime(w)
      BY DEF WakeCovered
    <2>1. ~ SomeoneUp
      BY DEF SomeoneUp
    <2>2. PICK w \in Workers : Aims(w)
      BY <2>1 DEF Covered
    <2> QED
      BY <2>2, AimsInTime
  <1>3. Init => Covered
    BY CoveredInit
  <1> QED
    BY <1>1, <1>2, <1>3, TypeAndArming, LivesInvariant, WaitsInvariant, PTL DEF Spec

-----------------------------------------------------------------------------
(* The clock starts within its bounds.                                     *)
LEMMA ClockInit == PastFirstHour => (Init => Clock)
  <1> SUFFICES ASSUME PastFirstHour, Init
               PROVE  Clock
    OBVIOUS
  <1> QED
    BY ClockAssumption DEF Init, Clock, PastFirstHour

(* Readings of the clock are carried from now to now_ms to m_previouseTime *)
(* and stay within the bounds.                                             *)
LEMMA ClockNext ==
  ASSUME TypeOK, StartTime <= now, Clock, [Next]_vars
  PROVE  Clock' /\ StartTime <= now'
  <1> USE ClockAssumption DEF TypeOK, Clock, manager, worker, sleep
  <1>1. CASE Tick
    BY <1>1 DEF Tick
  <1>2. ASSUME UNCHANGED <<now, m_previouseTime, pc, now_ms>>
        PROVE  Clock' /\ StartTime <= now'
    BY <1>2
  <1>3. ASSUME NEW t \in Timers,
               \/ \E ms \in Delays, b \in BOOLEAN : NewTimer(t, ms, b) \/ Reset(t, ms, b)
               \/ Cancel(t) \/ Refresh(t) \/ AddTimer(t)
        PROVE  Clock' /\ StartTime <= now'
    BY <1>2, <1>3 DEF NewTimer, Reset, Cancel, Refresh, AddTimer
  <1>4. ASSUME NEW w \in Workers, WorkerStep(w) \/ WakeEvent(w) \/ Interrupt(w)
        PROVE  Clock' /\ StartTime <= now'
    <2>1. CASE ReadClock(w)
      BY <2>1 DEF ReadClock, Goto
    <2>2. CASE Peek(w)
      BY <2>2 DEF Peek, Goto
    <2>3. CASE Take(w)
      BY <2>3 DEF Take, Goto
    <2>4. CASE ~ ReadClock(w) /\ ~ Peek(w) /\ ~ Take(w)
      BY <1>4, <2>4
         DEF WorkerStep, EnterIdle, GetNextTimer, EpollWait, WakeTickled, WakeTimeout,
             WakeEvent, Interrupt, Schedule, Yield, Goto
    <2> QED
      BY <2>1, <2>2, <2>3, <2>4
  <1>5. CASE OtherTickle \/ UNCHANGED vars
    BY <1>2, <1>5 DEF OtherTickle, vars
  <1> QED
    BY <1>1, <1>3, <1>4, <1>5 DEF Next, User

(* For a reading that is no older than that, the margin of an hour is one. *)
LEMMA ClockRules ==
  ASSUME PastFirstHour, TypeOK, Arming, Clock,
         NEW w \in Workers, pc[w] = "take", UpToDate(w)
  PROVE  ~ detectClockRollover(now_ms[w]) /\ now_ms[w] \in Nat /\ now_ms[w] <= now
  <1>1. /\ {now_ms[w], now, m_previouseTime, Hour, StartTime, EndTime, Word} \subseteq Nat
        /\ StartTime <= now_ms[w] /\ now_ms[w] <= now
        /\ m_previouseTime <= now /\ now <= EndTime /\ StartTime <= m_previouseTime
    BY ClockAssumption, WidthsAssumption DEF TypeOK, Arming, Clock
  <1>2. StartTime >= Hour /\ EndTime < Word /\ now - now_ms[w] <= Hour
    BY DEF PastFirstHour, UpToDate
  <1>3. m_previouseTime - Hour \in Nat /\ m_previouseTime - Hour < Word /\ Word \in Nat \ {0}
    BY <1>1, <1>2
  <1>4. (m_previouseTime - Hour) % Word = m_previouseTime - Hour
    BY <1>3, ModSmall
  <1>5. ~ (now_ms[w] < m_previouseTime - Hour)
    BY <1>1, <1>2
  <1> QED
    BY <1>1, <1>4, <1>5 DEF detectClockRollover

(* The bounds on the clock, as an invariant of the specification.          *)
LEMMA ClockInvariant == ASSUME PastFirstHour PROVE Spec => [](Clock /\ StartTime <= now)
  <1>1. Init => StartTime <= now
    BY ClockAssumption DEF Init
  <1>2. TypeOK /\ (Clock /\ StartTime <= now) /\ [Next]_vars => (Clock /\ StartTime <= now)'
    BY ClockNext
  <1> QED
    BY <1>1, <1>2, ClockInit, TypeCorrect, PTL DEF Spec

(* When the host had been up for an hour before the manager was made, no   *)
(* reading of the clock that a worker was overtaken with is taken for a    *)
(* step back, be it not older than an hour itself.                         *)
THEOREM ClockNeverBack == ASSUME PastFirstHour PROVE Spec => []NoRollover
  <1>1. TypeOK /\ Arming /\ Clock => NoRollover
    BY ClockRules DEF NoRollover
  <1> QED
    BY <1>1, ClockInvariant, TypeAndArming, PTL

(* Only listExpiredCb() ends a worker's wait for m_mutex, and it takes the *)
(* timers that are due by a time that has come.                            *)
LEMMA CollectsDueStep ==
  ASSUME PastFirstHour, TypeOK, Arming, Clock, [Next]_vars
  PROVE  CollectsDue
  <1> SUFFICES ASSUME NEW w \in Workers, NEW t \in m_timers,
                      pc[w] = "take", pc'[w] # "take", UpToDate(w),
                      t \notin m_timers' \/ m_next'[t] # m_next[t]
               PROVE  m_next[t] <= now
    BY DEF CollectsDue
  <1>1. Take(w)
    <2>1. CASE Tick \/ OtherTickle \/ UNCHANGED vars
      BY <2>1 DEF Tick, OtherTickle, vars, worker, sleep
    <2>2. ASSUME NEW u \in Timers,
                 \/ \E ms \in Delays, b \in BOOLEAN : NewTimer(u, ms, b) \/ Reset(u, ms, b)
                 \/ Cancel(u) \/ Refresh(u) \/ AddTimer(u)
          PROVE  FALSE
      BY <2>2 DEF NewTimer, Reset, Cancel, Refresh, AddTimer, worker, sleep
    <2>3. ASSUME NEW v \in Workers, WorkerStep(v) \/ WakeEvent(v) \/ Interrupt(v)
          PROVE  v = w /\ Take(v)
      <3>1. v = w
        BY <2>3
           DEF WorkerStep, EnterIdle, GetNextTimer, EpollWait, WakeTickled, WakeTimeout,
               WakeEvent, Interrupt, ReadClock, Peek, Take, Schedule, Yield, Goto, TypeOK
      <3> QED
        BY <2>3, <3>1
           DEF WorkerStep, EnterIdle, GetNextTimer, EpollWait, WakeTickled, WakeTimeout,
               WakeEvent, Interrupt, ReadClock, Peek, Schedule, Yield, Goto
    <2> QED
      BY <2>1, <2>2, <2>3 DEF Next, User
  <1>2. ~ detectClockRollover(now_ms[w]) /\ now_ms[w] \in Nat /\ now_ms[w] <= now
    BY ClockRules
  <1>3. Expired(now_ms[w]) = {u \in m_timers : m_next[u] <= now_ms[w]}
    BY <1>2 DEF Expired
  <1>4. t \in Timers /\ now \in Nat /\ m_next[t] \in Nat
    BY DEF TypeOK
  <1>5. t \in Expired(now_ms[w])
    <2> DEFINE expired == Expired(now_ms[w])
    <2>1. /\ m_timers' = m_timers \ {u \in expired : ~ m_recurring[u]}
          /\ m_next' = [u \in Timers |->
                          IF u \in expired /\ m_recurring[u]
                          THEN now_ms[w] + m_ms[u] ELSE m_next[u]]
      BY <1>1 DEF Take
    <2> HIDE DEF expired
    <2>2. t \in expired
      BY <1>4, <2>1
    <2> QED
      BY <2>2 DEF expired
  <1> QED
    BY <1>2, <1>3, <1>4, <1>5

(* When the host had been up for an hour before the manager was made, no   *)
(* timer is ever collected before its time by a worker whose reading of    *)
(* the clock is not older than an hour, however many overtook it.          *)
THEOREM NoTimerEarly == ASSUME PastFirstHour PROVE Spec => NeverEarly
  <1>1. TypeOK /\ Arming /\ Clock /\ [Next]_vars => [CollectsDue]_vars
    BY CollectsDueStep
  <1> QED
    BY <1>1, ClockInvariant, TypeAndArming, PTL DEF Spec, NeverEarly
=============================================================================
