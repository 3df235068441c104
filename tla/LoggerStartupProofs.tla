------------------------- MODULE LoggerStartupProofs -------------------------
(***************************************************************************)
(* Proofs of LoggerStartup's safety properties, for any threads that log.  *)
(***************************************************************************)
EXTENDS LoggerStartup, TLAPS

-----------------------------------------------------------------------------
(* once_init() is run by one thread, while pthread_once says so.           *)
Initialising == {"construct", "setRunning", "create", "waitThread", "asleepThread",
                 "waitAsync", "asleepAsync", "onceDone"}

Runs(l) == pc[l] \in Initialising

OneInitialises ==
  /\ \A k, l \in Loggers : Runs(k) /\ Runs(l) => k = l
  /\ \A l \in Loggers : Runs(l) => once = "running"
  /\ \A l \in Loggers : pc[l] = "append" => once = "done"

(* A thread of the back end is what pthread_create has made, and the two   *)
(* latches tell how far it has come.                                       *)
LatchesTell ==
  /\ created = IF backEnd = "none" THEN 0 ELSE 1
  /\ threadLatch.count = IF backEnd \in {"enter", "loop"} THEN 0 ELSE 1
  /\ asyncLatch.count = IF backEnd = "loop" THEN 0 ELSE 1

(* What a thread has done of once_init() where it stands; waiting for the  *)
(* back end there may be none, when pthread_create has failed.             *)
Untouched == constructed = 0 /\ created = 0
Ready     == constructed = 1 /\ created = 1 /\ started /\ running /\ backEnd = "loop"

StepsDone ==
  /\ once = "unset" => Untouched
  /\ once = "done" => Ready
  /\ \A l \in Loggers :
       /\ pc[l] = "construct" => Untouched
       /\ pc[l] \in Initialising \ {"construct"} => constructed = 1
       /\ pc[l] \in {"setRunning", "create"} => created = 0
       /\ pc[l] \in Initialising \ {"construct", "setRunning"} => running
       /\ pc[l] \in {"waitThread", "asleepThread"} => created = 1 /\ started
       /\ pc[l] \in {"waitAsync", "asleepAsync"} => (created = 1 => started)
       /\ pc[l] = "onceDone" => Ready

IInv == TypeOK /\ OneInitialises /\ LatchesTell /\ StepsDone

-----------------------------------------------------------------------------
(* A latch for one event has yet to be counted down ...                    *)
LEMMA NewLatchCounts == NewLatch(1) \in Latch /\ NewLatch(1).count = 1
  BY DEF NewLatch, Latch

(* ... and a thread that sleeps on one counts nothing.                     *)
LEMMA FallAsleepCounts ==
  ASSUME NEW latch \in Latch, NEW l \in Loggers
  PROVE  FallAsleep(latch, l) \in Latch /\ FallAsleep(latch, l).count = latch.count
  BY DEF FallAsleep, Latch

(* At first no thread logs, and there is no logger.                        *)
LEMMA IInvInit == Init => IInv
  <1>1. NewLatch(1) \in Latch /\ NewLatch(1).count = 1
    BY NewLatchCounts
  <1> SUFFICES ASSUME Init
               PROVE  IInv
    OBVIOUS
  <1>2. TypeOK
    <2>1. threadLatch \in Latch /\ asyncLatch \in Latch
      BY <1>1 DEF Init
    <2>2. constructed \in 0 .. 1 /\ created \in 0 .. 1
      BY DEF Init
    <2>3. running \in BOOLEAN /\ started \in BOOLEAN /\ tid \in BOOLEAN
      BY DEF Init
    <2> QED
      BY <2>1, <2>2, <2>3 DEF Init, TypeOK
  <1>3. OneInitialises /\ LatchesTell /\ StepsDone
    BY <1>1 DEF Init, OneInitialises, Runs, Initialising, LatchesTell, StepsDone, Untouched
  <1> QED
    BY <1>2, <1>3 DEF IInv

(* A step of a thread that logs.                                           *)
LEMMA LoggerStep ==
  ASSUME IInv, NEW l \in Loggers,
         \/ Output(l) \/ StartUp(l) \/ CreateThread(l) \/ CreateFails(l)
  PROVE  IInv'
  <1> USE DEF IInv, TypeOK, OneInitialises, Runs, Initialising, LatchesTell, StepsDone,
              Untouched, Ready, Latch, Goto, thread
  <1>1. CASE Output(l) \/ PassOnce(l) \/ AppendLine(l)
    BY <1>1 DEF Output, PassOnce, AppendLine
  <1>2. CASE EnterOnce(l)
    BY <1>2 DEF EnterOnce
  <1>3. CASE Construct(l)
    <2>1. threadLatch' = NewLatch(1) /\ asyncLatch' = NewLatch(1)
      BY <1>3 DEF Construct
    <2>2. /\ threadLatch' \in Latch /\ threadLatch'.count = 1
          /\ asyncLatch' \in Latch /\ asyncLatch'.count = 1
      BY <2>1, NewLatchCounts
    <2>3. /\ pc' \in [Loggers -> Initialising \cup {"idle", "once", "append"}]
          /\ constructed' \in 0 .. 1
      BY <1>3 DEF Construct
    <2>4. TypeOK'
      BY <1>3, <2>2, <2>3 DEF Construct
    <2>5. OneInitialises' /\ LatchesTell'
      BY <1>3, <2>2 DEF Construct
    <2>6. StepsDone'
      BY <1>3 DEF Construct
    <2> QED
      BY <2>4, <2>5, <2>6
  <1>4. CASE SetRunning(l)
    BY <1>4 DEF SetRunning
  <1>5. CASE CreateThread(l)
    BY <1>5 DEF CreateThread
  <1>6. CASE CreateFails(l)
    <2>1. TypeOK'
      BY <1>6 DEF CreateFails
    <2>2. OneInitialises' /\ LatchesTell'
      BY <1>6 DEF CreateFails
    <2>3. StepsDone'
      BY <1>6 DEF CreateFails
    <2> QED
      BY <2>1, <2>2, <2>3
  <1>7. CASE WaitThread(l)
    <2>1. threadLatch' \in Latch /\ threadLatch'.count = threadLatch.count
      BY <1>7, FallAsleepCounts DEF WaitThread
    <2> QED
      BY <1>7, <2>1 DEF WaitThread, Open
  <1>8. CASE WaitAsync(l)
    BY <1>8 DEF WaitAsync, Open, FallAsleep
  <1>9. CASE WakeThread(l) \/ WakeAsync(l)
    BY <1>9 DEF WakeThread, WakeAsync
  <1>10. CASE LeaveOnce(l)
    BY <1>10 DEF LeaveOnce
  <1> QED
    BY <1>1, <1>2, <1>3, <1>4, <1>5, <1>6, <1>7, <1>8, <1>9, <1>10 DEF StartUp

(* A spurious wakeup changes who sleeps, and no count.                     *)
LEMMA SpuriousStep ==
  ASSUME IInv, NEW l \in Loggers, Spurious(l)
  PROVE  IInv'
  BY DEF Spurious, IInv, TypeOK, OneInitialises, Runs, Initialising, LatchesTell, StepsDone,
         Untouched, Ready, Latch, thread

(* A step of the back-end thread.                                          *)
LEMMA BackEndStep ==
  ASSUME IInv, BackEnd
  PROVE  IInv'
  <1> USE DEF IInv, TypeOK, OneInitialises, Runs, Initialising, LatchesTell, StepsDone,
              Untouched, Ready, Latch, thread
  <1>1. CASE SetTid
    BY <1>1 DEF SetTid
  <1>2. CASE CountThread
    BY <1>2 DEF CountThread, countDown
  <1>3. CASE CountAsync
    BY <1>3 DEF CountAsync, countDown
  <1> QED
    BY <1>1, <1>2, <1>3 DEF BackEnd

(* The parts of the invariant, together, are inductive.                    *)
LEMMA IInvNext == IInv /\ [Next]_vars => IInv'
  <1> SUFFICES ASSUME IInv, [Next]_vars
               PROVE  IInv'
    OBVIOUS
  <1>1. CASE UNCHANGED vars
    BY <1>1 DEF vars, thread, IInv, TypeOK, OneInitialises, Runs, LatchesTell, StepsDone,
                Untouched, Ready
  <1>2. CASE Next
    BY <1>2, LoggerStep, SpuriousStep, BackEndStep DEF Next
  <1> QED
    BY <1>1, <1>2

(* So it holds in every state.                                             *)
LEMMA IInvInvariant == Spec => []IInv
  BY IInvInit, IInvNext, PTL DEF Spec

(* Types: one logger and one back-end thread are made, and no latch is     *)
(* counted below 0, however many threads log their first line at once.     *)
THEOREM TypeCorrect == Spec => []TypeOK
  <1>1. IInv => TypeOK
    BY DEF IInv
  <1> QED
    BY <1>1, IInvInvariant, PTL

(* Whoever gets to AsyncLogger_->append() finds the one logger with its    *)
(* back end in threadFunc().                                               *)
THEOREM NobodyTooEarly == Spec => []AppendWhenReady
  <1>1. IInv => AppendWhenReady
    BY DEF IInv, AppendWhenReady, OneInitialises, StepsDone, Ready
  <1> QED
    BY <1>1, IInvInvariant, PTL
=============================================================================
