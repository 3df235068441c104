--------------------------- MODULE CountDownLatch ---------------------------
(***************************************************************************)
(* CountDownLatch.{h,cpp} over the Condition and the MutexLock it owns.    *)
(* A latch is a record: `count` is count_, `asleep` the threads that sleep *)
(* on condition_.  wait() and countDown() hold mutex_ from end to end but  *)
(* for the sleep, so each of their stretches is one operation here.        *)
(***************************************************************************)
EXTENDS Integers

NewLatch(n) == [count |-> n, asleep |-> {}]

(* The condition of wait()'s loop is false: the caller returns.            *)
Open(latch) == latch.count <= 0

(* pthread_cond_wait: thread t sleeps, and gives mutex_ up.                *)
FallAsleep(latch, t) == [latch EXCEPT !.asleep = @ \cup {t}]

(* MUTANT of countDown: the count falls and nobody is notified.            *)
countDown_Silent(latch) == [latch EXCEPT !.count = @ - 1]

(* notifyAll() wakes all sleepers once the count has come to 0.            *)
countDown(latch) ==
  [count  |-> latch.count - 1,
   asleep |-> IF latch.count - 1 = 0 THEN {} ELSE latch.asleep]
=============================================================================
