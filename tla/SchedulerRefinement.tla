------------------------- MODULE SchedulerRefinement -------------------------
(***************************************************************************)
(* Scheduler implements TaskPool.  Where a task is in the code gives its   *)
(* status in the pool: in m_tasks it is queued, on a worker whose fiber    *)
(* has not yielded it is running, and it is awaited as an event, in        *)
(* m_timers, or as a callback that idle() has taken out of m_timers and    *)
(* not scheduled yet.  A task that was taken on and is nowhere is lost,    *)
(* which no task of the pool can be.                                       *)
(***************************************************************************)
EXTENDS Scheduler

Running(t) == \E w \in Workers : task[w] = t /\ pc[w] = "run"
Awaited(t) == t \in events \cup timers
Handed(t)  == t \in Callbacks /\ \E w \in Workers : t \in hand[w]

Status(t) ==
  CASE t \in over              -> "over"
    [] Queued(t)               -> "queued"
    [] Running(t)              -> "running"
    [] Awaited(t) \/ Handed(t) -> "awaited"
    [] t \notin used           -> "fresh"
    [] OTHER                   -> "lost"

Pool == INSTANCE TaskPool WITH status <- [t \in Tasks |-> Status(t)],
                               runs <- task, closed <- AllLeft

(* The queue, the timers, the events, the hands of idle() and the counters *)
(* that stopping() reads are invisible to whoever gives tasks: each step   *)
(* of any worker takes one task from one status to the next, or none, and  *)
(* the workers leave only when all of them are over.                       *)
ImplementsTaskPool == Pool!Spec
=============================================================================
