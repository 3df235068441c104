------------------------------ MODULE TaskPool ------------------------------
(***************************************************************************)
(* What the Scheduler promises whoever gives it tasks: every task that it  *)
(* takes on is in one of a few states, one worker at most is on it, and    *)
(* when the workers are gone, every task that was given has run, unless a  *)
(* timer or an event came too late for them to see it.                     *)
(***************************************************************************)
CONSTANTS
  Tasks,       (* fibers and callbacks                                     *)
  Workers,     (* threads that run them                                    *)
  NoTask       (* what a worker is on that is on no task                   *)

VARIABLES
  status,      (* of each task                                             *)
  runs,        (* the task each worker is on                               *)
  late,        (* a timer or an event may have come too late               *)
  closed       (* the workers are gone                                     *)

vars == <<status, runs, late, closed>>

Init ==
  /\ status = [t \in Tasks |-> "fresh"]
  /\ runs = [w \in Workers |-> NoTask]
  /\ late = FALSE
  /\ closed = FALSE

Becomes(t, from, to) ==
  /\ ~ closed /\ closed' = FALSE
  /\ status[t] = from
  /\ status' = [status EXCEPT ![t] = to]

MayBeLate == late' \in {late, TRUE}

(* A new task is scheduled, or waits for its timer.                        *)
Submit(t) == Becomes(t, "fresh", "queued") /\ UNCHANGED <<runs, late>>

Arm(t) == Becomes(t, "fresh", "awaited") /\ MayBeLate /\ UNCHANGED runs

(* The timer or the event that it waited for comes.                        *)
Trigger(t) == Becomes(t, "awaited", "queued") /\ UNCHANGED <<runs, late>>

(* A worker that is on no task takes one that no worker is on any more.    *)
Take(w, t) ==
  /\ runs[w] = NoTask
  /\ \A v \in Workers : runs[v] # t
  /\ Becomes(t, "queued", "running")
  /\ runs' = [runs EXCEPT ![w] = t]
  /\ UNCHANGED late

(* The task schedules itself, waits for an event, or ends; its worker may  *)
(* be on it a while longer.                                                *)
Requeue(w) == Becomes(runs[w], "running", "queued") /\ UNCHANGED <<runs, late>>

Await(w) == Becomes(runs[w], "running", "awaited") /\ MayBeLate /\ UNCHANGED runs

Finish(w) ==
  /\ Becomes(runs[w], "running", "over")
  /\ runs' \in {runs, [runs EXCEPT ![w] = NoTask]}
  /\ UNCHANGED late

Release(w) ==
  /\ ~ closed /\ closed' = FALSE
  /\ status[runs[w]] # "running"
  /\ runs' = [runs EXCEPT ![w] = NoTask]
  /\ UNCHANGED <<status, late>>

Close ==
  /\ ~ closed /\ closed' = TRUE
  /\ runs = [w \in Workers |-> NoTask]
  /\ late \/ \A t \in Tasks : status[t] \in {"fresh", "over"}
  /\ UNCHANGED <<status, runs, late>>

Work(w) ==
  /\ runs[w] # NoTask
  /\ Requeue(w) \/ Await(w) \/ Finish(w) \/ Release(w)

Next ==
  \/ \E t \in Tasks : Submit(t) \/ Arm(t) \/ Trigger(t)
  \/ \E w \in Workers : Work(w) \/ \E t \in Tasks : Take(w, t)
  \/ Close

Spec == Init /\ [][Next]_vars
=============================================================================
