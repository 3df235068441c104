-------------------------------- MODULE HookedIO --------------------------------
(***************************************************************************)
(* do_io() of hook.cpp: a read of a fiber that waits for an event and, if  *)
(* its descriptor has a timeout, for a timer whose callback cancels the    *)
(* event.  Two fibers do not wait for one descriptor at once: IOManager    *)
(* asserts that (iomanager.cpp 127).                                       *)
(*                                                                         *)
(* The other components appear as what they promise: a timer is collected  *)
(* once, or cancelled before that (TimerManager: CancelledOrCollected); a  *)
(* registered event ends once, by its trigger or by a cancelEvent()        *)
(* (IOManager: FateFinal); a scheduled fiber is resumed when it has        *)
(* yielded (Scheduler: FiberOnce).  A collected callback is a task that    *)
(* runs at any time, or is destroyed instead, as run() does with every     *)
(* callback at this commit; and an event that comes for one fiber alone    *)
(* ends the process (IOManager: TriggersRegistered).  Calls that do_io()   *)
(* passes on (no hook, no context, not a socket, nonblocking for its user) *)
(* change nothing here; m_isClosed is never set.                           *)
(***************************************************************************)
EXTENDS FdManager

CONSTANTS
  MaxCalls,      (* BOUND: calls of do_io() by one fiber                   *)
  MaxTimers      (* BOUND: timers made by one fiber                        *)

ASSUME HookBoundsAssumption == MaxCalls \in Nat /\ MaxTimers \in Nat

NoFd    == -1
NoFiber == "none"

ASSUME FibersAssumption == NoFiber \notin Fibers

VARIABLES
  pc,            (* where each fiber is in do_io()                         *)
  fd,            (* its descriptor                                         *)
  to,            (* whether `to` is a timeout, and not -1                  *)
  calls,         (* how many calls it has begun; with it the number of the *)
                 (* call's timer_info                                      *)
  cancelled,     (* tinfo->cancelled is ETIMEDOUT                          *)
  timer,         (* its Timer: "none", "armed", "cancelled", "collected"   *)
  timers,        (* how many timers it has made                            *)
  callbacks,     (* callbacks of collected timers, each with the fiber and *)
                 (* call of its winfo, its timer and how far it has got    *)
  waiter,        (* per descriptor, the fiber in its EventContext          *)
  scheduled,     (* fibers scheduled and not yet resumed                   *)
  locked,        (* descriptors whose FdContext idle() has locked between  *)
                 (* its two triggers                                       *)
  process,       (* "up", or how it ended                                  *)
  wanted, lost,  (* history: descriptors whose user has set a timeout, and *)
                 (* those with two contexts made by gets that overlapped;  *)
  owed, expired, (* fibers that began their call on a wanted one, of whose *)
  dropped        (* call a timer was due, and had its callback destroyed   *)

local == <<pc, fd, to, calls, cancelled, timer, timers>>
rest  == <<callbacks, waiter, scheduled, locked, process>>
ghost == <<wanted, lost, owed, expired, dropped>>
vars  == <<fdvars, local, rest, ghost>>

Init ==
  /\ FdInit
  /\ pc = [f \in Fibers |-> "out"]
  /\ fd = [f \in Fibers |-> NoFd]
  /\ to = [f \in Fibers |-> FALSE]
  /\ calls = [f \in Fibers |-> 0]
  /\ cancelled = [f \in Fibers |-> FALSE]
  /\ timer = [f \in Fibers |-> "none"]
  /\ timers = [f \in Fibers |-> 0]
  /\ callbacks = {}
  /\ waiter = [d \in Fds |-> NoFiber]
  /\ scheduled = {}
  /\ locked = {}
  /\ process = "up"
  /\ wanted = {}
  /\ lost = {}
  /\ owed = {}
  /\ expired = {}
  /\ dropped = {}

Goto(f, from, next) == pc[f] = from /\ pc' = [pc EXCEPT ![f] = next]

-----------------------------------------------------------------------------
(* Outside do_io(): a fiber opens a descriptor, sets its timeout, closes   *)
(* it.                                                                     *)
Open(f) ==
  /\ pc[f] = "out"
  /\ \/ \E d \in Fds : GetFinds(f, d) \/ GetMisses(f, d)
     \/ GetMakes(f)
  /\ lost' = lost \cup {d \in Fds : m_datas[d] # 0 /\ m_datas'[d] # m_datas[d]}
  /\ UNCHANGED <<local, rest, wanted, owed, expired, dropped>>

Configure(f) ==
  /\ pc[f] = "out"
  /\ SetTimeout(f)
  /\ wanted' = wanted \cup {hold[f][1]}
  /\ UNCHANGED <<local, rest, lost, owed, expired, dropped>>

Close(d) ==
  /\ \A f \in Fibers : pc[f] = "out" \/ fd[f] # d
  /\ del(d)
  /\ wanted' = wanted \ {d}
  /\ lost' = lost \ {d}
  /\ UNCHANGED <<local, rest, owed, expired, dropped>>

-----------------------------------------------------------------------------
(* do_io() gets the context and its timeout and makes a timer_info.        *)
Begin(f, d) ==
  /\ calls[f] < MaxCalls
  /\ making[f] = -1
  /\ get(d) # 0
  /\ \A g \in Fibers : pc[g] = "out" \/ fd[g] # d
  /\ Goto(f, "out", "retry")
  /\ fd' = [fd EXCEPT ![f] = d]
  /\ to' = [to EXCEPT ![f] = <<d, get(d)>> \in timed]
  /\ calls' = [calls EXCEPT ![f] = @ + 1]
  /\ timer' = [timer EXCEPT ![f] = "none"]
  /\ owed' = IF d \in wanted THEN owed \cup {f} ELSE owed \ {f}
  /\ UNCHANGED <<fdvars, cancelled, timers, rest, wanted, lost, expired, dropped>>

(* The call is over, and with it its timer_info.                           *)
Return(f, from) ==
  /\ Goto(f, from, "out")
  /\ fd' = [fd EXCEPT ![f] = NoFd]
  /\ to' = [to EXCEPT ![f] = FALSE]
  /\ cancelled' = [cancelled EXCEPT ![f] = FALSE]
  /\ owed' = owed \ {f}
  /\ expired' = expired \ {f}
  /\ dropped' = dropped \ {f}
  /\ UNCHANGED <<fdvars, calls, timers, rest, wanted, lost>>

(* retry: the system call, repeated for EINTR.  It succeeds or fails, ...  *)
CallReturns(f) == Return(f, "retry") /\ UNCHANGED timer

(* MUTANT of NeedsTimer: the timer is made for the first try only.         *)
NeedsTimer_Once(f) == to[f] /\ timer[f] = "none"

NeedsTimer(f) == to[f]

(* ... or says EAGAIN: a timer is made, if there is a timeout, ...         *)
WouldBlock(f) ==
  /\ Goto(f, "retry", "add")
  /\ IF NeedsTimer(f)
     THEN /\ timers[f] < MaxTimers
          /\ timers' = [timers EXCEPT ![f] = @ + 1]
          /\ timer' = [timer EXCEPT ![f] = "armed"]
     ELSE UNCHANGED timers /\ timer' = [timer EXCEPT ![f] = "none"]
  /\ UNCHANGED <<fdvars, fd, to, calls, cancelled, rest, ghost>>

(* ... and the event is added, for which the fiber then yields.            *)
AddEvent(f) ==
  /\ fd[f] \notin locked
  /\ Goto(f, "add", "yield")
  /\ waiter' = [waiter EXCEPT ![fd[f]] = f]
  /\ UNCHANGED <<fdvars, fd, to, calls, cancelled, timer, timers, callbacks,
                 scheduled, locked, process, ghost>>

(* timer->cancel(), without effect on a timer that was collected.          *)
Cancelled(f) == IF timer[f] = "armed" THEN "cancelled" ELSE timer[f]

(* addEvent() fails.                                                       *)
AddEventFails(f) ==
  /\ Return(f, "add")
  /\ timer' = [timer EXCEPT ![f] = Cancelled(f)]

Resume(f) ==
  /\ f \in scheduled
  /\ Goto(f, "yield", "check")
  /\ scheduled' = scheduled \ {f}
  /\ timer' = [timer EXCEPT ![f] = Cancelled(f)]
  /\ UNCHANGED <<fdvars, fd, to, calls, cancelled, timers, callbacks, waiter, locked,
                 process, ghost>>

(* What tinfo->cancelled says decides (the callback of a timer that was    *)
(* collected may set it before or after): ETIMEDOUT, ...                   *)
TimedOut(f) == cancelled[f] /\ Return(f, "check") /\ UNCHANGED timer

(* ... or the next try.                                                    *)
Retry(f) ==
  /\ ~ cancelled[f]
  /\ Goto(f, "check", "retry")
  /\ UNCHANGED <<fdvars, fd, to, calls, cancelled, timer, timers, rest, ghost>>

-----------------------------------------------------------------------------
(* MUTANT of trigger: the event is removed as delEvent() does.             *)
trigger_Deletes(d) ==
  /\ UNCHANGED scheduled
  /\ waiter' = [waiter EXCEPT ![d] = NoFiber]

(* The event comes, or is cancelled by the number of its descriptor: the   *)
(* fiber that waits is scheduled.                                          *)
trigger(d) ==
  /\ scheduled' = scheduled \cup ({waiter[d]} \ {NoFiber})
  /\ waiter' = [waiter EXCEPT ![d] = NoFiber]

(* Somebody calls cancelEvent() or cancelAll(); ...                        *)
EventCancelled(d) ==
  /\ waiter[d] # NoFiber
  /\ trigger(d)
  /\ UNCHANGED <<fdvars, local, callbacks, locked, process, ghost>>

(* ... or idle() triggers READ, and then WRITE for nobody.                 *)
EventComes(d) ==
  /\ waiter[d] # NoFiber
  /\ trigger(d)
  /\ locked' = locked \cup {d}
  /\ UNCHANGED <<fdvars, local, callbacks, process, ghost>>

TriggerWrite ==
  /\ locked # {}
  /\ process' = "null scheduler"
  /\ UNCHANGED <<fdvars, local, callbacks, waiter, scheduled, locked, ghost>>

(* A timer is due, and its callback collected.                             *)
Expire(f) ==
  /\ timer[f] = "armed"
  /\ timer' = [timer EXCEPT ![f] = "collected"]
  /\ callbacks' = callbacks \cup
       {[fiber |-> f, call |-> calls[f], timer |-> timers[f], fd |-> fd[f], at |-> "begin"]}
  /\ expired' = expired \cup {f}
  /\ UNCHANGED <<fdvars, pc, fd, to, calls, cancelled, timers, waiter, scheduled,
                 locked, process, wanted, lost, owed, dropped>>

(* MUTANT of Lives: a plain pointer, to what is the next call's timer_info *)
(* by then.                                                                *)
Lives_Raw(cb) == pc[cb.fiber] # "out"

(* winfo.lock(): the timer_info is there as long as its call goes on.      *)
Lives(cb) == calls[cb.fiber] = cb.call /\ pc[cb.fiber] # "out"

Moves(cb, next) == callbacks' = (callbacks \ {cb}) \cup {[cb EXCEPT !.at = next]}

(* run() destroys the callback, as it does at this commit, ...             *)
Drop(cb) ==
  /\ cb.at = "begin"
  /\ callbacks' = callbacks \ {cb}
  /\ dropped' = IF Lives(cb) THEN dropped \cup {cb.fiber} ELSE dropped
  /\ UNCHANGED <<fdvars, local, waiter, scheduled, locked, process, wanted, lost, owed,
                 expired>>

(* ... or calls it, and it tests t->cancelled, ...                         *)
Test(cb) ==
  /\ cb.at = "begin"
  /\ IF Lives(cb) /\ ~ cancelled[cb.fiber]
     THEN Moves(cb, "set") ELSE callbacks' = callbacks \ {cb}
  /\ UNCHANGED <<fdvars, local, waiter, scheduled, locked, process, ghost>>

(* ... sets it (to no effect if the call is over), ...                     *)
Set(cb) ==
  /\ cb.at = "set"
  /\ Moves(cb, "cancel")
  /\ cancelled' = [cancelled EXCEPT ![cb.fiber] = @ \/ Lives(cb)]
  /\ UNCHANGED <<fdvars, pc, fd, to, calls, timer, timers, waiter, scheduled, locked,
                 process, ghost>>

(* ... and cancels the event of its descriptor, whoever waits for it.      *)
CancelEvent(cb) ==
  /\ cb.at = "cancel" /\ cb.fd \notin locked
  /\ callbacks' = callbacks \ {cb}
  /\ trigger(cb.fd)
  /\ UNCHANGED <<fdvars, local, locked, process, ghost>>

-----------------------------------------------------------------------------
FiberStep(f) ==
  \/ Open(f) \/ Configure(f)
  \/ \E d \in Fds : Begin(f, d)
  \/ CallReturns(f) \/ WouldBlock(f)
  \/ AddEvent(f) \/ AddEventFails(f)
  \/ Resume(f) \/ TimedOut(f) \/ Retry(f)

Next ==
  /\ process = "up"
  /\ \/ \E f \in Fibers : FiberStep(f) \/ Expire(f)
     \/ \E d \in Fds : Close(d) \/ EventCancelled(d) \/ EventComes(d)
     \/ TriggerWrite
     \/ \E cb \in callbacks : Drop(cb) \/ Test(cb) \/ Set(cb) \/ CancelEvent(cb)

Spec == Init /\ [][Next]_vars

-----------------------------------------------------------------------------
LocalTypeOK ==
  /\ pc \in [Fibers -> {"out", "retry", "add", "yield", "check"}]
  /\ fd \in [Fibers -> Fds \cup {NoFd}]
  /\ to \in [Fibers -> BOOLEAN]
  /\ calls \in [Fibers -> 0 .. MaxCalls]
  /\ cancelled \in [Fibers -> BOOLEAN]
  /\ timer \in [Fibers -> {"none", "armed", "cancelled", "collected"}]
  /\ timers \in [Fibers -> 0 .. MaxTimers]

RestTypeOK ==
  /\ callbacks \subseteq [fiber : Fibers, call : 1 .. MaxCalls, timer : 1 .. MaxTimers,
                          fd : Fds, at : {"begin", "set", "cancel"}]
  /\ waiter \in [Fds -> Fibers \cup {NoFiber}]
  /\ scheduled \subseteq Fibers
  /\ locked \subseteq Fds
  /\ process \in {"up", "null scheduler"}

GhostTypeOK ==
  /\ wanted \subseteq Fds /\ lost \subseteq Fds
  /\ owed \subseteq Fibers /\ expired \subseteq Fibers /\ dropped \subseteq Fibers

TypeOK == FdTypeOK /\ LocalTypeOK /\ RestTypeOK /\ GhostTypeOK

(* A fiber that waits is in the EventContext of its descriptor or has been *)
(* scheduled, and not both: it is neither forgotten nor resumed for a wait *)
(* that is over.  Late callbacks, which cancel by the number of the        *)
(* descriptor, schedule whoever waits there now.                           *)
WaiterKept ==
  /\ \A f \in Fibers : pc[f] = "yield" => (f \in scheduled <=> waiter[fd[f]] # f)
  /\ \A f \in scheduled : pc[f] = "yield"
  /\ \A d \in Fds : waiter[d] # NoFiber => pc[waiter[d]] = "yield" /\ fd[waiter[d]] = d

(* A call fails with ETIMEDOUT only when one of its own timers was due:    *)
(* the late callback of another call, of the same fiber or not, may wake   *)
(* it, but is not a timeout (hook.cpp 118-124, 141).  And it leaves no     *)
(* timer behind: when it goes on, its timer is cancelled or collected.     *)
TimerOfCall ==
  \A f \in Fibers :
    /\ cancelled[f] => f \in expired
    /\ timer[f] = "armed" => pc[f] \in {"add", "yield"}

Waits(f) == pc[f] = "yield" /\ f \notin scheduled

(* What will end the wait of a fiber when its time is over: a timer, or a  *)
(* callback on its way that still cancels the event.                       *)
EndsInTime(f) ==
  \/ timer[f] = "armed" /\ ~ cancelled[f]
  \/ \E cb \in callbacks :
       /\ cb.fiber = f /\ cb.call = calls[f]
       /\ cb.at = "begin" => ~ cancelled[f]

(* fd_manager.h 65-69, "set the timeout": a fiber that waits for a         *)
(* descriptor whose user has set a timeout does not wait for longer, let   *)
(* alone if no callback of its call has been destroyed.                    *)
TimeoutArmed == \A f \in owed \ dropped : Waits(f) => EndsInTime(f)

(* The code does not keep to that (a callback may cancel the event before  *)
(* it is added, or leave `cancelled` set for the next try).  But whatever  *)
(* try of a call it is that waits, and whatever late callbacks have woken  *)
(* it before: if the user has set a timeout, the wait has a timer of its   *)
(* own, and nobody cancels it, so that it is in m_timers until it is due   *)
(* and collected; unless two gets that overlapped have lost the context.   *)
TimeoutKept ==
  \A f \in owed : Waits(f) /\ fd[f] \notin lost => timer[f] \in {"armed", "collected"}
=============================================================================
