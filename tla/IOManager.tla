------------------------------ MODULE IOManager ------------------------------
(***************************************************************************)
(* The I/O events of IOManager in iomanager.{h,cpp}: addEvent, delEvent,   *)
(* cancelEvent and cancelAll, called by any thread, and the part of idle() *)
(* that hands out what epoll_wait reports.  Timers and tickle() are in     *)
(* module TimerManager.                                                    *)
(*                                                                         *)
(* A call first looks the FdContext up, under m_mutex or not, and then     *)
(* works on it under FdContext::m_mutex.  Both stretches are one action    *)
(* each; contextResize() is two, since m_fdContexts is read without        *)
(* m_mutex while it runs.  m_fdContexts is given by its size and by the    *)
(* newest context of each descriptor: context <<fd, n>> is the n-th one    *)
(* that contextResize() made for fd, and they are never freed.             *)
(*                                                                         *)
(* The callback or fiber of an addEvent() call is the number of the call.  *)
(* The assertions are compiled out (NDEBUG): the one in triggerEvent() is  *)
(* inverted and ends the process at the first event that is registered as  *)
(* it should be.                                                           *)
(***************************************************************************)
EXTENDS Integers, Sequences, FiniteSets

CONSTANTS
  Fds,             (* descriptors                                          *)
  Threads,         (* threads that call addEvent() and the like            *)
  Workers,         (* threads that run idle()                              *)
  Events,          (* events the callers use                               *)
  InitialSize,     (* 32 in the constructor                                *)
  Word,            (* a size_t is below this, 2^64                         *)
  MaxAdds,         (* BOUND: calls of addEvent()                           *)
  MaxContexts      (* BOUND: contexts made for a descriptor                *)

(* An Event and the `events` of an epoll_event are sets of bits: IN is     *)
(* 0x1, PRI 0x2, OUT 0x4.  WRITE is 0x3.                                   *)
READ  == {"IN"}
WRITE == {"IN", "PRI"}
NONE  == {}

ASSUME FdsAssumption     == Fds \subseteq Nat /\ IsFiniteSet(Fds)
ASSUME EventsAssumption  == Events \subseteq {READ, WRITE}
ASSUME BoundsAssumption  ==
  /\ {InitialSize, Word, MaxAdds, MaxContexts} \subseteq Nat
  /\ MaxAdds < Word /\ MaxContexts > 0

VARIABLES
  size,                 (* m_fdContexts.size()                             *)
  newest,               (* per descriptor, how many contexts were made     *)
  m_mutex,              (* the thread inside contextResize(), or NoThread  *)
  shrunk,               (* ghost: contextResize() has made it smaller      *)
  context,              (* the FdContexts: `events` and, per event, the    *)
                        (* call whose EventContext is set, or 0            *)
  interest,             (* what epoll watches: per descriptor, a context   *)
                        (* and its events, or NotWatched                   *)
  m_pendingEventCount,
  pc, call,             (* where each thread is, and in which call         *)
  batch,                (* what epoll_wait gave a worker to handle         *)
  waitsFor,             (* per addEvent() call, <<fd, event>>              *)
  fate,                 (* per addEvent() call, what became of it          *)
  process               (* "up", or how it died                            *)

vector  == <<size, newest, m_mutex, shrunk>>
threads == <<pc, call>>
vars == <<vector, context, interest, m_pendingEventCount, threads, batch, waitsFor,
          fate, process>>

NoThread   == "none"
NoCall     == [add |-> 0, fd |-> 0, event |-> NONE, fd_ctx |-> <<>>]
NotWatched == [ptr |-> <<>>, events |-> NONE]
Contexts   == Fds \X (1 .. MaxContexts)
NewContext == [events |-> NONE, waiter |-> [e \in {READ, WRITE} |-> 0]]
Adds       == DOMAIN fate

Up == process = "up"

Init ==
  /\ size = InitialSize
  /\ newest = [fd \in Fds |-> IF fd < InitialSize THEN 1 ELSE 0]
  /\ m_mutex = NoThread
  /\ shrunk = FALSE
  /\ context = [c \in Contexts |-> NewContext]
  /\ interest = [fd \in Fds |-> NotWatched]
  /\ m_pendingEventCount = 0
  /\ pc = [t \in Threads |-> "idle"]
  /\ call = [t \in Threads |-> NoCall]
  /\ batch = [w \in Workers |-> {}]
  /\ waitsFor = <<>>
  /\ fate = <<>>
  /\ process = "up"

-----------------------------------------------------------------------------
Begin(t, next, add, fd, event) ==
  /\ Up
  /\ pc[t] = "idle"
  /\ pc' = [pc EXCEPT ![t] = next]
  /\ call' = [call EXCEPT ![t] = [NoCall EXCEPT !.add = add, !.fd = fd, !.event = event]]

Goto(t, from, to) == Up /\ pc[t] = from /\ pc' = [pc EXCEPT ![t] = to]

Return(t, from) == Goto(t, from, "idle") /\ call' = [call EXCEPT ![t] = NoCall]

Dies(t, how) ==
  /\ process' = how
  /\ UNCHANGED <<vector, context, interest, m_pendingEventCount, threads, batch,
                 waitsFor, fate>>

(* m_fdContexts[fd]: behind the end of the vector is a context that a      *)
(* resize() cut off, or nothing that can be used.                          *)
Lookup(t, next) ==
  LET fd == call[t].fd IN
  \/ /\ newest[fd] > 0
     /\ pc' = [pc EXCEPT ![t] = next]
     /\ call' = [call EXCEPT ![t].fd_ctx = <<fd, newest[fd]>>]
     /\ UNCHANGED process
  \/ /\ fd >= size
     /\ process' = "bad access"
     /\ UNCHANGED threads

(* epoll_ctl on a descriptor, which ADD needs unwatched and MOD and DEL    *)
(* watched.                                                                *)
Watched(fd) == interest[fd] # NotWatched

epoll_ctl(op, fd, c, events) ==
  /\ op = "ADD" <=> ~ Watched(fd)
  /\ interest' = [interest EXCEPT ![fd] =
       IF op = "DEL" THEN NotWatched ELSE [ptr |-> c, events |-> events]]

(* It fails where it must, and an ADD also for want of memory or because   *)
(* the file cannot be watched.                                             *)
epoll_ctl_fails(op, fd) == op = "ADD" \/ ~ Watched(fd)

-----------------------------------------------------------------------------
(* The same event of a descriptor is added again only when the callback    *)
(* that waited for it has been scheduled or deleted.                       *)
MayAdd(fd, event) ==
  \A r \in Adds : waitsFor[r] = <<fd, event>> => fate[r] \notin {"adding", "waiting"}

(* addEvent(): the size is read without m_mutex; a resize() that is going  *)
(* on moves both ends of the vector, and their distance can be anything.   *)
AddLook(t, fd, event) ==
  /\ Len(fate) < MaxAdds
  /\ MayAdd(fd, event)
  /\ \/ (size > fd \/ m_mutex # NoThread) /\ Begin(t, "add get", Len(fate) + 1, fd, event)
     \/ (size <= fd \/ m_mutex # NoThread) /\ Begin(t, "add grow", Len(fate) + 1, fd, event)
  /\ waitsFor' = Append(waitsFor, <<fd, event>>)
  /\ fate' = Append(fate, "adding")
  /\ UNCHANGED <<vector, context, interest, m_pendingEventCount, batch, process>>

AddGet(t) ==
  /\ Up
  /\ pc[t] = "add get"
  /\ m_mutex = NoThread
  /\ Lookup(t, "add")
  /\ UNCHANGED <<vector, context, interest, m_pendingEventCount, batch, waitsFor, fate>>

(* contextResize(fd * 1.5) begins ...                                      *)
AddGrow(t) ==
  /\ m_mutex = NoThread
  /\ Goto(t, "add grow", "add growing")
  /\ m_mutex' = t
  /\ UNCHANGED <<size, newest, shrunk, call, context, interest, m_pendingEventCount, batch,
                 waitsFor, fate, process>>

(* MUTANT of Missing: every slot gets a new context.                       *)
Missing_All(fd) == TRUE

(* if(!m_fdContexts[i]): what is new in the vector has no context.         *)
Missing(fd) == size <= fd

(* contextResize(): also a resize() to less.                               *)
contextResize(n) ==
  /\ size' = n
  /\ shrunk' = (shrunk \/ n < size)
  /\ newest' = [fd \in Fds |->
                  IF fd < n /\ Missing(fd) THEN newest[fd] + 1 ELSE newest[fd]]

(* ... and ends, and the context is looked up.                             *)
AddGrown(t) ==
  LET fd == call[t].fd IN
  /\ Up
  /\ pc[t] = "add growing"
  /\ contextResize((fd * 3) \div 2)
  /\ m_mutex' = NoThread
  /\ \A f \in Fds : newest'[f] <= MaxContexts
  /\ \/ /\ newest'[fd] > 0
        /\ pc' = [pc EXCEPT ![t] = "add"]
        /\ call' = [call EXCEPT ![t].fd_ctx = <<fd, newest'[fd]>>]
        /\ UNCHANGED process
     \/ /\ fd >= size'
        /\ process' = "bad access"
        /\ UNCHANGED threads
  /\ UNCHANGED <<context, interest, m_pendingEventCount, batch, waitsFor, fate>>

(* addEvent() under FdContext::m_mutex; an EventContext that is set        *)
(* already is overwritten.                                                 *)
Overlaps(c, event) == context[c].events \cap event # NONE

AddFails(t) ==
  LET c == call[t].fd_ctx  op == IF context[c].events # NONE THEN "MOD" ELSE "ADD" IN
  /\ pc[t] = "add"
  /\ epoll_ctl_fails(op, call[t].fd)
  /\ Return(t, "add")
  /\ fate' = [fate EXCEPT ![call[t].add] = "failed"]
  /\ UNCHANGED <<vector, context, interest, m_pendingEventCount, batch, waitsFor, process>>

AddSucceeds(t) ==
  LET c == call[t].fd_ctx
      event == call[t].event
      op == IF context[c].events # NONE THEN "MOD" ELSE "ADD"
      events == context[c].events \cup event
  IN
  /\ pc[t] = "add"
  /\ epoll_ctl(op, call[t].fd, c, events)
  /\ m_pendingEventCount' = (m_pendingEventCount + 1) % Word
  /\ context' = [context EXCEPT ![c].events = events, ![c].waiter[event] = call[t].add]
  /\ fate' = [fate EXCEPT ![call[t].add] = "waiting"]
  /\ Return(t, "add")
  /\ UNCHANGED <<vector, batch, waitsFor, process>>

AddEvent(t) ==
  AddGet(t) \/ AddGrow(t) \/ AddGrown(t) \/ AddSucceeds(t) \/ AddFails(t)

-----------------------------------------------------------------------------
(* What delEvent(), cancelEvent(), cancelAll() and idle() do to the state, *)
(* as functions of a record of what they may change.                       *)
State(c) == [ctx |-> context[c], pending |-> m_pendingEventCount, fate |-> fate,
             process |-> process]

Becomes(c, s) ==
  /\ context' = [context EXCEPT ![c] = s.ctx]
  /\ m_pendingEventCount' = s.pending
  /\ fate' = s.fate
  /\ process' = s.process

(* MUTANT of resetEventContext: the call is left out.                      *)
resetEventContext_Omitted(ctx, event) == ctx

resetEventContext(ctx, event) == [ctx EXCEPT !.waiter[event] = 0]

(* MUTANT of Discount: the count is left alone.                            *)
Discount_Omitted(s) == s

(* --m_pendingEventCount                                                   *)
Discount(s) ==
  IF s.process = "up" THEN [s EXCEPT !.pending = (@ + Word - 1) % Word] ELSE s

(* What becomes of a call when its callback is handed out (again).         *)
HandedOut(f) == IF f = "waiting" THEN "scheduled" ELSE "scheduled again"

(* MUTANT of triggerEvent: it counts the event off, as its callers do.     *)
triggerEvent_Counts(s, event) ==
  LET r == s.ctx.waiter[event] IN
  IF s.process # "up" THEN s
  ELSE IF r = 0 THEN [s EXCEPT !.process = "null scheduler"]
       ELSE Discount([s EXCEPT !.ctx.events = @ \ event,
                               !.ctx = resetEventContext(@, event),
                               !.fate[r] = HandedOut(@)])

(* triggerEvent(): schedule() on the scheduler of the EventContext, which  *)
(* is null if nobody waits for the event, and the reset.                   *)
triggerEvent(s, event) ==
  LET r == s.ctx.waiter[event] IN
  IF s.process # "up" THEN s
  ELSE LET left == [s EXCEPT !.ctx.events = @ \ event] IN
       IF r = 0 THEN [left EXCEPT !.process = "null scheduler"]
       ELSE [left EXCEPT !.ctx = resetEventContext(@, event),
                         !.fate[r] = HandedOut(@)]

(* The lookup of delEvent() and cancelAll(), under m_mutex; both return    *)
(* false for a descriptor behind the end.                                  *)
LookUnderLock(t, next, fd, event) ==
  /\ Up
  /\ m_mutex = NoThread
  /\ size > fd
  /\ pc[t] = "idle"
  /\ pc' = [pc EXCEPT ![t] = next]
  /\ call' = [call EXCEPT ![t] = [add |-> 0, fd |-> fd, event |-> event,
                                  fd_ctx |-> <<fd, newest[fd]>>]]
  /\ UNCHANGED <<vector, context, interest, m_pendingEventCount, batch, waitsFor, fate,
                 process>>

(* The early returns under FdContext::m_mutex.                             *)
ReturnsFalse(t) ==
  LET events == context[call[t].fd_ctx].events IN
  /\ \/ pc[t] \in {"del", "cancel"} /\ events \cap call[t].event = NONE
     \/ pc[t] = "cancel all" /\ events = NONE
     \/ /\ pc[t] \in {"del", "cancel", "cancel all"}
        /\ epoll_ctl_fails("MOD", call[t].fd)
  /\ Return(t, pc[t])
  /\ UNCHANGED <<vector, context, interest, m_pendingEventCount, batch, waitsFor, fate,
                 process>>

EventsLeft(c, event) == context[c].events \ event

(* MUTANT of OpFor: always MOD.                                            *)
OpFor_Mod(left) == "MOD"

OpFor(left) == IF left # NONE THEN "MOD" ELSE "DEL"

(* MUTANT of DelEvent: it only counts the event off.                       *)
DelEvent_CountsOff(t) ==
  LET c == call[t].fd_ctx
      s == Discount(State(c))
  IN
  /\ pc[t] = "del"
  /\ Overlaps(c, call[t].event)
  /\ Becomes(c, [s EXCEPT !.fate[context[c].waiter[call[t].event]] = "deleted"])
  /\ Return(t, "del")
  /\ UNCHANGED <<vector, interest, batch, waitsFor>>

DelEvent(t) ==
  LET c == call[t].fd_ctx
      event == call[t].event
      left == EventsLeft(c, event)
      s == Discount(State(c))
      r == s.ctx.waiter[event]
  IN
  /\ pc[t] = "del"
  /\ Overlaps(c, event)
  /\ epoll_ctl(OpFor(left), call[t].fd, c, left)
  /\ Becomes(c, [s EXCEPT !.ctx = resetEventContext([@ EXCEPT !.events = left], event),
                          !.fate = [q \in Adds |-> IF q = r THEN "deleted" ELSE @[q]]])
  /\ Return(t, "del")
  /\ UNCHANGED <<vector, batch, waitsFor>>

(* cancelEvent() looks at m_fdContexts[fd] before it locks m_mutex and     *)
(* tests the bound; what it reads then is not used.                        *)
CancelLook(t, fd, event) ==
  \/ /\ Begin(t, "cancel look", 0, fd, event)
     /\ UNCHANGED <<vector, context, interest, m_pendingEventCount, batch, waitsFor,
                    fate, process>>
  \/ /\ Up
     /\ pc[t] = "idle"
     /\ fd >= size \/ m_mutex # NoThread
     /\ Dies(t, "bad access")

CancelGet(t) ==
  /\ Up
  /\ m_mutex = NoThread
  /\ \/ size > call[t].fd /\ pc[t] = "cancel look" /\ Lookup(t, "cancel")
     \/ size <= call[t].fd /\ Return(t, "cancel look") /\ UNCHANGED process
  /\ UNCHANGED <<vector, context, interest, m_pendingEventCount, batch, waitsFor, fate>>

CancelEvent(t) ==
  LET c == call[t].fd_ctx
      event == call[t].event
      left == EventsLeft(c, event)
  IN
  /\ pc[t] = "cancel"
  /\ Overlaps(c, event)
  /\ epoll_ctl(OpFor(left), call[t].fd, c, left)
  /\ Becomes(c, Discount(triggerEvent(State(c), event)))
  /\ Return(t, "cancel")
  /\ UNCHANGED <<vector, batch, waitsFor>>

(* if(events & event) triggerEvent(event), and the count.                  *)
TriggerIf(s, events, event) ==
  IF events \cap event # NONE THEN Discount(triggerEvent(s, event)) ELSE s

CancelAll(t) ==
  LET c == call[t].fd_ctx
      s == TriggerIf(State(c), context[c].events, READ)
  IN
  /\ pc[t] = "cancel all"
  /\ context[c].events # NONE
  /\ epoll_ctl("DEL", call[t].fd, c, NONE)
  /\ Becomes(c, TriggerIf(s, s.ctx.events, WRITE))
  /\ Return(t, "cancel all")
  /\ UNCHANGED <<vector, batch, waitsFor>>

-----------------------------------------------------------------------------
(* epoll_wait: for some of the watched descriptors, some of the events     *)
(* watched for, or an error or hang-up (HUP here), which always counts.    *)
Reports(fd) == (SUBSET (interest[fd].events \cup {"HUP"})) \ {NONE}

EpollWait(w) ==
  /\ Up
  /\ batch[w] = {}
  /\ \E ready \in SUBSET {fd \in Fds : Watched(fd)} :
       /\ ready # {}
       /\ \E report \in [ready -> SUBSET {"IN", "PRI", "HUP"}] :
            /\ \A fd \in ready : report[fd] \in Reports(fd)
            /\ batch' = [batch EXCEPT ![w] =
                 {[ptr |-> interest[fd].ptr, events |-> report[fd]] : fd \in ready}]
  /\ UNCHANGED <<vector, context, interest, m_pendingEventCount, threads, waitsFor, fate,
                 process>>

(* The body of the loop over the events, under FdContext::m_mutex.         *)
Seen(e) ==
  IF "HUP" \in e.events
  THEN e.events \cup ({"IN", "OUT"} \cap context[e.ptr].events) ELSE e.events

RealEvents(e) ==
  (IF "IN" \in Seen(e) THEN READ ELSE NONE) \cup
  (IF "OUT" \in Seen(e) THEN WRITE ELSE NONE)

Handle(w) ==
  /\ Up
  /\ \E e \in batch[w] :
       LET c == e.ptr
           fd == e.ptr[1]
           real == RealEvents(e)
           left == context[c].events \ real
       IN
       /\ batch' = [batch EXCEPT ![w] = @ \ {e}]
       /\ \/ /\ context[c].events \cap real = NONE \/ epoll_ctl_fails("MOD", fd)
             /\ UNCHANGED <<context, interest, m_pendingEventCount, fate, process>>
          \/ /\ context[c].events \cap real # NONE
             /\ epoll_ctl(OpFor(left), fd, c, left)
             /\ Becomes(c, TriggerIf(TriggerIf(State(c), real, READ), real, WRITE))
       /\ UNCHANGED <<vector, threads, waitsFor>>

-----------------------------------------------------------------------------
Calls(t) ==
  \E fd \in Fds :
    \/ \E event \in Events :
         \/ AddLook(t, fd, event)
         \/ LookUnderLock(t, "del", fd, event)
         \/ CancelLook(t, fd, event)
    \/ LookUnderLock(t, "cancel all", fd, NONE)

ThreadStep(t) ==
  \/ Calls(t)
  \/ AddEvent(t)
  \/ CancelGet(t)
  \/ ReturnsFalse(t)
  \/ DelEvent(t) \/ CancelEvent(t) \/ CancelAll(t)

Next ==
  \/ \E t \in Threads : ThreadStep(t)
  \/ \E w \in Workers : EpollWait(w) \/ Handle(w)

Spec == Init /\ [][Next]_vars

-----------------------------------------------------------------------------
TypeOK ==
  /\ size \in Nat
  /\ newest \in [Fds -> 0 .. MaxContexts]
  /\ m_mutex \in Threads \cup {NoThread}
  /\ shrunk \in BOOLEAN
  /\ context \in [Contexts -> [events : SUBSET {"IN", "PRI"},
                              waiter : [{READ, WRITE} -> 0 .. MaxAdds]]]
  /\ interest \in [Fds -> [ptr : Contexts \cup {<<>>}, events : SUBSET {"IN", "PRI"}]]
  /\ m_pendingEventCount \in 0 .. MaxAdds
  /\ pc \in [Threads -> {"idle", "add get", "add grow", "add growing", "add", "del",
                         "cancel look", "cancel", "cancel all"}]
  /\ call \in [Threads -> [add : 0 .. MaxAdds, fd : Fds \cup {0},
                           event : {NONE, READ, WRITE}, fd_ctx : Contexts \cup {<<>>}]]
  /\ batch \in [Workers -> SUBSET [ptr : Contexts, events : SUBSET {"IN", "PRI", "HUP"}]]
  /\ waitsFor \in Seq(Fds \X Events)
  /\ fate \in Seq({"adding", "failed", "waiting", "scheduled", "deleted"})
  /\ process \in {"up", "bad access", "null scheduler"}

(* The callers that wait are those in the contexts, each in one place, and *)
(* `events` has the bits of an event exactly if somebody waits for it: a   *)
(* caller that is left in a context with no bit set is never resumed.      *)
Waiting == {r \in Adds : fate[r] = "waiting"}

Waiters(c) == {context[c].waiter[READ], context[c].waiter[WRITE]} \ {0}

ContextsMatch ==
  /\ \A r \in Waiting :
       \E c \in Contexts : c[1] = waitsFor[r][1] /\ context[c].waiter[waitsFor[r][2]] = r
  /\ \A c \in Contexts : Waiters(c) \subseteq Waiting
  /\ \A c \in Contexts, event \in {READ, WRITE} :
       context[c].waiter[event] # 0 <=> event \subseteq context[c].events

(* m_pendingEventCount is the number of callers that wait (iomanager.h     *)
(* 119), whatever resize() did to their contexts: stopping() stops the     *)
(* manager at 0, and never if the count was once too low and wrapped.      *)
PendingCounted == m_pendingEventCount = Cardinality(Waiting)

(* epoll watches a descriptor exactly for the events of one context, and   *)
(* reports them with that context: an event that is in `events` only would *)
(* never come, one that epoll only knows would be for nobody.              *)
EpollMatches ==
  /\ \A c \in Contexts :
       context[c].events # NONE =>
         interest[c[1]] = [ptr |-> c, events |-> context[c].events]
  /\ \A fd \in Fds :
       Watched(fd) => /\ context[interest[fd].ptr].events = interest[fd].events
                      /\ interest[fd].events # NONE

(* What a caller was told is final: once deleted, failed or scheduled, its *)
(* callback is not scheduled (again), though epoll_wait may have reported  *)
(* the event to a worker before.                                           *)
Over(f) == f \in {"failed", "deleted", "scheduled"}

FateFinal == [][\A r \in Adds : Over(fate[r]) => fate'[r] = fate[r]]_vars

(* iomanager.h 26: every descriptor has one FdContext.  However many       *)
(* threads grow m_fdContexts at once, the context that waits for events is *)
(* the one m_fdContexts holds for its descriptor, unless a resize() for a  *)
(* smaller descriptor (iomanager.cpp 116) has cut it off before.           *)
OneContextPerFd ==
  Up /\ ~ shrunk =>
    \A c \in Contexts : context[c].events # NONE => c[1] < size /\ c[2] = newest[c[1]]

(* iomanager.cpp 35: the event to be triggered must have been registered.  *)
TriggersRegistered == process # "null scheduler"
=============================================================================
