--------------------------- MODULE IOManagerProofs ---------------------------
(***************************************************************************)
(* Proofs of IOManager's safety properties, for any descriptors, threads   *)
(* and workers.  What is true of the table of contexts is proved for all   *)
(* events; the rest for callers that use READ only: WRITE has the bit of   *)
(* READ, and a descriptor with both is confused (module IOManager).        *)
(***************************************************************************)
EXTENDS IOManager, SequenceTheorems, FiniteSetTheorems, TLAPS

-----------------------------------------------------------------------------
(* Types, but for what WRITE breaks: the count may wrap, and a callback be *)
(* scheduled twice.                                                        *)
Fates    == {"adding", "failed", "waiting", "scheduled", "deleted"}
AllFates == Fates \cup {"scheduled again"}
Deaths   == {"bad access", "null scheduler"}

Context == [events : SUBSET {"IN", "PRI"}, waiter : [{READ, WRITE} -> 0 .. MaxAdds]]

Places == {"idle", "add get", "add grow", "add growing", "add", "del", "cancel look", "cancel",
           "cancel all"}

CallRecord == [add : 0 .. MaxAdds, fd : Fds \cup {0}, event : {NONE, READ, WRITE},
               fd_ctx : Contexts \cup {<<>>}]

Types ==
  /\ size \in Nat
  /\ newest \in [Fds -> 0 .. MaxContexts]
  /\ m_mutex \in Threads \cup {NoThread}
  /\ shrunk \in BOOLEAN
  /\ context \in [Contexts -> Context]
  /\ interest \in [Fds -> [ptr : Contexts \cup {<<>>}, events : SUBSET {"IN", "PRI"}]]
  /\ pc \in [Threads -> Places] /\ call \in [Threads -> CallRecord]
  /\ batch \in [Workers -> SUBSET [ptr : Contexts, events : SUBSET {"IN", "PRI", "HUP"}]]
  /\ fate \in Seq(AllFates)
  /\ process \in {"up"} \cup Deaths

(* A call is for a descriptor, and once it has a context for an event, the *)
(* context is of that descriptor; so is the one that epoll has.            *)
Has(t) == pc[t] \in {"add", "del", "cancel", "cancel all"}

CallsKnow ==
  /\ \A t \in Threads : pc[t] # "idle" => call[t].fd \in Fds
  /\ \A t \in Threads : Has(t) => call[t].fd_ctx \in Contexts /\ call[t].fd_ctx[1] = call[t].fd
  /\ \A t \in Threads : pc[t] \notin {"idle", "cancel all"} => call[t].event \in Events
  /\ \A fd \in Fds : Watched(fd) => interest[fd].ptr \in Contexts /\ interest[fd].ptr[1] = fd

(* What is in the vector has a context; as long as it has only grown, what *)
(* is not has none, and the contexts in use are those in the vector.       *)
Current(c) == c[1] < size /\ c[2] = newest[c[1]]

Vector ==
  /\ \A fd \in Fds : fd < size => newest[fd] > 0
  /\ ~ shrunk =>
       /\ \A fd \in Fds : size <= fd => newest[fd] = 0
       /\ \A t \in Threads : pc[t] = "add" => Current(call[t].fd_ctx)
       /\ \A c \in Contexts : context[c].events # NONE => Current(c)

Table == Types /\ CallsKnow /\ Vector

-----------------------------------------------------------------------------
(* Each call of addEvent() that is not over is known by one thread, or by  *)
(* one context; none is for the same event as another.                     *)
Adding(t) == pc[t] \in {"add get", "add grow", "add growing", "add"}

Open(r) == fate[r] \in {"adding", "waiting"}

AddsKnown ==
  /\ waitsFor \in Seq(Fds \X Events) /\ fate \in Seq(Fates)
  /\ Len(fate) = Len(waitsFor) /\ Len(fate) <= MaxAdds
  /\ \A q, r \in Adds : Open(q) /\ Open(r) /\ waitsFor[q] = waitsFor[r] => q = r
  /\ \A t \in Threads : Adding(t) =>
       /\ call[t].add \in Adds /\ fate[call[t].add] = "adding"
       /\ waitsFor[call[t].add] = <<call[t].fd, call[t].event>>
  /\ \A t, u \in Threads : Adding(t) /\ Adding(u) /\ call[t].add = call[u].add => t = u

(* A context has the bit of READ and the call that waits for it, or none.  *)
Reader(c) == context[c].waiter[READ]

ReadersKnown ==
  /\ \A c \in Contexts : context[c].events \subseteq READ /\ context[c].waiter[WRITE] = 0
  /\ \A c \in Contexts : Reader(c) # 0 => Reader(c) \in Adds /\ waitsFor[Reader(c)] = <<c[1], READ>>
  /\ \A c, d \in Contexts : Reader(c) # 0 /\ Reader(c) = Reader(d) => c = d

Registered == AddsKnown /\ ReadersKnown /\ ContextsMatch /\ PendingCounted /\ EpollMatches

IInv == Table /\ Registered

-----------------------------------------------------------------------------
(* READ and WRITE, and the contexts as they are made.                      *)
LEMMA EventsDiffer == READ # WRITE /\ READ # NONE /\ WRITE # NONE /\ Events \subseteq {READ, WRITE}
  BY EventsAssumption DEF READ, WRITE, NONE

(* The bounds, one by one.                                                 *)
LEMMA BoundsAre ==
  /\ InitialSize \in Nat /\ Word \in Nat /\ MaxAdds \in Nat /\ MaxContexts \in Nat
  /\ MaxAdds < Word /\ MaxContexts > 0 /\ 0 \in 0 .. MaxAdds
  BY BoundsAssumption

(* A context as contextResize() makes it.                                  *)
LEMMA NewContextType == NewContext \in Context /\ NewContext.events = NONE
                        /\ NewContext.waiter[READ] = 0 /\ NewContext.waiter[WRITE] = 0
  BY BoundsAre DEF NewContext, Context, NONE

(* The records triggerEvent() and the count work on: both keep their type, *)
(* and set no bit.                                                         *)
IsState(s) ==
  /\ s.ctx \in Context /\ s.fate \in Seq(AllFates) /\ s.process \in {"up"} \cup Deaths
  /\ s = [ctx |-> s.ctx, pending |-> s.pending, fate |-> s.fate, process |-> s.process]

(* A record with the right fields is such a state.                         *)
LEMMA StateMade ==
  ASSUME NEW s, NEW ctx \in Context, NEW pending, NEW calls \in Seq(AllFates),
         NEW how \in {"up"} \cup Deaths,
         s = [ctx |-> ctx, pending |-> pending, fate |-> calls, process |-> how]
  PROVE  IsState(s) /\ s.ctx = ctx
  BY DEF IsState, Deaths

(* A function on 1 .. n is a sequence.                                     *)
LEMMA FunctionIsSeq ==
  ASSUME NEW S, NEW n \in Nat, NEW f \in [1 .. n -> S]
  PROVE  f \in Seq(S)
  BY SeqDef

(* A callback that is handed out leaves a fate behind.                     *)
LEMMA HandedOutSeq ==
  ASSUME NEW f \in Seq(AllFates), NEW r
  PROVE  [f EXCEPT ![r] = HandedOut(@)] \in Seq(AllFates)
  <1>1. Len(f) \in Nat /\ f \in [1 .. Len(f) -> AllFates]
    BY LenProperties
  <1>2. \A x : HandedOut(x) \in AllFates
    BY DEF HandedOut, AllFates, Fates
  <1>3. [f EXCEPT ![r] = HandedOut(@)] \in [1 .. Len(f) -> AllFates]
    BY <1>1, <1>2
  <1> QED
    BY <1>1, <1>3, FunctionIsSeq

(* The fields of such a state.                                             *)
LEMMA StateIs ==
  ASSUME NEW s, IsState(s)
  PROVE  \E ctx, pending, calls, how :
           /\ ctx \in Context /\ calls \in Seq(AllFates) /\ how \in {"up"} \cup Deaths
           /\ s = [ctx |-> ctx, pending |-> pending, fate |-> calls, process |-> how]
  BY Zenon DEF IsState

(* triggerEvent() keeps the type and sets no bit.                          *)
LEMMA TriggerState ==
  ASSUME NEW s, IsState(s), NEW event \in {READ, WRITE}
  PROVE  IsState(triggerEvent(s, event)) /\ triggerEvent(s, event).ctx.events \subseteq s.ctx.events
  <1>1. PICK ctx, pending, calls, how :
          /\ ctx \in Context /\ calls \in Seq(AllFates) /\ how \in {"up"} \cup Deaths
          /\ s = [ctx |-> ctx, pending |-> pending, fate |-> calls, process |-> how]
    BY StateIs
  <1>2. PICK events \in SUBSET {"IN", "PRI"}, waiter \in [{READ, WRITE} -> 0 .. MaxAdds] :
          ctx = [events |-> events, waiter |-> waiter]
    BY <1>1 DEF Context
  <1>3. [waiter EXCEPT ![event] = 0] \in [{READ, WRITE} -> 0 .. MaxAdds]
    BY <1>2, BoundsAre
  <1>4. s.ctx.events = events
    BY <1>1, <1>2
  <1>5. CASE how # "up"
    BY <1>1, <1>5 DEF triggerEvent
  <1>6. CASE how = "up" /\ waiter[event] = 0
    <2>1. PICK left \in Context :
            left = [events |-> events \ event, waiter |-> waiter] /\ left.events = events \ event
      <3>1. [events |-> events \ event, waiter |-> waiter] \in Context
        BY <1>2 DEF Context
      <3> QED
        BY <3>1
    <2>2. triggerEvent(s, event) =
            [ctx |-> left, pending |-> pending, fate |-> calls, process |-> "null scheduler"]
      BY <1>1, <1>2, <1>6, <2>1 DEF triggerEvent
    <2>3. IsState(triggerEvent(s, event)) /\ triggerEvent(s, event).ctx = left
      BY <1>1, <2>2, StateMade DEF Deaths
    <2> QED
      BY <1>4, <2>1, <2>3
  <1>7. CASE how = "up" /\ waiter[event] # 0
    <2>1. PICK left \in Context :
            /\ left = [events |-> events \ event, waiter |-> [waiter EXCEPT ![event] = 0]]
            /\ left.events = events \ event
      <3>1. [events |-> events \ event, waiter |-> [waiter EXCEPT ![event] = 0]] \in Context
        BY <1>2, <1>3 DEF Context
      <3> QED
        BY <3>1
    <2>2. PICK after \in Seq(AllFates) : after = [calls EXCEPT ![waiter[event]] = HandedOut(@)]
      BY <1>1, HandedOutSeq
    <2>3. triggerEvent(s, event) =
            [ctx |-> left, pending |-> pending, fate |-> after, process |-> "up"]
      BY <1>1, <1>2, <1>7, <2>1, <2>2 DEF triggerEvent, resetEventContext
    <2>4. IsState(triggerEvent(s, event)) /\ triggerEvent(s, event).ctx = left
      BY <2>3, StateMade
    <2> QED
      BY <1>4, <2>1, <2>4
  <1> QED
    BY <1>1, <1>5, <1>6, <1>7

(* The count keeps the type and the context.                               *)
LEMMA DiscountState ==
  ASSUME NEW s, IsState(s)
  PROVE  IsState(Discount(s)) /\ Discount(s).ctx = s.ctx
  <1>1. PICK ctx, pending, calls, how :
          /\ ctx \in Context /\ calls \in Seq(AllFates) /\ how \in {"up"} \cup Deaths
          /\ s = [ctx |-> ctx, pending |-> pending, fate |-> calls, process |-> how]
    BY StateIs
  <1>2. CASE how = "up"
    <2>1. Discount(s) = [ctx |-> ctx, pending |-> (pending + Word - 1) % Word,
                         fate |-> calls, process |-> how]
      BY <1>1, <1>2 DEF Discount
    <2> QED
      BY <1>1, <2>1, StateMade
  <1>3. CASE how # "up"
    BY <1>1, <1>3 DEF Discount
  <1> QED
    BY <1>2, <1>3

(* So does triggerEvent() under its if.                                    *)
LEMMA TriggerIfState ==
  ASSUME NEW s, IsState(s), NEW events, NEW event \in {READ, WRITE}
  PROVE  IsState(TriggerIf(s, events, event))
         /\ TriggerIf(s, events, event).ctx.events \subseteq s.ctx.events
  BY TriggerState, DiscountState DEF TriggerIf

(* What the steps begin with is such a state.                              *)
LEMMA StateIsState ==
  ASSUME Types, NEW c \in Contexts
  PROVE  IsState(State(c)) /\ State(c).ctx = context[c]
  BY DEF Types, State, IsState

(* What they end with is typed, and no context has more bits.              *)
LEMMA BecomesTypes ==
  ASSUME Types, NEW c \in Contexts, NEW s, IsState(s),
         s.ctx.events \subseteq context[c].events, Becomes(c, s)
  PROVE  /\ context' \in [Contexts -> Context]
         /\ \A d \in Contexts : context'[d].events \subseteq context[d].events
         /\ fate' \in Seq(AllFates) /\ process' \in {"up"} \cup Deaths
  BY DEF Types, Becomes, IsState

(* epoll_ctl leaves an interest behind that is of the descriptor.          *)
LEMMA EpollTypes ==
  ASSUME Types, CallsKnow, NEW c \in Contexts, NEW fd \in Fds, fd = c[1],
         NEW op, NEW events \in SUBSET {"IN", "PRI"}, epoll_ctl(op, fd, c, events)
  PROVE  /\ interest' \in [Fds -> [ptr : Contexts \cup {<<>>}, events : SUBSET {"IN", "PRI"}]]
         /\ \A d \in Fds : interest'[d] # NotWatched =>
              interest'[d].ptr \in Contexts /\ interest'[d].ptr[1] = d
  <1>1. PICK new \in [ptr : Contexts \cup {<<>>}, events : SUBSET {"IN", "PRI"}] :
          /\ new = IF op = "DEL" THEN NotWatched ELSE [ptr |-> c, events |-> events]
          /\ new # NotWatched => new.ptr = c
    BY DEF NotWatched, NONE
  <1>2. interest' = [interest EXCEPT ![fd] = new]
    BY <1>1 DEF epoll_ctl
  <1> QED
    BY <1>1, <1>2 DEF Types, CallsKnow, Watched

-----------------------------------------------------------------------------
(* The table at first: what is in the vector has its first context.        *)
LEMMA TableInit == Init => Table
  <1> SUFFICES ASSUME Init
               PROVE  Table
    OBVIOUS
  <1>1. Types
    <2>1. newest \in [Fds -> 0 .. MaxContexts] /\ context \in [Contexts -> Context]
      BY BoundsAre, NewContextType DEF Init
    <2>2. fate \in Seq(AllFates)
      BY EmptySeq DEF Init
    <2>3. /\ interest \in [Fds -> [ptr : Contexts \cup {<<>>}, events : SUBSET {"IN", "PRI"}]]
          /\ call \in [Threads -> CallRecord]
      BY BoundsAre DEF Init, NotWatched, NoCall, NONE, CallRecord
    <2> QED
      BY <2>1, <2>2, <2>3, BoundsAre DEF Init, Types, NoThread, Places
  <1>2. CallsKnow
    BY DEF Init, CallsKnow, Has, Watched
  <1>3. Vector
    <2>1. \A fd \in Fds : fd \in Nat
      BY FdsAssumption
    <2>2. \A c \in Contexts : context[c].events = NONE
      BY NewContextType DEF Init
    <2> QED
      BY <2>1, <2>2, BoundsAre DEF Init, Vector
  <1> QED
    BY <1>1, <1>2, <1>3 DEF Table

(* A thread moves to where what it has of a context fits the table ...     *)
Moves(t, next, new) ==
  pc' = [pc EXCEPT ![t] = next] /\ call' = [call EXCEPT ![t] = new]

CallFits(next, new) ==
  /\ next \in Places /\ new \in CallRecord
  /\ next # "idle" => new.fd \in Fds
  /\ next \in {"add", "del", "cancel", "cancel all"} =>
       new.fd_ctx \in Contexts /\ new.fd_ctx[1] = new.fd
  /\ next \notin {"idle", "cancel all"} => new.event \in Events
  /\ ~ shrunk /\ next = "add" => Current(new.fd_ctx)

(* ... and bits are reset, or set in a context that is in the vector.      *)
ContextsFit ==
  /\ context' \in [Contexts -> Context]
  /\ \A c \in Contexts :
       context'[c].events # NONE => context[c].events # NONE \/ (~ shrunk => Current(c))
  /\ interest' \in [Fds -> [ptr : Contexts \cup {<<>>}, events : SUBSET {"IN", "PRI"}]]
  /\ \A fd \in Fds : interest'[fd] # NotWatched =>
       interest'[fd].ptr \in Contexts /\ interest'[fd].ptr[1] = fd

(* A context with other bits and another caller, or none.                  *)
LEMMA ContextSet ==
  ASSUME NEW ctx \in Context, NEW bits \in SUBSET {"IN", "PRI"}, NEW event \in {READ, WRITE},
         NEW add \in 0 .. MaxAdds
  PROVE  /\ [ctx EXCEPT !.events = bits, !.waiter[event] = add] \in Context
         /\ [ctx EXCEPT !.events = bits, !.waiter[event] = add].events = bits
  <1>1. ctx = [events |-> ctx.events, waiter |-> ctx.waiter]
        /\ ctx.waiter \in [{READ, WRITE} -> 0 .. MaxAdds]
    BY DEF Context
  <1>2. PICK waiter \in [{READ, WRITE} -> 0 .. MaxAdds] :
          waiter = [ctx.waiter EXCEPT ![event] = add]
    BY <1>1
  <1>3. PICK half : half = [ctx EXCEPT !.events = bits]
    OBVIOUS
  <1>4. half = [events |-> bits, waiter |-> ctx.waiter]
    BY <1>1, <1>3
  <1>5. [half EXCEPT !.waiter[event] = add] = [events |-> bits, waiter |-> waiter]
    BY <1>2, <1>4
  <1>6. [ctx EXCEPT !.events = bits, !.waiter[event] = add] = [half EXCEPT !.waiter[event] = add]
    BY <1>3
  <1> QED
    BY <1>5, <1>6 DEF Context

LEMMA ContextReset ==
  ASSUME NEW ctx \in Context, NEW bits \in SUBSET {"IN", "PRI"}, NEW event \in {READ, WRITE}
  PROVE  /\ resetEventContext([ctx EXCEPT !.events = bits], event) \in Context
         /\ resetEventContext([ctx EXCEPT !.events = bits], event).events = bits
  <1>1. ctx = [events |-> ctx.events, waiter |-> ctx.waiter]
        /\ ctx.waiter \in [{READ, WRITE} -> 0 .. MaxAdds]
    BY DEF Context
  <1>2. PICK waiter \in [{READ, WRITE} -> 0 .. MaxAdds] :
          waiter = [ctx.waiter EXCEPT ![event] = 0]
    BY <1>1, BoundsAre
  <1>3. PICK half : half = [ctx EXCEPT !.events = bits]
    OBVIOUS
  <1>4. half = [events |-> bits, waiter |-> ctx.waiter]
    BY <1>1, <1>3
  <1>5. resetEventContext(half, event) = [events |-> bits, waiter |-> waiter]
    BY <1>2, <1>4 DEF resetEventContext
  <1> QED
    BY <1>3, <1>5 DEF Context

(* Then the table is right afterwards.                                     *)
LEMMA TableMoves ==
  ASSUME Table, NEW t \in Threads, NEW next, NEW new,
         Moves(t, next, new), CallFits(next, new), ContextsFit,
         fate' \in Seq(AllFates), process' \in {"up"} \cup Deaths,
         m_mutex' \in Threads \cup {NoThread}, UNCHANGED <<size, newest, shrunk, batch>>
  PROVE  Table'
  <1> USE DEF Moves, CallFits, ContextsFit
  <1>1. Types'
    BY DEF Table, Types
  <1>2. CallsKnow'
    BY DEF Table, Types, CallsKnow, Has, Watched
  <1>3. Vector'
    <2>1. \A c \in Contexts : Current(c)' = Current(c)
      BY DEF Current
    <2>2. ~ shrunk => \A u \in Threads : pc'[u] = "add" => Current(call'[u].fd_ctx)
      BY DEF Table, Types, Vector
    <2>4. ~ shrunk => \A c \in Contexts : context'[c].events # NONE => Current(c)'
      BY <2>1 DEF Table, Vector
    <2> HIDE DEF Moves, CallFits, ContextsFit
    <2>5. ~ shrunk => \A u \in Threads : pc'[u] = "add" => Current(call[u].fd_ctx)'
      BY <2>2 DEF Current
    <2>6. /\ \A fd \in Fds : fd < size => newest[fd] > 0
          /\ ~ shrunk => \A fd \in Fds : size <= fd => newest[fd] = 0
      BY DEF Table, Vector
    <2> QED
      BY <2>4, <2>5, <2>6 DEF Vector
  <1> QED
    BY <1>1, <1>2, <1>3 DEF Table

(* Contexts that nobody touches fit.                                       *)
LEMMA ContextsStay ==
  ASSUME Table, UNCHANGED <<context, interest>>
  PROVE  ContextsFit
  BY DEF Table, Types, CallsKnow, Watched, ContextsFit

(* What a call begins with, and what it leaves behind.                     *)
Started(add, fd, event) == [NoCall EXCEPT !.add = add, !.fd = fd, !.event = event]

(* A call as addEvent() and cancelEvent() begin it.                        *)
LEMMA NewCall ==
  ASSUME NEW add \in 0 .. MaxAdds, NEW fd \in Fds, NEW event \in Events
  PROVE  /\ Started(add, fd, event) \in CallRecord
         /\ Started(add, fd, event).fd = fd
         /\ Started(add, fd, event).event = event
         /\ Started(add, fd, event).add = add
  BY EventsDiffer DEF Started, NoCall, CallRecord

(* A descriptor that has a context has a newest one.                       *)
LEMMA NewestIsContext ==
  ASSUME Table, NEW fd \in Fds, newest[fd] > 0
  PROVE  <<fd, newest[fd]>> \in Contexts
  <1>1. newest[fd] \in 0 .. MaxContexts
    BY DEF Table, Types
  <1>2. newest[fd] \in 1 .. MaxContexts
    BY <1>1, BoundsAre
  <1> QED
    BY <1>2 DEF Contexts

(* No call fits everywhere.                                                *)
LEMMA NoCallFits == CallFits("idle", NoCall)
  BY BoundsAre DEF NoCall, CallRecord, CallFits, Places

(* addEvent() begins.                                                      *)
LEMMA TableAddLook ==
  ASSUME Table, NEW t \in Threads, NEW fd \in Fds, NEW event \in Events, AddLook(t, fd, event)
  PROVE  Table'
  <1>1. Len(fate) \in Nat
    BY LenProperties DEF Table, Types
  <1>2. Len(fate) < MaxAdds
    BY DEF AddLook
  <1>3. Len(fate) + 1 \in 0 .. MaxAdds
    BY <1>1, <1>2, BoundsAre
  <1>4. fate' \in Seq(AllFates)
    BY AppendProperties DEF Table, Types, AddLook, AllFates, Fates
  <1>5. PICK next \in {"add get", "add grow"} : Begin(t, next, Len(fate) + 1, fd, event)
    BY DEF AddLook
  <1>6. CallFits(next, Started(Len(fate) + 1, fd, event))
    BY <1>3, NewCall DEF CallFits, Places
  <1>7. Moves(t, next, Started(Len(fate) + 1, fd, event))
    BY <1>5 DEF Begin, Moves, Started
  <1>8. UNCHANGED <<size, newest, m_mutex, shrunk, context, interest, batch, process>>
    BY DEF AddLook, vector
  <1> QED
    BY <1>4, <1>6, <1>7, <1>8, TableMoves, ContextsStay DEF Table, Types

(* delEvent() and cancelAll() look their context up.                       *)
LEMMA TableLookUnderLock ==
  ASSUME Table, NEW t \in Threads, NEW fd \in Fds, NEW event \in Events \cup {NONE},
         NEW next \in {"del", "cancel all"}, next = "del" => event \in Events,
         LookUnderLock(t, next, fd, event)
  PROVE  Table'
  <1>1. <<fd, newest[fd]>> \in Contexts
    <2>1. newest[fd] > 0
      BY DEF Table, Vector, LookUnderLock
    <2> QED
      BY <2>1, NewestIsContext
  <1>2. event \in {NONE, READ, WRITE}
    BY EventsDiffer
  <1>3. [add |-> 0, fd |-> fd, event |-> event, fd_ctx |-> <<fd, newest[fd]>>] \in CallRecord
    BY <1>1, <1>2, BoundsAre DEF CallRecord
  <1>4. PICK new \in CallRecord :
          /\ new = [add |-> 0, fd |-> fd, event |-> event, fd_ctx |-> <<fd, newest[fd]>>]
          /\ new.fd = fd /\ new.event = event
          /\ new.fd_ctx \in Contexts /\ new.fd_ctx[1] = fd
    BY <1>1, <1>3
  <1>5. Moves(t, next, new) /\ CallFits(next, new)
    BY <1>4, EventsDiffer DEF LookUnderLock, Moves, CallFits, Places
  <1>6. UNCHANGED <<size, newest, m_mutex, shrunk, context, interest, batch, fate, process>>
    BY DEF LookUnderLock, vector
  <1> QED
    BY <1>5, <1>6, TableMoves, ContextsStay DEF Table, Types

(* cancelEvent() reads m_fdContexts[fd] before it tests the bound.         *)
LEMMA TableCancelLook ==
  ASSUME Table, NEW t \in Threads, NEW fd \in Fds, NEW event \in Events, CancelLook(t, fd, event)
  PROVE  Table'
  <1>1. CASE Begin(t, "cancel look", 0, fd, event) /\ UNCHANGED process
    <2>1. CallFits("cancel look", Started(0, fd, event))
      BY NewCall, BoundsAre DEF CallFits, Places
    <2>2. Moves(t, "cancel look", Started(0, fd, event))
      BY <1>1 DEF Begin, Moves, Started
    <2>3. UNCHANGED <<size, newest, m_mutex, shrunk, context, interest, batch, fate>>
      BY DEF CancelLook, Dies, vector
    <2> QED
      BY <1>1, <2>1, <2>2, <2>3, TableMoves, ContextsStay DEF Table, Types
  <1>2. CASE Dies(t, "bad access")
    BY <1>2 DEF Dies, vector, threads, Deaths, Table, Types, CallsKnow, Has, Watched,
                Vector, Current
  <1> QED
    BY <1>1, <1>2 DEF CancelLook

(* contextResize() begins, with m_mutex.                                   *)
LEMMA TableAddGrow ==
  ASSUME Table, NEW t \in Threads, AddGrow(t)
  PROVE  Table'
  <1>1. Moves(t, "add growing", call[t])
    BY DEF AddGrow, Goto, Moves, Table, Types
  <1>2. CallFits("add growing", call[t])
    BY DEF AddGrow, Goto, CallFits, Table, Types, CallsKnow, Places
  <1> QED
    BY <1>1, <1>2, TableMoves, ContextsStay DEF AddGrow, Table, Types

(* The returns that change no context.                                     *)
LEMMA TableReturns ==
  ASSUME Table, NEW t \in Threads, AddFails(t) \/ ReturnsFalse(t)
  PROVE  Table'
  <1>1. fate' \in Seq(AllFates)
    <2>1. Len(fate) \in Nat /\ fate \in [1 .. Len(fate) -> AllFates]
      BY LenProperties DEF Table, Types
    <2>2. fate' \in [1 .. Len(fate) -> AllFates]
      BY <2>1 DEF AddFails, ReturnsFalse, AllFates, Fates
    <2> QED
      BY <2>1, <2>2, FunctionIsSeq
  <1>2. Moves(t, "idle", NoCall)
    BY DEF AddFails, ReturnsFalse, Return, Goto, Moves
  <1> QED
    BY <1>1, <1>2, NoCallFits, TableMoves, ContextsStay
       DEF AddFails, ReturnsFalse, Table, Types, vector

(* m_fdContexts[fd] is read, of a descriptor of the call.                  *)
LEMMA TableLookup ==
  ASSUME Table, NEW t \in Threads, AddGet(t) \/ CancelGet(t)
  PROVE  Table'
  <1> DEFINE fd == call[t].fd
  <1>1. UNCHANGED <<size, newest, m_mutex, shrunk, context, interest, batch, fate>>
    BY DEF AddGet, CancelGet, vector
  <1>2. fd \in Fds /\ call[t].event \in Events /\ call[t] \in CallRecord
    BY DEF AddGet, CancelGet, Return, Goto, Table, Types, CallsKnow
  <1>3. CASE \E next \in {"add", "cancel"} : Lookup(t, next) /\ (next = "cancel" => size > fd)
    <2>1. PICK next \in {"add", "cancel"} : Lookup(t, next)
      BY <1>3
    <2>2. CASE newest[fd] > 0 /\ UNCHANGED process
               /\ pc' = [pc EXCEPT ![t] = next]
               /\ call' = [call EXCEPT ![t].fd_ctx = <<fd, newest[fd]>>]
      <3>1. <<fd, newest[fd]>> \in Contexts
        BY <1>2, <2>2, NewestIsContext
      <3>2. PICK new \in CallRecord :
              /\ new = [call[t] EXCEPT !.fd_ctx = <<fd, newest[fd]>>]
              /\ new.fd = fd /\ new.event = call[t].event /\ new.fd_ctx = <<fd, newest[fd]>>
        <4>1. [call[t] EXCEPT !.fd_ctx = <<fd, newest[fd]>>] \in CallRecord
          BY <1>2, <3>1 DEF CallRecord
        <4> QED
          BY <1>2, <4>1 DEF CallRecord
      <3>3. Moves(t, next, new)
        BY <2>2, <3>2 DEF Moves, Table, Types
      <3>4. ~ shrunk => fd < size
        BY <1>2, <2>2, FdsAssumption DEF Table, Types, Vector
      <3>5. CallFits(next, new)
        <4>1. new.fd_ctx[1] = fd /\ new.fd_ctx[2] = newest[fd]
          BY <3>2
        <4>2. ~ shrunk => Current(new.fd_ctx)
          BY <3>4, <4>1 DEF Current
        <4> HIDE DEF fd
        <4> QED
          BY <1>2, <3>1, <3>2, <4>1, <4>2 DEF CallFits, Places
      <3> QED
        BY <1>1, <2>2, <3>3, <3>5, TableMoves, ContextsStay DEF Table, Types
    <2>3. CASE process' = "bad access" /\ UNCHANGED threads
      BY <1>1, <2>3 DEF threads, Deaths, Table, Types, CallsKnow, Has, Watched, Vector, Current
    <2> QED
      BY <2>1, <2>2, <2>3 DEF Lookup
  <1>4. CASE Return(t, "cancel look") /\ UNCHANGED process
    <2>1. Moves(t, "idle", NoCall)
      BY <1>4 DEF Return, Goto, Moves
    <2> QED
      BY <1>1, <1>4, <2>1, NoCallFits, TableMoves, ContextsStay DEF Table, Types
  <1> QED
    BY <1>3, <1>4 DEF AddGet, CancelGet

(* resize() leaves a context for all that is in the vector; if it did not  *)
(* cut any off, those that were current are so still.                      *)
LEMMA ResizeKeeps ==
  ASSUME Table, NEW n \in Nat, contextResize(n), \A f \in Fds : newest'[f] <= MaxContexts
  PROVE  /\ size' \in Nat /\ newest' \in [Fds -> 0 .. MaxContexts] /\ shrunk' \in BOOLEAN
         /\ \A f \in Fds : f < size' => newest'[f] > 0
         /\ ~ shrunk' => /\ ~ shrunk /\ size <= size'
                         /\ \A f \in Fds : size' <= f => newest'[f] = 0
                         /\ \A f \in Fds : f < size => newest'[f] = newest[f]
  <1>1. size \in Nat /\ newest \in [Fds -> 0 .. MaxContexts] /\ shrunk \in BOOLEAN
    BY DEF Table, Types
  <1>2. \A f \in Fds : f \in Nat /\ newest[f] \in Nat
    BY <1>1, FdsAssumption, BoundsAre
  <1>3. size' = n /\ shrunk' = (shrunk \/ n < size)
    BY DEF contextResize
  <1>4. \A f \in Fds : newest'[f] = IF f < n /\ size <= f THEN newest[f] + 1 ELSE newest[f]
    BY DEF contextResize, Missing
  <1>5. newest' \in [Fds -> 0 .. MaxContexts]
    <2>1. \A f \in Fds : newest'[f] \in 0 .. MaxContexts
      BY <1>2, <1>4, BoundsAre
    <2> QED
      BY <2>1 DEF contextResize
  <1>6. \A f \in Fds : f < n => newest'[f] > 0
    BY <1>1, <1>2, <1>4 DEF Table, Vector
  <1>7. ~ shrunk' => /\ ~ shrunk /\ size <= size'
                     /\ \A f \in Fds : size' <= f => newest'[f] = 0
                     /\ \A f \in Fds : f < size => newest'[f] = newest[f]
    <2> SUFFICES ASSUME ~ shrunk'
                 PROVE  /\ ~ shrunk /\ size <= size'
                        /\ \A f \in Fds : size' <= f => newest'[f] = 0
                        /\ \A f \in Fds : f < size => newest'[f] = newest[f]
      OBVIOUS
    <2>1. ~ shrunk /\ size <= n
      <3>1. ~ (shrunk \/ n < size)
        BY <1>3, Zenon
      <3> QED
        BY <1>1, <3>1
    <2>2. \A f \in Fds : size <= f => newest[f] = 0
      BY <2>1 DEF Table, Vector
    <2>3. \A f \in Fds : n <= f => newest'[f] = 0
      BY <1>1, <1>2, <1>4, <2>1, <2>2
    <2>4. \A f \in Fds : f < size => newest'[f] = newest[f]
      BY <1>1, <1>2, <1>4
    <2> QED
      BY <1>3, <2>1, <2>3, <2>4
  <1> QED
    BY <1>1, <1>3, <1>5, <1>6, <1>7

(* The table grows, and the context is looked up in it.                    *)
LEMMA TableAddGrown ==
  ASSUME Table, NEW t \in Threads, AddGrown(t)
  PROVE  Table'
  <1> DEFINE fd == call[t].fd
  <1>1. /\ fd \in Fds /\ fd \in Nat /\ call[t].event \in Events /\ call[t] \in CallRecord
        /\ (fd * 3) \div 2 \in Nat
    <2>1. fd \in Fds /\ call[t].event \in Events /\ call[t] \in CallRecord
      BY DEF AddGrown, Table, Types, CallsKnow
    <2>2. PICK n \in Nat : n = fd
      BY <2>1, FdsAssumption
    <2>3. (n * 3) \div 2 \in Nat
      OBVIOUS
    <2> QED
      BY <2>1, <2>2, <2>3
  <1>2. /\ size' \in Nat /\ newest' \in [Fds -> 0 .. MaxContexts] /\ shrunk' \in BOOLEAN
        /\ \A f \in Fds : f < size' => newest'[f] > 0
        /\ ~ shrunk' => /\ ~ shrunk /\ size <= size'
                        /\ \A f \in Fds : size' <= f => newest'[f] = 0
                        /\ \A f \in Fds : f < size => newest'[f] = newest[f]
    BY <1>1, ResizeKeeps DEF AddGrown
  <1>3. UNCHANGED <<context, interest, batch, fate>>
    BY DEF AddGrown
  <1>4. \A c \in Contexts : ~ shrunk' /\ Current(c) => Current(c)'
    <2> SUFFICES ASSUME NEW c \in Contexts, ~ shrunk', Current(c)
                 PROVE  Current(c)'
      OBVIOUS
    <2>1. c[1] \in Fds /\ c[1] \in Nat /\ size \in Nat
      BY FdsAssumption DEF Contexts, Table, Types
    <2> QED
      BY <1>2, <2>1 DEF Current
  <1>5. CASE newest'[fd] > 0 /\ UNCHANGED process
             /\ pc' = [pc EXCEPT ![t] = "add"]
             /\ call' = [call EXCEPT ![t].fd_ctx = <<fd, newest'[fd]>>]
    <2>1. <<fd, newest'[fd]>> \in Contexts
      <3>1. newest'[fd] \in 1 .. MaxContexts
        BY <1>1, <1>2, <1>5, BoundsAre
      <3> QED
        BY <1>1, <3>1 DEF Contexts
    <2>2. [call[t] EXCEPT !.fd_ctx = <<fd, newest'[fd]>>] \in CallRecord
      BY <1>1, <2>1 DEF CallRecord
    <2>3. PICK new \in CallRecord :
            /\ new = [call[t] EXCEPT !.fd_ctx = <<fd, newest'[fd]>>]
            /\ new.fd = fd /\ new.event = call[t].event /\ new.fd_ctx = <<fd, newest'[fd]>>
            /\ new.fd_ctx[1] = fd /\ new.fd_ctx[2] = newest'[fd]
      BY <1>1, <2>2 DEF CallRecord
    <2>4. call' = [call EXCEPT ![t] = new]
      BY <1>5, <2>3 DEF Table, Types
    <2>5. ~ shrunk' => fd < size'
      BY <1>1, <1>2, <1>5
    <2> HIDE DEF fd
    <2>6. Types'
      <3>1. "add" \in Places
        BY DEF Places
      <3>2. pc' \in [Threads -> Places]
        BY <1>5, <3>1 DEF Table, Types
      <3>3. call' \in [Threads -> CallRecord]
        BY <2>4 DEF Table, Types
      <3> QED
        BY <1>2, <1>3, <1>5, <3>2, <3>3 DEF AddGrown, Table, Types
    <2>7. CallsKnow'
      BY <1>1, <1>3, <1>5, <2>1, <2>3, <2>4 DEF Table, Types, CallsKnow, Has, Watched
    <2>8. ~ shrunk' => Current(new.fd_ctx)'
      BY <2>3, <2>5 DEF Current
    <2>9. Vector'
      <3>1. ~ shrunk' => \A c \in Contexts : context'[c].events # NONE => Current(c)'
        BY <1>2, <1>3, <1>4 DEF Table, Vector
      <3>2. ~ shrunk' => \A u \in Threads : pc'[u] = "add" => Current(call[u].fd_ctx)'
        <4> SUFFICES ASSUME ~ shrunk', NEW u \in Threads, pc'[u] = "add"
                     PROVE  Current(call[u].fd_ctx)'
          OBVIOUS
        <4>1. CASE u = t
          <5>1. call'[u].fd_ctx = new.fd_ctx
            BY <2>4, <4>1 DEF Table, Types
          <5> QED
            BY <2>8, <5>1 DEF Current
        <4>2. CASE u # t
          <5>1. ~ shrunk /\ pc[u] = "add"
            BY <1>2, <1>5, <4>2 DEF Table, Types
          <5>2. PICK c \in Contexts : c = call[u].fd_ctx /\ Current(c)
            BY <5>1 DEF Table, CallsKnow, Has, Vector
          <5>3. Current(c)' /\ call'[u].fd_ctx = c
            BY <1>4, <2>4, <4>2, <5>2 DEF Table, Types
          <5> QED
            BY <5>3 DEF Current
        <4> QED
          BY <4>1, <4>2
      <3> QED
        BY <1>2, <3>1, <3>2 DEF Vector, Current
    <2> QED
      BY <2>6, <2>7, <2>9 DEF Table
  <1>6. CASE process' = "bad access" /\ UNCHANGED threads
    <2>1. Types' /\ CallsKnow'
      BY <1>2, <1>3, <1>6 DEF AddGrown, Deaths, threads, Table, Types, CallsKnow, Has, Watched
    <2>2. ~ shrunk' => \A u \in Threads : pc'[u] = "add" => Current(call[u].fd_ctx)'
      BY <1>2, <1>4, <1>6 DEF threads, Table, CallsKnow, Has, Vector
    <2>3. ~ shrunk' => \A c \in Contexts : context'[c].events # NONE => Current(c)'
      BY <1>2, <1>3, <1>4 DEF Table, Vector
    <2>4. Vector'
      BY <1>2, <1>6, <2>2, <2>3 DEF threads, Vector, Current
    <2> QED
      BY <2>1, <2>4 DEF Table
  <1> QED
    BY <1>5, <1>6 DEF AddGrown

(* A bit is set, in the context that addEvent() has looked up.             *)
LEMMA TableAddSucceeds ==
  ASSUME Table, NEW t \in Threads, AddSucceeds(t)
  PROVE  Table'
  <1>1. PICK c \in Contexts : c = call[t].fd_ctx /\ c[1] = call[t].fd /\ call[t].fd \in Fds
    BY DEF AddSucceeds, Table, Types, CallsKnow, Has
  <1>2. PICK event \in {READ, WRITE} : event = call[t].event
    BY EventsDiffer DEF AddSucceeds, Table, CallsKnow
  <1>3. PICK add \in 0 .. MaxAdds : add = call[t].add
    BY DEF Table, Types, CallRecord
  <1>4. PICK events \in SUBSET {"IN", "PRI"} : events = context[c].events \cup event
    BY <1>2 DEF Table, Types, Context, READ, WRITE
  <1>5. PICK op : epoll_ctl(op, call[t].fd, c, events)
    BY <1>1, <1>2, <1>4 DEF AddSucceeds
  <1>6. PICK new \in Context : new = [context[c] EXCEPT !.events = events, !.waiter[event] = add]
    <2>1. context[c] \in Context
      BY DEF Table, Types
    <2> QED
      BY <2>1, ContextSet
  <1>7. context' = [context EXCEPT ![c] = new]
    <2>1. context' = [context EXCEPT ![c].events = events, ![c].waiter[event] = add]
      BY <1>1, <1>2, <1>3, <1>4 DEF AddSucceeds
    <2>2. PICK half : half = [context EXCEPT ![c].events = events]
      OBVIOUS
    <2>3. PICK mid : mid = [context[c] EXCEPT !.events = events]
      OBVIOUS
    <2>4. half = [context EXCEPT ![c] = mid] /\ half[c] = mid
      BY <2>2, <2>3 DEF Table, Types
    <2>5. context' = [half EXCEPT ![c] = [mid EXCEPT !.waiter[event] = add]]
      BY <2>1, <2>2, <2>4
    <2>6. new = [mid EXCEPT !.waiter[event] = add]
      BY <1>6, <2>3
    <2> QED
      BY <2>4, <2>5, <2>6 DEF Table, Types
  <1>8. ContextsFit
    <2>1. ~ shrunk => Current(c)
      BY <1>1 DEF AddSucceeds, Table, Vector
    <2> QED
      BY <1>1, <1>5, <1>7, <2>1, EpollTypes DEF ContextsFit, Table, Types
  <1>9. fate' \in Seq(AllFates)
    <2>1. Len(fate) \in Nat /\ fate \in [1 .. Len(fate) -> AllFates]
      BY LenProperties DEF Table, Types
    <2>2. fate' \in [1 .. Len(fate) -> AllFates]
      BY <2>1 DEF AddSucceeds, AllFates, Fates
    <2> QED
      BY <2>1, <2>2, FunctionIsSeq
  <1>10. Moves(t, "idle", NoCall)
    BY DEF AddSucceeds, Return, Goto, Moves
  <1> QED
    BY <1>8, <1>9, <1>10, NoCallFits, TableMoves DEF AddSucceeds, Table, Types, vector

(* Bits are reset, whatever becomes of the callers.                        *)
LEMMA BecomesFits ==
  ASSUME Table, NEW c \in Contexts, NEW s, IsState(s),
         s.ctx.events \subseteq context[c].events, Becomes(c, s),
         NEW op, NEW events \in SUBSET {"IN", "PRI"}, epoll_ctl(op, c[1], c, events)
  PROVE  ContextsFit /\ fate' \in Seq(AllFates) /\ process' \in {"up"} \cup Deaths
  <1>1. c[1] \in Fds
    BY DEF Contexts
  <1>2. /\ interest' \in [Fds -> [ptr : Contexts \cup {<<>>}, events : SUBSET {"IN", "PRI"}]]
        /\ \A d \in Fds : interest'[d] # NotWatched =>
             interest'[d].ptr \in Contexts /\ interest'[d].ptr[1] = d
    BY <1>1, EpollTypes DEF Table
  <1>3. /\ context' \in [Contexts -> Context]
        /\ \A d \in Contexts : context'[d].events \subseteq context[d].events
        /\ fate' \in Seq(AllFates) /\ process' \in {"up"} \cup Deaths
    BY BecomesTypes DEF Table
  <1> QED
    BY <1>2, <1>3 DEF ContextsFit, NONE

(* What is left of a context's bits are bits.                              *)
LEMMA BitsLeft ==
  ASSUME Table, NEW c \in Contexts, NEW events
  PROVE  context[c].events \ events \in SUBSET {"IN", "PRI"}
  BY DEF Table, Types, Context

(* delEvent() resets a bit and the caller.                                 *)
LEMMA TableDelEvent ==
  ASSUME Table, NEW t \in Threads, DelEvent(t)
  PROVE  Table'
  <1>1. PICK c \in Contexts : c = call[t].fd_ctx /\ c[1] = call[t].fd
    BY DEF DelEvent, Table, CallsKnow, Has
  <1>2. PICK event \in {READ, WRITE} : event = call[t].event
    BY EventsDiffer DEF DelEvent, Table, CallsKnow
  <1>3. PICK left \in SUBSET {"IN", "PRI"} : left = EventsLeft(c, event)
    BY BitsLeft DEF EventsLeft
  <1>4. epoll_ctl(OpFor(left), c[1], c, left)
    BY <1>1, <1>2, <1>3 DEF DelEvent
  <1>5. PICK s : IsState(s) /\ s = Discount(State(c)) /\ s.ctx = context[c]
    BY StateIsState, DiscountState DEF Table
  <1>6. PICK after \in Seq(AllFates) :
          after = [q \in Adds |-> IF q = s.ctx.waiter[event] THEN "deleted" ELSE s.fate[q]]
    <2>1. Len(fate) \in Nat /\ fate \in [1 .. Len(fate) -> AllFates]
      BY LenProperties DEF Table, Types
    <2>2. s.fate = fate
      BY <1>5 DEF State, Discount
    <2>3. [q \in Adds |-> IF q = s.ctx.waiter[event] THEN "deleted" ELSE s.fate[q]]
            \in [1 .. Len(fate) -> AllFates]
      BY <2>1, <2>2 DEF Adds, AllFates, Fates
    <2> QED
      BY <2>1, <2>3, FunctionIsSeq
  <1>7. PICK ctx \in Context :
          /\ ctx = resetEventContext([context[c] EXCEPT !.events = left], event)
          /\ ctx.events = left
    <2>1. context[c] \in Context
      BY DEF Table, Types
    <2> QED
      BY <2>1, ContextReset
  <1>8. Becomes(c, [s EXCEPT !.ctx = ctx, !.fate = after])
    BY <1>1, <1>2, <1>3, <1>5, <1>6, <1>7 DEF DelEvent
  <1>9. IsState([s EXCEPT !.ctx = ctx, !.fate = after])
        /\ [s EXCEPT !.ctx = ctx, !.fate = after].ctx = ctx
    <2>1. PICK old, pending, calls, how :
            /\ old \in Context /\ calls \in Seq(AllFates) /\ how \in {"up"} \cup Deaths
            /\ s = [ctx |-> old, pending |-> pending, fate |-> calls, process |-> how]
      BY <1>5, StateIs
    <2>2. [s EXCEPT !.ctx = ctx, !.fate = after]
            = [ctx |-> ctx, pending |-> pending, fate |-> after, process |-> how]
      <3>1. PICK half : half = [s EXCEPT !.ctx = ctx]
        OBVIOUS
      <3>2. half = [ctx |-> ctx, pending |-> pending, fate |-> calls, process |-> how]
        BY <2>1, <3>1
      <3>3. [half EXCEPT !.fate = after]
              = [ctx |-> ctx, pending |-> pending, fate |-> after, process |-> how]
        BY <3>2
      <3>4. [s EXCEPT !.ctx = ctx, !.fate = after] = [half EXCEPT !.fate = after]
        BY <3>1
      <3> QED
        BY <3>3, <3>4
    <2> QED
      BY <2>1, <2>2, StateMade
  <1>10. Moves(t, "idle", NoCall)
    BY DEF DelEvent, Return, Goto, Moves
  <1>11. left \subseteq context[c].events
    BY <1>3 DEF EventsLeft
  <1>12. ContextsFit /\ fate' \in Seq(AllFates) /\ process' \in {"up"} \cup Deaths
    BY <1>4, <1>7, <1>8, <1>9, <1>11, BecomesFits
  <1> QED
    BY <1>10, <1>12, NoCallFits, TableMoves DEF DelEvent, Table, Types, vector

(* cancelEvent() and cancelAll() trigger what they reset.                  *)
LEMMA TableCancels ==
  ASSUME Table, NEW t \in Threads, CancelEvent(t) \/ CancelAll(t)
  PROVE  Table'
  <1>1. PICK c \in Contexts : c = call[t].fd_ctx /\ c[1] = call[t].fd
    BY DEF CancelEvent, CancelAll, Table, CallsKnow, Has
  <1>2. IsState(State(c)) /\ State(c).ctx = context[c]
    BY StateIsState DEF Table
  <1>3. ContextsFit /\ fate' \in Seq(AllFates) /\ process' \in {"up"} \cup Deaths
    <2>1. CASE CancelEvent(t)
      <3>1. PICK event \in {READ, WRITE} : event = call[t].event
        BY <2>1, EventsDiffer DEF CancelEvent, Table, CallsKnow
      <3>2. PICK s : s = Discount(triggerEvent(State(c), event)) /\ IsState(s)
                     /\ s.ctx.events \subseteq context[c].events
        BY <1>2, TriggerState, DiscountState
      <3>3. PICK left \in SUBSET {"IN", "PRI"} : left = EventsLeft(c, event)
        BY BitsLeft DEF EventsLeft
      <3>4. epoll_ctl(OpFor(left), c[1], c, left) /\ Becomes(c, s)
        BY <1>1, <2>1, <3>1, <3>2, <3>3 DEF CancelEvent
      <3> QED
        BY <3>2, <3>4, BecomesFits
    <2>2. CASE CancelAll(t)
      <3>1. PICK s : s = TriggerIf(State(c), context[c].events, READ) /\ IsState(s)
                     /\ s.ctx.events \subseteq context[c].events
        BY <1>2, TriggerIfState
      <3>2. PICK z : z = TriggerIf(s, s.ctx.events, WRITE) /\ IsState(z)
                     /\ z.ctx.events \subseteq s.ctx.events
        BY <3>1, TriggerIfState
      <3>3. epoll_ctl("DEL", c[1], c, NONE) /\ Becomes(c, z)
        BY <1>1, <2>2, <3>1, <3>2 DEF CancelAll
      <3>4. NONE \in SUBSET {"IN", "PRI"}
        BY DEF NONE
      <3> QED
        BY <3>1, <3>2, <3>3, <3>4, BecomesFits
    <2> QED
      BY <2>1, <2>2
  <1>4. Moves(t, "idle", NoCall)
    BY DEF CancelEvent, CancelAll, Return, Goto, Moves
  <1> QED
    BY <1>3, <1>4, NoCallFits, TableMoves DEF CancelEvent, CancelAll, Table, Types, vector

(* What epoll reports has contexts; a worker resets bits, as the calls do. *)
LEMMA TableWorker ==
  ASSUME Table, NEW w \in Workers, EpollWait(w) \/ Handle(w)
  PROVE  Table'
  <1>1. CASE EpollWait(w)
    <2>0. PICK ready \in SUBSET {fd \in Fds : Watched(fd)} :
            \E report \in [ready -> SUBSET {"IN", "PRI", "HUP"}] :
              batch' = [batch EXCEPT ![w] =
                {[ptr |-> interest[fd].ptr, events |-> report[fd]] : fd \in ready}]
      BY <1>1 DEF EpollWait
    <2>1. PICK report \in [ready -> SUBSET {"IN", "PRI", "HUP"}] :
            batch' = [batch EXCEPT ![w] =
              {[ptr |-> interest[fd].ptr, events |-> report[fd]] : fd \in ready}]
      BY <2>0
    <2>2. {[ptr |-> interest[fd].ptr, events |-> report[fd]] : fd \in ready}
            \in SUBSET [ptr : Contexts, events : SUBSET {"IN", "PRI", "HUP"}]
      <3>1. ASSUME NEW fd \in ready
            PROVE  [ptr |-> interest[fd].ptr, events |-> report[fd]]
                     \in [ptr : Contexts, events : SUBSET {"IN", "PRI", "HUP"}]
        <4>1. interest[fd].ptr \in Contexts
          BY <2>0 DEF Table, CallsKnow
        <4>2. report[fd] \in SUBSET {"IN", "PRI", "HUP"}
          BY <2>1
        <4> QED
          BY <4>1, <4>2
      <3> QED
        BY <3>1
    <2>3. Types'
      BY <1>1, <2>1, <2>2 DEF EpollWait, Table, Types, vector, threads
    <2> QED
      BY <1>1, <2>3 DEF EpollWait, Table, CallsKnow, Has, Watched, Vector, Current, vector,
                        threads
  <1>2. CASE Handle(w)
    <2>1. PICK e \in batch[w] :
            LET c == e.ptr
                fd == e.ptr[1]
                real == RealEvents(e)
                left == context[c].events \ real
            IN /\ batch' = [batch EXCEPT ![w] = @ \ {e}]
               /\ \/ UNCHANGED <<context, interest, m_pendingEventCount, fate, process>>
                  \/ /\ epoll_ctl(OpFor(left), fd, c, left)
                     /\ Becomes(c, TriggerIf(TriggerIf(State(c), real, READ), real, WRITE))
               /\ UNCHANGED <<vector, threads, waitsFor>>
      BY <1>2 DEF Handle
    <2>2. PICK c \in Contexts : c = e.ptr
      BY <2>1 DEF Table, Types
    <2>3. batch' \in [Workers -> SUBSET [ptr : Contexts, events : SUBSET {"IN", "PRI", "HUP"}]]
      BY <2>1 DEF Table, Types
    <2>4. ContextsFit /\ fate' \in Seq(AllFates) /\ process' \in {"up"} \cup Deaths
      <3>1. CASE UNCHANGED <<context, interest, m_pendingEventCount, fate, process>>
        BY <3>1, ContextsStay DEF Table, Types
      <3>2. CASE /\ epoll_ctl(OpFor(context[c].events \ RealEvents(e)), c[1], c,
                              context[c].events \ RealEvents(e))
                 /\ Becomes(c, TriggerIf(TriggerIf(State(c), RealEvents(e), READ),
                                         RealEvents(e), WRITE))
        <4>1. IsState(State(c)) /\ State(c).ctx = context[c]
          BY StateIsState DEF Table
        <4>2. PICK s : s = TriggerIf(State(c), RealEvents(e), READ) /\ IsState(s)
                       /\ s.ctx.events \subseteq context[c].events
          BY <4>1, TriggerIfState
        <4>3. PICK z : z = TriggerIf(s, RealEvents(e), WRITE) /\ IsState(z)
                       /\ z.ctx.events \subseteq s.ctx.events
          BY <4>2, TriggerIfState
        <4> QED
          BY <3>2, <4>2, <4>3, BitsLeft, BecomesFits
      <3> QED
        BY <2>1, <2>2, <3>1, <3>2
    <2>5. UNCHANGED <<size, newest, m_mutex, shrunk, pc, call>>
      BY <2>1 DEF vector, threads
    <2>6. Types' /\ CallsKnow'
      BY <2>3, <2>4, <2>5 DEF Table, Types, CallsKnow, ContextsFit, Has, Watched
    <2>7. Vector'
      BY <2>4, <2>5 DEF Table, Vector, ContextsFit, Current
    <2> QED
      BY <2>6, <2>7 DEF Table
  <1> QED
    BY <1>1, <1>2

(* The table is right after each step.                                     *)
LEMMA TableNext == Table /\ [Next]_vars => Table'
  <1> SUFFICES ASSUME Table, [Next]_vars
               PROVE  Table'
    OBVIOUS
  <1>1. CASE UNCHANGED vars
    BY <1>1 DEF vars, vector, threads, Table, Types, CallsKnow, Has, Watched, Vector, Current
  <1>2. ASSUME NEW t \in Threads, ThreadStep(t)
        PROVE  Table'
    <2>1. CASE Calls(t)
      <3>1. PICK fd \in Fds :
              \/ \E event \in Events :
                   \/ AddLook(t, fd, event)
                   \/ LookUnderLock(t, "del", fd, event)
                   \/ CancelLook(t, fd, event)
              \/ LookUnderLock(t, "cancel all", fd, NONE)
        BY <2>1 DEF Calls
      <3> QED
        BY <3>1, TableAddLook, TableLookUnderLock, TableCancelLook
    <2>2. CASE AddEvent(t)
      BY <2>2, TableLookup, TableAddGrow, TableAddGrown, TableAddSucceeds, TableReturns
         DEF AddEvent
    <2> QED
      BY <1>2, <2>1, <2>2, TableLookup, TableReturns, TableDelEvent, TableCancels
         DEF ThreadStep
  <1> QED
    BY <1>1, <1>2, TableWorker DEF Next

(* The table is right in all behaviours.                                   *)
LEMMA TableInvariant == Spec => []Table
  BY TableInit, TableNext, PTL DEF Spec

(* However many threads grow m_fdContexts at once, the context that waits  *)
(* for events is the one m_fdContexts holds, unless a resize() has cut it  *)
(* off: for all events.                                                    *)
THEOREM OneContext == Spec => []OneContextPerFd
  <1>1. Table => OneContextPerFd
    BY DEF Table, Vector, Current, OneContextPerFd
  <1> QED
    BY <1>1, TableInvariant, PTL

-----------------------------------------------------------------------------
(* From here on callers use READ only.                                     *)
OnlyRead == Events = {READ}

(* With READ only, a context has its bit exactly if it has a caller, and   *)
(* that caller waits.                                                      *)
LEMMA ReaderBits ==
  ASSUME IInv, NEW c \in Contexts
  PROVE  /\ context[c].events \in {NONE, READ}
         /\ context[c].events = READ <=> Reader(c) # 0
         /\ Reader(c) # 0 => Reader(c) \in Waiting
  <1>1. context[c].events \in {NONE, READ}
    BY DEF IInv, Registered, ReadersKnown, READ, NONE
  <1>2. Reader(c) # 0 <=> READ \subseteq context[c].events
    BY DEF IInv, Registered, ContextsMatch, Reader
  <1>3. Reader(c) # 0 => Reader(c) \in Waiting
    BY DEF IInv, Registered, ContextsMatch, Waiters, Reader
  <1> QED
    BY <1>1, <1>2, <1>3 DEF READ, NONE

(* The calls that wait are at most MaxAdds.                                *)
LEMMA WaitingFinite ==
  ASSUME AddsKnown
  PROVE  /\ IsFiniteSet(Waiting) /\ Cardinality(Waiting) \in 0 .. MaxAdds
         /\ Len(fate) \in Nat /\ Adds = 1 .. Len(fate) /\ DOMAIN waitsFor = Adds
  <1>1. Len(fate) \in Nat /\ Adds = 1 .. Len(fate) /\ DOMAIN waitsFor = Adds
    BY LenProperties DEF AddsKnown, Adds
  <1>2. IsFiniteSet(1 .. Len(fate)) /\ Cardinality(1 .. Len(fate)) = Len(fate)
    <2>1. PICK n \in Nat : n = Len(fate)
      BY <1>1
    <2>2. IsFiniteSet(1 .. n) /\ Cardinality(1 .. n) = IF 1 > n THEN 0 ELSE n - 1 + 1
      BY FS_Interval
    <2>3. Cardinality(1 .. n) = n
      BY <2>2
    <2> QED
      BY <2>1, <2>2, <2>3
  <1>3. Waiting \subseteq 1 .. Len(fate)
    BY <1>1 DEF Waiting
  <1>4. IsFiniteSet(Waiting) /\ Cardinality(Waiting) <= Len(fate)
    BY <1>2, <1>3, FS_Subset
  <1>5. Cardinality(Waiting) \in Nat
    BY <1>4, FS_CardinalityType
  <1>6. Cardinality(Waiting) \in 0 .. MaxAdds
    <2>1. Len(fate) <= MaxAdds
      BY DEF AddsKnown
    <2> QED
      BY <1>1, <1>4, <1>5, <2>1, BoundsAre
  <1> QED
    BY <1>1, <1>4, <1>6

(* The count neither wraps nor overflows.                                  *)
LEMMA CountDown ==
  ASSUME NEW m \in 1 .. MaxAdds
  PROVE  (m + Word - 1) % Word = m - 1
  <1>1. m - 1 \in 0 .. Word - 1 /\ Word \in Nat \ {0} /\ m \in Int
    BY BoundsAre
  <1> QED
    BY <1>1

(* Nor does it overflow.                                                   *)
LEMMA CountUp ==
  ASSUME NEW m \in 0 .. MaxAdds - 1
  PROVE  (m + 1) % Word = m + 1
  <1>1. m + 1 \in 0 .. Word - 1 /\ Word \in Nat \ {0}
    BY BoundsAre
  <1> QED
    BY <1>1

(* No call begins, or gets another event to wait for.                      *)
NoneBegins ==
  \A u \in Threads : Adding(u)' =>
    /\ Adding(u)
    /\ call'[u].add = call[u].add /\ call'[u].fd = call[u].fd /\ call'[u].event = call[u].event

Final == \A r \in Adds : Over(fate[r]) => fate'[r] = fate[r]

(* Steps that tell no caller anything.                                     *)
LEMMA NobodyTold ==
  ASSUME IInv, NoneBegins,
         UNCHANGED <<context, interest, m_pendingEventCount, waitsFor, fate>>
  PROVE  Registered' /\ Final
  <1>1. AddsKnown'
    BY DEF IInv, Registered, AddsKnown, NoneBegins, Adds, Open
  <1>2. ReadersKnown' /\ ContextsMatch' /\ PendingCounted' /\ EpollMatches'
    BY DEF IInv, Registered, ReadersKnown, Reader, ContextsMatch, Waiters, Waiting,
           PendingCounted, EpollMatches, Watched, Adds
  <1> QED
    BY <1>1, <1>2 DEF Registered, Final

(* A caller that waits is told, and its context and epoll forget it.       *)
Leaves(c, told) ==
  /\ \A d \in Contexts : d # c => context'[d] = context[d]
  /\ context'[c].events = NONE /\ context'[c].waiter[READ] = 0 /\ context'[c].waiter[WRITE] = 0
  /\ m_pendingEventCount' = (m_pendingEventCount + Word - 1) % Word
  /\ fate' = [q \in Adds |-> IF q = Reader(c) THEN told ELSE fate[q]]
  /\ interest' = [interest EXCEPT ![c[1]] = NotWatched]
  /\ UNCHANGED waitsFor

(* Then contexts, count and epoll agree again, and only this caller was    *)
(* told anything.                                                          *)
LEMMA WaiterLeaves ==
  ASSUME OnlyRead, IInv, NoneBegins, NEW c \in Contexts, Reader(c) # 0,
         NEW told \in {"deleted", "scheduled"}, Leaves(c, told)
  PROVE  Registered' /\ Final
  <1>1. PICK r \in Adds : r = Reader(c) /\ r \in Waiting /\ fate[r] = "waiting" /\ r # 0
    BY ReaderBits DEF Waiting
  <1>2. Adds' = Adds /\ fate'[r] = told /\ \A q \in Adds : q # r => fate'[q] = fate[q]
    BY <1>1 DEF Leaves, Adds
  <1>3. \A d \in Contexts : Reader(d) = r => d = c
    BY <1>1 DEF IInv, Registered, ReadersKnown
  <1>4. Waiting' = Waiting \ {r}
    BY <1>1, <1>2 DEF Waiting
  <1>5. /\ \A d \in Contexts : d # c => context'[d] = context[d] /\ Reader(d)' = Reader(d)
        /\ context'[c].events = NONE /\ Reader(c)' = 0 /\ context'[c].waiter[WRITE] = 0
        /\ waitsFor' = waitsFor
    BY DEF Leaves, Reader
  <1>6. /\ fate \in Seq(Fates) /\ Len(fate) = Len(waitsFor) /\ Len(fate) <= MaxAdds
        /\ waitsFor \in Seq(Fds \X Events) /\ Len(fate) \in Nat /\ Adds = 1 .. Len(fate)
        /\ DOMAIN waitsFor = Adds
    BY WaitingFinite DEF IInv, Registered, AddsKnown
  <1>7. fate' \in Seq(Fates) /\ Len(fate') = Len(fate)
    <2>1. PICK n \in Nat : n = Len(fate) /\ fate \in [1 .. n -> Fates]
      BY <1>6, LenProperties
    <2>2. fate' \in [1 .. n -> Fates]
      BY <1>6, <2>1 DEF Leaves, Fates
    <2> QED
      BY <2>1, <2>2, SeqDef, LenProperties DEF Adds
  <1>8. AddsKnown'
    <2>1. \A q \in Adds : Open(q)' => Open(q)
      BY <1>1, <1>2 DEF Open
    <2>2. \A u \in Threads : Adding(u)' => call'[u].add # r
      BY <1>1 DEF NoneBegins, IInv, Registered, AddsKnown
    <2>3. \A u \in Threads : Adding(u)' =>
            /\ call'[u].add \in Adds /\ fate'[call'[u].add] = "adding"
            /\ waitsFor[call'[u].add] = <<call'[u].fd, call'[u].event>>
      <3> SUFFICES ASSUME NEW u \in Threads, Adding(u)'
                   PROVE  /\ call'[u].add \in Adds /\ fate'[call'[u].add] = "adding"
                          /\ waitsFor[call'[u].add] = <<call'[u].fd, call'[u].event>>
        OBVIOUS
      <3>1. /\ Adding(u) /\ call'[u].add = call[u].add
            /\ call'[u].fd = call[u].fd /\ call'[u].event = call[u].event
        BY DEF NoneBegins
      <3>2. /\ call[u].add \in Adds /\ fate[call[u].add] = "adding"
            /\ waitsFor[call[u].add] = <<call[u].fd, call[u].event>>
        BY <3>1 DEF IInv, Registered, AddsKnown
      <3> QED
        BY <1>2, <2>2, <3>1, <3>2
    <2>4. \A t, u \in Threads : Adding(t)' /\ Adding(u)' /\ call'[t].add = call'[u].add => t = u
      BY DEF NoneBegins, IInv, Registered, AddsKnown
    <2>5. \A p, q \in Adds : Open(p)' /\ Open(q)' /\ waitsFor[p] = waitsFor[q] => p = q
      BY <2>1 DEF IInv, Registered, AddsKnown
    <2> QED
      BY <1>2, <1>5, <1>6, <1>7, <2>3, <2>4, <2>5 DEF AddsKnown
  <1>9. ReadersKnown'
    <2>1. NONE \subseteq READ
      BY DEF NONE
    <2>2. \A d \in Contexts : context'[d].events \subseteq READ /\ context'[d].waiter[WRITE] = 0
      BY <1>5, <2>1 DEF IInv, Registered, ReadersKnown
    <2>3. \A d \in Contexts : Reader(d)' # 0 =>
            d # c /\ Reader(d) # 0 /\ Reader(d)' = Reader(d)
      BY <1>5
    <2> QED
      BY <1>2, <1>5, <2>2, <2>3 DEF IInv, Registered, ReadersKnown
  <1>10. ContextsMatch'
    <2>1. ASSUME NEW q \in Waiting'
          PROVE  \E d \in Contexts : /\ d[1] = waitsFor'[q][1]
                                      /\ context'[d].waiter[waitsFor'[q][2]] = q
      <3>1. q \in Waiting /\ q # r /\ q \in Adds
        BY <1>4, <2>1 DEF Waiting
      <3>2. waitsFor[q][2] = READ
        BY <1>6, <3>1, LenProperties DEF OnlyRead
      <3>3. PICK d \in Contexts : d[1] = waitsFor[q][1] /\ context[d].waiter[waitsFor[q][2]] = q
        BY <3>1 DEF IInv, Registered, ContextsMatch
      <3>4. d # c
        BY <1>1, <3>1, <3>2, <3>3 DEF Reader
      <3> QED
        BY <1>5, <3>3, <3>4
    <2>2. ASSUME NEW d \in Contexts
          PROVE  (Waiters(d) \subseteq Waiting)'
      <3>1. CASE d = c
        BY <1>5, <3>1 DEF Waiters, Reader
      <3>2. CASE d # c
        <4>1. Waiters(d)' = Waiters(d)
          BY <1>5, <3>2 DEF Waiters
        <4>2. Waiters(d) \subseteq Waiting
          BY DEF IInv, Registered, ContextsMatch
        <4>3. r \notin Waiters(d)
          BY <1>1, <1>3, <3>2 DEF Waiters, Reader, IInv, Registered, ReadersKnown
        <4> QED
          BY <1>4, <4>1, <4>2, <4>3
      <3> QED
        BY <3>1, <3>2
    <2>3. ASSUME NEW d \in Contexts, NEW event \in {READ, WRITE}
          PROVE  context'[d].waiter[event] # 0 <=> event \subseteq context'[d].events
      <3>1. CASE d = c
        BY <1>5, <3>1 DEF Reader, READ, WRITE, NONE
      <3>2. CASE d # c
        BY <1>5, <3>2 DEF IInv, Registered, ContextsMatch
      <3> QED
        BY <3>1, <3>2
    <2> QED
      BY <2>1, <2>2, <2>3 DEF ContextsMatch
  <1>11. PendingCounted'
    <2>1. IsFiniteSet(Waiting) /\ Cardinality(Waiting) \in 0 .. MaxAdds
      BY WaitingFinite DEF IInv, Registered
    <2>2. Cardinality(Waiting') = Cardinality(Waiting) - 1
      BY <1>1, <1>4, <2>1, FS_RemoveElement
    <2>3. Cardinality(Waiting) # 0
      BY <1>1, <2>1, FS_EmptySet
    <2>4. PICK m \in 1 .. MaxAdds : m = m_pendingEventCount /\ m = Cardinality(Waiting)
      BY <2>1, <2>3, BoundsAre DEF IInv, Registered, PendingCounted
    <2> QED
      BY <2>2, <2>4, CountDown DEF PendingCounted, Leaves
  <1>12. EpollMatches'
    <2>1. context[c].events # NONE
      BY ReaderBits, EventsDiffer
    <2>2. /\ c[1] \in Fds
          /\ \A fd \in Fds : interest'[fd] = IF fd = c[1] THEN NotWatched ELSE interest[fd]
      BY DEF Leaves, Contexts, IInv, Table, Types
    <2>3. ASSUME NEW d \in Contexts, context'[d].events # NONE
          PROVE  interest'[d[1]] = [ptr |-> d, events |-> context'[d].events]
      <3>1. d # c /\ context'[d] = context[d] /\ d[1] \in Fds
        BY <1>5, <2>3 DEF Contexts
      <3>2. interest[d[1]] = [ptr |-> d, events |-> context[d].events]
        BY <2>3, <3>1 DEF IInv, Registered, EpollMatches
      <3>3. interest[c[1]] = [ptr |-> c, events |-> context[c].events]
        BY <2>1 DEF IInv, Registered, EpollMatches
      <3>4. d[1] # c[1]
        BY <3>1, <3>2, <3>3
      <3> QED
        BY <2>2, <3>1, <3>2, <3>4
    <2>4. ASSUME NEW fd \in Fds, Watched(fd)'
          PROVE  context'[interest'[fd].ptr].events = interest'[fd].events
                 /\ interest'[fd].events # NONE
      <3>1. fd # c[1] /\ interest'[fd] = interest[fd] /\ Watched(fd)
        BY <2>2, <2>4 DEF Watched
      <3>2. interest[fd].ptr \in Contexts /\ interest[fd].ptr[1] = fd
        BY <3>1 DEF IInv, Table, CallsKnow
      <3> QED
        BY <1>5, <3>1, <3>2 DEF IInv, Registered, EpollMatches
    <2> QED
      BY <2>3, <2>4 DEF EpollMatches
  <1>13. Final
    BY <1>1, <1>2 DEF Final, Over
  <1> QED
    BY <1>8, <1>9, <1>10, <1>11, <1>12, <1>13 DEF Registered

(* A thread that goes on with its call begins none.                        *)
LEMMA MovesOn ==
  ASSUME Table, NEW t \in Threads, NEW next, NEW new, Moves(t, next, new),
         next \in {"add get", "add grow", "add growing", "add"} =>
           /\ Adding(t)
           /\ new.add = call[t].add /\ new.fd = call[t].fd /\ new.event = call[t].event
  PROVE  NoneBegins
  BY DEF Table, Types, Moves, NoneBegins, Adding

(* One that returns begins none.                                           *)
LEMMA ReturnsBegin ==
  ASSUME Table, NEW t \in Threads, NEW from, Return(t, from)
  PROVE  NoneBegins
  <1>1. Moves(t, "idle", NoCall)
    BY DEF Return, Goto, Moves
  <1> QED
    BY <1>1, MovesOn

(* What triggerEvent() and the count make of a context with a caller ...   *)
Emptied(ctx) ==
  /\ ctx \in Context
  /\ ctx.events = NONE /\ ctx.waiter[READ] = 0 /\ ctx.waiter[WRITE] = 0

Told(c, told) == [q \in Adds |-> IF q = Reader(c) THEN told ELSE fate[q]]

Without(ctx, calls, how) ==
  [ctx |-> ctx, pending |-> (m_pendingEventCount + Word - 1) % Word, fate |-> calls,
   process |-> how]

(* A context with a bit has a caller, and an empty one is left behind.     *)
LEMMA ReaderLeft ==
  ASSUME IInv, NEW c \in Contexts, context[c].events # NONE
  PROVE  /\ context[c].events = READ /\ Reader(c) # 0
         /\ Emptied([events |-> NONE, waiter |-> [context[c].waiter EXCEPT ![READ] = 0]])
         /\ context[c] = [events |-> READ, waiter |-> context[c].waiter]
         /\ context[c].waiter \in [{READ, WRITE} -> 0 .. MaxAdds]
  <1>1. context[c].events = READ /\ Reader(c) # 0
    BY ReaderBits
  <1>2. /\ context[c].waiter \in [{READ, WRITE} -> 0 .. MaxAdds]
        /\ context[c] = [events |-> READ, waiter |-> context[c].waiter]
    BY <1>1 DEF IInv, Table, Types, Context
  <1>3. [context[c].waiter EXCEPT ![READ] = 0] \in [{READ, WRITE} -> 0 .. MaxAdds]
    BY <1>2, BoundsAre
  <1>4. [events |-> NONE, waiter |-> [context[c].waiter EXCEPT ![READ] = 0]] \in Context
    BY <1>3 DEF Context, NONE
  <1>5. context[c].waiter[WRITE] = 0
    BY DEF IInv, Registered, ReadersKnown
  <1> QED
    BY <1>1, <1>2, <1>4, <1>5, EventsDiffer DEF Emptied

(* triggerEvent() with the count: the caller is scheduled and forgotten.   *)
LEMMA Served ==
  ASSUME IInv, Up, NEW c \in Contexts, context[c].events # NONE
  PROVE  \E ctx : Emptied(ctx) /\ Discount(triggerEvent(State(c), READ))
                                    = Without(ctx, Told(c, "scheduled"), "up")
  <1>1. PICK waiter \in [{READ, WRITE} -> 0 .. MaxAdds] :
          waiter = context[c].waiter /\ context[c] = [events |-> READ, waiter |-> waiter]
          /\ waiter[READ] = Reader(c)
    BY ReaderLeft DEF Reader
  <1>2. PICK ctx : ctx = [events |-> NONE, waiter |-> [waiter EXCEPT ![READ] = 0]] /\ Emptied(ctx)
    BY <1>1, ReaderLeft
  <1>3. PICK after : /\ after = [fate EXCEPT ![Reader(c)] = HandedOut(@)]
                     /\ after = Told(c, "scheduled")
    <2>1. fate[Reader(c)] = "waiting" /\ Reader(c) \in Adds
      BY ReaderLeft, ReaderBits DEF Waiting
    <2>2. Told(c, "scheduled") = [fate EXCEPT ![Reader(c)] = HandedOut(@)]
      BY <2>1 DEF Told, HandedOut, Adds, IInv, Table, Types
    <2> QED
      BY <2>2
  <1>4. READ \ READ = NONE /\ Reader(c) # 0
    BY ReaderLeft DEF NONE
  <1>5. PICK m : m = m_pendingEventCount
    OBVIOUS
  <1>7. triggerEvent(State(c), READ) =
          [ctx |-> ctx, pending |-> m, fate |-> after, process |-> "up"]
    <2>1. PICK s : s = State(c) /\ s = [ctx |-> context[c], pending |-> m, fate |-> fate,
                                         process |-> "up"]
      BY <1>5 DEF State, Up
    <2>2. ctx = [events |-> READ \ READ, waiter |-> [waiter EXCEPT ![READ] = 0]]
      BY <1>2, <1>4
    <2>3. after = [fate EXCEPT ![waiter[READ]] = HandedOut(@)] /\ waiter[READ] # 0
      BY <1>1, <1>3, <1>4
    <2>4. context[c] = [events |-> READ, waiter |-> waiter]
      BY <1>1
    <2>5. PICK event \in {READ, WRITE} : event = READ
      OBVIOUS
    <2>6. PICK cx, calls : cx = context[c] /\ calls = fate
      OBVIOUS
    <2>7. PICK left, r : left = [events |-> READ \ READ, waiter |-> waiter] /\ r = waiter[READ]
      OBVIOUS
    <2>8. PICK part : part = [s EXCEPT !.ctx.events = @ \ event]
      OBVIOUS
    <2>9. part = [ctx |-> left, pending |-> m, fate |-> calls, process |-> "up"]
      BY <2>1, <2>4, <2>5, <2>6, <2>7, <2>8
    <2>10. resetEventContext(left, event) = ctx
      BY <2>2, <2>5, <2>7 DEF resetEventContext
    <2>11. [part EXCEPT !.ctx = resetEventContext(@, event), !.fate[r] = HandedOut(@)]
             = [ctx |-> ctx, pending |-> m, fate |-> after, process |-> "up"]
      <3>1. PICK next : next = [part EXCEPT !.ctx = resetEventContext(@, event)]
        OBVIOUS
      <3>2. next = [ctx |-> ctx, pending |-> m, fate |-> calls, process |-> "up"]
        BY <2>9, <2>10, <3>1
      <3>3. after = [calls EXCEPT ![r] = HandedOut(@)]
        BY <2>3, <2>6, <2>7
      <3>4. [next EXCEPT !.fate[r] = HandedOut(@)]
              = [ctx |-> ctx, pending |-> m, fate |-> after, process |-> "up"]
        BY <3>2, <3>3
      <3> QED
        BY <3>1, <3>4
    <2>12. s.process = "up" /\ s.ctx.waiter[event] = r /\ r # 0
      BY <2>1, <2>3, <2>4, <2>5, <2>7
    <2>13. triggerEvent(s, event) = [part EXCEPT !.ctx = resetEventContext(@, event),
                                                 !.fate[r] = HandedOut(@)]
      BY <2>8, <2>12 DEF triggerEvent
    <2> QED
      BY <2>1, <2>5, <2>11, <2>13
  <1>8. Discount(triggerEvent(State(c), READ)) =
          [ctx |-> ctx, pending |-> (m + Word - 1) % Word, fate |-> after, process |-> "up"]
    BY <1>7 DEF Discount
  <1> QED
    BY <1>2, <1>3, <1>5, <1>8 DEF Without

(* ... and what a second triggerEvent() makes of the rest: nobody waits.   *)
LEMMA WithoutKilled ==
  ASSUME NEW ctx, NEW calls, NEW how, NEW dead
  PROVE  [Without(ctx, calls, how) EXCEPT !.process = dead] = Without(ctx, calls, dead)
  BY DEF Without

(* The fields of what is left, alive and dead.                             *)
LEMMA WithoutFields ==
  ASSUME NEW ctx, NEW calls
  PROVE  /\ Without(ctx, calls, "up").ctx = ctx /\ Without(ctx, calls, "up").process = "up"
         /\ Without(ctx, calls, "null scheduler").process # "up"
         /\ [Without(ctx, calls, "up") EXCEPT !.ctx = ctx] = Without(ctx, calls, "up")
         /\ [Without(ctx, calls, "up") EXCEPT !.process = "null scheduler"]
              = Without(ctx, calls, "null scheduler")
  <1>1. Without(ctx, calls, "up").ctx = ctx /\ Without(ctx, calls, "up").process = "up"
    BY DEF Without
  <1>2. Without(ctx, calls, "null scheduler").process # "up"
    BY DEF Without
  <1>3. [Without(ctx, calls, "up") EXCEPT !.ctx = ctx] = Without(ctx, calls, "up")
    BY DEF Without
  <1>4. [Without(ctx, calls, "up") EXCEPT !.process = "null scheduler"]
          = Without(ctx, calls, "null scheduler")
    <2> DEFINE up == "up"  dead == "null scheduler"
    <2> HIDE DEF up, dead
    <2>1. [Without(ctx, calls, up) EXCEPT !.process = dead] = Without(ctx, calls, dead)
      BY WithoutKilled
    <2> QED
      BY <2>1 DEF up, dead
  <1> QED
    BY <1>1, <1>2, <1>3, <1>4, Zenon

With(s, ctx, after) == [s EXCEPT !.ctx = ctx, !.fate = after]

(* Another context and other fates in it.                                  *)
LEMMA WithoutBoth ==
  ASSUME NEW old, NEW ctx, NEW calls, NEW after, NEW how
  PROVE  With(Without(old, calls, how), ctx, after) = Without(ctx, after, how)
  <1>0. PICK s : s = Without(old, calls, how)
    OBVIOUS
  <1>1. PICK half : half = [s EXCEPT !.ctx = ctx]
    OBVIOUS
  <1>2. half = Without(ctx, calls, how)
    BY <1>0, <1>1 DEF Without
  <1>3. [half EXCEPT !.fate = after] = Without(ctx, after, how)
    BY <1>2 DEF Without
  <1>4. [s EXCEPT !.ctx = ctx, !.fate = after] = [half EXCEPT !.fate = after]
    BY <1>0, <1>1 DEF Without
  <1>5. With(s, ctx, after) = Without(ctx, after, how)
    BY <1>3, <1>4 DEF With
  <1> QED
    BY <1>0, <1>5, Zenon

(* The process ends there, and nothing else changes.                       *)
LEMMA ServedTwice ==
  ASSUME NEW ctx, NEW calls, Emptied(ctx)
  PROVE  Discount(triggerEvent(Without(ctx, calls, "up"), WRITE))
           = Without(ctx, calls, "null scheduler")
  <1>1. PICK s : s = Without(ctx, calls, "up") /\ s.process = "up" /\ s.ctx = ctx
                 /\ [s EXCEPT !.process = "null scheduler"] = Without(ctx, calls, "null scheduler")
                 /\ [s EXCEPT !.ctx = ctx] = s
    BY WithoutFields, Zenon
  <1>2. [ctx EXCEPT !.events = @ \ WRITE] = ctx
    BY DEF Emptied, Context, NONE
  <1>3. [s EXCEPT !.ctx.events = @ \ WRITE] = s
    BY <1>1, <1>2, Zenon
  <1>4. s.ctx.waiter[WRITE] = 0
    BY <1>1 DEF Emptied
  <1>5. triggerEvent(s, WRITE) = Without(ctx, calls, "null scheduler")
    BY <1>1, <1>3, <1>4, Zenon DEF triggerEvent
  <1>6. Without(ctx, calls, "null scheduler").process # "up"
    BY WithoutFields
  <1>7. Discount(Without(ctx, calls, "null scheduler")) = Without(ctx, calls, "null scheduler")
    BY <1>6, Zenon DEF Discount
  <1> QED
    BY <1>1, <1>5, <1>7, Zenon

(* A step that leaves this behind is a caller's leaving.                   *)
LEMMA LeavesSo ==
  ASSUME OnlyRead, IInv, NoneBegins, NEW c \in Contexts, Reader(c) # 0,
         NEW told \in {"deleted", "scheduled"}, NEW ctx, Emptied(ctx), NEW how,
         Becomes(c, Without(ctx, Told(c, told), how)),
         interest' = [interest EXCEPT ![c[1]] = NotWatched], UNCHANGED waitsFor
  PROVE  Registered' /\ Final
  <1>1. /\ context' = [context EXCEPT ![c] = ctx]
        /\ m_pendingEventCount' = (m_pendingEventCount + Word - 1) % Word
        /\ fate' = Told(c, told)
    BY DEF Becomes, Without
  <1>2. context'[c] = ctx /\ \A d \in Contexts : d # c => context'[d] = context[d]
    BY <1>1 DEF IInv, Table, Types
  <1>3. Leaves(c, told)
    BY <1>1, <1>2 DEF Leaves, Told, Emptied
  <1> QED
    BY <1>3, WaiterLeaves

(* DEL ends the watch.                                                     *)
LEMMA Unwatch ==
  ASSUME NEW c \in Contexts, epoll_ctl("DEL", c[1], c, NONE)
  PROVE  interest' = [interest EXCEPT ![c[1]] = NotWatched]
  BY DEF epoll_ctl

(* A call that has its context is for READ, and the context is of its      *)
(* descriptor.                                                             *)
LEMMA CallForRead ==
  ASSUME OnlyRead, IInv, NEW t \in Threads, pc[t] \in {"add", "del", "cancel", "cancel all"}
  PROVE  /\ call[t].fd_ctx \in Contexts /\ call[t].fd_ctx[1] = call[t].fd
         /\ pc[t] # "cancel all" => call[t].event = READ
  BY DEF IInv, Table, CallsKnow, Has, OnlyRead

(* Nothing is left of READ.                                                *)
LEMMA NothingLeft ==
  ASSUME IInv, NEW c \in Contexts, NEW events, context[c].events \cap events # NONE
  PROVE  /\ context[c].events \ events = NONE /\ context[c].events # NONE
         /\ "IN" \in events /\ OpFor(NONE) = "DEL"
  <1>1. context[c].events \in {NONE, READ}
    BY ReaderBits
  <1> QED
    BY <1>1 DEF READ, NONE, OpFor

Ctx(events, waiter) == [events |-> events, waiter |-> waiter]

Unset(waiter, event) == [waiter EXCEPT ![event] = 0]

Cleared(ctx, left, event) == resetEventContext([ctx EXCEPT !.events = left], event)

(* resetEventContext() of a context that is known.                         *)
LEMMA CtxReset ==
  ASSUME NEW events, NEW waiter, NEW left, NEW event
  PROVE  Cleared(Ctx(events, waiter), left, event) = Ctx(left, Unset(waiter, event))
  <1>1. [Ctx(events, waiter) EXCEPT !.events = left] = Ctx(left, waiter)
    BY DEF Ctx
  <1>2. [Ctx(left, waiter) EXCEPT !.waiter[event] = 0] = Ctx(left, Unset(waiter, event))
    BY DEF Ctx, Unset
  <1> QED
    BY <1>1, <1>2, Zenon DEF resetEventContext, Cleared

(* delEvent(): the caller is told that it is deleted.                      *)
LEMMA ReadersDelEvent ==
  ASSUME OnlyRead, IInv, NEW t \in Threads, DelEvent(t)
  PROVE  Registered' /\ Final
  <1>1. PICK c \in Contexts : c = call[t].fd_ctx /\ c[1] = call[t].fd /\ call[t].event = READ
    BY CallForRead DEF DelEvent
  <1>2. /\ context[c].events \ READ = NONE /\ context[c].events # NONE /\ OpFor(NONE) = "DEL"
        /\ Reader(c) # 0
    BY <1>1, NothingLeft, ReaderLeft DEF DelEvent, Overlaps
  <1>3. NoneBegins /\ Up
    BY ReturnsBegin DEF DelEvent, Return, Goto, IInv
  <1>4. PICK waiter \in [{READ, WRITE} -> 0 .. MaxAdds] :
          /\ waiter = context[c].waiter /\ waiter[READ] = Reader(c)
          /\ context[c] = [events |-> READ, waiter |-> waiter]
    BY <1>2, ReaderLeft DEF Reader
  <1>5. PICK ctx : ctx = [events |-> NONE, waiter |-> [waiter EXCEPT ![READ] = 0]] /\ Emptied(ctx)
    BY <1>2, <1>4, ReaderLeft
  <1>6. Cleared(context[c], NONE, READ) = ctx
    <2>1. context[c] = Ctx(READ, waiter) /\ ctx = Ctx(NONE, Unset(waiter, READ))
      BY <1>4, <1>5 DEF Ctx, Unset
    <2>2. Cleared(Ctx(READ, waiter), NONE, READ) = Ctx(NONE, Unset(waiter, READ))
      BY CtxReset
    <2> QED
      BY <2>1, <2>2, Zenon
  <1>7. PICK s : /\ s = Discount(State(c)) /\ s.ctx = context[c] /\ s.fate = fate
                 /\ s = Without(context[c], fate, process)
    <2>1. PICK old, m, up : old = context[c] /\ m = m_pendingEventCount /\ up = process
      OBVIOUS
    <2>2. State(c) = [ctx |-> old, pending |-> m, fate |-> fate, process |-> up]
      BY <2>1 DEF State
    <2>3. Discount(State(c)) =
            [ctx |-> old, pending |-> (m + Word - 1) % Word, fate |-> fate, process |-> up]
      BY <1>3, <2>1, <2>2 DEF Discount, Up
    <2>4. Without(context[c], fate, process) =
            [ctx |-> old, pending |-> (m + Word - 1) % Word, fate |-> fate, process |-> up]
      BY <2>1 DEF Without
    <2> QED
      BY <2>1, <2>3, <2>4
  <1>8. epoll_ctl("DEL", c[1], c, NONE)
    BY <1>1, <1>2 DEF DelEvent, EventsLeft
  <1>9. Becomes(c, With(s, ctx, Told(c, "deleted")))
    <2>1. Told(c, "deleted") =
            [q \in Adds |-> IF q = s.ctx.waiter[READ] THEN "deleted" ELSE s.fate[q]]
      BY <1>7 DEF Told, Reader
    <2>2. Becomes(c, [s EXCEPT !.ctx = resetEventContext([@ EXCEPT !.events = NONE], READ),
                               !.fate = [q \in Adds |->
                                  IF q = s.ctx.waiter[READ] THEN "deleted" ELSE @[q]]])
      BY <1>1, <1>2, <1>7, Zenon DEF DelEvent, EventsLeft
    <2> QED
      BY <1>6, <1>7, <2>1, <2>2, Zenon DEF With, Cleared
  <1>10. With(s, ctx, Told(c, "deleted")) = Without(ctx, Told(c, "deleted"), process)
    <2>1. s = Without(context[c], fate, process)
      BY <1>7
    <2>2. With(Without(context[c], fate, process), ctx, Told(c, "deleted"))
            = Without(ctx, Told(c, "deleted"), process)
      BY WithoutBoth
    <2> QED
      BY <2>1, <2>2, Zenon
  <1>11. Becomes(c, Without(ctx, Told(c, "deleted"), process))
    BY <1>9, <1>10, Zenon
  <1> QED
    BY <1>2, <1>3, <1>5, <1>8, <1>11, Unwatch, LeavesSo DEF DelEvent

(* cancelEvent() and cancelAll(): the caller is scheduled.                 *)
LEMMA ReadersCancels ==
  ASSUME OnlyRead, IInv, NEW t \in Threads, CancelEvent(t) \/ CancelAll(t)
  PROVE  Registered' /\ Final
  <1>1. PICK c \in Contexts : c = call[t].fd_ctx /\ c[1] = call[t].fd
    BY CallForRead DEF CancelEvent, CancelAll
  <1>2. NoneBegins /\ Up /\ UNCHANGED waitsFor
    BY ReturnsBegin DEF CancelEvent, CancelAll, Return, Goto, IInv
  <1>3. CASE CancelEvent(t)
    <2>1. call[t].event = READ
      BY <1>3, CallForRead DEF CancelEvent
    <2>2. /\ context[c].events \ READ = NONE /\ context[c].events # NONE /\ OpFor(NONE) = "DEL"
          /\ Reader(c) # 0
      BY <1>1, <1>3, <2>1, NothingLeft, ReaderLeft DEF CancelEvent, Overlaps
    <2>3. PICK ctx : Emptied(ctx) /\ Discount(triggerEvent(State(c), READ))
                                       = Without(ctx, Told(c, "scheduled"), "up")
      BY <1>2, <2>2, Served
    <2>4. epoll_ctl("DEL", c[1], c, NONE) /\ Becomes(c, Discount(triggerEvent(State(c), READ)))
      BY <1>1, <1>3, <2>1, <2>2 DEF CancelEvent, EventsLeft
    <2>5. Becomes(c, Without(ctx, Told(c, "scheduled"), "up"))
      BY <2>3, <2>4, Zenon
    <2> QED
      BY <1>2, <2>2, <2>3, <2>4, <2>5, Unwatch, LeavesSo
  <1>4. CASE CancelAll(t)
    <2>1. context[c].events # NONE /\ context[c].events \cap READ # NONE /\ Reader(c) # 0
      BY <1>1, <1>4, ReaderLeft, EventsDiffer DEF CancelAll
    <2>2. PICK ctx : Emptied(ctx) /\ Discount(triggerEvent(State(c), READ))
                                       = Without(ctx, Told(c, "scheduled"), "up")
      BY <1>2, <2>1, Served
    <2>3. TriggerIf(State(c), context[c].events, READ) = Without(ctx, Told(c, "scheduled"), "up")
      BY <2>1, <2>2, Zenon DEF TriggerIf
    <2>4. Without(ctx, Told(c, "scheduled"), "up").ctx.events \cap WRITE = NONE
      BY <2>2, WithoutFields DEF Emptied, NONE
    <2>5. TriggerIf(Without(ctx, Told(c, "scheduled"), "up"),
                    Without(ctx, Told(c, "scheduled"), "up").ctx.events, WRITE)
            = Without(ctx, Told(c, "scheduled"), "up")
      BY <2>4, Zenon DEF TriggerIf
    <2>6. epoll_ctl("DEL", c[1], c, NONE)
          /\ Becomes(c, Without(ctx, Told(c, "scheduled"), "up"))
      BY <1>1, <1>4, <2>3, <2>5, Zenon DEF CancelAll
    <2> QED
      BY <1>2, <2>1, <2>2, <2>6, Unwatch, LeavesSo
  <1> QED
    BY <1>3, <1>4

(* idle(): the caller is scheduled, and the second triggerEvent() changes  *)
(* the process only.                                                       *)
LEMMA ReadersHandle ==
  ASSUME OnlyRead, IInv, NEW w \in Workers, Handle(w)
  PROVE  Registered' /\ Final
  <1>1. PICK e \in batch[w] :
          LET c == e.ptr
              fd == e.ptr[1]
              real == RealEvents(e)
              left == context[c].events \ real
          IN /\ \/ UNCHANGED <<context, interest, m_pendingEventCount, fate, process>>
                \/ /\ context[c].events \cap real # NONE
                   /\ epoll_ctl(OpFor(left), fd, c, left)
                   /\ Becomes(c, TriggerIf(TriggerIf(State(c), real, READ), real, WRITE))
             /\ UNCHANGED <<vector, threads, waitsFor>>
    BY DEF Handle
  <1>2. NoneBegins /\ UNCHANGED waitsFor
    BY <1>1 DEF NoneBegins, Adding, threads
  <1>3. CASE UNCHANGED <<context, interest, m_pendingEventCount, fate>>
    BY <1>2, <1>3, NobodyTold
  <1>4. PICK c \in Contexts : c = e.ptr
    BY <1>1 DEF IInv, Table, Types
  <1>5. PICK real : real = RealEvents(e)
    OBVIOUS
  <1>6. CASE /\ context[c].events \cap real # NONE
             /\ epoll_ctl(OpFor(context[c].events \ real), c[1], c, context[c].events \ real)
             /\ Becomes(c, TriggerIf(TriggerIf(State(c), real, READ), real, WRITE))
    <2>1. /\ context[c].events \ real = NONE /\ context[c].events # NONE /\ OpFor(NONE) = "DEL"
          /\ "IN" \in real /\ Reader(c) # 0 /\ Up
      BY <1>6, NothingLeft, ReaderLeft DEF Handle
    <2>2. real \cap READ # NONE /\ real \cap WRITE # NONE
      BY <2>1 DEF READ, WRITE, NONE
    <2>3. PICK ctx : Emptied(ctx) /\ Discount(triggerEvent(State(c), READ))
                                       = Without(ctx, Told(c, "scheduled"), "up")
      BY <2>1, Served
    <2>4. TriggerIf(State(c), real, READ) = Without(ctx, Told(c, "scheduled"), "up")
      BY <2>2, <2>3, Zenon DEF TriggerIf
    <2>5. TriggerIf(Without(ctx, Told(c, "scheduled"), "up"), real, WRITE)
            = Without(ctx, Told(c, "scheduled"), "null scheduler")
      BY <2>2, <2>3, ServedTwice, Zenon DEF TriggerIf
    <2>6. Becomes(c, Without(ctx, Told(c, "scheduled"), "null scheduler"))
      BY <1>6, <2>4, <2>5, Zenon
    <2>7. epoll_ctl("DEL", c[1], c, NONE)
      BY <1>6, <2>1
    <2> QED
      BY <1>2, <2>1, <2>3, <2>6, <2>7, Unwatch, LeavesSo
  <1> QED
    BY <1>1, <1>3, <1>4, <1>5, <1>6

-----------------------------------------------------------------------------
(* addEvent() is a call more ...                                           *)
LEMMA Appended ==
  ASSUME NEW S, NEW s \in Seq(S), NEW e \in S
  PROVE  /\ Append(s, e) \in Seq(S) /\ Len(s) \in Nat /\ Len(Append(s, e)) = Len(s) + 1
         /\ DOMAIN s = 1 .. Len(s) /\ DOMAIN Append(s, e) = 1 .. Len(s) + 1
         /\ \A i \in 1 .. Len(s) : Append(s, e)[i] = s[i]
         /\ Append(s, e)[Len(s) + 1] = e
  BY AppendProperties, LenProperties

(* The thread is now in a call that nobody else is in.                     *)
LEMMA AddBegins ==
  ASSUME Types, NEW t \in Threads, NEW fd \in Fds, NEW event \in Events, AddLook(t, fd, event)
  PROVE  /\ \A u \in Threads : u # t => pc'[u] = pc[u] /\ call'[u] = call[u]
         /\ Adding(t)' /\ call'[t].add = Len(fate) + 1 /\ call'[t].fd = fd
         /\ call'[t].event = event
  <1>1. Len(fate) \in Nat /\ Len(fate) < MaxAdds
    BY LenProperties DEF Types, AddLook
  <1>2. Len(fate) + 1 \in 0 .. MaxAdds
    BY <1>1, BoundsAre
  <1>3. PICK new : /\ new = Started(Len(fate) + 1, fd, event)
                   /\ new.add = Len(fate) + 1 /\ new.fd = fd /\ new.event = event
    BY <1>2, NewCall
  <1>4. PICK next \in {"add get", "add grow"} : Begin(t, next, Len(fate) + 1, fd, event)
    BY DEF AddLook
  <1>5. pc' = [pc EXCEPT ![t] = next] /\ call' = [call EXCEPT ![t] = new]
    BY <1>3, <1>4 DEF Begin, Started
  <1>6. pc'[t] = next /\ call'[t] = new
    BY <1>5 DEF Types
  <1>7. \A u \in Threads : u # t => pc'[u] = pc[u] /\ call'[u] = call[u]
    BY <1>5 DEF Types
  <1>8. Adding(t)'
    BY <1>6 DEF Adding
  <1> QED
    BY <1>3, <1>6, <1>7, <1>8

(* The new call is open, for an event no open call is for.                 *)
LEMMA ReadersAddLook ==
  ASSUME OnlyRead, IInv, NEW t \in Threads, NEW fd \in Fds, NEW event \in Events,
         AddLook(t, fd, event)
  PROVE  Registered' /\ Final
  <1>1. PICK r \in 0 .. MaxAdds : r = Len(fate) + 1
    <2>1. Len(fate) \in Nat
      BY WaitingFinite DEF IInv, Registered
    <2>2. Len(fate) < MaxAdds
      BY DEF AddLook
    <2>3. Len(fate) + 1 \in 0 .. MaxAdds
      BY <2>1, <2>2, BoundsAre
    <2> QED
      BY <2>3
  <1>2. /\ Adds = 1 .. Len(fate) /\ Len(fate) \in Nat /\ r \notin Adds /\ r <= MaxAdds
        /\ DOMAIN waitsFor = Adds /\ Len(fate) = Len(waitsFor)
    <2>1. Adds = 1 .. Len(fate) /\ DOMAIN waitsFor = Adds /\ Len(fate) = Len(waitsFor)
      BY WaitingFinite DEF IInv, Registered, AddsKnown
    <2>2. PICK n \in Nat : n = Len(fate) /\ n < MaxAdds
      BY WaitingFinite DEF AddLook, IInv, Registered
    <2>3. n + 1 \notin 1 .. n /\ n + 1 <= MaxAdds
      BY <2>2, BoundsAre
    <2> QED
      BY <1>1, <2>1, <2>2, <2>3
  <1>3. /\ fate' \in Seq(Fates) /\ Len(fate') = r /\ Adds' = Adds \cup {r}
        /\ fate'[r] = "adding" /\ \A q \in Adds : fate'[q] = fate[q]
    <2>1. fate \in Seq(Fates) /\ "adding" \in Fates /\ fate' = Append(fate, "adding")
      BY DEF AddLook, IInv, Registered, AddsKnown, Fates
    <2>2. /\ Append(fate, "adding") \in Seq(Fates) /\ Len(Append(fate, "adding")) = Len(fate) + 1
          /\ DOMAIN Append(fate, "adding") = 1 .. Len(fate) + 1
          /\ \A i \in 1 .. Len(fate) : Append(fate, "adding")[i] = fate[i]
          /\ Append(fate, "adding")[Len(fate) + 1] = "adding"
      BY <2>1, Appended
    <2>3. 1 .. Len(fate) + 1 = Adds \cup {r}
      BY <1>1, <1>2
    <2> QED
      BY <1>1, <1>2, <2>1, <2>2, <2>3 DEF Adds
  <1>4. /\ waitsFor' \in Seq(Fds \X Events) /\ Len(waitsFor') = r
        /\ waitsFor'[r] = <<fd, event>> /\ \A q \in Adds : waitsFor'[q] = waitsFor[q]
    <2>1. waitsFor \in Seq(Fds \X Events) /\ <<fd, event>> \in Fds \X Events
          /\ waitsFor' = Append(waitsFor, <<fd, event>>)
      BY DEF AddLook, IInv, Registered, AddsKnown
    <2>2. PICK e \in Fds \X Events : e = <<fd, event>>
      BY <2>1
    <2>3. /\ Append(waitsFor, e) \in Seq(Fds \X Events)
          /\ Len(Append(waitsFor, e)) = Len(waitsFor) + 1
          /\ \A i \in 1 .. Len(waitsFor) : Append(waitsFor, e)[i] = waitsFor[i]
          /\ Append(waitsFor, e)[Len(waitsFor) + 1] = e
      BY <2>1, Appended
    <2> QED
      BY <1>1, <1>2, <2>1, <2>2, <2>3
  <1>6. /\ \A u \in Threads : u # t => pc'[u] = pc[u] /\ call'[u] = call[u]
        /\ Adding(t)' /\ call'[t].add = r /\ call'[t].fd = fd /\ call'[t].event = event
    BY <1>1, AddBegins DEF IInv, Table
  <1>7. AddsKnown'
    <2>1. ASSUME NEW p \in Adds', NEW q \in Adds', Open(p)', Open(q)', waitsFor'[p] = waitsFor'[q]
          PROVE  p = q
      <3>1. \A x \in Adds : Open(x)' => Open(x)
        BY <1>3 DEF Open
      <3>2. \A x \in Adds : Open(x) => waitsFor[x] # <<fd, event>>
        BY DEF AddLook, MayAdd, Open
      <3>3. CASE p \in Adds /\ q \in Adds
        BY <1>4, <2>1, <3>1, <3>3 DEF IInv, Registered, AddsKnown
      <3>4. CASE p = r /\ q \in Adds
        BY <1>4, <2>1, <3>1, <3>2, <3>4
      <3>5. CASE p \in Adds /\ q = r
        BY <1>4, <2>1, <3>1, <3>2, <3>5
      <3> QED
        BY <1>3, <3>3, <3>4, <3>5
    <2>2. ASSUME NEW u \in Threads, Adding(u)'
          PROVE  /\ call'[u].add \in Adds' /\ fate'[call'[u].add] = "adding"
                 /\ waitsFor'[call'[u].add] = <<call'[u].fd, call'[u].event>>
                 /\ u # t => Adding(u) /\ call'[u].add \in Adds
      <3>1. CASE u = t
        BY <1>3, <1>4, <1>6, <3>1
      <3>2. CASE u # t
        <4>1. Adding(u) /\ call'[u] = call[u]
          BY <1>6, <2>2, <3>2 DEF Adding
        <4>2. /\ call[u].add \in Adds /\ fate[call[u].add] = "adding"
              /\ waitsFor[call[u].add] = <<call[u].fd, call[u].event>>
          BY <4>1 DEF IInv, Registered, AddsKnown
        <4> QED
          BY <1>3, <1>4, <3>2, <4>1, <4>2
      <3> QED
        BY <3>1, <3>2
    <2>3. ASSUME NEW u \in Threads, NEW v \in Threads, Adding(u)', Adding(v)',
                 call'[u].add = call'[v].add
          PROVE  u = v
      <3>1. CASE u = t \/ v = t
        BY <1>2, <1>6, <2>2, <2>3, <3>1
      <3>2. CASE u # t /\ v # t
        BY <1>6, <2>2, <2>3, <3>2 DEF IInv, Registered, AddsKnown
      <3> QED
        BY <3>1, <3>2
    <2> QED
      BY <1>2, <1>3, <1>4, <2>1, <2>2, <2>3 DEF AddsKnown
  <1>8. Waiting' = Waiting
    BY <1>2, <1>3 DEF Waiting
  <1>9. UNCHANGED <<context, interest, m_pendingEventCount>>
    BY DEF AddLook
  <1>10. ReadersKnown'
    BY <1>3, <1>4, <1>9 DEF IInv, Registered, ReadersKnown, Reader
  <1>11. ContextsMatch'
    <2>1. ASSUME NEW q \in Waiting'
          PROVE  \E c \in Contexts :
                   c[1] = waitsFor'[q][1] /\ context'[c].waiter[waitsFor'[q][2]] = q
      <3>1. q \in Waiting /\ waitsFor'[q] = waitsFor[q]
        BY <1>4, <1>8 DEF Waiting
      <3> QED
        BY <1>9, <3>1 DEF IInv, Registered, ContextsMatch
    <2>2. \A c \in Contexts : (Waiters(c) \subseteq Waiting)'
      BY <1>8, <1>9 DEF IInv, Registered, ContextsMatch, Waiters
    <2>3. \A c \in Contexts, e \in {READ, WRITE} :
            context'[c].waiter[e] # 0 <=> e \subseteq context'[c].events
      BY <1>9 DEF IInv, Registered, ContextsMatch
    <2> QED
      BY <2>1, <2>2, <2>3 DEF ContextsMatch
  <1>12. PendingCounted' /\ EpollMatches'
    BY <1>8, <1>9 DEF IInv, Registered, PendingCounted, EpollMatches, Watched
  <1>13. Final
    BY <1>3 DEF Final
  <1> QED
    BY <1>7, <1>10, <1>11, <1>12, <1>13 DEF Registered

(* ... or one less.                                                        *)
LEMMA AddEnds ==
  ASSUME IInv, NEW t \in Threads, Return(t, "add"), NEW told \in {"failed", "waiting"},
         fate' = [fate EXCEPT ![call[t].add] = told], UNCHANGED waitsFor
  PROVE  /\ AddsKnown' /\ Final /\ Adds' = Adds
         /\ call[t].add \in Adds /\ fate[call[t].add] = "adding" /\ fate'[call[t].add] = told
         /\ waitsFor[call[t].add] = <<call[t].fd, call[t].event>>
         /\ \A q \in Adds : q # call[t].add => fate'[q] = fate[q]
  <1>1. /\ pc[t] = "add" /\ Adding(t) /\ NoneBegins
        /\ \A u \in Threads : Adding(u)' => u # t
    BY ReturnsBegin DEF Return, Goto, Adding, IInv, Table, Types
  <1>2. PICK r \in Adds : /\ r = call[t].add /\ fate[r] = "adding"
                          /\ waitsFor[r] = <<call[t].fd, call[t].event>>
    BY <1>1 DEF IInv, Registered, AddsKnown
  <1>3. /\ fate \in Seq(Fates) /\ Len(fate) = Len(waitsFor) /\ Len(fate) <= MaxAdds
        /\ waitsFor \in Seq(Fds \X Events) /\ Len(fate) \in Nat /\ Adds = 1 .. Len(fate)
        /\ DOMAIN waitsFor = Adds
    BY WaitingFinite DEF IInv, Registered, AddsKnown
  <1>4. Adds' = Adds /\ fate'[r] = told /\ \A q \in Adds : q # r => fate'[q] = fate[q]
    BY <1>2 DEF Adds
  <1>5. fate' \in Seq(Fates) /\ Len(fate') = Len(fate)
    <2>1. PICK n \in Nat : n = Len(fate) /\ fate \in [1 .. n -> Fates]
      BY <1>3, LenProperties
    <2>2. fate' \in [1 .. n -> Fates]
      BY <1>2, <2>1 DEF Fates
    <2> QED
      BY <2>1, <2>2, SeqDef, LenProperties DEF Adds
  <1>6. \A q \in Adds : Open(q)' => Open(q)
    BY <1>2, <1>4 DEF Open
  <1>7. \A u \in Threads : Adding(u)' => call'[u].add # r
    BY <1>1, <1>2 DEF NoneBegins, IInv, Registered, AddsKnown
  <1>8. \A u \in Threads : Adding(u)' =>
          /\ call'[u].add \in Adds /\ fate'[call'[u].add] = "adding"
          /\ waitsFor[call'[u].add] = <<call'[u].fd, call'[u].event>>
    <2>1. ASSUME NEW u \in Threads, Adding(u)'
          PROVE  /\ call'[u].add \in Adds /\ fate[call'[u].add] = "adding"
                 /\ waitsFor[call'[u].add] = <<call'[u].fd, call'[u].event>>
      <3>1. Adding(u) /\ call'[u].add = call[u].add /\ call'[u].fd = call[u].fd
            /\ call'[u].event = call[u].event
        BY <1>1, <2>1 DEF NoneBegins
      <3> QED
        BY <3>1 DEF IInv, Registered, AddsKnown
    <2> QED
      BY <1>4, <1>7, <2>1
  <1>9. \A u, v \in Threads : Adding(u)' /\ Adding(v)' /\ call'[u].add = call'[v].add => u = v
    BY <1>1 DEF NoneBegins, IInv, Registered, AddsKnown
  <1>10. \A p, q \in Adds : Open(p)' /\ Open(q)' /\ waitsFor[p] = waitsFor[q] => p = q
    BY <1>6 DEF IInv, Registered, AddsKnown
  <1>11. AddsKnown'
    BY <1>3, <1>4, <1>5, <1>8, <1>9, <1>10 DEF AddsKnown
  <1>12. Final
    BY <1>2, <1>4 DEF Final, Over
  <1> QED
    BY <1>2, <1>4, <1>11, <1>12

(* The call fails, and no context knows it.                                *)
LEMMA ReadersAddFails ==
  ASSUME IInv, NEW t \in Threads, AddFails(t)
  PROVE  Registered' /\ Final
  <1>1. /\ AddsKnown' /\ Final /\ Adds' = Adds
        /\ call[t].add \in Adds /\ fate[call[t].add] = "adding" /\ fate'[call[t].add] = "failed"
        /\ \A q \in Adds : q # call[t].add => fate'[q] = fate[q]
    BY AddEnds DEF AddFails
  <1>2. Waiting' = Waiting
    BY <1>1 DEF Waiting
  <1>3. UNCHANGED <<context, interest, m_pendingEventCount, waitsFor>>
    BY DEF AddFails
  <1>4. ReadersKnown'
    BY <1>1, <1>3 DEF IInv, Registered, ReadersKnown, Reader
  <1>5. ContextsMatch' /\ PendingCounted' /\ EpollMatches'
    BY <1>2, <1>3 DEF IInv, Registered, ContextsMatch, Waiters, PendingCounted, EpollMatches,
                      Watched
  <1> QED
    BY <1>1, <1>4, <1>5 DEF Registered

(* Among n there are at most n.                                            *)
LEMMA BoundedSet ==
  ASSUME NEW n \in Nat, NEW S \in SUBSET (1 .. n)
  PROVE  Cardinality(S) \in Nat /\ Cardinality(S) <= n
  <1>1. IsFiniteSet(1 .. n) /\ Cardinality(1 .. n) = n
    <2>1. IsFiniteSet(1 .. n) /\ Cardinality(1 .. n) = IF 1 > n THEN 0 ELSE n - 1 + 1
      BY FS_Interval
    <2> QED
      BY <2>1
  <1>2. IsFiniteSet(S) /\ Cardinality(S) <= Cardinality(1 .. n)
    BY <1>1, FS_Subset
  <1> QED
    BY <1>1, <1>2, FS_CardinalityType

(* The descriptor has no caller yet, so nothing is overwritten.            *)
LEMMA NotRead ==
  ASSUME OnlyRead, IInv, NEW t \in Threads, pc[t] = "add"
  PROVE  /\ call[t].fd_ctx \in Contexts /\ call[t].fd_ctx[1] = call[t].fd
         /\ call[t].event = READ /\ Reader(call[t].fd_ctx) = 0
         /\ context[call[t].fd_ctx].events = NONE
  <1>1. PICK c \in Contexts : c = call[t].fd_ctx /\ c[1] = call[t].fd /\ call[t].event = READ
    BY CallForRead
  <1>2. PICK a \in Adds : a = call[t].add /\ fate[a] = "adding" /\ waitsFor[a] = <<c[1], READ>>
    BY <1>1 DEF Adding, IInv, Registered, AddsKnown
  <1>3. ASSUME Reader(c) # 0
        PROVE  FALSE
    <2>1. PICK q \in Adds : q = Reader(c) /\ fate[q] = "waiting" /\ waitsFor[q] = <<c[1], READ>>
      BY <1>3, ReaderBits DEF Waiting, IInv, Registered, ReadersKnown
    <2>2. Open(q) /\ Open(a)
      BY <1>2, <2>1 DEF Open
    <2>3. q = a
      BY <1>2, <2>1, <2>2 DEF IInv, Registered, AddsKnown
    <2> QED
      BY <1>2, <2>1, <2>3
  <1>4. context[c].events = NONE
    BY <1>3, ReaderBits
  <1> QED
    BY <1>1, <1>3, <1>4

(* The caller waits now, in one context, counted and watched.              *)
LEMMA ReadersAddSucceeds ==
  ASSUME OnlyRead, IInv, NEW t \in Threads, AddSucceeds(t)
  PROVE  Registered' /\ Final
  <1>1. PICK c \in Contexts : /\ c = call[t].fd_ctx /\ c[1] = call[t].fd /\ c[1] \in Fds
                              /\ call[t].event = READ /\ Reader(c) = 0
                              /\ context[c].events = NONE
    BY NotRead DEF AddSucceeds, Contexts
  <1>2. /\ AddsKnown' /\ Final /\ Adds' = Adds
        /\ \A q \in Adds : q # call[t].add => fate'[q] = fate[q]
        /\ call[t].add \in Adds /\ fate[call[t].add] = "adding" /\ fate'[call[t].add] = "waiting"
        /\ waitsFor[call[t].add] = <<c[1], READ>> /\ waitsFor' = waitsFor
    BY <1>1, AddEnds DEF AddSucceeds
  <1>3. PICK a \in Adds : a = call[t].add
    BY <1>2
  <1>4. Waiting' = Waiting \cup {a} /\ a \notin Waiting /\ a # 0
    <2>1. a # 0
      BY WaitingFinite DEF IInv, Registered
    <2> QED
      BY <1>2, <1>3, <2>1 DEF Waiting
  <1>5. NONE \cup READ = READ
    BY DEF NONE
  <1>6. /\ ~ Watched(c[1])
        /\ interest' = [interest EXCEPT ![c[1]] = [ptr |-> c, events |-> READ]]
    BY <1>1, <1>5 DEF AddSucceeds, epoll_ctl
  <1>7. context' = [context EXCEPT ![c].events = READ, ![c].waiter[READ] = a]
    BY <1>1, <1>3, <1>5, Zenon DEF AddSucceeds
  <1>8. /\ \A d \in Contexts : d # c => context'[d] = context[d] /\ Reader(d)' = Reader(d)
        /\ context'[c].events = READ /\ Reader(c)' = a /\ context'[c].waiter[WRITE] = 0
    <2>1. PICK waiter \in [{READ, WRITE} -> 0 .. MaxAdds], events \in SUBSET {"IN", "PRI"} :
            context[c] = [events |-> events, waiter |-> waiter] /\ waiter[WRITE] = 0
      BY DEF IInv, Table, Types, Context, Registered, ReadersKnown
    <2>2. PICK half : half = [context EXCEPT ![c].events = READ]
                      /\ context' = [half EXCEPT ![c].waiter[READ] = a]
      BY <1>7
    <2>3. \A d \in Contexts : d # c => half[d] = context[d]
      BY <2>2 DEF IInv, Table, Types
    <2>4. DOMAIN half = Contexts /\ half[c] = [events |-> READ, waiter |-> waiter]
      BY <2>1, <2>2 DEF IInv, Table, Types
    <2>5. \A d \in Contexts : d # c => context'[d] = half[d]
      BY <2>2, <2>4
    <2>6. context'[c] = [events |-> READ, waiter |-> [waiter EXCEPT ![READ] = a]]
      BY <2>2, <2>4
    <2> QED
      BY <2>1, <2>3, <2>5, <2>6, EventsDiffer DEF Reader
  <1>9. ReadersKnown'
    <2>1. \A d \in Contexts : context'[d].events \subseteq READ /\ context'[d].waiter[WRITE] = 0
      BY <1>8 DEF IInv, Registered, ReadersKnown
    <2>2. \A d \in Contexts : Reader(d) # 0 => Reader(d) \in Waiting
      BY ReaderBits
    <2>3. \A d \in Contexts : Reader(d)' # 0 =>
            Reader(d)' \in Adds /\ waitsFor[Reader(d)'] = <<d[1], READ>>
      BY <1>2, <1>3, <1>8 DEF IInv, Registered, ReadersKnown
    <2>4. \A d, e \in Contexts : Reader(d)' # 0 /\ Reader(d)' = Reader(e)' => d = e
      BY <1>4, <1>8, <2>2 DEF IInv, Registered, ReadersKnown
    <2> QED
      BY <1>2, <2>1, <2>3, <2>4 DEF ReadersKnown
  <1>10. ContextsMatch'
    <2>1. ASSUME NEW q \in Waiting'
          PROVE  \E d \in Contexts : /\ d[1] = waitsFor'[q][1]
                                      /\ context'[d].waiter[waitsFor'[q][2]] = q
      <3>1. CASE q = a
        BY <1>2, <1>3, <1>8, <3>1 DEF Reader
      <3>2. CASE q # a
        <4>1. q \in Waiting /\ q \in Adds
          BY <1>4, <2>1, <3>2 DEF Waiting
        <4>2. PICK d \in Contexts : d[1] = waitsFor[q][1] /\ context[d].waiter[waitsFor[q][2]] = q
          BY <4>1 DEF IInv, Registered, ContextsMatch
        <4>3. waitsFor[q][2] = READ /\ q # 0
          BY <4>1, WaitingFinite, LenProperties DEF OnlyRead, IInv, Registered, AddsKnown
        <4>4. d # c
          BY <1>1, <4>2, <4>3 DEF Reader
        <4> QED
          BY <1>2, <1>8, <4>2, <4>4
      <3> QED
        BY <3>1, <3>2
    <2>2. ASSUME NEW d \in Contexts
          PROVE  (Waiters(d) \subseteq Waiting)'
      <3>1. CASE d = c
        BY <1>4, <1>8, <3>1 DEF Waiters, Reader
      <3>2. CASE d # c
        <4>1. Waiters(d)' = Waiters(d) /\ Waiters(d) \subseteq Waiting
          BY <1>8, <3>2 DEF Waiters, IInv, Registered, ContextsMatch
        <4> QED
          BY <1>4, <4>1
      <3> QED
        BY <3>1, <3>2
    <2>3. ASSUME NEW d \in Contexts, NEW event \in {READ, WRITE}
          PROVE  context'[d].waiter[event] # 0 <=> event \subseteq context'[d].events
      <3>1. CASE d = c
        <4>1. context'[c].waiter[READ] # 0 /\ context'[c].waiter[WRITE] = 0
          BY <1>4, <1>8 DEF Reader
        <4>2. READ \subseteq READ /\ ~ WRITE \subseteq READ
          BY DEF READ, WRITE
        <4>3. event = READ \/ event = WRITE
          OBVIOUS
        <4> QED
          BY <1>8, <3>1, <4>1, <4>2, <4>3, Zenon
      <3>2. CASE d # c
        BY <1>8, <3>2 DEF IInv, Registered, ContextsMatch
      <3> QED
        BY <3>1, <3>2
    <2> QED
      BY <2>1, <2>2, <2>3 DEF ContextsMatch
  <1>11. PendingCounted'
    <2>1. IsFiniteSet(Waiting) /\ Cardinality(Waiting) \in 0 .. MaxAdds
      BY WaitingFinite DEF IInv, Registered
    <2>2. Cardinality(Waiting') = Cardinality(Waiting) + 1
      BY <1>4, <2>1, FS_AddElement
    <2>3. PICK n \in Nat : n <= MaxAdds /\ Adds = 1 .. n
      BY WaitingFinite DEF IInv, Registered, AddsKnown
    <2>4. Waiting' \in SUBSET (1 .. n)
      BY <1>3, <1>4, <2>3 DEF Waiting
    <2>5. Cardinality(Waiting') <= MaxAdds
      BY <2>3, <2>4, BoundedSet, BoundsAre
    <2>6. PICK m \in 0 .. MaxAdds - 1 : m = m_pendingEventCount /\ m = Cardinality(Waiting)
      BY <2>1, <2>2, <2>5, BoundsAre DEF IInv, Registered, PendingCounted
    <2>7. m_pendingEventCount' = (m + 1) % Word
      BY <2>6 DEF AddSucceeds
    <2> QED
      BY <2>2, <2>6, <2>7, CountUp DEF PendingCounted
  <1>12. EpollMatches'
    <2>1. \A fd \in Fds : interest'[fd] = IF fd = c[1] THEN [ptr |-> c, events |-> READ]
                                          ELSE interest[fd]
      BY <1>6 DEF IInv, Table, Types
    <2>2. ASSUME NEW d \in Contexts, context'[d].events # NONE
          PROVE  interest'[d[1]] = [ptr |-> d, events |-> context'[d].events]
      <3>1. CASE d = c
        BY <1>1, <1>8, <2>1, <3>1
      <3>2. CASE d # c
        <4>1. context'[d] = context[d] /\ d[1] \in Fds
          BY <1>8, <3>2 DEF Contexts
        <4>2. interest[d[1]] = [ptr |-> d, events |-> context[d].events]
          BY <2>2, <4>1 DEF IInv, Registered, EpollMatches
        <4>3. interest[d[1]].events # NONE
          BY <2>2, <4>1, <4>2
        <4>4. d[1] # c[1]
          BY <1>6, <4>3 DEF Watched, NotWatched
        <4> QED
          BY <2>1, <4>1, <4>2, <4>4
      <3> QED
        BY <3>1, <3>2
    <2>3. ASSUME NEW fd \in Fds, Watched(fd)'
          PROVE  context'[interest'[fd].ptr].events = interest'[fd].events
                 /\ interest'[fd].events # NONE
      <3>1. CASE fd = c[1]
        BY <1>8, <2>1, <3>1, EventsDiffer
      <3>2. CASE fd # c[1]
        <4>1. interest'[fd] = interest[fd] /\ Watched(fd)
          BY <2>1, <2>3, <3>2 DEF Watched
        <4>2. interest[fd].ptr \in Contexts /\ interest[fd].ptr[1] = fd
          BY <4>1 DEF IInv, Table, CallsKnow
        <4> QED
          BY <1>8, <3>2, <4>1, <4>2 DEF IInv, Registered, EpollMatches
      <3> QED
        BY <3>1, <3>2
    <2> QED
      BY <2>2, <2>3 DEF EpollMatches
  <1> QED
    BY <1>2, <1>9, <1>10, <1>11, <1>12 DEF Registered

-----------------------------------------------------------------------------
(* The steps that look something up, or find nothing to do.                *)
LEMMA ReadersLook ==
  ASSUME IInv, NEW t \in Threads,
         \/ AddGet(t) \/ AddGrow(t) \/ AddGrown(t) \/ CancelGet(t) \/ ReturnsFalse(t)
         \/ \E fd \in Fds, event \in Events \cup {NONE}, next \in {"del", "cancel all"} :
              LookUnderLock(t, next, fd, event)
         \/ \E fd \in Fds, event \in Events : CancelLook(t, fd, event)
  PROVE  Registered' /\ Final
  <1>1. UNCHANGED <<context, interest, m_pendingEventCount, waitsFor, fate>>
    BY DEF AddGet, AddGrow, AddGrown, CancelGet, ReturnsFalse, LookUnderLock, CancelLook, Dies
  <1>2. NoneBegins
    <2>1. CASE AddGet(t) \/ AddGrow(t) \/ AddGrown(t)
      <3>1. /\ pc' = pc \/ \E next : pc' = [pc EXCEPT ![t] = next]
            /\ call' = call \/ \E ctx : call' = [call EXCEPT ![t].fd_ctx = ctx]
            /\ Adding(t)
        BY <2>1 DEF AddGet, AddGrow, AddGrown, Lookup, Goto, Adding, threads
      <3>2. \A u \in Threads : /\ call'[u].add = call[u].add /\ call'[u].fd = call[u].fd
                               /\ call'[u].event = call[u].event
        <4>1. CASE call' = call
          BY <4>1
        <4>2. ASSUME NEW ctx, call' = [call EXCEPT ![t].fd_ctx = ctx]
              PROVE  \A u \in Threads : /\ call'[u].add = call[u].add
                                         /\ call'[u].fd = call[u].fd
                                         /\ call'[u].event = call[u].event
          <5>1. PICK old \in CallRecord : old = call[t]
            BY DEF IInv, Table, Types
          <5>2. PICK new : new = call'[t] /\ new = [old EXCEPT !.fd_ctx = ctx]
            BY <4>2, <5>1 DEF IInv, Table, Types
          <5>3. new.add = old.add /\ new.fd = old.fd /\ new.event = old.event
            BY <5>2 DEF CallRecord
          <5>4. \A u \in Threads : u # t => call'[u] = call[u]
            BY <4>2 DEF IInv, Table, Types
          <5>5. /\ call'[t].add = call[t].add /\ call'[t].fd = call[t].fd
                /\ call'[t].event = call[t].event
            BY <5>1, <5>2, <5>3, Zenon
          <5> QED
            BY <5>4, <5>5, Zenon
        <4> QED
          BY <3>1, <4>1, <4>2
      <3>3. \A u \in Threads : u # t => pc'[u] = pc[u]
        BY <3>1 DEF IInv, Table, Types
      <3> QED
        BY <3>1, <3>2, <3>3 DEF NoneBegins, Adding
    <2>2. CASE ~ (AddGet(t) \/ AddGrow(t) \/ AddGrown(t))
      <3>1. /\ \A u \in Threads : u # t => pc'[u] = pc[u] /\ call'[u] = call[u]
            /\ \/ UNCHANGED <<pc, call>>
               \/ pc'[t] \in {"idle", "del", "cancel all", "cancel look", "cancel"}
        BY <2>2 DEF CancelGet, ReturnsFalse, LookUnderLock, CancelLook, Dies, Lookup, Begin,
                    Return, Goto, threads, IInv, Table, Types
      <3> QED
        BY <3>1 DEF NoneBegins, Adding
    <2> QED
      BY <2>1, <2>2
  <1> QED
    BY <1>1, <1>2, NobodyTold

(* epoll_wait() only fills a worker's batch.                               *)
LEMMA ReadersEpollWait ==
  ASSUME IInv, NEW w \in Workers, EpollWait(w)
  PROVE  Registered' /\ Final
  <1>1. NoneBegins /\ UNCHANGED <<context, interest, m_pendingEventCount, waitsFor, fate>>
    BY DEF EpollWait, NoneBegins, Adding, threads
  <1> QED
    BY <1>1, NobodyTold

(* At first nobody waits.                                                  *)
LEMMA ReadersInit == Init => Registered
  <1> SUFFICES ASSUME Init
               PROVE  Registered
    OBVIOUS
  <1>1. Adds = {} /\ Len(fate) = 0 /\ Len(waitsFor) = 0 /\ waitsFor \in Seq(Fds \X Events)
        /\ fate \in Seq(Fates)
    BY EmptySeq DEF Init, Adds
  <1>2. AddsKnown
    BY <1>1, BoundsAre DEF Init, AddsKnown, Adding
  <1>3. \A c \in Contexts : /\ context[c].events = NONE /\ context[c].waiter[READ] = 0
                            /\ context[c].waiter[WRITE] = 0
    BY NewContextType DEF Init
  <1>4. ReadersKnown
    <2>1. NONE \subseteq READ
      BY DEF NONE
    <2> QED
      BY <1>3, <2>1 DEF ReadersKnown, Reader
  <1>5. Waiting = {}
    BY <1>1 DEF Waiting
  <1>6. ContextsMatch
    <2>1. ~ READ \subseteq NONE /\ ~ WRITE \subseteq NONE
      BY DEF READ, WRITE, NONE
    <2>2. \A c \in Contexts, event \in {READ, WRITE} :
            context[c].waiter[event] # 0 <=> event \subseteq context[c].events
      BY <1>3, <2>1
    <2> QED
      BY <1>3, <1>5, <2>2 DEF ContextsMatch, Waiters
  <1>7. PendingCounted
    BY <1>5, FS_EmptySet DEF Init, PendingCounted
  <1>8. EpollMatches
    BY <1>3 DEF Init, EpollMatches, Watched
  <1> QED
    BY <1>2, <1>4, <1>6, <1>7, <1>8 DEF Registered

(* All steps: the contexts, the count and epoll agree, and what a caller   *)
(* was told is final.                                                      *)
LEMMA ReadersNext ==
  ASSUME OnlyRead, IInv, Next
  PROVE  Registered' /\ Final
  <1>1. ASSUME NEW t \in Threads, ThreadStep(t)
        PROVE  Registered' /\ Final
    <2>1. CASE Calls(t)
      <3>1. PICK fd \in Fds :
              \/ \E event \in Events :
                   \/ AddLook(t, fd, event)
                   \/ LookUnderLock(t, "del", fd, event)
                   \/ CancelLook(t, fd, event)
              \/ LookUnderLock(t, "cancel all", fd, NONE)
        BY <2>1 DEF Calls
      <3>2. CASE \E event \in Events : AddLook(t, fd, event)
        BY <3>2, ReadersAddLook
      <3>3. CASE \E event \in Events : CancelLook(t, fd, event)
        BY <3>3, ReadersLook, Zenon
      <3>4. CASE \E event \in Events \cup {NONE}, next \in {"del", "cancel all"} :
                   LookUnderLock(t, next, fd, event)
        BY <3>4, ReadersLook, Zenon
      <3> QED
        BY <3>1, <3>2, <3>3, <3>4, Zenon
    <2>2. CASE AddEvent(t)
      BY <2>2, ReadersLook, ReadersAddSucceeds, ReadersAddFails DEF AddEvent
    <2> QED
      BY <1>1, <2>1, <2>2, ReadersLook, ReadersDelEvent, ReadersCancels DEF ThreadStep
  <1> QED
    BY <1>1, ReadersEpollWait, ReadersHandle DEF Next

(* Every step keeps the invariant, stuttering included.                    *)
LEMMA IInvStep ==
  ASSUME OnlyRead, IInv, [Next]_vars
  PROVE  IInv' /\ Final
  <1>1. Table'
    BY TableNext DEF IInv
  <1>2. CASE Next
    BY <1>1, <1>2, ReadersNext DEF IInv
  <1>3. CASE UNCHANGED vars
    <2>1. NoneBegins /\ UNCHANGED <<context, interest, m_pendingEventCount, waitsFor, fate>>
      BY <1>3 DEF vars, threads, NoneBegins, Adding
    <2> QED
      BY <1>1, <2>1, NobodyTold DEF IInv
  <1> QED
    BY <1>2, <1>3

(* The invariant holds in all behaviours, with READ only.                  *)
LEMMA IInvInvariant ==
  ASSUME OnlyRead
  PROVE  Spec => []IInv
  <1>1. Init => IInv
    BY TableInit, ReadersInit DEF IInv
  <1>2. IInv /\ [Next]_vars => IInv'
    BY IInvStep
  <1> QED
    BY <1>1, <1>2, PTL DEF Spec

(* Callers of addEvent(), delEvent(), cancelEvent() and cancelAll() keep   *)
(* the types: m_pendingEventCount never wraps, and nobody is resumed twice.*)
THEOREM TypeCorrect ==
  ASSUME Events = {READ}
  PROVE  Spec => []TypeOK
  <1>1. IInv => TypeOK
    <2> SUFFICES ASSUME IInv
                 PROVE  TypeOK
      OBVIOUS
    <2>1. Types
      BY DEF IInv, Table
    <2>2. waitsFor \in Seq(Fds \X Events) /\ fate \in Seq(Fates)
      BY DEF IInv, Registered, AddsKnown
    <2>3. m_pendingEventCount \in 0 .. MaxAdds
      BY WaitingFinite DEF IInv, Registered, PendingCounted
    <2> QED
      BY <2>1, <2>2, <2>3 DEF Types, TypeOK, Context, Places, CallRecord, Fates, Deaths
  <1>2. Spec => []IInv
    BY IInvInvariant DEF OnlyRead
  <1> QED
    BY <1>1, <1>2, PTL

(* The callers that wait are those in the FdContexts, each in one place,   *)
(* and `events` has the bit of READ exactly if somebody waits for it.      *)
THEOREM WaitersInContexts ==
  ASSUME Events = {READ}
  PROVE  Spec => []ContextsMatch
  <1>1. IInv => ContextsMatch
    BY DEF IInv, Registered
  <1>2. Spec => []IInv
    BY IInvInvariant DEF OnlyRead
  <1> QED
    BY <1>1, <1>2, PTL

(* m_pendingEventCount, which stopping() looks at, is the number of        *)
(* callers that wait, however addEvent(), the cancels and idle() mix.      *)
THEOREM CountIsWaiting ==
  ASSUME Events = {READ}
  PROVE  Spec => []PendingCounted
  <1>1. IInv => PendingCounted
    BY DEF IInv, Registered
  <1>2. Spec => []IInv
    BY IInvInvariant DEF OnlyRead
  <1> QED
    BY <1>1, <1>2, PTL

(* epoll watches a descriptor exactly for the events of the context it     *)
(* reports them with.                                                      *)
THEOREM EpollKnows ==
  ASSUME Events = {READ}
  PROVE  Spec => []EpollMatches
  <1>1. IInv => EpollMatches
    BY DEF IInv, Registered
  <1>2. Spec => []IInv
    BY IInvInvariant DEF OnlyRead
  <1> QED
    BY <1>1, <1>2, PTL

(* What a caller was told is final: a callback that was deleted or         *)
(* scheduled is not scheduled again, though epoll_wait may have reported   *)
(* its event to a worker before.                                           *)
THEOREM ToldOnce ==
  ASSUME Events = {READ}
  PROVE  Spec => FateFinal
  <1>1. Spec => []IInv
    BY IInvInvariant DEF OnlyRead
  <1>2. IInv /\ [Next]_vars => [Final]_vars
    BY IInvStep DEF OnlyRead
  <1>3. Spec => [][Final]_vars
    BY <1>1, <1>2, PTL DEF Spec
  <1> QED
    BY <1>3 DEF FateFinal, Final
=============================================================================
