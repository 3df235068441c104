--------------------------- MODULE HookedIOProofs ---------------------------
(***************************************************************************)
(* Proofs of HookedIO's safety properties, for any descriptors, fibers,    *)
(* calls and timers, and of ByteStream's, for any numbers of bytes and     *)
(* signals: the call that waits, and the loops that call it.               *)
(***************************************************************************)
EXTENDS HookedIO, ByteStream, SequenceTheorems, TLAPS

-----------------------------------------------------------------------------
(* A fiber has a descriptor exactly while it is in do_io(), and no two     *)
(* fibers have the same one.                                               *)
InCall(f) == pc[f] # "out"

Locals ==
  /\ InitialSize <= size
  /\ \A f \in Fibers :
       /\ InCall(f) => fd[f] \in Fds /\ calls[f] \in Nat \ {0}
       /\ ~ InCall(f) => ~ cancelled[f] /\ f \notin owed
       /\ timer[f] = "armed" => timers[f] \in Nat \ {0}
  /\ \A f, g \in Fibers : f # g /\ InCall(f) /\ InCall(g) => fd[f] # fd[g]

(* Callbacks are of calls that have begun; while the call of one goes on,  *)
(* its fiber's timer has been due, it is for the descriptor of that call,  *)
(* and it cancels the event only behind setting tinfo->cancelled.          *)
Callbacks ==
  \A cb \in callbacks :
    /\ cb.call <= calls[cb.fiber]
    /\ Lives(cb) =>
         /\ cb.fiber \in expired /\ cb.fd = fd[cb.fiber]
         /\ cb.at = "cancel" => cancelled[cb.fiber]

(* As long as no context of a descriptor was lost, whoever holds one holds *)
(* the one in m_datas, and what its user has set is there.                 *)
Contexts ==
  /\ \A f \in Fibers : hold[f] # <<>> =>
       hold[f][1] \in lost \/ hold[f][2] = m_datas[hold[f][1]]
  /\ \A d \in wanted \ lost : m_datas[d] # 0 /\ <<d, m_datas[d]>> \in timed

(* A call on a descriptor with a timeout has it, and a try that waits has  *)
(* a timer that nobody has cancelled.                                      *)
Timed(f) == timer[f] \in {"armed", "collected"}

Timeouts ==
  /\ \A f \in owed : to[f] \/ fd[f] \in lost
  /\ \A f \in Fibers : to[f] /\ pc[f] \in {"add", "yield"} => Timed(f)

IInv == TypeOK /\ Locals /\ Callbacks /\ WaiterKept /\ TimerOfCall /\ Contexts /\ Timeouts

-----------------------------------------------------------------------------
(* A context in m_datas is within the vector, so that get() finds it.      *)
LEMMA GetIsData ==
  ASSUME FdTypeOK, NEW d \in Fds
  PROVE  get(d) = m_datas[d]
  BY FdsAssumption DEF FdTypeOK, get

(* The vector grows far enough, and never shrinks.                         *)
LEMMA ResizedGrows ==
  ASSUME size \in Nat, InitialSize <= size, NEW d \in Fds
  PROVE  Resized(d) \in Nat /\ Resized(d) > d /\ Resized(d) >= size
  <1>1. d \in Nat /\ 2 <= size
    BY FdsAssumption, SizeAssumption
  <1>2. d >= 2 => (d * 3) \div 2 \in Nat /\ (d * 3) \div 2 > d
    BY <1>1
  <1> QED
    BY <1>1, <1>2 DEF Resized

(* The actions that leave FdManager's state alone.                         *)
LEMMA FdUnchanged ==
  ASSUME FdTypeOK, UNCHANGED fdvars
  PROVE  FdTypeOK'
  BY DEF FdTypeOK, fdvars, table

(* What FdManager's operations do, to its types.                           *)
LEMMA FdTypeNext ==
  ASSUME FdTypeOK, InitialSize <= size, NEW f \in Fibers,
         \/ \E d \in Fds : GetFinds(f, d) \/ GetMisses(f, d)
         \/ GetMakes(f) \/ SetTimeout(f) \/ \E d \in Fds : del(d)
  PROVE  FdTypeOK' /\ InitialSize <= size'
  <1> USE DEF FdTypeOK, table
  <1>1. ASSUME NEW d \in Fds, GetFinds(f, d)
        PROVE  FdTypeOK' /\ InitialSize <= size'
    <2>1. get(d) \in 1 .. MaxCtxs
      BY <1>1, GetIsData, CtxsAssumption DEF GetFinds
    <2> QED
      BY <1>1, <2>1 DEF GetFinds
  <1>2. ASSUME NEW d \in Fds, GetMisses(f, d)
        PROVE  FdTypeOK' /\ InitialSize <= size'
    BY <1>2 DEF GetMisses
  <1>3. CASE GetMakes(f)
    <2> DEFINE d == making[f]
    <2>1. d \in Fds /\ made[d] + 1 \in 1 .. MaxCtxs
      BY <1>3, CtxsAssumption DEF GetMakes
    <2>2. Resized(d) \in Nat /\ Resized(d) > d /\ Resized(d) >= size
      BY <2>1, ResizedGrows
    <2>3. /\ made' = [made EXCEPT ![d] = @ + 1]
          /\ size' = Resized(d)
          /\ m_datas' = [m_datas EXCEPT ![d] = made[d] + 1]
          /\ hold' = [hold EXCEPT ![f] = <<d, made[d] + 1>>]
          /\ making' = [making EXCEPT ![f] = -1]
          /\ timed' = timed
      BY <1>3 DEF GetMakes
    <2> HIDE DEF d
    <2>4. Fds \subseteq Nat /\ InitialSize \in Nat
      BY FdsAssumption, SizeAssumption
    <2>5. ASSUME NEW e \in Fds
          PROVE  m_datas'[e] <= made'[e] /\ (m_datas'[e] # 0 => e < size')
      <3>1. m_datas[e] <= made[e] /\ (m_datas[e] # 0 => e < size)
            /\ m_datas[e] \in Nat /\ made[e] \in Nat
        BY <2>4
      <3>2. CASE e = d
        <4>1. m_datas'[e] = made[e] + 1 /\ made'[e] = made[e] + 1 /\ e < size'
          BY <2>2, <2>3, <3>2
        <4> QED
          BY <3>1, <4>1
      <3>3. CASE e # d
        <4>1. m_datas'[e] = m_datas[e] /\ made'[e] = made[e]
          BY <2>3, <3>3
        <4> QED
          BY <2>2, <2>3, <2>4, <3>1, <4>1
      <3> QED
        BY <3>2, <3>3
    <2>6. made' \in [Fds -> 0 .. MaxCtxs] /\ m_datas' \in [Fds -> 0 .. MaxCtxs]
      <3>1. made[d] + 1 \in 0 .. MaxCtxs
        BY <2>1, CtxsAssumption
      <3> QED
        BY <2>3, <3>1
    <2>7. /\ hold' \in [Fibers -> (Fds \X (1 .. MaxCtxs)) \cup {<<>>}]
          /\ making' \in [Fibers -> Fds \cup {-1}]
      BY <2>1, <2>3
    <2>8. size' \in Nat /\ InitialSize <= size'
      BY <2>2, <2>3, <2>4
    <2> QED
      BY <2>3, <2>5, <2>6, <2>7, <2>8
  <1>4. CASE SetTimeout(f)
    BY <1>4 DEF SetTimeout
  <1>5. ASSUME NEW d \in Fds, del(d)
        PROVE  FdTypeOK' /\ InitialSize <= size'
    BY <1>5, CtxsAssumption DEF del
  <1> QED
    BY <1>1, <1>2, <1>3, <1>4, <1>5

(* And del() alone.                                                        *)
LEMMA FdDelType ==
  ASSUME FdTypeOK, InitialSize <= size, NEW d \in Fds, del(d)
  PROVE  FdTypeOK' /\ InitialSize <= size'
  BY CtxsAssumption DEF del, FdTypeOK, table

(* The types hold at first.                                                *)
LEMMA TypeInit == Init => TypeOK /\ InitialSize <= size
  <1> SUFFICES ASSUME Init
               PROVE  TypeOK /\ InitialSize <= size
    OBVIOUS
  <1> USE SizeAssumption, CtxsAssumption, HookBoundsAssumption DEF Init, FdInit
  <1>1. FdTypeOK /\ InitialSize <= size
    BY DEF FdTypeOK
  <1> QED
    BY <1>1 DEF TypeOK, LocalTypeOK, RestTypeOK, GhostTypeOK

(* Every step keeps the types.                                             *)
LEMMA TypeNext ==
  ASSUME TypeOK, Locals, TimerOfCall, [Next]_vars
  PROVE  TypeOK' /\ InitialSize <= size'
  <1> USE DEF TypeOK, Goto, ghost, rest, local
  <1>0. InitialSize <= size
    BY DEF Locals
  <1>f. fdvars' = fdvars => FdTypeOK' /\ InitialSize <= size'
    BY <1>0, FdUnchanged DEF fdvars, table
  <1>l. UNCHANGED local => LocalTypeOK'
    BY DEF LocalTypeOK
  <1>r. UNCHANGED rest => RestTypeOK'
    BY DEF RestTypeOK
  <1>g. UNCHANGED ghost => GhostTypeOK'
    BY DEF GhostTypeOK
  <1>1. ASSUME NEW f \in Fibers, Open(f)
        PROVE  TypeOK' /\ InitialSize <= size'
    <2>1. FdTypeOK' /\ InitialSize <= size'
      BY <1>0, <1>1, FdTypeNext DEF Open
    <2>2. GhostTypeOK'
      BY <1>1 DEF Open, GhostTypeOK
    <2> QED
      BY <1>1, <1>l, <1>r, <2>1, <2>2 DEF Open
  <1>2. ASSUME NEW f \in Fibers, Configure(f)
        PROVE  TypeOK' /\ InitialSize <= size'
    <2>1. SetTimeout(f) /\ hold[f] # <<>>
      BY <1>2 DEF Configure, SetTimeout
    <2>2. hold[f][1] \in Fds
      <3>1. hold[f] \in Fds \X (1 .. MaxCtxs)
        BY <2>1 DEF FdTypeOK
      <3> QED
        BY <3>1
    <2>3. FdTypeOK' /\ InitialSize <= size'
      BY <1>0, <2>1, FdTypeNext
    <2>4. GhostTypeOK'
      BY <1>2, <2>2 DEF Configure, GhostTypeOK
    <2> QED
      BY <1>2, <1>l, <1>r, <2>3, <2>4 DEF Configure
  <1>3. ASSUME NEW f \in Fibers, NEW d \in Fds, Begin(f, d)
        PROVE  TypeOK' /\ InitialSize <= size'
    <2>1. LocalTypeOK'
      <3>1. calls[f] + 1 \in 0 .. MaxCalls
        BY <1>3, HookBoundsAssumption DEF Begin, LocalTypeOK
      <3> QED
        BY <1>3, <3>1 DEF Begin, LocalTypeOK
    <2>2. GhostTypeOK'
      BY <1>3 DEF Begin, GhostTypeOK
    <2> QED
      BY <1>3, <1>f, <1>r, <2>1, <2>2 DEF Begin
  <1>4. ASSUME NEW f \in Fibers, NEW from, Return(f, from),
               timer' \in [Fibers -> {"none", "armed", "cancelled", "collected"}]
        PROVE  TypeOK' /\ InitialSize <= size'
    <2>1. LocalTypeOK'
      BY <1>4 DEF Return, LocalTypeOK
    <2>2. GhostTypeOK'
      BY <1>4 DEF Return, GhostTypeOK
    <2> QED
      BY <1>4, <1>f, <1>r, <2>1, <2>2 DEF Return
  <1>5. ASSUME NEW f \in Fibers, CallReturns(f) \/ TimedOut(f)
        PROVE  TypeOK' /\ InitialSize <= size'
    BY <1>4, <1>5 DEF CallReturns, TimedOut, LocalTypeOK
  <1>6. ASSUME NEW f \in Fibers, WouldBlock(f)
        PROVE  TypeOK' /\ InitialSize <= size'
    <2>1. LocalTypeOK'
      <3>1. timers[f] < MaxTimers => timers[f] + 1 \in 0 .. MaxTimers
        BY HookBoundsAssumption DEF LocalTypeOK
      <3> QED
        BY <1>6, <3>1 DEF WouldBlock, LocalTypeOK
    <2> QED
      BY <1>6, <1>f, <1>r, <1>g, <2>1 DEF WouldBlock
  <1>7. ASSUME NEW f \in Fibers, AddEvent(f)
        PROVE  TypeOK' /\ InitialSize <= size'
    <2>1. LocalTypeOK'
      BY <1>7 DEF AddEvent, LocalTypeOK
    <2>2. RestTypeOK'
      BY <1>7 DEF AddEvent, RestTypeOK
    <2> QED
      BY <1>7, <1>f, <1>g, <2>1, <2>2 DEF AddEvent
  <1>8. ASSUME NEW f \in Fibers, AddEventFails(f)
        PROVE  TypeOK' /\ InitialSize <= size'
    BY <1>8, <1>4 DEF AddEventFails, Cancelled, LocalTypeOK
  <1>9. ASSUME NEW f \in Fibers, Resume(f)
        PROVE  TypeOK' /\ InitialSize <= size'
    <2>1. LocalTypeOK'
      BY <1>9 DEF Resume, Cancelled, LocalTypeOK
    <2>2. RestTypeOK'
      BY <1>9 DEF Resume, RestTypeOK
    <2> QED
      BY <1>9, <1>f, <1>g, <2>1, <2>2 DEF Resume
  <1>10. ASSUME NEW f \in Fibers, Retry(f)
         PROVE  TypeOK' /\ InitialSize <= size'
    <2>1. LocalTypeOK'
      BY <1>10 DEF Retry, LocalTypeOK
    <2> QED
      BY <1>10, <1>f, <1>r, <1>g, <2>1 DEF Retry
  <1>11. ASSUME NEW f \in Fibers, Expire(f)
         PROVE  TypeOK' /\ InitialSize <= size'
    <2> DEFINE cb == [fiber |-> f, call |-> calls[f], timer |-> timers[f], fd |-> fd[f],
                      at |-> "begin"]
    <2>1. pc[f] # "out" /\ timer[f] = "armed"
      BY <1>11 DEF Expire, TimerOfCall
    <2>2. calls[f] \in 1 .. MaxCalls /\ timers[f] \in 1 .. MaxTimers /\ fd[f] \in Fds
      BY <2>1, HookBoundsAssumption DEF Locals, InCall, LocalTypeOK
    <2>3. cb \in [fiber : Fibers, call : 1 .. MaxCalls, timer : 1 .. MaxTimers,
                  fd : Fds, at : {"begin", "set", "cancel"}]
      BY <2>2
    <2>4. callbacks' = callbacks \cup {cb} /\ UNCHANGED <<waiter, scheduled, locked, process>>
      BY <1>11 DEF Expire
    <2> HIDE DEF cb
    <2>5. RestTypeOK'
      BY <2>3, <2>4 DEF RestTypeOK
    <2>6. LocalTypeOK'
      BY <1>11 DEF Expire, LocalTypeOK
    <2>7. GhostTypeOK'
      BY <1>11 DEF Expire, GhostTypeOK
    <2> QED
      BY <1>11, <1>f, <2>5, <2>6, <2>7 DEF Expire
  <1>12. ASSUME NEW d \in Fds, Close(d)
         PROVE  TypeOK' /\ InitialSize <= size'
    <2>1. FdTypeOK' /\ InitialSize <= size'
      BY <1>0, <1>12, FdDelType DEF Close
    <2>2. GhostTypeOK'
      BY <1>12 DEF Close, GhostTypeOK
    <2> QED
      BY <1>12, <1>l, <1>r, <2>1, <2>2 DEF Close
  <1>13. ASSUME NEW d \in Fds, trigger(d), locked' \subseteq Fds, process' = process,
                callbacks' \subseteq callbacks
         PROVE  RestTypeOK'
    BY <1>13 DEF trigger, RestTypeOK
  <1>14. ASSUME NEW d \in Fds, EventCancelled(d) \/ EventComes(d)
         PROVE  TypeOK' /\ InitialSize <= size'
    <2>1. locked' \subseteq Fds
      BY <1>14 DEF EventCancelled, EventComes, RestTypeOK
    <2> QED
      BY <1>14, <1>13, <1>f, <1>l, <1>g, <2>1 DEF EventCancelled, EventComes
  <1>15. CASE TriggerWrite
    <2>1. RestTypeOK'
      BY <1>15 DEF TriggerWrite, RestTypeOK
    <2> QED
      BY <1>15, <1>f, <1>l, <1>g, <2>1 DEF TriggerWrite
  <1>16. ASSUME NEW cb \in callbacks, Drop(cb)
         PROVE  TypeOK' /\ InitialSize <= size'
    <2>1. RestTypeOK'
      BY <1>16 DEF Drop, RestTypeOK
    <2>2. GhostTypeOK'
      BY <1>16 DEF Drop, GhostTypeOK, RestTypeOK
    <2> QED
      BY <1>16, <1>f, <1>l, <2>1, <2>2 DEF Drop
  <1>17. ASSUME NEW cb \in callbacks, NEW next \in {"set", "cancel"},
                callbacks' = callbacks \ {cb} \/ Moves(cb, next),
                UNCHANGED <<waiter, scheduled, locked, process>>
         PROVE  RestTypeOK'
    <2>1. [cb EXCEPT !.at = next] \in [fiber : Fibers, call : 1 .. MaxCalls,
                                       timer : 1 .. MaxTimers, fd : Fds,
                                       at : {"begin", "set", "cancel"}]
      BY DEF RestTypeOK
    <2> QED
      BY <1>17, <2>1 DEF Moves, RestTypeOK
  <1>18. ASSUME NEW cb \in callbacks, Test(cb)
         PROVE  TypeOK' /\ InitialSize <= size'
    <2>1. RestTypeOK'
      BY <1>17, <1>18 DEF Test
    <2> QED
      BY <1>18, <1>f, <1>l, <1>g, <2>1 DEF Test
  <1>19. ASSUME NEW cb \in callbacks, Set(cb)
         PROVE  TypeOK' /\ InitialSize <= size'
    <2>1. cancelled' \in [Fibers -> BOOLEAN]
      <3>1. cancelled' = [cancelled EXCEPT ![cb.fiber] = @ \/ Lives(cb)]
        BY <1>19 DEF Set
      <3> HIDE DEF Lives
      <3> QED
        BY <3>1 DEF LocalTypeOK
    <2>2. LocalTypeOK'
      BY <1>19, <2>1 DEF Set, LocalTypeOK
    <2>3. RestTypeOK'
      BY <1>17, <1>19 DEF Set
    <2> QED
      BY <1>19, <1>f, <1>g, <2>2, <2>3 DEF Set
  <1>20. ASSUME NEW cb \in callbacks, CancelEvent(cb)
         PROVE  TypeOK' /\ InitialSize <= size'
    <2>1. cb.fd \in Fds
      BY DEF RestTypeOK
    <2>2. RestTypeOK'
      BY <1>13, <1>20, <2>1 DEF CancelEvent, RestTypeOK
    <2> QED
      BY <1>20, <1>f, <1>l, <1>g, <2>2 DEF CancelEvent
  <1>21. CASE UNCHANGED vars
    BY <1>21, <1>f, <1>l, <1>r, <1>g DEF vars
  <1> QED
    BY <1>1, <1>2, <1>3, <1>5, <1>6, <1>7, <1>8, <1>9, <1>10, <1>11, <1>12, <1>14, <1>15,
       <1>16, <1>18, <1>19, <1>20, <1>21 DEF Next, FiberStep

-----------------------------------------------------------------------------
(* What the lemmas below need of the types.                                *)
FiberFunctions ==
  /\ pc = [f \in Fibers |-> pc[f]]
  /\ fd \in [Fibers -> Fds \cup {NoFd}]
  /\ to = [f \in Fibers |-> to[f]]
  /\ timer = [f \in Fibers |-> timer[f]]
  /\ cancelled \in [Fibers -> BOOLEAN]
  /\ calls \in [Fibers -> Nat] /\ timers \in [Fibers -> Nat]

Members ==
  /\ owed \subseteq Fibers /\ scheduled \subseteq Fibers
  /\ waiter \in [Fds -> Fibers \cup {NoFiber}]
  /\ callbacks \subseteq [fiber : Fibers, call : Nat, timer : Nat, fd : Fds,
                          at : {"begin", "set", "cancel"}]

(* They follow from them.                                                  *)
LEMMA TypesAre ==
  ASSUME TypeOK
  PROVE  FiberFunctions /\ Members
  <1>1. FiberFunctions
    BY HookBoundsAssumption DEF TypeOK, LocalTypeOK, FiberFunctions
  <1>2. Members
    <2>1. 1 .. MaxCalls \subseteq Nat /\ 1 .. MaxTimers \subseteq Nat
      OBVIOUS
    <2>2. ASSUME NEW cb \in callbacks
          PROVE  cb \in [fiber : Fibers, call : Nat, timer : Nat, fd : Fds,
                         at : {"begin", "set", "cancel"}]
      <3>1. cb \in [fiber : Fibers, call : 1 .. MaxCalls, timer : 1 .. MaxTimers, fd : Fds,
                    at : {"begin", "set", "cancel"}]
        BY DEF TypeOK, RestTypeOK
      <3> QED
        BY <2>1, <3>1
    <2> QED
      BY <2>2 DEF TypeOK, RestTypeOK, GhostTypeOK, Members
  <1> QED
    BY <1>1, <1>2

-----------------------------------------------------------------------------
(* No fiber enters a call on a descriptor that another one is in.          *)
LEMMA LocalsNext ==
  ASSUME TypeOK, TypeOK', InitialSize <= size', Locals, TimerOfCall, [Next]_vars
  PROVE  Locals'
  <1>t. FiberFunctions /\ Members
    BY TypesAre
  <1> USE <1>t DEF FiberFunctions, Members, Locals, InCall, Goto, ghost, rest, local
  <1>1. ASSUME UNCHANGED <<pc, fd, calls, timer, timers, cancelled>>, owed' = owed
        PROVE  Locals'
    BY <1>1
  <1>2. ASSUME NEW f \in Fibers, Open(f) \/ Configure(f)
        PROVE  Locals'
    BY <1>1, <1>2 DEF Open, Configure
  <1>3. ASSUME NEW f \in Fibers, NEW d \in Fds, Begin(f, d)
        PROVE  Locals'
    <2>1. /\ pc[f] = "out" /\ pc' = [pc EXCEPT ![f] = "retry"]
          /\ fd' = [fd EXCEPT ![f] = d] /\ calls' = [calls EXCEPT ![f] = @ + 1]
          /\ timer' = [timer EXCEPT ![f] = "none"]
          /\ UNCHANGED <<cancelled, timers>>
          /\ owed' \subseteq owed \cup {f}
          /\ \A g \in Fibers : pc[g] = "out" \/ fd[g] # d
      BY <1>3 DEF Begin
    <2>2. calls[f] + 1 \in Nat \ {0}
      BY HookBoundsAssumption
    <2> QED
      BY <2>1, <2>2
  <1>4. ASSUME NEW f \in Fibers, NEW from, from # "out", Return(f, from),
               \A g \in Fibers : timer'[g] = "armed" => timer[g] = "armed"
        PROVE  Locals'
    BY <1>4 DEF Return
  <1>5. ASSUME NEW f \in Fibers, CallReturns(f) \/ TimedOut(f) \/ AddEventFails(f)
        PROVE  Locals'
    BY <1>4, <1>5 DEF CallReturns, TimedOut, AddEventFails, Cancelled
  <1>6. ASSUME NEW f \in Fibers, WouldBlock(f)
        PROVE  Locals'
    <2>1. timers[f] \in Nat /\ timers[f] + 1 \in Nat \ {0}
      BY HookBoundsAssumption
    <2> QED
      BY <1>6, <2>1 DEF WouldBlock
  <1>7. ASSUME NEW f \in Fibers, AddEvent(f) \/ Resume(f) \/ Retry(f)
        PROVE  Locals'
    BY <1>7 DEF AddEvent, Resume, Retry, Cancelled
  <1>8. ASSUME NEW f \in Fibers, Expire(f)
        PROVE  Locals'
    BY <1>8 DEF Expire
  <1>9. ASSUME NEW d \in Fds, Close(d) \/ EventCancelled(d) \/ EventComes(d)
        PROVE  Locals'
    BY <1>1, <1>9 DEF Close, EventCancelled, EventComes
  <1>10. ASSUME NEW cb \in callbacks, Drop(cb) \/ Test(cb) \/ CancelEvent(cb)
         PROVE  Locals'
    BY <1>1, <1>10 DEF Drop, Test, CancelEvent
  <1>11. ASSUME NEW cb \in callbacks, Set(cb)
         PROVE  Locals'
    BY <1>11 DEF Set, Lives
  <1>12. CASE TriggerWrite \/ UNCHANGED vars
    BY <1>1, <1>12 DEF TriggerWrite, vars
  <1> QED
    BY <1>2, <1>3, <1>5, <1>6, <1>7, <1>8, <1>9, <1>10, <1>11, <1>12 DEF Next, FiberStep

(* A late callback finds its call over, or going on with its own timer.    *)
LEMMA CallbacksNext ==
  ASSUME TypeOK, TypeOK', Locals, TimerOfCall, Callbacks, [Next]_vars
  PROVE  Callbacks'
  <1>t. FiberFunctions /\ Members
    BY TypesAre
  <1> USE <1>t DEF FiberFunctions, Members, Locals, InCall, Callbacks, Lives, Goto, ghost,
                 rest, local
  <1>1. ASSUME UNCHANGED <<pc, fd, calls, expired, cancelled>>, callbacks' \subseteq callbacks
        PROVE  Callbacks'
    BY <1>1
  <1>2. ASSUME NEW f \in Fibers, Open(f) \/ Configure(f)
        PROVE  Callbacks'
    BY <1>1, <1>2 DEF Open, Configure
  <1>3. ASSUME NEW f \in Fibers, NEW d \in Fds, Begin(f, d)
        PROVE  Callbacks'
    BY <1>3, HookBoundsAssumption DEF Begin
  <1>4. ASSUME NEW f \in Fibers, NEW from, Return(f, from)
        PROVE  Callbacks'
    BY <1>4 DEF Return
  <1>5. ASSUME NEW f \in Fibers, CallReturns(f) \/ TimedOut(f) \/ AddEventFails(f)
        PROVE  Callbacks'
    BY <1>4, <1>5 DEF CallReturns, TimedOut, AddEventFails
  <1>6. ASSUME NEW f \in Fibers, WouldBlock(f) \/ AddEvent(f) \/ Resume(f) \/ Retry(f)
        PROVE  Callbacks'
    BY <1>6 DEF WouldBlock, AddEvent, Resume, Retry
  <1>7. ASSUME NEW f \in Fibers, Expire(f)
        PROVE  Callbacks'
    BY <1>7, HookBoundsAssumption DEF Expire
  <1>8. ASSUME NEW d \in Fds, Close(d) \/ EventCancelled(d) \/ EventComes(d)
        PROVE  Callbacks'
    BY <1>1, <1>8 DEF Close, EventCancelled, EventComes
  <1>9. ASSUME NEW cb \in callbacks, Test(cb)
        PROVE  Callbacks'
    <2>1. callbacks' \subseteq callbacks \cup {[cb EXCEPT !.at = "set"]}
      BY <1>9 DEF Test, Moves
    <2>2. UNCHANGED <<pc, fd, calls, expired, cancelled>>
      BY <1>9 DEF Test
    <2> QED
      BY <2>1, <2>2
  <1>10. ASSUME NEW cb \in callbacks, Set(cb)
         PROVE  Callbacks'
    <2>1. callbacks' = (callbacks \ {cb}) \cup {[cb EXCEPT !.at = "cancel"]}
      BY <1>10 DEF Set, Moves
    <2>2. UNCHANGED <<pc, fd, calls, expired>>
      BY <1>10 DEF Set
    <2>3. /\ \A f \in Fibers : cancelled[f] => cancelled'[f]
          /\ Lives(cb) => cancelled'[cb.fiber]
      <3>1. cancelled' = [cancelled EXCEPT ![cb.fiber] = @ \/ Lives(cb)]
        BY <1>10 DEF Set
      <3> HIDE DEF Lives, Locals, Callbacks
      <3>2. cb.fiber \in Fibers /\ cancelled \in [Fibers -> BOOLEAN]
        OBVIOUS
      <3>3. cancelled'[cb.fiber] = (cancelled[cb.fiber] \/ Lives(cb))
        BY <3>1, <3>2
      <3>4. \A f \in Fibers \ {cb.fiber} : cancelled'[f] = cancelled[f]
        BY <3>1, <3>2
      <3> QED
        BY <3>3, <3>4
    <2>4. ASSUME NEW late \in callbacks'
          PROVE  \E old \in callbacks :
                   /\ late.fiber = old.fiber /\ late.call = old.call /\ late.fd = old.fd
                   /\ late = old \/ old = cb
      BY <2>1
    <2> QED
      BY <2>2, <2>3, <2>4
  <1>11. ASSUME NEW cb \in callbacks, Drop(cb) \/ CancelEvent(cb)
         PROVE  Callbacks'
    BY <1>1, <1>11 DEF Drop, CancelEvent
  <1>12. CASE TriggerWrite \/ UNCHANGED vars
    BY <1>1, <1>12 DEF TriggerWrite, vars
  <1> QED
    BY <1>2, <1>3, <1>5, <1>6, <1>7, <1>8, <1>9, <1>10, <1>11, <1>12 DEF Next, FiberStep

-----------------------------------------------------------------------------
(* Whoever waits for a descriptor, be it nobody, is scheduled.             *)
LEMMA TriggerKeeps ==
  ASSUME TypeOK, WaiterKept, NEW d \in Fds, trigger(d), UNCHANGED <<pc, fd>>
  PROVE  WaiterKept'
  <1>t. /\ pc = [f \in Fibers |-> pc[f]] /\ fd \in [Fibers -> Fds \cup {NoFd}]
        /\ waiter \in [Fds -> Fibers \cup {NoFiber}] /\ scheduled \subseteq Fibers
    BY TypesAre DEF FiberFunctions, Members
  <1> USE <1>t, FibersAssumption DEF WaiterKept
  <1>1. CASE waiter[d] = NoFiber
    BY <1>1 DEF trigger
  <1>2. CASE waiter[d] # NoFiber
    <2>1. waiter[d] \in Fibers /\ pc[waiter[d]] = "yield" /\ fd[waiter[d]] = d
      BY <1>2
    <2>2. scheduled' = scheduled \cup {waiter[d]} /\ waiter' = [waiter EXCEPT ![d] = NoFiber]
      BY <1>2 DEF trigger
    <2> QED
      BY <2>1, <2>2
  <1> QED
    BY <1>1, <1>2

(* A fiber that waits keeps its place, in an EventContext or as scheduled. *)
LEMMA WaiterNext ==
  ASSUME TypeOK, TypeOK', Locals, WaiterKept, [Next]_vars
  PROVE  WaiterKept'
  <1>t. /\ pc = [f \in Fibers |-> pc[f]] /\ fd \in [Fibers -> Fds \cup {NoFd}]
        /\ waiter \in [Fds -> Fibers \cup {NoFiber}] /\ scheduled \subseteq Fibers
    BY TypesAre DEF FiberFunctions, Members
  <1>c. \A f \in Fibers : InCall(f) => fd[f] \in Fds
    BY DEF Locals
  <1> USE <1>t, FibersAssumption DEF WaiterKept, Goto, ghost, rest, local
  <1>1. ASSUME UNCHANGED <<pc, fd, waiter, scheduled>>
        PROVE  WaiterKept'
    BY <1>1
  <1>2. ASSUME NEW f \in Fibers, Open(f) \/ Configure(f) \/ Expire(f)
        PROVE  WaiterKept'
    BY <1>1, <1>2 DEF Open, Configure, Expire
  <1>3. ASSUME NEW f \in Fibers, pc[f] # "yield", UNCHANGED <<waiter, scheduled>>,
               NEW to_, to_ # "yield", pc' = [pc EXCEPT ![f] = to_],
               \A g \in Fibers \ {f} : fd'[g] = fd[g]
        PROVE  WaiterKept'
    BY <1>3
  <1>4. ASSUME NEW f \in Fibers, NEW d \in Fds, Begin(f, d)
        PROVE  WaiterKept'
    <2>1. /\ pc[f] = "out" /\ pc' = [pc EXCEPT ![f] = "retry"]
          /\ fd' = [fd EXCEPT ![f] = d] /\ UNCHANGED <<waiter, scheduled>>
      BY <1>4 DEF Begin
    <2> QED
      BY <1>3, <2>1
  <1>5. ASSUME NEW f \in Fibers, CallReturns(f) \/ TimedOut(f) \/ AddEventFails(f)
        PROVE  WaiterKept'
    <2>1. /\ pc[f] \in {"retry", "check", "add"} /\ pc' = [pc EXCEPT ![f] = "out"]
          /\ fd' = [fd EXCEPT ![f] = NoFd] /\ UNCHANGED <<waiter, scheduled>>
      BY <1>5 DEF CallReturns, TimedOut, AddEventFails, Return
    <2> QED
      BY <1>3, <2>1
  <1>6. ASSUME NEW f \in Fibers, WouldBlock(f) \/ Retry(f)
        PROVE  WaiterKept'
    <2>1. /\ pc[f] \in {"retry", "check"} /\ UNCHANGED <<fd, waiter, scheduled>>
          /\ pc' \in {[pc EXCEPT ![f] = "add"], [pc EXCEPT ![f] = "retry"]}
      BY <1>6 DEF WouldBlock, Retry
    <2> QED
      BY <1>3, <2>1
  <1>7. ASSUME NEW f \in Fibers, AddEvent(f)
        PROVE  WaiterKept'
    <2>1. /\ pc[f] = "add" /\ pc' = [pc EXCEPT ![f] = "yield"]
          /\ waiter' = [waiter EXCEPT ![fd[f]] = f] /\ UNCHANGED <<fd, scheduled>>
      BY <1>7 DEF AddEvent
    <2>2. fd[f] \in Fds /\ \A g \in Fibers \ {f} : pc[g] = "yield" => fd[g] # fd[f]
      BY <2>1 DEF Locals, InCall
    <2> QED
      BY <2>1, <2>2
  <1>8. ASSUME NEW f \in Fibers, Resume(f)
        PROVE  WaiterKept'
    <2>1. /\ pc[f] = "yield" /\ pc' = [pc EXCEPT ![f] = "check"]
          /\ f \in scheduled /\ scheduled' = scheduled \ {f} /\ UNCHANGED <<fd, waiter>>
      BY <1>8 DEF Resume
    <2> QED
      BY <2>1
  <1>9. ASSUME NEW d \in Fds, Close(d)
        PROVE  WaiterKept'
    BY <1>1, <1>9 DEF Close
  <1>10. ASSUME NEW d \in Fds, EventCancelled(d) \/ EventComes(d)
         PROVE  WaiterKept'
    BY <1>10, TriggerKeeps DEF EventCancelled, EventComes
  <1>11. ASSUME NEW cb \in callbacks, Drop(cb) \/ Test(cb) \/ Set(cb)
         PROVE  WaiterKept'
    BY <1>1, <1>11 DEF Drop, Test, Set
  <1>12. ASSUME NEW cb \in callbacks, CancelEvent(cb)
         PROVE  WaiterKept'
    <2>1. cb.fd \in Fds
      BY TypesAre DEF Members
    <2> QED
      BY <1>12, <2>1, TriggerKeeps DEF CancelEvent
  <1>13. CASE TriggerWrite \/ UNCHANGED vars
    BY <1>1, <1>13 DEF TriggerWrite, vars
  <1> QED
    BY <1>2, <1>4, <1>5, <1>6, <1>7, <1>8, <1>9, <1>10, <1>11, <1>12, <1>13
       DEF Next, FiberStep

(* ETIMEDOUT is set by a callback of the call, and the timer of a call     *)
(* that goes on has ended.                                                 *)
LEMMA TimerNext ==
  ASSUME TypeOK, TypeOK', Locals, Callbacks, TimerOfCall, [Next]_vars
  PROVE  TimerOfCall'
  <1>t. FiberFunctions /\ Members
    BY TypesAre
  <1> USE <1>t DEF FiberFunctions, Members, Locals, InCall, TimerOfCall, Goto, ghost, rest, local
  <1>1. ASSUME UNCHANGED <<pc, timer, cancelled, expired>>
        PROVE  TimerOfCall'
    BY <1>1
  <1>2. ASSUME NEW f \in Fibers, Open(f) \/ Configure(f)
        PROVE  TimerOfCall'
    BY <1>1, <1>2 DEF Open, Configure
  <1>3. ASSUME NEW f \in Fibers, NEW d \in Fds, Begin(f, d)
        PROVE  TimerOfCall'
    BY <1>3 DEF Begin
  <1>4. ASSUME NEW f \in Fibers, CallReturns(f) \/ TimedOut(f) \/ AddEventFails(f)
        PROVE  TimerOfCall'
    BY <1>4 DEF CallReturns, TimedOut, AddEventFails, Return, Cancelled
  <1>5. ASSUME NEW f \in Fibers, WouldBlock(f) \/ AddEvent(f) \/ Resume(f) \/ Retry(f)
        PROVE  TimerOfCall'
    BY <1>5 DEF WouldBlock, AddEvent, Resume, Retry, Cancelled
  <1>6. ASSUME NEW f \in Fibers, Expire(f)
        PROVE  TimerOfCall'
    BY <1>6 DEF Expire
  <1>7. ASSUME NEW d \in Fds, Close(d) \/ EventCancelled(d) \/ EventComes(d)
        PROVE  TimerOfCall'
    BY <1>1, <1>7 DEF Close, EventCancelled, EventComes
  <1>8. ASSUME NEW cb \in callbacks, Drop(cb) \/ Test(cb) \/ CancelEvent(cb)
        PROVE  TimerOfCall'
    BY <1>1, <1>8 DEF Drop, Test, CancelEvent
  <1>9. ASSUME NEW cb \in callbacks, Set(cb)
        PROVE  TimerOfCall'
    BY <1>9 DEF Set, Callbacks
  <1>10. CASE TriggerWrite \/ UNCHANGED vars
    BY <1>1, <1>10 DEF TriggerWrite, vars
  <1> QED
    BY <1>2, <1>3, <1>4, <1>5, <1>6, <1>7, <1>8, <1>9, <1>10 DEF Next, FiberStep

-----------------------------------------------------------------------------
(* Only a second get(fd, true) replaces a context, and it is recorded.     *)
LEMMA ContextsNext ==
  ASSUME TypeOK, TypeOK', Contexts, [Next]_vars
  PROVE  Contexts'
  <1> USE DEF TypeOK, FdTypeOK, GhostTypeOK, Contexts, fdvars, table, ghost, rest, local
  <1>1. ASSUME UNCHANGED <<fdvars, wanted, lost>>
        PROVE  Contexts'
    BY <1>1
  <1>2. ASSUME NEW f \in Fibers, Open(f)
        PROVE  Contexts'
    <2>1. ASSUME NEW d \in Fds, GetFinds(f, d)
          PROVE  Contexts'
      <3>1. get(d) = m_datas[d]
        BY GetIsData
      <3> QED
        BY <1>2, <2>1, <3>1 DEF Open, GetFinds
    <2>2. ASSUME NEW d \in Fds, GetMisses(f, d)
          PROVE  Contexts'
      BY <1>2, <2>2 DEF Open, GetMisses
    <2>3. CASE GetMakes(f)
      <3>1. PICK d \in Fds : d = making[f]
        BY <2>3 DEF GetMakes
      <3>2. /\ m_datas' = [m_datas EXCEPT ![d] = made[d] + 1]
            /\ hold' = [hold EXCEPT ![f] = <<d, made[d] + 1>>]
            /\ wanted' = wanted /\ timed' = timed
        BY <1>2, <2>3, <3>1 DEF Open, GetMakes
      <3>3. m_datas[d] <= made[d] /\ m_datas[d] \in Nat /\ made[d] \in Nat
        BY CtxsAssumption
      <3>4. lost' = lost \cup ({d} \ {e \in Fds : m_datas[e] = 0})
        BY <1>2, <3>2, <3>3 DEF Open
      <3>5. ASSUME NEW g \in Fibers, hold'[g] # <<>>
            PROVE  hold'[g][1] \in lost' \/ hold'[g][2] = m_datas'[hold'[g][1]]
        <4>1. CASE g = f
          BY <3>2, <4>1
        <4>2. CASE g # f
          <5>1. hold'[g] = hold[g] /\ hold[g] \in Fds \X (1 .. MaxCtxs)
            BY <3>2, <3>5, <4>2
          <5>2. hold[g][1] \in lost \/ hold[g][2] = m_datas[hold[g][1]]
            BY <3>5, <5>1
          <5>3. hold[g][1] \in Fds /\ hold[g][2] # 0
            BY <5>1
          <5> QED
            BY <3>2, <3>4, <5>1, <5>2, <5>3
        <4> QED
          BY <4>1, <4>2
      <3>6. ASSUME NEW e \in wanted' \ lost'
            PROVE  m_datas'[e] # 0 /\ <<e, m_datas'[e]>> \in timed'
        <4>1. e \in wanted \ lost /\ m_datas[e] # 0 /\ e # d
          BY <3>2, <3>4, <3>6
        <4> QED
          BY <3>2, <4>1
      <3> QED
        BY <3>5, <3>6
    <2> QED
      BY <1>2, <2>1, <2>2, <2>3 DEF Open
  <1>3. ASSUME NEW f \in Fibers, Configure(f)
        PROVE  Contexts'
    <2>0. hold[f] \in Fds \X (1 .. MaxCtxs) /\ hold[f] # <<>>
      BY <1>3 DEF Configure, SetTimeout
    <2>1. PICK d \in Fds, n \in 1 .. MaxCtxs : hold[f] = <<d, n>>
      BY <2>0
    <2>2. /\ timed' = timed \cup {<<d, n>>} /\ wanted' = wanted \cup {d}
          /\ UNCHANGED <<m_datas, hold, lost>>
      BY <1>3, <2>1 DEF Configure, SetTimeout
    <2>3. n # 0 /\ (d \in lost \/ n = m_datas[d])
      <3>1. hold[f][1] \in lost \/ hold[f][2] = m_datas[hold[f][1]]
        BY <2>0
      <3> QED
        BY <2>1, <3>1
    <2>4. ASSUME NEW e \in wanted' \ lost'
          PROVE  m_datas'[e] # 0 /\ <<e, m_datas'[e]>> \in timed'
      BY <2>2, <2>3, <2>4
    <2> QED
      BY <2>2, <2>4
  <1>4. ASSUME NEW d \in Fds, Close(d)
        PROVE  Contexts'
    <2>1. /\ m_datas' = [m_datas EXCEPT ![d] = 0] /\ timed' = timed
          /\ hold' = [f \in Fibers |-> IF hold[f] # <<>> /\ hold[f][1] = d THEN <<>> ELSE hold[f]]
          /\ wanted' = wanted \ {d} /\ lost' = lost \ {d}
      BY <1>4 DEF Close, del
    <2>2. ASSUME NEW g \in Fibers, hold'[g] # <<>>
          PROVE  hold'[g][1] \in lost' \/ hold'[g][2] = m_datas'[hold'[g][1]]
      <3>1. hold'[g] = hold[g] /\ hold[g][1] # d /\ hold[g] \in Fds \X (1 .. MaxCtxs)
        BY <2>1, <2>2
      <3> QED
        BY <2>1, <2>2, <3>1
    <2>3. ASSUME NEW e \in wanted' \ lost'
          PROVE  m_datas'[e] # 0 /\ <<e, m_datas'[e]>> \in timed'
      <3>1. wanted' = wanted \ {d} /\ lost' = lost \ {d} /\ timed' = timed
        BY <2>1
      <3>2. e \in wanted \ lost /\ e # d /\ e \in Fds
        BY <2>3, <3>1
      <3>3. m_datas'[e] = m_datas[e]
        BY <2>1, <3>2
      <3> QED
        BY <3>1, <3>2, <3>3
    <2> QED
      BY <2>2, <2>3
  <1>5. ASSUME NEW f \in Fibers, NEW d \in Fds, Begin(f, d)
        PROVE  Contexts'
    BY <1>1, <1>5 DEF Begin
  <1>6. ASSUME NEW f \in Fibers,
               \/ CallReturns(f) \/ TimedOut(f) \/ AddEventFails(f)
               \/ WouldBlock(f) \/ AddEvent(f) \/ Resume(f) \/ Retry(f) \/ Expire(f)
        PROVE  Contexts'
    BY <1>1, <1>6 DEF CallReturns, TimedOut, AddEventFails, Return, WouldBlock, AddEvent,
                      Resume, Retry, Expire
  <1>7. ASSUME NEW cb \in callbacks, Drop(cb) \/ Test(cb) \/ Set(cb) \/ CancelEvent(cb)
        PROVE  Contexts'
    BY <1>1, <1>7 DEF Drop, Test, Set, CancelEvent
  <1>8. ASSUME NEW d \in Fds, EventCancelled(d) \/ EventComes(d)
        PROVE  Contexts'
    BY <1>1, <1>8 DEF EventCancelled, EventComes
  <1>9. CASE TriggerWrite \/ UNCHANGED vars
    BY <1>1, <1>9 DEF TriggerWrite, vars
  <1> QED
    BY <1>2, <1>3, <1>4, <1>5, <1>6, <1>7, <1>8, <1>9 DEF Next, FiberStep

(* Every try of a call that was given a timeout has a timer.               *)
LEMMA TimeoutsNext ==
  ASSUME TypeOK, TypeOK', Locals, Contexts, Timeouts, [Next]_vars
  PROVE  Timeouts'
  <1>t. FiberFunctions /\ Members
    BY TypesAre
  <1> USE <1>t DEF FiberFunctions, Members, Locals, InCall, Timeouts, Timed, Goto, ghost, rest, local
  <1>1. ASSUME UNCHANGED <<pc, fd, to, timer, owed>>, lost \subseteq lost'
        PROVE  Timeouts'
    BY <1>1
  <1>2. ASSUME NEW f \in Fibers, Open(f) \/ Configure(f)
        PROVE  Timeouts'
    BY <1>1, <1>2 DEF Open, Configure
  <1>3. ASSUME NEW d \in Fds, Close(d)
        PROVE  Timeouts'
    BY <1>3 DEF Close
  <1>4. ASSUME NEW f \in Fibers, NEW d \in Fds, Begin(f, d)
        PROVE  Timeouts'
    <2>1. d \in wanted \ lost => <<d, get(d)>> \in timed
      BY GetIsData DEF Contexts, TypeOK
    <2>2. /\ pc' = [pc EXCEPT ![f] = "retry"] /\ fd' = [fd EXCEPT ![f] = d]
          /\ to' = [to EXCEPT ![f] = <<d, get(d)>> \in timed]
          /\ timer' = [timer EXCEPT ![f] = "none"]
          /\ owed' = IF d \in wanted THEN owed \cup {f} ELSE owed \ {f}
          /\ lost' = lost
      BY <1>4 DEF Begin
    <2>3. ASSUME NEW g \in owed'
          PROVE  to'[g] \/ fd'[g] \in lost'
      BY <2>1, <2>2
    <2> QED
      BY <2>2, <2>3
  <1>5. ASSUME NEW f \in Fibers, NEW from, Return(f, from),
               \A g \in Fibers \ {f} : timer'[g] = timer[g]
        PROVE  Timeouts'
    BY <1>5 DEF Return
  <1>6. ASSUME NEW f \in Fibers, CallReturns(f) \/ TimedOut(f) \/ AddEventFails(f)
        PROVE  Timeouts'
    BY <1>5, <1>6 DEF CallReturns, TimedOut, AddEventFails
  <1>7. ASSUME NEW f \in Fibers, WouldBlock(f)
        PROVE  Timeouts'
    <2>1. /\ pc' = [pc EXCEPT ![f] = "add"] /\ UNCHANGED <<fd, to, owed, lost>>
          /\ \A g \in Fibers \ {f} : timer'[g] = timer[g]
      BY <1>7 DEF WouldBlock
    <2>2. to[f] => timer'[f] = "armed"
      BY <1>7 DEF WouldBlock, NeedsTimer
    <2> QED
      BY <2>1, <2>2
  <1>8. ASSUME NEW f \in Fibers, AddEvent(f)
        PROVE  Timeouts'
    BY <1>8 DEF AddEvent
  <1>9. ASSUME NEW f \in Fibers, Resume(f) \/ Retry(f)
        PROVE  Timeouts'
    <2>1. /\ pc' \in {[pc EXCEPT ![f] = "check"], [pc EXCEPT ![f] = "retry"]}
          /\ \A g \in Fibers \ {f} : timer'[g] = timer[g]
          /\ UNCHANGED <<fd, to, owed, lost>>
      BY <1>9 DEF Resume, Retry
    <2> QED
      BY <2>1
  <1>10. ASSUME NEW f \in Fibers, Expire(f)
         PROVE  Timeouts'
    BY <1>10 DEF Expire
  <1>11. ASSUME NEW cb \in callbacks, Drop(cb) \/ Test(cb) \/ Set(cb) \/ CancelEvent(cb)
         PROVE  Timeouts'
    BY <1>1, <1>11 DEF Drop, Test, Set, CancelEvent
  <1>12. ASSUME NEW d \in Fds, EventCancelled(d) \/ EventComes(d)
         PROVE  Timeouts'
    BY <1>1, <1>12 DEF EventCancelled, EventComes
  <1>13. CASE TriggerWrite \/ UNCHANGED vars
    BY <1>1, <1>13 DEF TriggerWrite, vars
  <1> QED
    BY <1>2, <1>3, <1>4, <1>6, <1>7, <1>8, <1>9, <1>10, <1>11, <1>12, <1>13
       DEF Next, FiberStep

-----------------------------------------------------------------------------
(* Nobody is in do_io() at first, and there is no context.                 *)
LEMMA IInvInit == Init => IInv
  <1> SUFFICES ASSUME Init
               PROVE  IInv
    OBVIOUS
  <1>1. TypeOK /\ InitialSize <= size
    BY TypeInit
  <1> QED
    BY <1>1 DEF Init, FdInit, IInv, Locals, InCall, Callbacks, WaiterKept, TimerOfCall,
                Contexts, Timeouts

(* The parts of the invariant, together, are inductive.                    *)
LEMMA IInvNext == IInv /\ [Next]_vars => IInv'
  <1> SUFFICES ASSUME IInv, [Next]_vars
               PROVE  IInv'
    OBVIOUS
  <1> USE DEF IInv
  <1>1. TypeOK' /\ InitialSize <= size'
    BY TypeNext
  <1>2. Locals'
    BY <1>1, LocalsNext
  <1>3. Callbacks' /\ WaiterKept' /\ TimerOfCall'
    BY <1>1, CallbacksNext, WaiterNext, TimerNext
  <1>4. Contexts' /\ Timeouts'
    BY <1>1, ContextsNext, TimeoutsNext
  <1> QED
    BY <1>1, <1>2, <1>3, <1>4

(* The invariant holds in all behaviours.                                  *)
LEMMA IInvInvariant == Spec => []IInv
  BY IInvInit, IInvNext, PTL DEF Spec

(* Types, for any descriptors, fibers and sizes of the table.              *)
THEOREM TypeCorrect == Spec => []TypeOK
  <1>1. IInv => TypeOK
    BY DEF IInv
  <1> QED
    BY <1>1, IInvInvariant, PTL

(* A fiber that waits is never forgotten, and never resumed for a wait     *)
(* that is over, whatever late callbacks cancel.                           *)
THEOREM NoWaiterForgotten == Spec => []WaiterKept
  <1>1. IInv => WaiterKept
    BY DEF IInv
  <1> QED
    BY <1>1, IInvInvariant, PTL

(* Only a timer of its own makes a call fail with ETIMEDOUT, and a call    *)
(* that goes on has no timer left.                                         *)
THEOREM TimeoutsAreOwn == Spec => []TimerOfCall
  <1>1. IInv => TimerOfCall
    BY DEF IInv
  <1> QED
    BY <1>1, IInvInvariant, PTL

(* However often a call has to try again: unless its context was lost, a   *)
(* wait on a descriptor with a timeout has a timer, which is registered or *)
(* was collected.                                                          *)
THEOREM TimeoutsKept == Spec => []TimeoutKept
  <1>1. IInv => TimeoutKept
    BY DEF IInv, TypeOK, GhostTypeOK, Timeouts, Timed, Waits, TimeoutKept
  <1> QED
    BY <1>1, IInvInvariant, PTL

-----------------------------------------------------------------------------
(* ByteStream: the bytes are numbered as they are made, so that a sequence *)
(* of them is intact if its elements count on from the ones before it.     *)
Counts(s, k) == \A i \in DOMAIN s : s[i] = k + i

Got    == Len(inBuffer) + Len(reader.buff)
Passed == Got + Len(connection)

(* A call of writen() asks for no more than there is, sbuff has no more    *)
(* than was made, and only a raw readn() has a buffer of its own.          *)
CallsHold ==
  /\ writer.writeSum + writer.nleft <= Len(sbuff) /\ Len(sbuff) <= produced
  /\ writer.pc # "write" => writer.writeSum = 0
  /\ reader.pc # "read" \/ reader.form # "raw" => reader.buff = <<>>

(* What was read, what is on its way and what is left in sbuff count on    *)
(* from each other, up to the last byte made.                              *)
Numbered ==
  /\ Counts(inBuffer, 0)
  /\ Counts(reader.buff, Len(inBuffer))
  /\ state # "reset" =>
       /\ Counts(connection, Got)
       /\ \A i \in writer.writeSum + 1 .. Len(sbuff) :
            sbuff[i] = Passed - writer.writeSum + i
       /\ produced = Passed + Len(sbuff) - writer.writeSum
  /\ state = "reset" => Got <= produced

(* The writer has nothing left when it shuts its end, and once the reader  *)
(* has seen the end it reads no more.                                      *)
Ended ==
  /\ state = "shut" => sbuff = <<>>
  /\ zero => state # "open" /\ Len(inBuffer) = produced /\ reader.pc # "read"

StreamInv == StreamTypeOK /\ CallsHold /\ Numbered /\ Ended

Bytes == 1 .. MaxBytes

(* A sequence that counts on, continued by one that counts on from it.     *)
LEMMA CountsJoin ==
  ASSUME NEW S, NEW s \in Seq(S), NEW t \in Seq(S), NEW k \in Nat,
         Counts(s, k), Counts(t, k + Len(s))
  PROVE  /\ s \o t \in Seq(S) /\ Len(s \o t) = Len(s) + Len(t)
         /\ Counts(s \o t, k)
<1>1. /\ s \o t \in Seq(S) /\ Len(s \o t) = Len(s) + Len(t)
      /\ \A i \in 1 .. Len(s) + Len(t) :
           (s \o t)[i] = IF i <= Len(s) THEN s[i] ELSE t[i - Len(s)]
  BY ConcatProperties
<1>2. ASSUME NEW i \in DOMAIN (s \o t)
      PROVE  (s \o t)[i] = k + i
  <2>1. i \in 1 .. Len(s) + Len(t) /\ Len(s) \in Nat /\ Len(t) \in Nat
    BY <1>1
  <2>2. CASE i <= Len(s)
    <3>1. i \in DOMAIN s /\ (s \o t)[i] = s[i]
      BY <1>1, <2>1, <2>2
    <3> QED BY <3>1 DEF Counts
  <2>3. CASE ~ (i <= Len(s))
    <3>1. i - Len(s) \in DOMAIN t /\ (s \o t)[i] = t[i - Len(s)]
      BY <1>1, <2>1, <2>3
    <3>2. t[i - Len(s)] = (k + Len(s)) + (i - Len(s))
      BY <3>1 DEF Counts
    <3> QED BY <2>1, <3>1, <3>2
  <2> QED BY <2>2, <2>3
<1> QED BY <1>1, <1>2 DEF Counts

(* A sequence that counts on, cut in two.                                  *)
LEMMA CountsCut ==
  ASSUME NEW S, NEW s \in Seq(S), NEW k \in Nat, Counts(s, k), NEW n \in 0 .. Len(s)
  PROVE  /\ SubSeq(s, 1, n) \in Seq(S) /\ Len(SubSeq(s, 1, n)) = n
         /\ SubSeq(s, n + 1, Len(s)) \in Seq(S)
         /\ Len(SubSeq(s, n + 1, Len(s))) = Len(s) - n
         /\ Counts(SubSeq(s, 1, n), k)
         /\ Counts(SubSeq(s, n + 1, Len(s)), k + n)
<1>1. /\ SubSeq(s, 1, n) \in Seq(S) /\ Len(SubSeq(s, 1, n)) = n
      /\ \A i \in 1 .. n : SubSeq(s, 1, n)[i] = s[i]
  OBVIOUS
<1>2. /\ SubSeq(s, n + 1, Len(s)) \in Seq(S)
      /\ Len(SubSeq(s, n + 1, Len(s))) = Len(s) - n
      /\ \A i \in 1 .. Len(s) - n : SubSeq(s, n + 1, Len(s))[i] = s[n + i]
  OBVIOUS
<1>3. Counts(SubSeq(s, 1, n), k)
  BY <1>1 DEF Counts
<1>4. Counts(SubSeq(s, n + 1, Len(s)), k + n)
  <2>1. ASSUME NEW i \in 1 .. Len(s) - n
        PROVE  n + i \in DOMAIN s
    OBVIOUS
  <2> QED BY <1>2, <2>1 DEF Counts
<1> QED BY <1>1, <1>2, <1>3, <1>4

(* The sequences of bytes, ...                                             *)
LEMMA StreamSeqs ==
  ASSUME StreamTypeOK
  PROVE  /\ sbuff \in Seq(Bytes) /\ connection \in Seq(Bytes) /\ inBuffer \in Seq(Bytes)
         /\ reader.buff \in Seq(Bytes)
BY DEF StreamTypeOK, Bytes

(* ... and how far writen() and readn() have come.                         *)
LEMMA StreamNats ==
  ASSUME StreamTypeOK
  PROVE  /\ Len(sbuff) \in Nat /\ Len(connection) \in Nat /\ Len(inBuffer) \in Nat
         /\ Len(reader.buff) \in Nat /\ Got \in Nat /\ Passed \in Nat
         /\ writer.nleft \in Nat /\ writer.writeSum \in Nat
         /\ produced \in Nat /\ produced <= MaxBytes /\ MaxBytes \in Nat
<1>1. /\ Len(sbuff) \in Nat /\ Len(connection) \in Nat /\ Len(inBuffer) \in Nat
      /\ Len(reader.buff) \in Nat
  BY StreamSeqs
<1> QED BY <1>1, ByteStreamAssumption DEF StreamTypeOK, Got, Passed

(* Produce appends the next numbers to sbuff, with writen() not in a call. *)
LEMMA ProduceKeeps ==
  ASSUME StreamInv, Produce
  PROVE  StreamInv'
<1>t. StreamTypeOK /\ CallsHold /\ Numbered /\ Ended
  BY DEF StreamInv
<1>n. /\ Len(sbuff) \in Nat /\ Passed \in Nat /\ produced \in Nat /\ MaxBytes \in Nat
      /\ sbuff \in Seq(Bytes)
  BY <1>t, StreamNats, StreamSeqs
<1>1. PICK n \in 1 .. MaxBytes - produced :
        produced' = produced + n /\ sbuff' = sbuff \o [i \in 1 .. n |-> produced + i]
  BY DEF Produce
<1>2. /\ writer.pc = "idle" /\ state = "open"
      /\ UNCHANGED <<writer, connection, state, reader, inBuffer, zero, signals>>
  BY DEF Produce
<1> DEFINE more == [i \in 1 .. n |-> produced + i]
<1>3. more \in Seq(Bytes) /\ Len(more) = n /\ \A i \in 1 .. n : more[i] = produced + i
  BY <1>n DEF Bytes
<1> HIDE DEF more
<1>4. writer.writeSum = 0 /\ produced = Passed + Len(sbuff)
  BY <1>t, <1>n, <1>2 DEF CallsHold, Numbered
<1>5. Counts(sbuff, Passed)
  <2>1. \A i \in 1 .. Len(sbuff) : sbuff[i] = Passed + i
    BY <1>t, <1>n, <1>2, <1>4 DEF Numbered
  <2> QED BY <1>n, <2>1 DEF Counts
<1>6. Counts(more, Passed + Len(sbuff))
  BY <1>3, <1>4 DEF Counts
<1>7. /\ sbuff' \in Seq(Bytes) /\ Len(sbuff') = Len(sbuff) + n
      /\ Counts(sbuff', Passed)
  <2>1. sbuff' = sbuff \o more
    BY <1>1 DEF more
  <2>2. /\ sbuff \o more \in Seq(Bytes) /\ Len(sbuff \o more) = Len(sbuff) + Len(more)
        /\ Counts(sbuff \o more, Passed)
    BY <1>n, <1>3, <1>5, <1>6, CountsJoin
  <2> QED BY <1>3, <2>1, <2>2
<1>8. UNCHANGED <<Got, Passed>>
  BY <1>2 DEF Got, Passed
<1>9. Numbered'
  <2>1. \A i \in 1 .. Len(sbuff') : sbuff'[i] = Passed + i
    BY <1>7 DEF Counts
  <2>2. produced' = Passed + Len(sbuff')
    BY <1>n, <1>1, <1>4, <1>7
  <2>3. \A i \in 0 + 1 .. Len(sbuff') : sbuff'[i] = Passed - 0 + i
    BY <1>n, <2>1
  <2>4. Passed + Len(sbuff') - 0 = produced'
    BY <1>n, <1>7, <2>2
  <2> QED BY <1>t, <1>2, <1>4, <1>8, <2>3, <2>4 DEF Numbered
<1>10. StreamTypeOK'
  BY <1>t, <1>n, <1>1, <1>2, <1>7 DEF StreamTypeOK, Bytes
<1>11. CallsHold' /\ Ended'
  <2>1. writer.writeSum + writer.nleft <= Len(sbuff') /\ Len(sbuff') <= produced'
    BY <1>t, <1>n, <1>1, <1>7, StreamNats DEF CallsHold
  <2> QED BY <1>t, <1>2, <2>1 DEF CallsHold, Ended
<1> QED BY <1>9, <1>10, <1>11 DEF StreamInv

(* Each write() moves the next bytes of sbuff to the connection.           *)
LEMMA WriteKeeps ==
  ASSUME StreamInv, Write
  PROVE  StreamInv'
<1>t. StreamTypeOK /\ CallsHold /\ Numbered /\ Ended
  BY DEF StreamInv
<1>n. /\ Len(sbuff) \in Nat /\ Len(connection) \in Nat /\ Got \in Nat /\ Passed \in Nat
      /\ writer.nleft \in Nat /\ writer.writeSum \in Nat
      /\ produced \in Nat /\ produced <= MaxBytes /\ MaxBytes \in Nat
  BY <1>t, StreamNats
<1>s. sbuff \in Seq(Bytes) /\ connection \in Seq(Bytes)
  BY <1>t, StreamSeqs
<1>w. PICK ws \in Nat : ws = writer.writeSum
  BY <1>n
<1>1. PICK n \in 1 .. writer.nleft :
        /\ Len(connection) + n <= Capacity
        /\ connection' = connection \o SubSeq(sbuff, ws + 1, ws + n)
        /\ writer' = [writer EXCEPT !.nleft = @ - n, !.writeSum = @ + n]
  BY <1>w DEF Write
<1>2. /\ writer.pc = "write" /\ state # "reset"
      /\ UNCHANGED <<produced, sbuff, state, reader, inBuffer, zero, signals>>
  BY DEF Write
<1>3. /\ n \in Nat /\ n <= writer.nleft /\ ws + n + (writer.nleft - n) <= Len(sbuff)
      /\ ws + n <= Len(sbuff)
  BY <1>t, <1>n, <1>w DEF CallsHold
<1>4. /\ writer'.nleft = writer.nleft - n /\ writer'.writeSum = ws + n
      /\ writer'.pc = "write" /\ DOMAIN writer' = {"pc", "nleft", "writeSum"}
      /\ writer' = [pc |-> "write", nleft |-> writer.nleft - n, writeSum |-> ws + n]
  BY <1>t, <1>w, <1>1, <1>2 DEF StreamTypeOK
<1> DEFINE bytes == SubSeq(sbuff, ws + 1, ws + n)
<1>5. /\ bytes \in Seq(Bytes) /\ Len(bytes) = n
      /\ \A i \in 1 .. n : bytes[i] = sbuff[ws + i]
  <2>1. \A i \in ws + 1 .. ws + n : sbuff[i] \in Bytes
    BY <1>n, <1>s, <1>3
  <2>2. /\ bytes \in Seq(Bytes)
        /\ Len(bytes) = IF ws + 1 <= ws + n THEN (ws + n) - (ws + 1) + 1 ELSE 0
        /\ \A i \in 1 .. (ws + n) - (ws + 1) + 1 : bytes[i] = sbuff[(ws + 1) + i - 1]
    BY <1>3, <2>1, SubSeqProperties
  <2>3. n >= 1 /\ (ws + n) - (ws + 1) + 1 = n /\ \A i \in 1 .. n : (ws + 1) + i - 1 = ws + i
    BY <1>n, <1>3
  <2> QED BY <1>3, <2>2, <2>3
<1>6. Counts(bytes, Got + Len(connection))
  <2>1. ASSUME NEW i \in 1 .. n
        PROVE  sbuff[ws + i] = Passed + i
    <3>1. ws + i \in ws + 1 .. Len(sbuff)
      BY <1>n, <1>3
    <3>2. sbuff[ws + i] = Passed - ws + (ws + i)
      BY <1>t, <1>w, <1>2, <3>1 DEF Numbered
    <3> QED BY <1>n, <3>2
  <2> QED BY <1>5, <2>1 DEF Counts, Passed
<1> HIDE DEF bytes
<1>7. /\ connection' \in Seq(Bytes) /\ Len(connection') = Len(connection) + n
      /\ Counts(connection', Got)
  <2>1. Counts(connection, Got)
    BY <1>t, <1>2 DEF Numbered
  <2>2. connection' = connection \o bytes
    BY <1>1 DEF bytes
  <2> QED BY <1>n, <1>s, <1>5, <1>6, <2>1, <2>2, CountsJoin
<1>8. Got' = Got /\ Passed' = Passed + n
  <2>1. Got' = Got
    BY <1>2 DEF Got
  <2>2. Got + (Len(connection) + n) = (Got + Len(connection)) + n
    BY <1>n, <1>3
  <2> QED BY <1>7, <2>1, <2>2 DEF Passed
<1>9. Numbered'
  <2>1. produced = Passed + Len(sbuff) - ws
    BY <1>t, <1>w, <1>2 DEF Numbered
  <2>2. produced = (Passed + n) + Len(sbuff) - (ws + n)
    BY <1>n, <1>3, <2>1
  <2>3. ASSUME NEW i \in ws + n + 1 .. Len(sbuff)
        PROVE  sbuff[i] = (Passed + n) - (ws + n) + i
    <3>1. i \in ws + 1 .. Len(sbuff)
      BY <1>n, <1>3
    <3>2. sbuff[i] = Passed - ws + i
      BY <1>t, <1>w, <1>2, <3>1 DEF Numbered
    <3> QED BY <1>n, <1>3, <3>2
  <2> QED BY <1>t, <1>2, <1>4, <1>7, <1>8, <2>2, <2>3 DEF Numbered
<1>10. CallsHold' /\ Ended'
  BY <1>t, <1>n, <1>2, <1>3, <1>4 DEF CallsHold, Ended
<1>11. ws + n <= MaxBytes /\ writer.nleft - n \in 0 .. MaxBytes
  <2>1. Len(sbuff) <= produced /\ writer.nleft <= MaxBytes
    BY <1>t, <1>n DEF StreamTypeOK, CallsHold
  <2> QED BY <1>n, <1>3, <2>1
<1>12. StreamTypeOK'
  <2>1. writer' \in [pc : {"idle", "write", "failed"}, nleft : 0 .. MaxBytes,
                     writeSum : 0 .. MaxBytes]
    BY <1>n, <1>3, <1>4, <1>11
  <2>2. connection' \in Seq(1 .. MaxBytes) /\ Len(connection') <= Capacity
    BY <1>1, <1>7 DEF Bytes
  <2> QED BY <1>t, <1>2, <2>1, <2>2 DEF StreamTypeOK
<1> QED BY <1>9, <1>10, <1>12 DEF StreamInv

(* writen() takes what it has written off sbuff.                           *)
LEMMA WritenReturnsKeeps ==
  ASSUME StreamInv, WritenReturns
  PROVE  StreamInv'
<1>t. StreamTypeOK /\ CallsHold /\ Numbered /\ Ended
  BY DEF StreamInv
<1>n. /\ Len(sbuff) \in Nat /\ Got \in Nat /\ Passed \in Nat /\ sbuff \in Seq(Bytes)
      /\ writer.nleft \in Nat /\ produced \in Nat
  BY <1>t, StreamNats, StreamSeqs
<1>w. PICK ws \in Nat : ws = writer.writeSum
  BY <1>t, StreamNats
<1>1. /\ writer.pc = "write" /\ sbuff' = SubSeq(sbuff, ws + 1, Len(sbuff))
      /\ writer' = [pc |-> "idle", nleft |-> 0, writeSum |-> 0]
      /\ UNCHANGED <<produced, connection, state, reader, inBuffer, zero, signals>>
  BY <1>w DEF WritenReturns, Rest, AtRest
<1>2. ws <= Len(sbuff)
  BY <1>t, <1>n, <1>w DEF CallsHold
<1>3. /\ sbuff' \in Seq(Bytes) /\ Len(sbuff') = Len(sbuff) - ws
      /\ \A i \in 1 .. Len(sbuff) - ws : sbuff'[i] = sbuff[ws + i]
  BY <1>n, <1>1, <1>2
<1>4. UNCHANGED <<Got, Passed>>
  BY <1>1 DEF Got, Passed
<1>5. Numbered'
  <2>1. CASE state = "reset"
    BY <1>t, <1>1, <1>4, <2>1 DEF Numbered
  <2>2. CASE state # "reset"
    <3>1. produced = Passed + Len(sbuff') - 0
      BY <1>t, <1>n, <1>w, <1>2, <1>3, <2>2 DEF Numbered
    <3>2. ASSUME NEW i \in 0 + 1 .. Len(sbuff')
          PROVE  sbuff'[i] = Passed - 0 + i
      <4>1. i \in 1 .. Len(sbuff) - ws /\ ws + i \in ws + 1 .. Len(sbuff)
        BY <1>n, <1>2, <1>3
      <4>2. sbuff[ws + i] = Passed - ws + (ws + i)
        BY <1>t, <1>w, <2>2, <4>1 DEF Numbered
      <4> QED BY <1>n, <1>3, <4>1, <4>2
    <3> QED BY <1>t, <1>1, <1>4, <2>2, <3>1, <3>2 DEF Numbered
  <2> QED BY <2>1, <2>2
<1>6. StreamTypeOK'
  BY <1>t, <1>1, <1>3, ByteStreamAssumption DEF StreamTypeOK, Bytes
<1>7. CallsHold'
  BY <1>t, <1>n, <1>1, <1>2, <1>3 DEF CallsHold
<1>8. Ended'
  <2>1. state = "shut" => sbuff' = <<>>
    <3> SUFFICES ASSUME state = "shut"
                 PROVE  sbuff' = <<>>
      OBVIOUS
    <3>1. Len(sbuff') = 0
      BY <1>t, <1>n, <1>2, <1>3 DEF Ended
    <3> QED BY <1>3, <3>1
  <2> QED BY <1>t, <1>1, <2>1 DEF Ended
<1> QED BY <1>5, <1>6, <1>7, <1>8 DEF StreamInv

(* Each read() moves the first bytes of the connection to the reader.      *)
LEMMA ReadKeeps ==
  ASSUME StreamInv, Read
  PROVE  StreamInv'
<1>t. StreamTypeOK /\ CallsHold /\ Numbered /\ Ended
  BY DEF StreamInv
<1>n. /\ Len(connection) \in Nat /\ Len(inBuffer) \in Nat /\ Len(reader.buff) \in Nat
      /\ Got \in Nat /\ reader.nleft \in 0 .. MaxBytes /\ MaxBytes \in Nat
  BY <1>t, StreamNats DEF StreamTypeOK
<1>s. connection \in Seq(Bytes) /\ inBuffer \in Seq(Bytes) /\ reader.buff \in Seq(Bytes)
  BY <1>t, StreamSeqs
<1> DEFINE bytes(n) == SubSeq(connection, 1, n)
<1>1. PICK n \in 1 .. Len(connection) :
        /\ n <= (IF Raw THEN reader.nleft ELSE MAX_BUFF)
        /\ connection' = SubSeq(connection, n + 1, Len(connection))
        /\ IF Raw
           THEN /\ reader' = [reader EXCEPT !.nleft = @ - n, !.buff = @ \o bytes(n)]
                /\ UNCHANGED inBuffer
           ELSE inBuffer' = inBuffer \o bytes(n) /\ UNCHANGED reader
  BY DEF Read
<1>2. /\ reader.pc = "read" /\ state # "reset"
      /\ UNCHANGED <<produced, sbuff, writer, state, zero, signals>>
  BY DEF Read, Asks
<1>3. Counts(connection, Got) /\ Counts(inBuffer, 0) /\ Counts(reader.buff, Len(inBuffer))
  BY <1>t, <1>2 DEF Numbered
<1>4. /\ bytes(n) \in Seq(Bytes) /\ Len(bytes(n)) = n /\ Counts(bytes(n), Got)
      /\ connection' \in Seq(Bytes) /\ Len(connection') = Len(connection) - n
      /\ Counts(connection', Got + n)
  <2>1. n \in 0 .. Len(connection)
    BY <1>n
  <2> QED BY <1>n, <1>s, <1>1, <1>3, <2>1, CountsCut
<1>5. ~ zero
  BY <1>t, <1>2 DEF Ended
<1> HIDE DEF bytes
<1>6. ASSUME inBuffer' \in Seq(Bytes), Counts(inBuffer', 0),
             Counts(reader'.buff, Len(inBuffer')), Got' = Got + n,
             reader'.pc = "read", reader'.form # "raw" => reader'.buff = <<>>,
             reader' \in [pc : {"idle", "read", "failed"}, form : {"zero", "string", "raw"},
                          nleft : 0 .. MaxBytes, buff : Seq(Bytes)]
      PROVE  StreamInv'
  <2>1. Passed' = Passed
    BY <1>n, <1>4, <1>6 DEF Passed
  <2>2. Numbered'
    BY <1>t, <1>2, <1>4, <1>6, <2>1 DEF Numbered
  <2>3. StreamTypeOK'
    <3>1. Len(connection') <= Capacity
      <4>1. Len(connection) <= Capacity /\ Capacity \in Nat
        BY <1>t, ByteStreamAssumption DEF StreamTypeOK
      <4> QED BY <1>n, <1>4, <4>1
    <3> QED BY <1>t, <1>2, <1>4, <1>6, <3>1 DEF StreamTypeOK, Bytes
  <2>4. CallsHold' /\ Ended'
    BY <1>t, <1>2, <1>5, <1>6 DEF CallsHold, Ended
  <2> QED BY <2>2, <2>3, <2>4 DEF StreamInv
<1>7. CASE Raw
  <2>1. /\ reader' = [reader EXCEPT !.nleft = @ - n, !.buff = @ \o bytes(n)]
        /\ UNCHANGED inBuffer /\ n <= reader.nleft
    BY <1>1, <1>7
  <2>2. /\ reader'.buff = reader.buff \o bytes(n) /\ reader'.form = "raw"
        /\ reader'.pc = "read"
    BY <1>t, <1>2, <1>7, <2>1 DEF StreamTypeOK, Raw
  <2>3. Counts(bytes(n), Len(inBuffer) + Len(reader.buff))
    BY <1>4 DEF Got
  <2>4. /\ reader'.buff \in Seq(Bytes)
        /\ Len(reader'.buff) = Len(reader.buff) + n
        /\ Counts(reader'.buff, Len(inBuffer))
    <3>1. /\ reader.buff \o bytes(n) \in Seq(Bytes)
          /\ Len(reader.buff \o bytes(n)) = Len(reader.buff) + Len(bytes(n))
          /\ Counts(reader.buff \o bytes(n), Len(inBuffer))
      <4> DEFINE b == reader.buff  t == bytes(n)
      <4>1. b \in Seq(Bytes) /\ t \in Seq(Bytes) /\ Len(inBuffer) \in Nat
        BY <1>n, <1>s, <1>4
      <4>2. Counts(b, Len(inBuffer)) /\ Counts(t, Len(inBuffer) + Len(b))
        BY <1>3, <2>3
      <4> HIDE DEF b, t
      <4>3. b \o t \in Seq(Bytes) /\ Len(b \o t) = Len(b) + Len(t) /\ Counts(b \o t, Len(inBuffer))
        BY <4>1, <4>2, CountsJoin
      <4> QED BY <4>3 DEF b, t
    <3> QED BY <1>4, <2>2, <3>1
  <2>5. Got' = Got + n
    <3>1. Len(inBuffer') = Len(inBuffer)
      BY <2>1
    <3>2. Len(reader'.buff) = Len(reader.buff) + n
      BY <2>4
    <3> QED BY <1>n, <3>1, <3>2 DEF Got
  <2>6. reader.nleft - n \in 0 .. MaxBytes
    BY <1>n, <2>1
  <2>7. reader' \in [pc : {"idle", "read", "failed"}, form : {"zero", "string", "raw"},
                     nleft : 0 .. MaxBytes, buff : Seq(Bytes)]
    <3>1. reader.buff \o bytes(n) \in Seq(Bytes)
      BY <2>2, <2>4
    <3> QED BY <1>t, <2>1, <2>6, <3>1 DEF StreamTypeOK, Bytes
  <2> QED BY <1>s, <1>3, <1>6, <2>1, <2>2, <2>4, <2>5, <2>7
<1>8. CASE ~ Raw
  <2>1. inBuffer' = inBuffer \o bytes(n) /\ UNCHANGED reader /\ reader.buff = <<>>
    BY <1>t, <1>1, <1>8 DEF CallsHold, Raw
  <2>2. Counts(bytes(n), 0 + Len(inBuffer))
    BY <1>n, <1>4, <2>1 DEF Got
  <2>3. /\ inBuffer' \in Seq(Bytes) /\ Len(inBuffer') = Len(inBuffer) + n
        /\ Counts(inBuffer', 0)
    BY <1>s, <1>3, <1>4, <2>1, <2>2, CountsJoin
  <2>4. Got' = Got + n /\ Counts(reader'.buff, Len(inBuffer'))
    BY <1>n, <2>1, <2>3 DEF Got, Counts
  <2> QED BY <1>t, <1>2, <1>6, <2>1, <2>3, <2>4 DEF StreamTypeOK, CallsHold, Bytes
<1> QED BY <1>7, <1>8

(* readn() hands over what it has in a raw buffer, and tells of the end    *)
(* when the writer has shut its own and nothing is on its way.             *)
LEMMA ReadnReturnsKeeps ==
  ASSUME StreamInv, ReadnReturns
  PROVE  StreamInv'
<1>t. StreamTypeOK /\ CallsHold /\ Numbered /\ Ended
  BY DEF StreamInv
<1>n. /\ Len(sbuff) \in Nat /\ Len(inBuffer) \in Nat /\ Len(reader.buff) \in Nat
      /\ writer.nleft \in Nat /\ writer.writeSum \in Nat /\ produced \in Nat
  BY <1>t, StreamNats
<1>s. inBuffer \in Seq(Bytes) /\ reader.buff \in Seq(Bytes)
  BY <1>t, StreamSeqs
<1>1. /\ reader.pc = "read" /\ zero' = (zero \/ (reader.form = "zero" /\ AtEnd))
      /\ inBuffer' = inBuffer \o RawResult
      /\ reader' = [pc |-> "idle", form |-> "string", nleft |-> 0, buff |-> <<>>]
      /\ UNCHANGED <<produced, sbuff, writer, connection, state, signals>>
  BY DEF ReadnReturns, Unread
<1>2. RawResult = reader.buff
  BY <1>t DEF RawResult, Raw, CallsHold
<1>3. /\ inBuffer' \in Seq(Bytes) /\ Len(inBuffer') = Got
      /\ Counts(inBuffer', 0)
  <2> DEFINE b == reader.buff
  <2>1. Counts(inBuffer, 0) /\ Counts(b, 0 + Len(inBuffer)) /\ b \in Seq(Bytes)
    BY <1>t, <1>n, <1>s DEF Numbered
  <2> HIDE DEF b
  <2>2. /\ inBuffer \o b \in Seq(Bytes) /\ Len(inBuffer \o b) = Len(inBuffer) + Len(b)
        /\ Counts(inBuffer \o b, 0)
    BY <1>s, <2>1, CountsJoin
  <2> QED BY <1>1, <1>2, <2>2 DEF b, Got
<1>4. Got' = Got /\ Passed' = Passed /\ Counts(reader'.buff, Len(inBuffer'))
  <2>1. Got' = Got
    BY <1>n, <1>1, <1>3 DEF Got
  <2> QED BY <1>1, <2>1 DEF Passed, Counts
<1>5. Numbered'
  BY <1>t, <1>1, <1>3, <1>4 DEF Numbered
<1>6. zero' \in BOOLEAN
  BY <1>t, <1>1 DEF StreamTypeOK, AtEnd
<1>7. StreamTypeOK'
  <2>1. reader' \in [pc : {"idle", "read", "failed"}, form : {"zero", "string", "raw"},
                     nleft : 0 .. MaxBytes, buff : Seq(1 .. MaxBytes)]
    BY <1>1, ByteStreamAssumption
  <2> QED BY <1>t, <1>1, <1>3, <1>6, <2>1 DEF StreamTypeOK, Bytes
<1>8. CallsHold'
  BY <1>t, <1>1 DEF CallsHold
<1>9. ASSUME reader.form = "zero", AtEnd
      PROVE  state = "shut" /\ Len(inBuffer') = produced
  <2>1. /\ state = "shut" /\ Len(connection) = 0 /\ Len(sbuff) = 0 /\ Len(reader.buff) = 0
    BY <1>t, <1>9 DEF AtEnd, Ended, CallsHold
  <2>2. writer.writeSum = 0
    BY <1>t, <1>n, <2>1 DEF CallsHold
  <2>3. produced = Passed + Len(sbuff) - writer.writeSum
    BY <1>t, <2>1 DEF Numbered
  <2> QED BY <1>n, <1>3, <2>1, <2>2, <2>3 DEF Got, Passed
<1>10. Ended'
  BY <1>t, <1>1, <1>9 DEF Ended
<1> QED BY <1>5, <1>7, <1>8, <1>10 DEF StreamInv

(* The calls begin, are interrupted and fail, which moves no byte.         *)
LEMMA CallsKeep ==
  ASSUME StreamInv,
         \/ WritenBegins \/ WriteInterrupted \/ WritenFails
         \/ ReadnBegins \/ ReadInterrupted \/ ReadnFails
  PROVE  StreamInv'
<1>t. StreamTypeOK /\ CallsHold /\ Numbered /\ Ended
  BY DEF StreamInv
<1>n. /\ Len(sbuff) \in Nat /\ Len(inBuffer) \in Nat /\ Len(reader.buff) \in Nat
      /\ writer.nleft \in Nat /\ writer.writeSum \in Nat /\ produced \in Nat
      /\ Len(connection) \in Nat /\ Got \in Nat /\ Passed \in Nat /\ MaxBytes \in Nat
      /\ produced <= MaxBytes
  BY <1>t, StreamNats
<1>1. CASE WritenBegins
  <2>1. PICK n \in 1 .. Len(sbuff) : writer' = [pc |-> "write", nleft |-> n, writeSum |-> 0]
    BY <1>1 DEF WritenBegins
  <2>2. /\ writer.writeSum = 0
        /\ UNCHANGED <<produced, sbuff, connection, state, reader, inBuffer, zero, signals>>
        /\ UNCHANGED <<Got, Passed>>
    BY <1>t, <1>1 DEF WritenBegins, CallsHold, Got, Passed
  <2>3. n \in 0 .. MaxBytes
    BY <1>t, <1>n DEF CallsHold
  <2> QED BY <1>t, <1>n, <2>1, <2>2, <2>3
          DEF StreamInv, StreamTypeOK, CallsHold, Numbered, Ended
<1>2. CASE WriteInterrupted \/ ReadInterrupted
  <2>1. /\ UNCHANGED <<produced, sbuff, writer, connection, state, reader, inBuffer, zero>>
        /\ UNCHANGED <<Got, Passed>> /\ signals' = signals + 1 /\ signals < MaxSignals
    BY <1>2 DEF WriteInterrupted, ReadInterrupted, Got, Passed
  <2>2. StreamTypeOK'
    BY <1>t, <2>1, ByteStreamAssumption DEF StreamTypeOK
  <2> QED BY <1>t, <2>1, <2>2 DEF StreamInv, CallsHold, Numbered, Ended
<1>3. CASE WritenFails
  <2>1. /\ state = "reset" /\ writer' = [pc |-> "failed", nleft |-> 0, writeSum |-> 0]
        /\ UNCHANGED <<produced, sbuff, connection, state, reader, inBuffer, zero, signals>>
        /\ UNCHANGED <<Got, Passed>>
    BY <1>3 DEF WritenFails, AtRest, Got, Passed
  <2> QED BY <1>t, <1>n, <2>1 DEF StreamInv, StreamTypeOK, CallsHold, Numbered, Ended
<1>4. CASE ReadnBegins
  <2>1. PICK form \in {"zero", "string", "raw"}, n \in 0 .. MaxBytes :
          reader' = [pc |-> "read", form |-> form, nleft |-> n, buff |-> <<>>]
    BY <1>4 DEF ReadnBegins
  <2>2. /\ reader.pc = "idle" /\ ~ zero
        /\ UNCHANGED <<produced, sbuff, writer, connection, state, inBuffer, zero, signals>>
    BY <1>4 DEF ReadnBegins
  <2>3. reader.buff = <<>>
    BY <1>t, <2>2 DEF CallsHold
  <2>4. UNCHANGED <<Got, Passed>> /\ Counts(reader'.buff, Len(inBuffer'))
    BY <2>1, <2>2, <2>3 DEF Got, Passed, Counts
  <2>5. Numbered'
    BY <1>t, <2>2, <2>4 DEF Numbered
  <2>6. StreamTypeOK'
    BY <1>t, <2>1, <2>2 DEF StreamTypeOK
  <2> QED BY <1>t, <2>1, <2>2, <2>5, <2>6 DEF StreamInv, CallsHold, Ended
<1>5. CASE ReadnFails
  <2>1. /\ state = "reset"
        /\ reader' = [pc |-> "failed", form |-> "string", nleft |-> 0, buff |-> <<>>]
        /\ UNCHANGED <<produced, sbuff, writer, connection, state, inBuffer, zero, signals>>
    BY <1>5 DEF ReadnFails, Unread
  <2>2. Counts(reader'.buff, Len(inBuffer')) /\ Got' <= Got
    BY <1>n, <2>1 DEF Got, Counts
  <2>3. Got' \in Nat
    BY <1>n, <2>1 DEF Got
  <2>4. Numbered'
    BY <1>t, <1>n, <2>1, <2>2, <2>3 DEF Numbered
  <2>5. StreamTypeOK'
    BY <1>t, <1>n, <2>1 DEF StreamTypeOK
  <2> QED BY <1>t, <2>1, <2>4, <2>5 DEF StreamInv, CallsHold, Ended
<1> QED BY <1>1, <1>2, <1>3, <1>4, <1>5

(* The writer shuts its end with nothing left to write; a reset takes what *)
(* is on its way.                                                          *)
LEMMA ConnectionKeeps ==
  ASSUME StreamInv, Shut \/ Reset
  PROVE  StreamInv'
<1>t. StreamTypeOK /\ CallsHold /\ Numbered /\ Ended
  BY DEF StreamInv
<1>n. /\ Len(sbuff) \in Nat /\ Len(connection) \in Nat /\ Got \in Nat /\ Passed \in Nat
      /\ writer.nleft \in Nat /\ writer.writeSum \in Nat /\ produced \in Nat
  BY <1>t, StreamNats
<1>1. CASE Shut
  <2>1. /\ state = "open" /\ sbuff = <<>> /\ state' = "shut"
        /\ UNCHANGED <<produced, sbuff, writer, connection, reader, inBuffer, zero, signals>>
        /\ UNCHANGED <<Got, Passed>>
    BY <1>1 DEF Shut, Got, Passed
  <2> QED BY <1>t, <2>1 DEF StreamInv, StreamTypeOK, CallsHold, Numbered, Ended
<1>2. CASE Reset
  <2>1. /\ state # "reset" /\ state' = "reset" /\ connection' = <<>>
        /\ UNCHANGED <<produced, sbuff, writer, reader, inBuffer, zero, signals>>
        /\ Got' = Got
    BY <1>2 DEF Reset, Got
  <2>2. Got <= produced
    <3>1. produced = Passed + Len(sbuff) - writer.writeSum /\ writer.writeSum <= Len(sbuff)
      BY <1>t, <1>n, <2>1 DEF Numbered, CallsHold
    <3> QED BY <1>n, <3>1 DEF Passed
  <2>3. StreamTypeOK'
    BY <1>t, <2>1, ByteStreamAssumption DEF StreamTypeOK
  <2> QED BY <1>t, <2>1, <2>2, <2>3 DEF StreamInv, CallsHold, Numbered, Ended
<1> QED BY <1>1, <1>2

(* At first nothing was made.                                              *)
LEMMA StreamInvInit == StreamInit => StreamInv
<1> SUFFICES ASSUME StreamInit PROVE StreamInv
  OBVIOUS
<1>1. StreamTypeOK
  <2>1. MaxBytes \in Nat /\ Capacity \in Nat /\ MaxSignals \in Nat
    BY ByteStreamAssumption
  <2>2. /\ produced = 0 /\ zero = FALSE /\ signals = 0 /\ state = "open"
        /\ sbuff = <<>> /\ connection = <<>> /\ inBuffer = <<>>
    BY DEF StreamInit
  <2>3. writer \in [pc : {"idle", "write", "failed"}, nleft : 0 .. MaxBytes,
                    writeSum : 0 .. MaxBytes]
    BY <2>1 DEF StreamInit, AtRest
  <2>4. reader \in [pc : {"idle", "read", "failed"}, form : {"zero", "string", "raw"},
                    nleft : 0 .. MaxBytes, buff : Seq(1 .. MaxBytes)]
    BY <2>1 DEF StreamInit, Unread
  <2>5. {sbuff, connection, inBuffer} \subseteq Seq(1 .. MaxBytes) /\ Len(connection) <= Capacity
    BY <2>1, <2>2
  <2>6. /\ produced \in 0 .. MaxBytes /\ signals \in 0 .. MaxSignals
        /\ state \in {"open", "shut", "reset"}
    BY <2>1, <2>2
  <2>7. zero \in BOOLEAN
    BY <2>2
  <2> QED BY <2>3, <2>4, <2>5, <2>6, <2>7 DEF StreamTypeOK
<1>2. CallsHold /\ Numbered /\ Ended
  BY DEF StreamInit, AtRest, Unread, CallsHold, Numbered, Ended, Counts, Got, Passed
<1> QED BY <1>1, <1>2 DEF StreamInv

(* No step of either end, or of the connection, breaks the numbering.      *)
LEMMA StreamInvNext == StreamInv /\ [StreamNext]_streamvars => StreamInv'
<1> SUFFICES ASSUME StreamInv, [StreamNext]_streamvars PROVE StreamInv'
  OBVIOUS
<1>1. CASE Produce \/ Shut \/ Reset
  BY <1>1, ProduceKeeps, ConnectionKeeps
<1>2. CASE writen
  BY <1>2, WriteKeeps, WritenReturnsKeeps, CallsKeep DEF writen
<1>3. CASE readn
  BY <1>3, ReadKeeps, ReadnReturnsKeeps, CallsKeep DEF readn
<1>4. CASE UNCHANGED streamvars
  BY <1>4 DEF streamvars, StreamInv, StreamTypeOK, CallsHold, Numbered, Ended, Counts, Got, Passed
<1> QED BY <1>1, <1>2, <1>3, <1>4 DEF StreamNext

(* The numbering holds in all behaviours.                                  *)
LEMMA StreamInvInvariant == StreamSpec => []StreamInv
BY StreamInvInit, StreamInvNext, PTL DEF StreamSpec

(* A sequence that counts from one is the beginning of the bytes made.     *)
LEMMA CountsAreSent ==
  ASSUME NEW s \in Seq(Bytes), Counts(s, 0), produced \in Nat, Len(s) <= produced
  PROVE  /\ IsPrefix(s, Sent)
         /\ Len(s) = produced => s = Sent
<1>1. /\ Sent \in Seq(Nat) /\ Len(Sent) = produced
      /\ \A i \in 1 .. produced : Sent[i] = i
  BY DEF Sent
<1>2. Len(s) \in Nat /\ \A i \in 1 .. Len(s) : s[i] = i
  BY DEF Counts
<1>3. SubSeq(s, 1, Len(s)) = s
  OBVIOUS
<1>4. SubSeq(Sent, 1, Len(s)) = s
  <2>1. /\ SubSeq(Sent, 1, Len(s)) \in Seq(Nat) /\ Len(SubSeq(Sent, 1, Len(s))) = Len(s)
        /\ \A i \in 1 .. Len(s) : SubSeq(Sent, 1, Len(s))[i] = Sent[i]
    BY <1>1, <1>2
  <2>2. s \in Seq(Nat)
    BY <1>2
  <2> QED BY <1>1, <1>2, <2>1, <2>2
<1>5. Len(s) = produced => s = Sent
  BY <1>1, <1>2
<1> QED BY <1>1, <1>3, <1>4, <1>5 DEF IsPrefix

(* For any numbers of bytes and signals, any capacity and any mixture of   *)
(* the forms of readn() and writen(): no byte is lost, repeated or out of  *)
(* order unless the connection is reset, and then what was read is still a *)
(* beginning of what was sent.                                             *)
THEOREM NoByteLost == StreamSpec => []StreamIntact
<1>1. StreamInv => StreamIntact
  <2> SUFFICES ASSUME StreamInv PROVE StreamIntact
    OBVIOUS
  <2>t. StreamTypeOK /\ CallsHold /\ Numbered
    BY DEF StreamInv
  <2>n. /\ Len(sbuff) \in Nat /\ Len(inBuffer) \in Nat /\ Len(connection) \in Nat
        /\ Got \in Nat /\ Passed \in Nat /\ produced \in Nat
        /\ writer.nleft \in Nat /\ writer.writeSum \in Nat
    BY <2>t, StreamNats
  <2>s. /\ sbuff \in Seq(Bytes) /\ connection \in Seq(Bytes) /\ inBuffer \in Seq(Bytes)
        /\ reader.buff \in Seq(Bytes)
    BY <2>t, StreamSeqs
  <2> DEFINE b == reader.buff
             got == inBuffer \o b
  <2>1. got \in Seq(Bytes) /\ Len(got) = Got /\ Counts(got, 0)
    <3>1. Counts(inBuffer, 0) /\ Counts(b, 0 + Len(inBuffer)) /\ b \in Seq(Bytes)
      BY <2>t, <2>n, <2>s DEF Numbered
    <3>2. Len(b) = Len(reader.buff)
      OBVIOUS
    <3> HIDE DEF b
    <3>3. /\ got \in Seq(Bytes) /\ Len(got) = Len(inBuffer) + Len(b) /\ Counts(got, 0)
      BY <2>s, <3>1, CountsJoin
    <3> QED BY <3>2, <3>3 DEF Got
  <2> HIDE DEF got
  <2>2. CASE state = "reset"
    <3>1. IsPrefix(got, Sent)
      BY <2>t, <2>n, <2>1, <2>2, CountsAreSent DEF Numbered
    <3> QED BY <2>2, <3>1 DEF StreamIntact, got
  <2>3. CASE state # "reset"
    <3>1. /\ got \o connection \in Seq(Bytes) /\ Len(got \o connection) = Passed
          /\ Counts(got \o connection, 0)
      <4>1. Counts(connection, 0 + Len(got))
        BY <2>t, <2>n, <2>1, <2>3 DEF Numbered
      <4> QED BY <2>s, <2>1, <4>1, CountsJoin DEF Passed
    <3>2. /\ Unwritten \in Seq(Bytes) /\ Len(Unwritten) = Len(sbuff) - writer.writeSum
          /\ Counts(Unwritten, Passed)
      <4>1. writer.writeSum \in 0 .. Len(sbuff)
        BY <2>t, <2>n DEF CallsHold
      <4> DEFINE ws == writer.writeSum
      <4>2. ws \in 0 .. Len(sbuff)
        BY <4>1
      <4>3. Unwritten = SubSeq(sbuff, ws + 1, Len(sbuff))
        BY DEF Unwritten
      <4>4. \A i \in ws + 1 .. Len(sbuff) : sbuff[i] = Passed - ws + i
        BY <2>t, <2>3 DEF Numbered
      <4> HIDE DEF ws
      <4>5. /\ Unwritten \in Seq(Bytes) /\ Len(Unwritten) = Len(sbuff) - ws
            /\ \A i \in 1 .. Len(sbuff) - ws : Unwritten[i] = sbuff[ws + i]
        BY <2>s, <4>2, <4>3
      <4>6. ASSUME NEW i \in 1 .. Len(sbuff) - ws
            PROVE  Unwritten[i] = Passed + i
        <5>1. ws + i \in ws + 1 .. Len(sbuff)
          BY <2>n, <4>2
        <5>2. sbuff[ws + i] = Passed - ws + (ws + i)
          BY <4>4, <5>1
        <5> QED BY <2>n, <4>2, <4>5, <5>2
      <4>7. Counts(Unwritten, Passed)
        BY <4>5, <4>6 DEF Counts
      <4> QED BY <4>5, <4>7 DEF ws
    <3>3. /\ got \o connection \o Unwritten \in Seq(Bytes)
          /\ Len(got \o connection \o Unwritten) = Passed + (Len(sbuff) - writer.writeSum)
          /\ Counts(got \o connection \o Unwritten, 0)
      <4> DEFINE passed == got \o connection
      <4>1. passed \in Seq(Bytes) /\ Len(passed) = Passed /\ Counts(passed, 0)
        BY <3>1
      <4> HIDE DEF passed
      <4>2. Counts(Unwritten, 0 + Len(passed))
        BY <2>n, <3>2, <4>1
      <4>3. /\ passed \o Unwritten \in Seq(Bytes)
            /\ Len(passed \o Unwritten) = Len(passed) + Len(Unwritten)
            /\ Counts(passed \o Unwritten, 0)
        BY <3>2, <4>1, <4>2, CountsJoin
      <4> QED BY <3>2, <4>1, <4>3 DEF passed
    <3>4. Len(got \o connection \o Unwritten) = produced
      BY <2>t, <2>n, <2>3, <3>3 DEF Numbered
    <3>5. got \o connection \o Unwritten = Sent
      <4> DEFINE whole == got \o connection \o Unwritten
      <4>1. whole \in Seq(Bytes) /\ Counts(whole, 0) /\ Len(whole) = produced
        BY <3>3, <3>4
      <4> HIDE DEF whole
      <4>2. whole = Sent
        BY <2>n, <4>1, CountsAreSent
      <4> QED BY <4>2 DEF whole
    <3> QED BY <2>3, <3>5 DEF StreamIntact, got
  <2> QED BY <2>2, <2>3
<1> QED BY <1>1, StreamInvInvariant, PTL

(* readn() tells of the end only when all that was ever sent has been      *)
(* read.                                                                   *)
THEOREM EndIsTrue == StreamSpec => []ZeroIsEnd
<1>1. StreamInv => ZeroIsEnd
  <2> SUFFICES ASSUME StreamInv, zero
               PROVE  state # "open" /\ inBuffer = Sent
    BY DEF ZeroIsEnd
  <2>1. /\ StreamTypeOK /\ Counts(inBuffer, 0) /\ state # "open"
        /\ Len(inBuffer) = produced
    BY DEF StreamInv, Numbered, Ended
  <2>2. inBuffer \in Seq(Bytes) /\ produced \in Nat
    BY <2>1, StreamNats, StreamSeqs
  <2> QED BY <2>1, <2>2, CountsAreSent
<1> QED BY <1>1, StreamInvInvariant, PTL
=============================================================================
