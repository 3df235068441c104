---------------------------- MODULE AsyncLogging ----------------------------
(***************************************************************************)
(* The double-buffered asynchronous logger of AsyncLogging.{h,cpp}.        *)
(*                                                                         *)
(* Any number of front-end threads call append(); one back-end thread runs *)
(* threadFunc(), which swaps the filled buffers out under mutex_ and       *)
(* writes them outside of it; an owner calls stop().  append() and the     *)
(* back end's collecting block hold mutex_ from end to end, so each is one *)
(* action, except that waitForSeconds gives the mutex up.  Everything else *)
(* the back end does touches its local variables and the log file only.    *)
(*                                                                         *)
(* A log line is the number of the append() call that logged it, counted   *)
(* in the order the calls take mutex_.  A buffer is an identity in         *)
(* Buffers, with its contents in `store`; a shared_ptr<Buffer> is such an  *)
(* identity or NoBuffer, and a buffer that no pointer names is free.       *)
(***************************************************************************)
EXTENDS FixedBuffer, Functions

CONSTANTS
  Buffers,     (* identities of the buffers the heap can hold              *)
  NoBuffer,    (* the null shared_ptr                                      *)
  LineLens,    (* lengths a line passed to append() can have               *)
  MaxBacklog,  (* 25 in the code: more collected buffers than this: drop   *)
  MaxLines     (* BOUND: append() calls in a behaviour                     *)

ASSUME NoBufferAssumption == NoBuffer \notin Buffers

(* A line comes out of a LogStream of kSmallBuffer (4000) bytes, so it is  *)
(* always shorter than a buffer of kLargeBuffer (4000 * 1000) bytes.       *)
ASSUME LineLensAssumption == LineLens \subseteq 1 .. BufferSize - 1

(* The two buffers of the constructor can be allocated.                    *)
ASSUME BuffersAssumption == \E b1, b2 \in Buffers : b1 # b2

ASSUME MaxBacklogAssumption == MaxBacklog \in Nat /\ MaxBacklog >= 2
ASSUME MaxLinesAssumption   == MaxLines \in Nat

VARIABLES
  running,         (* running_                                             *)
  currentBuffer,   (* currentBuffer_                                       *)
  nextBuffer,      (* nextBuffer_                                          *)
  buffers,         (* buffers_: full buffers, oldest first                 *)
  signalled,       (* cond_ was notified while the back end waited         *)
  pc,              (* where threadFunc() is                                *)
  newBuffer1,      (* threadFunc()'s two spare buffers                     *)
  newBuffer2,
  buffersToWrite,  (* what threadFunc() collected                          *)
  written,         (* how many of buffersToWrite went to output.append     *)
  stopper,         (* where the owner's call of stop() is                  *)
  store,           (* contents of every buffer                             *)
  lineCount,       (* lines logged so far                                  *)
  file,            (* lines passed to output.append, in order              *)
  flushed,         (* how many of them output.flush() covered              *)
  lost             (* lines of buffers dropped for the backlog             *)

shared  == <<currentBuffer, nextBuffer, buffers>>
spares  == <<newBuffer1, newBuffer2>>
batch   == <<buffersToWrite, written>>
outcome == <<file, flushed, lost>>
vars == <<running, shared, signalled, pc, spares, batch, stopper, store,
          lineCount, outcome>>

-----------------------------------------------------------------------------
Pointers == {currentBuffer, nextBuffer, newBuffer1, newBuffer2}
              \cup Range(buffers) \cup Range(buffersToWrite)

(* `new Buffer` returns memory no shared_ptr owns; which is of no matter.  *)
Free     == Buffers \ Pointers
AnyOf(S) == CHOOSE b \in S : TRUE

LinesOf(b) == Range(store[b].data)

LinesIn(bs) == UNION {LinesOf(bs[i]) : i \in DOMAIN bs}

(* The constructor's buffers, with start() returned: latch_ has been       *)
(* counted down, so append() may be called, and the back end is about to   *)
(* allocate its own two.                                                   *)
Init ==
  /\ currentBuffer = AnyOf(Buffers)
  /\ nextBuffer = AnyOf(Buffers \ {currentBuffer})
  /\ buffers = <<>>
  /\ newBuffer1 = NoBuffer
  /\ newBuffer2 = NoBuffer
  /\ buffersToWrite = <<>>
  /\ written = 0
  /\ running = TRUE
  /\ signalled = FALSE
  /\ pc = "alloc"
  /\ stopper = "idle"
  /\ store = [b \in Buffers |-> EmptyBuffer]
  /\ lineCount = 0
  /\ file = <<>>
  /\ flushed = 0
  /\ lost = {}

-----------------------------------------------------------------------------
(* MUTANT of notify: the call is left out.                                 *)
notify_Omitted == UNCHANGED signalled

(* pthread_cond_signal wakes the back end if it waits, and is lost if not. *)
notify == signalled' = (signalled \/ pc = "waiting")

LogLine == lineCount < MaxLines /\ lineCount' = lineCount + 1

(* MUTANT of HasRoom: >= for >, at odds with FixedBuffer::append.          *)
HasRoom_Exact(len) == avail(store[currentBuffer]) >= len

HasRoom(len) == avail(store[currentBuffer]) > len

(* append(): the line fits into the current buffer.                        *)
AppendFits(len) ==
  /\ LogLine
  /\ HasRoom(len)
  /\ store' = [store EXCEPT ![currentBuffer] = append(@, lineCount', len)]
  /\ UNCHANGED <<running, shared, signalled, pc, spares, batch, stopper, outcome>>

(* The spare buffer, or a new one (whose cursor is at its front).          *)
Replacement == IF nextBuffer # NoBuffer THEN nextBuffer ELSE AnyOf(Free)

(* append(): it does not fit; the current buffer is queued, its            *)
(* replacement takes the line, and the back end is notified.               *)
AppendSwitches(len) ==
  /\ LogLine
  /\ ~ HasRoom(len)
  /\ nextBuffer = NoBuffer => Free # {}
  /\ buffers' = Append(buffers, currentBuffer)
  /\ currentBuffer' = Replacement
  /\ nextBuffer' = NoBuffer
  /\ store' = [store EXCEPT ![Replacement] =
                 append(IF nextBuffer = NoBuffer THEN EmptyBuffer ELSE @,
                        lineCount', len)]
  /\ notify
  /\ UNCHANGED <<running, pc, spares, batch, stopper, outcome>>

FrontEnd == \E len \in LineLens : AppendFits(len) \/ AppendSwitches(len)

-----------------------------------------------------------------------------
(* threadFunc() before its loop: newBuffer1 and newBuffer2.                *)
Allocate ==
  /\ pc = "alloc"
  /\ \E b1, b2 \in Free : b1 # b2
  /\ newBuffer1' = AnyOf(Free)
  /\ newBuffer2' = AnyOf(Free \ {newBuffer1'})
  /\ store' = [b \in Buffers |->
                 IF b \in {newBuffer1', newBuffer2'} THEN EmptyBuffer ELSE store[b]]
  /\ pc' = "test"
  /\ UNCHANGED <<running, shared, signalled, batch, stopper, lineCount, outcome>>

(* MUTANT of flush: the call is left out.                                  *)
flush_Omitted == UNCHANGED flushed

(* output.flush()                                                          *)
flush == flushed' = Len(file)

(* MUTANT of TestRunning: the loop is while (true).                        *)
TestRunning_Forever ==
  /\ pc = "test"
  /\ pc' = "collect"
  /\ UNCHANGED <<running, shared, signalled, spares, batch, stopper, store,
                 lineCount, outcome>>

(* while (running_), and the flush() behind the loop.                      *)
TestRunning ==
  /\ pc = "test"
  /\ \/ running /\ pc' = "collect" /\ UNCHANGED flushed
     \/ ~ running /\ pc' = "done" /\ flush
  /\ UNCHANGED <<running, shared, signalled, spares, batch, stopper, store,
                 lineCount, file, lost>>

(* MUTANT of Queued: the buffer being filled goes before the full ones.    *)
Queued_CurrentFirst == <<currentBuffer>> \o buffers

Queued == Append(buffers, currentBuffer)

(* The block under mutex_ once nothing is waited for: queue the current    *)
(* buffer, full or not, put the spares in and take the queue.              *)
Collect ==
  /\ buffersToWrite' = Queued
  /\ buffers' = buffersToWrite
  /\ currentBuffer' = newBuffer1
  /\ newBuffer1' = NoBuffer
  /\ IF nextBuffer = NoBuffer
     THEN nextBuffer' = newBuffer2 /\ newBuffer2' = NoBuffer
     ELSE UNCHANGED <<nextBuffer, newBuffer2>>
  /\ written' = 0
  /\ pc' = "trim"
  /\ UNCHANGED <<running, stopper, store, lineCount, outcome>>

CollectNow ==
  /\ pc = "collect"
  /\ buffers # <<>>
  /\ Collect
  /\ UNCHANGED signalled

(* Nothing is queued: waitForSeconds(flushInterval_) releases mutex_.      *)
WaitForSeconds ==
  /\ pc = "collect"
  /\ buffers = <<>>
  /\ pc' = "waiting"
  /\ signalled' = FALSE
  /\ UNCHANGED <<running, shared, spares, batch, stopper, store, lineCount, outcome>>

(* The wait ends by a notification, or by the timeout or spuriously; the   *)
(* code tests no condition again and collects in each case.                *)
CollectSignalled ==
  /\ pc = "waiting"
  /\ signalled
  /\ Collect
  /\ signalled' = FALSE

CollectTimeout ==
  /\ pc = "waiting"
  /\ ~ signalled
  /\ Collect
  /\ UNCHANGED signalled

(* MUTANT of Backlogged: >= for >.                                         *)
Backlogged_Early == Len(buffersToWrite) >= MaxBacklog

Backlogged == Len(buffersToWrite) > MaxBacklog

(* A backlog: all but the first two buffers are dropped.                   *)
Trim ==
  /\ pc = "trim"
  /\ \/ /\ Backlogged
        /\ buffersToWrite' = SubSeq(buffersToWrite, 1, 2)
        /\ lost' = lost \cup
                    LinesIn(SubSeq(buffersToWrite, 3, Len(buffersToWrite)))
     \/ ~ Backlogged /\ UNCHANGED <<buffersToWrite, lost>>
  /\ pc' = "write"
  /\ UNCHANGED <<running, shared, signalled, spares, written, stopper, store,
                 lineCount, file, flushed>>

(* One iteration of the writing loop: output.append.                       *)
WriteBuffer ==
  /\ pc = "write"
  /\ written < Len(buffersToWrite)
  /\ file' = file \o store[buffersToWrite[written + 1]].data
  /\ written' = written + 1
  /\ UNCHANGED <<running, shared, signalled, pc, spares, buffersToWrite, stopper,
                 store, lineCount, flushed, lost>>

(* Behind the loop: resize(2), which never grows here, then back(),        *)
(* pop_back() and reset() for each spare that was given away, clear() and  *)
(* output.flush().                                                         *)
Kept == IF Len(buffersToWrite) > 2 THEN 2 ELSE Len(buffersToWrite)

FirstSpare ==
  IF newBuffer1 = NoBuffer THEN buffersToWrite[Kept] ELSE newBuffer1

(* MUTANT of SecondSpare: no pop_back() behind the first back().           *)
SecondSpare_NoPop ==
  IF newBuffer2 = NoBuffer THEN buffersToWrite[Kept] ELSE newBuffer2

SecondSpare ==
  IF newBuffer2 = NoBuffer
  THEN buffersToWrite[IF newBuffer1 = NoBuffer THEN Kept - 1 ELSE Kept]
  ELSE newBuffer2

reset(b) == EmptyBuffer

Recycle ==
  /\ pc = "write"
  /\ written = Len(buffersToWrite)
  /\ newBuffer1' = FirstSpare
  /\ newBuffer2' = SecondSpare
  /\ store' = [b \in Buffers |->
                 IF b \in {FirstSpare, SecondSpare} \ {newBuffer1, newBuffer2}
                 THEN reset(store[b]) ELSE store[b]]
  /\ buffersToWrite' = <<>>
  /\ written' = 0
  /\ flush
  /\ pc' = "test"
  /\ UNCHANGED <<running, shared, signalled, stopper, lineCount, file, lost>>

BackEndStep ==
  \/ Allocate
  \/ TestRunning
  \/ CollectNow
  \/ WaitForSeconds
  \/ CollectSignalled
  \/ Trim
  \/ WriteBuffer
  \/ Recycle

-----------------------------------------------------------------------------
(* stop(): clear running_, notify, join; none of it under mutex_.          *)
StopClear ==
  /\ stopper = "idle"
  /\ running' = FALSE
  /\ stopper' = "notify"
  /\ UNCHANGED <<shared, signalled, pc, spares, batch, store, lineCount, outcome>>

StopNotify ==
  /\ stopper = "notify"
  /\ notify
  /\ stopper' = "join"
  /\ UNCHANGED <<running, shared, pc, spares, batch, store, lineCount, outcome>>

StopJoin ==
  /\ stopper = "join"
  /\ pc = "done"
  /\ stopper' = "stopped"
  /\ UNCHANGED <<running, shared, signalled, pc, spares, batch, store, lineCount,
                 outcome>>

Stop == StopClear \/ StopNotify \/ StopJoin

(* After stop() has returned only append() calls remain possible; the      *)
(* stutter keeps the bound on them from looking like a deadlock.           *)
Stopped == stopper = "stopped" /\ UNCHANGED vars

Next == FrontEnd \/ BackEndStep \/ CollectTimeout \/ Stop \/ Stopped

(* The back end is a running thread, and gets mutex_ each time it asks:    *)
(* append() holds it for a bounded time.  A call of stop() that has begun  *)
(* goes on; nobody is obliged to log or to call stop().  The timeout of    *)
(* waitForSeconds is kept apart, to tell what is owed to it from what the  *)
(* notifications achieve.                                                  *)
Fairness ==
  /\ WF_vars(BackEndStep)
  /\ WF_vars(StopNotify)
  /\ WF_vars(StopJoin)

TimeoutsFire == WF_vars(CollectTimeout)

Spec     == Init /\ [][Next]_vars
FairSpec == Spec /\ Fairness

-----------------------------------------------------------------------------
TypeOK ==
  /\ running \in BOOLEAN
  /\ signalled \in BOOLEAN
  /\ pc \in {"alloc", "test", "collect", "waiting", "trim", "write", "done"}
  /\ stopper \in {"idle", "notify", "join", "stopped"}
  /\ currentBuffer \in Buffers
  /\ {nextBuffer, newBuffer1, newBuffer2} \subseteq Buffers \cup {NoBuffer}
  /\ buffers \in Seq(Buffers)
  /\ buffersToWrite \in Seq(Buffers)
  /\ written \in Nat
  /\ store \in [Buffers -> [data : Seq(Nat), cur : Nat]]
  /\ lineCount \in Nat
  /\ file \in Seq(Nat)
  /\ flushed \in Nat
  /\ lost \subseteq Nat

(* Buffers are handed around by shared_ptr between the front end, the back *)
(* end's batch and its spares, and reset() for reuse outside mutex_: no    *)
(* buffer may be in two of these places at once, or a reset wipes lines    *)
(* another thread is appending (AsyncLogging.cpp 32-37, 64-71, 97-109).    *)
NoSharing(s) == \A i, j \in DOMAIN s : s[i] = s[j] => i = j

BufferOwnership ==
  /\ NoSharing(buffers)
  /\ NoSharing(buffersToWrite)
  /\ Range(buffers) \cap Range(buffersToWrite) = {}
  /\ {currentBuffer, nextBuffer, newBuffer1, newBuffer2}
       \cap (Range(buffers) \cup Range(buffersToWrite)) = {}
  /\ currentBuffer \notin {nextBuffer, newBuffer1, newBuffer2}
  /\ nextBuffer = NoBuffer \/ nextBuffer \notin {newBuffer1, newBuffer2}
  /\ newBuffer1 = NoBuffer \/ newBuffer1 # newBuffer2

(* The assertions of threadFunc(): lines 54-56 at the head of the loop, 74 *)
(* behind the swap, and 98 and 105, that the batch still holds a buffer    *)
(* for every spare that was given away.                                    *)
BackEndAsserts ==
  /\ pc \in {"test", "collect", "waiting"} =>
       /\ newBuffer1 # NoBuffer /\ store[newBuffer1].cur = 0
       /\ newBuffer2 # NoBuffer /\ store[newBuffer2].cur = 0
       /\ buffersToWrite = <<>>
  /\ pc = "trim" => buffersToWrite # <<>>
  /\ pc = "write" => /\ newBuffer1 = NoBuffer => Len(buffersToWrite) >= 1
                     /\ newBuffer1 = NoBuffer /\ newBuffer2 = NoBuffer =>
                           Len(buffersToWrite) >= 2

(* Whatever the front-end threads, the swaps and the recycling do, the log *)
(* file receives every line at most once and in the order of the append()  *)
(* calls.                                                                  *)
Increasing(s) == \A i, j \in DOMAIN s : i < j => s[i] < s[j]

FileInOrder == Increasing(file)

(* No line vanishes: it is in the file, or was dropped for the backlog, or *)
(* is in a buffer on its way to the file, and is in one of the three only. *)
(* Stopping ends the journey but loses nothing that was collected.         *)
Unwritten == SubSeq(buffersToWrite, written + 1, Len(buffersToWrite))
Pipeline  == Unwritten \o buffers \o <<currentBuffer>>

EveryLineAccounted ==
  /\ 1 .. lineCount = Range(file) \cup lost \cup LinesIn(Pipeline)
  /\ Range(file) \cap (lost \cup LinesIn(Pipeline)) = {}
  /\ lost \cap LinesIn(Pipeline) = {}

(* A line reaches the disk, not only output.append(), before the back end  *)
(* can sleep: once it may wait or has ended, all it wrote is flushed.      *)
FlushedBeforeSleep ==
  pc \in {"collect", "waiting", "done"} => flushed = Len(file)

(* While nobody calls stop(), each line gets to the disk unless dropped.   *)
(* A buffer that is never filled owes this to the wait's timeout.          *)
LineDelivered ==
  TimeoutsFire =>
    \A n \in 1 .. MaxLines :
      n <= lineCount ~> \/ n \in Range(SubSeq(file, 1, flushed)) \cup lost
                       \/ ~ running

(* A full buffer needs no timeout: the notification of append() is never   *)
(* missed, because the back end looks at buffers_ under mutex_ first.      *)
FullBufferCollected == buffers # <<>> ~> buffers = <<>> \/ ~ running

(* stop() returns.  Its notification is sent without mutex_ and can fall   *)
(* between the back end's look at running_ and its wait, so this rests on  *)
(* the timeout.                                                            *)
StopReturns == TimeoutsFire => (stopper = "notify" ~> stopper = "stopped")
=============================================================================
