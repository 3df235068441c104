------------------------- MODULE AsyncLoggingProofs -------------------------
(***************************************************************************)
(* Proofs of AsyncLogging's safety properties, and that it implements      *)
(* LogChannel.                                                             *)
(***************************************************************************)
EXTENDS AsyncLoggingRefinement, SequenceTheorems, FiniteSetTheorems, TLAPS

-----------------------------------------------------------------------------
(* What threadFunc() owns at each place in its loop.                       *)
Phases ==
  /\ pc \in {"alloc", "test", "collect", "waiting", "done"} =>
       buffersToWrite = <<>> /\ written = 0
  /\ pc = "alloc" => newBuffer1 = NoBuffer /\ newBuffer2 = NoBuffer
  /\ pc \in {"test", "collect", "waiting", "done"} =>
       newBuffer1 # NoBuffer /\ newBuffer2 # NoBuffer
  /\ pc \in {"trim", "write"} =>
       /\ newBuffer1 = NoBuffer
       /\ Len(buffersToWrite) >= 1
       /\ newBuffer2 = NoBuffer => Len(buffersToWrite) >= 2
  /\ nextBuffer = NoBuffer => Len(buffers) >= 1
  /\ pc = "trim" => written = 0
  /\ written <= Len(buffersToWrite)

(* A buffer kept for later use is an empty one.                            *)
SparesEmpty ==
  \A b \in {nextBuffer, newBuffer1, newBuffer2} :
    b # NoBuffer => store[b] = EmptyBuffer

Inv1 == TypeOK /\ BufferOwnership /\ Phases /\ SparesEmpty

(* The pipeline from the log file back to append(): a line in one place is *)
(* older than every line in a later one.                                   *)
Below(s, t) == \A i \in DOMAIN s, j \in DOMAIN t : s[i] < t[j]

Data(st, b) == st[b].data

Older(st, a, b) == Below(Data(st, a), Data(st, b))

LinesLogged ==
  /\ Increasing(file)
  /\ \A i \in DOMAIN file : file[i] \in 1 .. lineCount
  /\ \A b \in Buffers : Increasing(Data(store, b))
  /\ \A b \in Buffers : \A i \in DOMAIN Data(store, b) : Data(store, b)[i] \in 1 .. lineCount

FileOldest ==
  /\ \A i \in written + 1 .. Len(buffersToWrite) : Below(file, Data(store, buffersToWrite[i]))
  /\ \A i \in 1 .. Len(buffers) : Below(file, Data(store, buffers[i]))
  /\ Below(file, Data(store, currentBuffer))

BatchInOrder ==
  \A i \in written + 1 .. Len(buffersToWrite) :
    /\ \A j \in i + 1 .. Len(buffersToWrite) : Older(store, buffersToWrite[i], buffersToWrite[j])
    /\ \A j \in 1 .. Len(buffers) : Older(store, buffersToWrite[i], buffers[j])
    /\ Older(store, buffersToWrite[i], currentBuffer)

QueueInOrder ==
  \A i \in 1 .. Len(buffers) :
    /\ \A j \in i + 1 .. Len(buffers) : Older(store, buffers[i], buffers[j])
    /\ Older(store, buffers[i], currentBuffer)

Order == LinesLogged /\ FileOldest /\ BatchInOrder /\ QueueInOrder

Settled ==
  pc \in {"alloc", "test", "collect", "waiting", "done"} => flushed = Len(file)

IInv == Inv1 /\ Order /\ EveryLineAccounted /\ Settled

-----------------------------------------------------------------------------
(* CHOOSE picks a member of a set that has one (the allocator returns a    *)
(* free buffer).                                                           *)
LEMMA AnyOfMember == ASSUME NEW S, S # {} PROVE AnyOf(S) \in S
  BY DEF AnyOf

(* What push_back() does to the buffers of a vector.                       *)
LEMMA RangeAppend ==
  ASSUME NEW S, NEW s \in Seq(S), NEW e \in S
  PROVE  Range(Append(s, e)) = Range(s) \cup {e}
<1>1. Append(s, e) \in Seq(S) /\ Len(Append(s, e)) = Len(s) + 1
  OBVIOUS
<1>2. /\ \A i \in 1 .. Len(s) : Append(s, e)[i] = s[i]
      /\ Append(s, e)[Len(s) + 1] = e
  OBVIOUS
<1>3. DOMAIN s = 1 .. Len(s) /\ DOMAIN Append(s, e) = 1 .. Len(s) + 1
  BY <1>1
<1>4. Len(s) \in Nat
  OBVIOUS
<1> QED BY <1>2, <1>3, <1>4, SMT DEF Range

(* A vector's elements are of its element type.                            *)
LEMMA RangeOver == ASSUME NEW S, NEW s \in Seq(S) PROVE Range(s) \subseteq S
  BY SMT DEF Range

(* A buffer that is not in the vector yet can be pushed without sharing.   *)
LEMMA NoSharingAppend ==
  ASSUME NEW S, NEW s \in Seq(S), NEW e \in S, NoSharing(s), e \notin Range(s)
  PROVE  NoSharing(Append(s, e))
  BY SMT DEF NoSharing, Range

(* erase() keeps two buffers of the vector, and no others.                 *)
LEMMA FirstTwo ==
  ASSUME NEW S, NEW s \in Seq(S), Len(s) >= 2
  PROVE  /\ SubSeq(s, 1, 2) \in Seq(S)
         /\ Len(SubSeq(s, 1, 2)) = 2
         /\ SubSeq(s, 1, 2)[1] = s[1] /\ SubSeq(s, 1, 2)[2] = s[2]
         /\ Range(SubSeq(s, 1, 2)) \subseteq Range(s)
         /\ NoSharing(s) => NoSharing(SubSeq(s, 1, 2))
<1>1. /\ SubSeq(s, 1, 2) \in Seq(S)
      /\ Len(SubSeq(s, 1, 2)) = 2
      /\ \A i \in 1 .. 2 : SubSeq(s, 1, 2)[i] = s[i]
  OBVIOUS
<1> QED BY <1>1, SMT DEF NoSharing, Range

(* The buffers that erase() removes.                                       *)
LEMMA FromThird ==
  ASSUME NEW S, NEW s \in Seq(S), Len(s) >= 2
  PROVE  /\ DOMAIN SubSeq(s, 3, Len(s)) = 1 .. Len(s) - 2
         /\ \A i \in 1 .. Len(s) - 2 : SubSeq(s, 3, Len(s))[i] = s[i + 2]
<1> DEFINE m == Len(s)
           T == SubSeq(s, 3, m)
<1>1. m \in Nat /\ m >= 2 /\ \A i \in 3 .. m : s[i] \in S
  OBVIOUS
<1> HIDE DEF m
<1>2. /\ T \in Seq(S) /\ Len(T) = IF 3 <= m THEN m - 3 + 1 ELSE 0
      /\ \A i \in 1 .. m - 3 + 1 : T[i] = s[3 + i - 1]
  BY <1>1, SubSeqProperties
<1> HIDE DEF T
<1>3. Len(T) = m - 2 /\ m - 3 + 1 = m - 2
  BY <1>1, <1>2
<1>4. DOMAIN T = 1 .. m - 2
  BY <1>2, <1>3
<1>5. \A i \in 1 .. m - 2 : 3 + i - 1 = i + 2
  BY <1>1
<1> QED BY <1>2, <1>3, <1>4, <1>5 DEF T, m

(* The empty vector.                                                       *)
LEMMA EmptyRange == Range(<<>>) = {} /\ NoSharing(<<>>)
  BY SMT DEF NoSharing, Range

-----------------------------------------------------------------------------
USE NoBufferAssumption

(* A free buffer is none of those in use.                                  *)
LEMMA FreeBuffer ==
  ASSUME Free # {}
  PROVE  /\ AnyOf(Free) \in Buffers
         /\ AnyOf(Free) \notin {currentBuffer, nextBuffer, newBuffer1, newBuffer2}
         /\ AnyOf(Free) \notin Range(buffers) \cup Range(buffersToWrite)
<1>1. AnyOf(Free) \in Free
  BY AnyOfMember
<1> QED BY <1>1 DEF Free, Pointers

(* In the initial state the two buffers of the constructor are different   *)
(* and empty, and nothing else is anywhere.                                *)
LEMMA Inv1Init == Init => Inv1
<1> SUFFICES ASSUME Init PROVE Inv1
  OBVIOUS
<1>1. /\ Buffers # {} /\ AnyOf(Buffers) \in Buffers
      /\ Buffers \ {AnyOf(Buffers)} # {}
  BY AnyOfMember, BuffersAssumption
<1>2. AnyOf(Buffers \ {AnyOf(Buffers)}) \in Buffers \ {AnyOf(Buffers)}
  BY <1>1, AnyOfMember
<1>3. currentBuffer \in Buffers /\ nextBuffer \in Buffers /\ nextBuffer # currentBuffer
  BY <1>1, <1>2 DEF Init
<1>4. store \in [Buffers -> [data : Seq(Nat), cur : Nat]]
  BY DEF Init, EmptyBuffer
<1>5. TypeOK
  <2>1. buffers \in Seq(Buffers) /\ buffersToWrite \in Seq(Buffers) /\ file \in Seq(Nat)
    BY DEF Init
  <2>2. lost \subseteq Nat /\ {nextBuffer, newBuffer1, newBuffer2} \subseteq Buffers \cup {NoBuffer}
    BY <1>3 DEF Init
  <2> QED BY <1>3, <1>4, <2>1, <2>2 DEF Init, TypeOK
<1>6. BufferOwnership
  BY <1>3, EmptyRange DEF Init, BufferOwnership
<1>7. Phases
  BY <1>3 DEF Init, Phases
<1>8. SparesEmpty
  BY <1>3 DEF Init, SparesEmpty
<1> QED BY <1>5, <1>6, <1>7, <1>8 DEF Inv1

(* append() into the current buffer: no buffer changes its place.          *)
LEMMA Inv1AppendFits ==
  ASSUME Inv1, NEW len \in LineLens, AppendFits(len) PROVE Inv1'
<1> USE DEF Inv1
<1>0. len \in Nat
  BY LineLensAssumption
<1>1. lineCount' \in Nat /\ lineCount' = lineCount + 1
  BY DEF AppendFits, LogLine, TypeOK
<1>2. append(store[currentBuffer], lineCount', len) \in [data : Seq(Nat), cur : Nat]
  BY <1>0, <1>1 DEF append, TypeOK
<1>3. store' \in [Buffers -> [data : Seq(Nat), cur : Nat]]
  BY <1>2 DEF AppendFits, TypeOK
<1>4. TypeOK'
  BY <1>1, <1>3 DEF AppendFits, TypeOK, shared, spares, batch, outcome
<1>5. BufferOwnership'
  BY DEF AppendFits, BufferOwnership, shared, spares, batch
<1>6. Phases'
  BY DEF AppendFits, Phases, shared, spares, batch
<1>7. SparesEmpty'
  <2>1. \A b \in Buffers : b # currentBuffer => store'[b] = store[b]
    BY DEF AppendFits, TypeOK
  <2>2. UNCHANGED <<nextBuffer, newBuffer1, newBuffer2>>
    BY DEF AppendFits, shared, spares
  <2> QED BY <2>1, <2>2 DEF SparesEmpty, BufferOwnership, TypeOK
<1> QED BY <1>4, <1>5, <1>6, <1>7

(* The buffer that takes over is in no place of the pipeline.              *)
LEMMA ReplacementUnused ==
  ASSUME Inv1, NEW len \in LineLens, AppendSwitches(len)
  PROVE  /\ Replacement \in Buffers /\ Replacement # currentBuffer
         /\ Replacement \notin {newBuffer1, newBuffer2}
         /\ Replacement \notin Range(buffers) \cup Range(buffersToWrite)
<1>1. CASE nextBuffer = NoBuffer
  BY <1>1, FreeBuffer DEF AppendSwitches, Replacement
<1>2. CASE nextBuffer # NoBuffer
  BY <1>2 DEF Replacement, Inv1, BufferOwnership, TypeOK
<1> QED BY <1>1, <1>2

(* append() with a full current buffer: it joins the queue, and what takes *)
(* over was the spare, or free.                                            *)
LEMMA Inv1AppendSwitches ==
  ASSUME Inv1, NEW len \in LineLens, AppendSwitches(len) PROVE Inv1'
<1> USE DEF Inv1
<1> DEFINE r == Replacement
           before == IF nextBuffer = NoBuffer THEN EmptyBuffer ELSE store[r]
<1>0. len \in Nat
  BY LineLensAssumption
<1>1. lineCount' \in Nat
  BY DEF AppendSwitches, LogLine, TypeOK
<1>2. /\ r \in Buffers /\ r # currentBuffer /\ r # newBuffer1 /\ r # newBuffer2
      /\ r \notin Range(buffers) \cup Range(buffersToWrite)
  BY ReplacementUnused
<1>3. before \in [data : Seq(Nat), cur : Nat]
  BY <1>2 DEF TypeOK, EmptyBuffer
<1>4. append(before, lineCount', len) \in [data : Seq(Nat), cur : Nat]
  BY <1>0, <1>1, <1>3 DEF append
<1>5. store' = [store EXCEPT ![r] = append(before, lineCount', len)]
  BY DEF AppendSwitches
<1>6. store' \in [Buffers -> [data : Seq(Nat), cur : Nat]]
  BY <1>4, <1>5 DEF TypeOK
<1>7. /\ buffers' \in Seq(Buffers) /\ Len(buffers') = Len(buffers) + 1
      /\ Range(buffers') = Range(buffers) \cup {currentBuffer}
  BY RangeAppend DEF AppendSwitches, TypeOK
<1>8. /\ currentBuffer' = r /\ nextBuffer' = NoBuffer
      /\ UNCHANGED <<running, pc, newBuffer1, newBuffer2, buffersToWrite, written,
                     stopper, file, flushed, lost>>
  BY DEF AppendSwitches, spares, batch, outcome
<1>9. TypeOK'
  <2>1. signalled' \in BOOLEAN
    BY DEF AppendSwitches, notify, TypeOK
  <2> QED BY <1>1, <1>2, <1>6, <1>7, <1>8, <2>1 DEF TypeOK
<1>10. BufferOwnership'
  <2>1. NoSharing(buffers')
    BY NoSharingAppend DEF AppendSwitches, TypeOK, BufferOwnership
  <2>2. NoBuffer \notin Range(buffers) \cup Range(buffersToWrite)
    BY RangeOver DEF TypeOK
  <2>3. currentBuffer # NoBuffer
    BY DEF TypeOK
  <2> HIDE DEF r
  <2>4. Range(buffers') \cap Range(buffersToWrite') = {}
    BY <1>7, <1>8 DEF BufferOwnership
  <2>5. /\ currentBuffer' \notin Range(buffers') \cup Range(buffersToWrite')
        /\ nextBuffer' \notin Range(buffers') \cup Range(buffersToWrite')
    BY <1>2, <1>7, <1>8, <2>2, <2>3
  <2>6. {newBuffer1', newBuffer2'} \cap (Range(buffers') \cup Range(buffersToWrite')) = {}
    BY <1>7, <1>8 DEF BufferOwnership
  <2>7. r # NoBuffer
    BY <1>2
  <2>8. /\ currentBuffer' \notin {nextBuffer', newBuffer1', newBuffer2'}
        /\ newBuffer1' = NoBuffer \/ newBuffer1' # newBuffer2'
    BY <1>2, <1>8, <2>7 DEF BufferOwnership
  <2>9. NoSharing(buffersToWrite')
    BY <1>8 DEF BufferOwnership
  <2> QED BY <1>8, <2>1, <2>4, <2>5, <2>6, <2>8, <2>9 DEF BufferOwnership
<1>11. Phases'
  BY <1>7, <1>8 DEF Phases, TypeOK
<1>12. SparesEmpty'
  <2>1. \A b \in Buffers : b # r => store'[b] = store[b]
    BY <1>5 DEF TypeOK
  <2> QED BY <1>2, <1>8, <2>1 DEF SparesEmpty, TypeOK
<1> QED BY <1>9, <1>10, <1>11, <1>12

(* The two spares are different, and free.                                 *)
LEMMA AllocateFree ==
  ASSUME Allocate
  PROVE  newBuffer1' \in Free /\ newBuffer2' \in Free /\ newBuffer1' # newBuffer2'
<1>1. Free # {} /\ AnyOf(Free) \in Free /\ Free \ {AnyOf(Free)} # {}
  <2>1. PICK b1, b2 \in Free : b1 # b2
    BY DEF Allocate
  <2> QED BY <2>1, AnyOfMember
<1>2. AnyOf(Free \ {AnyOf(Free)}) \in Free \ {AnyOf(Free)}
  BY <1>1, AnyOfMember
<1> QED BY <1>1, <1>2 DEF Allocate

(* The back end's first two spares come from the heap.                     *)
LEMMA Inv1Allocate == ASSUME Inv1, Allocate PROVE Inv1'
<1> USE DEF Inv1
<1>1. newBuffer1' \in Free /\ newBuffer2' \in Free /\ newBuffer1' # newBuffer2'
  BY AllocateFree
<1>3. /\ {newBuffer1', newBuffer2'} \subseteq Buffers
      /\ {newBuffer1', newBuffer2'} \cap {currentBuffer, nextBuffer} = {}
      /\ {newBuffer1', newBuffer2'} \cap (Range(buffers) \cup Range(buffersToWrite)) = {}
  BY <1>1 DEF Free, Pointers
<1>4. /\ UNCHANGED <<running, currentBuffer, nextBuffer, buffers, signalled,
                     buffersToWrite, written, stopper, lineCount, file, flushed, lost>>
      /\ pc = "alloc" /\ pc' = "test"
  BY DEF Allocate, shared, batch, outcome
<1>5. /\ store' \in [Buffers -> [data : Seq(Nat), cur : Nat]]
      /\ \A b \in Buffers : b \notin {newBuffer1', newBuffer2'} => store'[b] = store[b]
      /\ store'[newBuffer1'] = EmptyBuffer /\ store'[newBuffer2'] = EmptyBuffer
  BY <1>3 DEF Allocate, TypeOK, EmptyBuffer
<1>6. TypeOK'
  BY <1>3, <1>4, <1>5 DEF TypeOK
<1>7. BufferOwnership'
  BY <1>1, <1>3, <1>4 DEF BufferOwnership
<1>8. Phases'
  BY <1>3, <1>4 DEF Phases
<1>9. SparesEmpty'
  BY <1>3, <1>4, <1>5 DEF SparesEmpty, TypeOK
<1> QED BY <1>6, <1>7, <1>8, <1>9

(* The three ways into the collecting block.                               *)
LEMMA Inv1Collect ==
  ASSUME Inv1, pc \in {"collect", "waiting"}, buffers # <<>> \/ nextBuffer # NoBuffer,
         signalled' \in BOOLEAN, Collect
  PROVE  Inv1'
<1> USE DEF Inv1
<1>1. /\ buffersToWrite' \in Seq(Buffers)
      /\ Len(buffersToWrite') = Len(buffers) + 1
      /\ Range(buffersToWrite') = Range(buffers) \cup {currentBuffer}
      /\ NoSharing(buffersToWrite')
  BY RangeAppend, NoSharingAppend DEF Collect, Queued, TypeOK, BufferOwnership
<1>2. /\ buffersToWrite = <<>> /\ buffers' = <<>>
      /\ newBuffer1 \in Buffers /\ newBuffer2 \in Buffers /\ newBuffer1 # newBuffer2
      /\ Len(buffers) \in Nat /\ (nextBuffer = NoBuffer => Len(buffers) >= 1)
  BY DEF Collect, Phases, TypeOK, BufferOwnership
<1>3. /\ currentBuffer' = newBuffer1 /\ newBuffer1' = NoBuffer
      /\ \/ nextBuffer = NoBuffer /\ nextBuffer' = newBuffer2 /\ newBuffer2' = NoBuffer
         \/ nextBuffer # NoBuffer /\ nextBuffer' = nextBuffer /\ newBuffer2' = newBuffer2
      /\ written' = 0 /\ pc' = "trim"
      /\ UNCHANGED <<running, stopper, store, lineCount, file, flushed, lost>>
  BY DEF Collect, outcome
<1>4. TypeOK'
  BY <1>1, <1>2, <1>3 DEF TypeOK
<1>5. BufferOwnership'
  <2>1. NoBuffer \notin Range(buffersToWrite')
    BY <1>1, RangeOver
  <2>2. Range(buffers') = {} /\ NoSharing(buffers')
    BY <1>2, EmptyRange
  <2>3. newBuffer1 # NoBuffer /\ newBuffer2 # NoBuffer
    BY <1>2
  <2>4. /\ newBuffer1 \notin Range(buffersToWrite')
        /\ newBuffer2 \notin Range(buffersToWrite')
        /\ nextBuffer \notin Range(buffersToWrite') \/ nextBuffer = NoBuffer
    BY <1>1, <1>2 DEF BufferOwnership
  <2>5. {currentBuffer', nextBuffer', newBuffer1', newBuffer2'}
          \cap (Range(buffers') \cup Range(buffersToWrite')) = {}
    BY <1>3, <2>1, <2>2, <2>4
  <2>6. /\ currentBuffer' \notin {nextBuffer', newBuffer1', newBuffer2'}
        /\ nextBuffer' = NoBuffer \/ nextBuffer' \notin {newBuffer1', newBuffer2'}
        /\ newBuffer1' = NoBuffer \/ newBuffer1' # newBuffer2'
    BY <1>2, <1>3, <2>3 DEF BufferOwnership
  <2> QED BY <1>1, <2>2, <2>5, <2>6 DEF BufferOwnership
<1>6. Phases'
  BY <1>1, <1>2, <1>3 DEF Phases
<1>7. SparesEmpty'
  BY <1>2, <1>3 DEF SparesEmpty
<1> QED BY <1>4, <1>5, <1>6, <1>7

(* Dropping a backlog keeps the two oldest buffers of the batch.           *)
LEMMA Inv1Trim == ASSUME Inv1, Trim PROVE Inv1'
<1> USE DEF Inv1
<1>1. /\ UNCHANGED <<running, currentBuffer, nextBuffer, buffers, signalled,
                     newBuffer1, newBuffer2, written, stopper, store, lineCount,
                     file, flushed>>
      /\ pc = "trim" /\ pc' = "write"
  BY DEF Trim, shared, spares
<1>2. CASE Backlogged
  <2>1. /\ Len(buffersToWrite) >= 2
        /\ buffersToWrite' = SubSeq(buffersToWrite, 1, 2)
        /\ lost' = lost \cup LinesIn(SubSeq(buffersToWrite, 3, Len(buffersToWrite)))
    <3>1. Len(buffersToWrite) \in Nat
      BY DEF TypeOK
    <3>2. MaxBacklog \in Nat /\ MaxBacklog >= 2 /\ Len(buffersToWrite) > MaxBacklog
      BY <1>2, MaxBacklogAssumption DEF Backlogged
    <3>3. Len(buffersToWrite) >= 2
      BY <3>1, <3>2
    <3> QED BY <1>2, <3>1, <3>3 DEF Trim
  <2>2. /\ buffersToWrite' \in Seq(Buffers) /\ Len(buffersToWrite') = 2
        /\ Range(buffersToWrite') \subseteq Range(buffersToWrite)
        /\ NoSharing(buffersToWrite')
    BY <2>1, FirstTwo DEF TypeOK, BufferOwnership
  <2>3. lost' \subseteq Nat
    <3>1. SubSeq(buffersToWrite, 3, Len(buffersToWrite)) \in Seq(Buffers)
      BY <2>1 DEF TypeOK
    <3>2. ASSUME NEW b \in Buffers
          PROVE  LinesOf(b) \subseteq Nat
      <4>1. store[b].data \in Seq(Nat)
        BY DEF TypeOK
      <4> QED
        BY <4>1 DEF LinesOf, Range
    <3>3. LinesIn(SubSeq(buffersToWrite, 3, Len(buffersToWrite))) \subseteq Nat
      BY <3>1, <3>2 DEF LinesIn
    <3> QED BY <2>1, <3>3 DEF TypeOK
  <2>4. TypeOK'
    BY <1>1, <2>2, <2>3 DEF TypeOK
  <2>5. BufferOwnership'
    BY <1>1, <2>2 DEF BufferOwnership
  <2>6. Phases'
    BY <1>1, <2>2 DEF Phases
  <2>7. SparesEmpty'
    BY <1>1 DEF SparesEmpty
  <2> QED BY <2>4, <2>5, <2>6, <2>7
<1>3. CASE ~ Backlogged
  <2>1. UNCHANGED <<buffersToWrite, lost>>
    BY <1>3 DEF Trim
  <2> QED BY <1>1, <2>1 DEF TypeOK, BufferOwnership, Phases, SparesEmpty
<1> QED BY <1>2, <1>3

(* Writing a buffer leaves all of them where they are.                     *)
LEMMA Inv1WriteBuffer == ASSUME Inv1, WriteBuffer PROVE Inv1'
<1> USE DEF Inv1
<1>1. /\ UNCHANGED <<running, currentBuffer, nextBuffer, buffers, signalled, pc,
                     newBuffer1, newBuffer2, buffersToWrite, stopper, store,
                     lineCount, flushed, lost>>
      /\ pc = "write" /\ written' = written + 1 /\ written < Len(buffersToWrite)
  BY DEF WriteBuffer, shared, spares
<1>2. file' \in Seq(Nat)
  <2>1. buffersToWrite[written + 1] \in Buffers
    BY <1>1 DEF TypeOK
  <2>2. store[buffersToWrite[written + 1]].data \in Seq(Nat) /\ file \in Seq(Nat)
    BY <2>1 DEF TypeOK
  <2> QED BY <2>2 DEF WriteBuffer
<1>3. TypeOK'
  <2>1. written' \in Nat
    BY <1>1 DEF TypeOK
  <2> QED BY <1>1, <1>2, <2>1 DEF TypeOK
<1>4. BufferOwnership' /\ SparesEmpty'
  BY <1>1 DEF BufferOwnership, SparesEmpty
<1>5. Phases'
  BY <1>1 DEF Phases, TypeOK
<1> QED BY <1>3, <1>4, <1>5

(* The spares are refilled from the batch, and with two different buffers. *)
LEMMA RecycledSpares ==
  ASSUME Inv1, pc = "write"
  PROVE  /\ newBuffer1 = NoBuffer
         /\ FirstSpare \in Buffers /\ FirstSpare \in Range(buffersToWrite)
         /\ SecondSpare \in Buffers /\ SecondSpare # FirstSpare
         /\ SecondSpare \in Range(buffersToWrite) \cup {newBuffer2}
<1> USE DEF Inv1
<1> DEFINE n == Len(buffersToWrite)
<1>1. /\ newBuffer1 = NoBuffer /\ n \in Nat /\ n >= 1
      /\ newBuffer2 = NoBuffer => n >= 2
      /\ Kept \in 1 .. n /\ (n >= 2 => Kept = 2)
  <2>1. /\ newBuffer1 = NoBuffer /\ n >= 1
        /\ newBuffer2 = NoBuffer => n >= 2
    BY DEF Phases
  <2>2. n \in Nat
    BY DEF TypeOK
  <2>3. Kept = IF n > 2 THEN 2 ELSE n
    BY DEF Kept
  <2>4. \A m, k \in Nat : m >= 1 /\ k = (IF m > 2 THEN 2 ELSE m) =>
                            k \in 1 .. m /\ (m >= 2 => k = 2)
    OBVIOUS
  <2> QED BY <2>1, <2>2, <2>3, <2>4
<1>2. /\ FirstSpare = buffersToWrite[Kept] /\ FirstSpare \in Buffers
      /\ FirstSpare \in Range(buffersToWrite)
  BY <1>1 DEF FirstSpare, TypeOK, Range
<1>3. /\ SecondSpare \in Buffers /\ SecondSpare # FirstSpare
      /\ SecondSpare \in Range(buffersToWrite) \cup {newBuffer2}
  <2>1. CASE newBuffer2 = NoBuffer
    <3>1. SecondSpare = buffersToWrite[1] /\ FirstSpare = buffersToWrite[2]
      BY <1>1, <1>2, <2>1 DEF SecondSpare
    <3>2. DOMAIN buffersToWrite = 1 .. n
      BY DEF TypeOK
    <3>3. 1 \in DOMAIN buffersToWrite /\ 2 \in DOMAIN buffersToWrite
      BY <1>1, <2>1, <3>2
    <3>4. SecondSpare # FirstSpare
      BY <3>1, <3>3 DEF BufferOwnership, NoSharing
    <3>5. SecondSpare \in Range(buffersToWrite)
      BY <3>1, <3>3 DEF Range
    <3>6. Range(buffersToWrite) \subseteq Buffers
      BY <3>2 DEF Range, TypeOK
    <3> QED BY <3>4, <3>5, <3>6
  <2>2. CASE newBuffer2 # NoBuffer
    BY <1>2, <2>2 DEF SecondSpare, TypeOK, BufferOwnership
  <2> QED BY <2>1, <2>2
<1> QED BY <1>1, <1>2, <1>3

(* Refilling the spares takes buffers out of the batch and empties them.   *)
LEMMA Inv1Recycle == ASSUME Inv1, Recycle PROVE Inv1'
<1> USE DEF Inv1
<1>1. /\ UNCHANGED <<running, currentBuffer, nextBuffer, buffers, signalled,
                     stopper, lineCount, file, lost>>
      /\ pc = "write" /\ pc' = "test"
      /\ buffersToWrite' = <<>> /\ written' = 0 /\ flushed' = Len(file)
      /\ newBuffer1' = FirstSpare /\ newBuffer2' = SecondSpare
  BY DEF Recycle, shared, flush
<1>2. /\ newBuffer1 = NoBuffer
      /\ FirstSpare \in Buffers /\ FirstSpare \in Range(buffersToWrite)
      /\ SecondSpare \in Buffers /\ SecondSpare # FirstSpare
      /\ SecondSpare \in Range(buffersToWrite) \cup {newBuffer2}
  BY <1>1, RecycledSpares
<1>3. store' \in [Buffers -> [data : Seq(Nat), cur : Nat]]
  BY DEF Recycle, reset, EmptyBuffer, TypeOK
<1>4. TypeOK'
  <2>1. Len(file) \in Nat /\ <<>> \in Seq(Buffers)
    BY DEF TypeOK
  <2> QED BY <1>1, <1>2, <1>3, <2>1 DEF TypeOK
<1>5. BufferOwnership'
  BY <1>1, <1>2, EmptyRange DEF BufferOwnership, TypeOK
<1>6. Phases'
  BY <1>1, <1>2 DEF Phases
<1>7. SparesEmpty'
  <2>1. store'[FirstSpare] = EmptyBuffer
    BY <1>2 DEF Recycle, reset, BufferOwnership
  <2>2. store'[SecondSpare] = EmptyBuffer
    BY <1>2 DEF Recycle, reset, SparesEmpty, SecondSpare, TypeOK
  <2>3. nextBuffer # NoBuffer => store'[nextBuffer] = EmptyBuffer
    BY <1>2 DEF Recycle, SparesEmpty, BufferOwnership, TypeOK
  <2> QED BY <1>1, <2>1, <2>2, <2>3 DEF SparesEmpty
<1> QED BY <1>4, <1>5, <1>6, <1>7

(* The steps that hand no buffer around.                                   *)
LEMMA Inv1Others ==
  ASSUME Inv1, TestRunning \/ WaitForSeconds \/ Stop \/ UNCHANGED vars
  PROVE  Inv1'
<1>1. /\ UNCHANGED <<currentBuffer, nextBuffer, buffers, newBuffer1, newBuffer2,
                     buffersToWrite, written, store, lineCount, file, lost>>
      /\ running' \in BOOLEAN /\ signalled' \in BOOLEAN /\ flushed' \in Nat
      /\ stopper' \in {"idle", "notify", "join", "stopped"}
      /\ \/ pc' = pc
         \/ pc = "test" /\ pc' \in {"collect", "done"}
         \/ pc = "collect" /\ pc' = "waiting"
  <2> USE DEF Inv1, TypeOK, shared, spares, batch, outcome
  <2>1. CASE TestRunning
    <3>1. Len(file) \in Nat
      OBVIOUS
    <3> QED BY <2>1, <3>1 DEF TestRunning, flush
  <2>2. CASE WaitForSeconds
    BY <2>2 DEF WaitForSeconds
  <2>3. CASE Stop
    BY <2>3 DEF Stop, StopClear, StopNotify, StopJoin, notify
  <2>4. CASE UNCHANGED vars
    BY <2>4 DEF vars
  <2> QED BY <2>1, <2>2, <2>3, <2>4
<1>2. TypeOK'
  BY <1>1 DEF Inv1, TypeOK
<1>3. BufferOwnership' /\ SparesEmpty'
  BY <1>1 DEF Inv1, BufferOwnership, SparesEmpty
<1>4. Phases'
  BY <1>1 DEF Inv1, Phases, TypeOK
<1> QED BY <1>2, <1>3, <1>4 DEF Inv1

(* Ownership and the phases of the back end are inductive.                 *)
LEMMA Inv1Next == Inv1 /\ [Next]_vars => Inv1'
<1> SUFFICES ASSUME Inv1, [Next]_vars PROVE Inv1'
  OBVIOUS
<1>1. CASE FrontEnd
  BY <1>1, Inv1AppendFits, Inv1AppendSwitches DEF FrontEnd
<1>2. CASE Allocate
  BY <1>2, Inv1Allocate
<1>3. CASE CollectNow
  BY <1>3, Inv1Collect DEF CollectNow, Inv1, TypeOK
<1>4. ASSUME CollectSignalled \/ CollectTimeout PROVE Inv1'
  <2>1. buffers # <<>> \/ nextBuffer # NoBuffer
    BY DEF Inv1, Phases, TypeOK
  <2>2. pc = "waiting" /\ signalled' \in BOOLEAN /\ Collect
    BY <1>4 DEF CollectSignalled, CollectTimeout, Inv1, TypeOK
  <2> QED BY <2>1, <2>2, Inv1Collect
<1>5. CASE Trim
  BY <1>5, Inv1Trim
<1>6. CASE WriteBuffer
  BY <1>6, Inv1WriteBuffer
<1>7. CASE Recycle
  BY <1>7, Inv1Recycle
<1>8. CASE TestRunning \/ WaitForSeconds \/ Stop \/ Stopped \/ UNCHANGED vars
  BY <1>8, Inv1Others DEF Stopped
<1> QED BY <1>1, <1>2, <1>3, <1>4, <1>5, <1>6, <1>7, <1>8 DEF Next, BackEndStep

(* The variables keep their types, whatever the buffers, the line lengths  *)
(* and the number of lines.                                                *)
THEOREM TypeCorrect == Spec => []TypeOK
<1>1. Inv1 => TypeOK
  BY DEF Inv1
<1> QED BY <1>1, Inv1Init, Inv1Next, PTL DEF Spec

(* No buffer is in two places of the pipeline at once, so the reset() of a *)
(* recycled buffer outside mutex_ never touches one in use.                *)
THEOREM Ownership == Spec => []BufferOwnership
<1>1. Inv1 => BufferOwnership
  BY DEF Inv1
<1> QED BY <1>1, Inv1Init, Inv1Next, PTL DEF Spec

(* No assertion of threadFunc() fails.                                     *)
THEOREM AssertionsHold == Spec => []BackEndAsserts
<1>1. Inv1 => BackEndAsserts
  BY DEF Inv1, BackEndAsserts, Phases, SparesEmpty, EmptyBuffer, TypeOK
<1> QED BY <1>1, Inv1Init, Inv1Next, PTL DEF Spec

-----------------------------------------------------------------------------
(* Sequences of lines: a newer line behind, and one sequence behind an     *)
(* older one, keep the order.                                              *)
LEMMA AppendNewer ==
  ASSUME NEW s \in Seq(Nat), NEW n \in Nat, \A i \in DOMAIN s : s[i] < n
  PROVE  /\ Increasing(s) => Increasing(Append(s, n))
         /\ \A t \in Seq(Nat) :
              /\ Below(t, s)
              /\ \A i \in DOMAIN t : t[i] < n
              => Below(t, Append(s, n))
<1>1. /\ DOMAIN Append(s, n) = 1 .. Len(s) + 1 /\ DOMAIN s = 1 .. Len(s) /\ Len(s) \in Nat
      /\ \A i \in DOMAIN s : Append(s, n)[i] = s[i]
      /\ Append(s, n)[Len(s) + 1] = n
  OBVIOUS
<1>2. \A i \in DOMAIN Append(s, n) : i \in DOMAIN s \/ i = Len(s) + 1
  BY <1>1
<1>3. Increasing(s) => Increasing(Append(s, n))
  BY <1>1, <1>2, SMT DEF Increasing
<1>4. ASSUME NEW t \in Seq(Nat), Below(t, s), \A i \in DOMAIN t : t[i] < n
      PROVE  Below(t, Append(s, n))
  BY <1>1, <1>2, <1>4 DEF Below
<1> QED BY <1>3, <1>4

(* Two sequences in order, all of the first older than the second, are in  *)
(* order one after the other; and what is newer than both is newer than    *)
(* that.                                                                   *)
LEMMA ConcatOlder ==
  ASSUME NEW s \in Seq(Nat), NEW t \in Seq(Nat)
  PROVE  /\ Increasing(s) /\ Increasing(t) /\ Below(s, t) => Increasing(s \o t)
         /\ \A u \in Seq(Nat) : Below(s, u) /\ Below(t, u) => Below(s \o t, u)
<1> DEFINE c == s \o t
           m == Len(s)
           n == Len(t)
<1>1. /\ m \in Nat /\ n \in Nat
      /\ DOMAIN s = 1 .. m /\ DOMAIN t = 1 .. n /\ DOMAIN c = 1 .. m + n
  OBVIOUS
<1>2. /\ \A i \in 1 .. m : c[i] = s[i]
      /\ \A i \in m + 1 .. m + n : c[i] = t[i - m]
  <2>1. \A i \in 1 .. m + n : c[i] = IF i <= m THEN s[i] ELSE t[i - m]
    BY <1>1
  <2> HIDE DEF c, m, n
  <2> QED BY <1>1, <2>1
<1> HIDE DEF c, m, n
<1>3. \A i \in 1 .. m + n :
        i \in 1 .. m \/ (i \in m + 1 .. m + n /\ i - m \in 1 .. n)
  BY <1>1
<1>4. ASSUME Increasing(s), Increasing(t), Below(s, t) PROVE Increasing(c)
  <2> SUFFICES ASSUME NEW i \in 1 .. m + n, NEW j \in 1 .. m + n, i < j
               PROVE  c[i] < c[j]
    BY <1>1 DEF Increasing
  <2>1. CASE i \in 1 .. m /\ j \in 1 .. m
    BY <1>1, <1>2, <1>4, <2>1 DEF Increasing
  <2>2. CASE i \in 1 .. m /\ j \in m + 1 .. m + n /\ j - m \in 1 .. n
    BY <1>1, <1>2, <1>4, <2>2 DEF Below
  <2>3. CASE /\ i \in m + 1 .. m + n /\ i - m \in 1 .. n
             /\ j \in m + 1 .. m + n /\ j - m \in 1 .. n
    <3>1. i - m < j - m
      BY <1>1
    <3>2. t[i - m] < t[j - m]
      BY <1>1, <1>4, <2>3, <3>1 DEF Increasing
    <3> QED BY <1>2, <2>3, <3>2
  <2> QED BY <1>1, <1>3, <2>1, <2>2, <2>3
<1>5. ASSUME NEW u \in Seq(Nat), Below(s, u), Below(t, u) PROVE Below(c, u)
  <2> SUFFICES ASSUME NEW i \in 1 .. m + n, NEW j \in DOMAIN u PROVE c[i] < u[j]
    BY <1>1 DEF Below
  <2>1. CASE i \in 1 .. m
    BY <1>1, <1>2, <1>5, <2>1 DEF Below
  <2>2. CASE i \in m + 1 .. m + n /\ i - m \in 1 .. n
    BY <1>1, <1>2, <1>5, <2>2 DEF Below
  <2> QED BY <1>3, <2>1, <2>2
<1> QED BY <1>4, <1>5 DEF c

(* What s followed by t has at each place.                                 *)
LEMMA ConcatAt ==
  ASSUME NEW S, NEW s \in Seq(S), NEW t \in Seq(S)
  PROVE  /\ s \o t \in Seq(S) /\ Len(s \o t) = Len(s) + Len(t)
         /\ DOMAIN (s \o t) = 1 .. Len(s) + Len(t)
         /\ \A i \in 1 .. Len(s) + Len(t) :
              (s \o t)[i] = IF i <= Len(s) THEN s[i] ELSE t[i - Len(s)]
  OBVIOUS

(* What a batch's buffer adds to the file.                                 *)
LEMMA RangeConcat ==
  ASSUME NEW S, NEW s \in Seq(S), NEW t \in Seq(S)
  PROVE  Range(s \o t) = Range(s) \cup Range(t)
<1> DEFINE c == s \o t
           m == Len(s)
           n == Len(t)
<1>1. /\ m \in Nat /\ n \in Nat
      /\ DOMAIN s = 1 .. m /\ DOMAIN t = 1 .. n /\ DOMAIN c = 1 .. m + n
  OBVIOUS
<1>2. \A i \in 1 .. m + n : c[i] = IF i <= m THEN s[i] ELSE t[i - m]
  BY <1>1, ConcatAt
<1> HIDE DEF c, m, n
<1>3. /\ \A i \in 1 .. m : i \in 1 .. m + n /\ i <= m
      /\ \A i \in 1 .. m + n : i <= m => i \in 1 .. m
      /\ \A i \in 1 .. m + n : ~ (i <= m) => i - m \in 1 .. n
      /\ \A i \in 1 .. n : \E j \in 1 .. m + n : ~ (j <= m) /\ j - m = i
  <2>1. \A i \in 1 .. n : m + i \in 1 .. m + n /\ ~ (m + i <= m) /\ m + i - m = i
    BY <1>1
  <2> QED BY <1>1, <2>1
<1>4. /\ \A x : x \in Range(s) <=> \E i \in 1 .. m : x = s[i]
      /\ \A x : x \in Range(t) <=> \E i \in 1 .. n : x = t[i]
      /\ \A x : x \in Range(c) <=> \E i \in 1 .. m + n : x = c[i]
  BY <1>1 DEF Range
<1>5. ASSUME NEW x \in Range(c) PROVE x \in Range(s) \cup Range(t)
  <2>1. PICK i \in 1 .. m + n : x = c[i]
    BY <1>4, <1>5
  <2>2. CASE i <= m
    BY <1>2, <1>3, <1>4, <2>1, <2>2
  <2>3. CASE ~ (i <= m)
    BY <1>2, <1>3, <1>4, <2>1, <2>3
  <2> QED BY <2>2, <2>3
<1>6. ASSUME NEW x \in Range(s) PROVE x \in Range(c)
  <2>1. PICK i \in 1 .. m : x = s[i]
    BY <1>4, <1>6
  <2>2. i \in 1 .. m + n /\ c[i] = s[i]
    BY <1>2, <1>3
  <2> QED BY <1>4, <2>1, <2>2
<1>7. ASSUME NEW x \in Range(t) PROVE x \in Range(c)
  <2>1. PICK i \in 1 .. n : x = t[i]
    BY <1>4, <1>7
  <2>2. PICK j \in 1 .. m + n : ~ (j <= m) /\ j - m = i
    BY <1>3
  <2>3. c[j] = t[i]
    BY <1>2, <2>2
  <2> QED BY <1>4, <2>1, <2>3
<1> QED BY <1>5, <1>6, <1>7 DEF c

(* A vector is over any set that holds its elements.                       *)
LEMMA SeqOver ==
  ASSUME NEW T, NEW s \in Seq(T), NEW S, \A i \in DOMAIN s : s[i] \in S
  PROVE  s \in Seq(S)
<1>1. Len(s) \in Nat /\ DOMAIN s = 1 .. Len(s) /\ s = [i \in 1 .. Len(s) |-> s[i]]
  OBVIOUS
<1> QED BY <1>1

(* The elements of a concatenation.                                        *)
LEMMA ConcatOver ==
  ASSUME NEW S, NEW s \in Seq(S), NEW t \in Seq(S)
  PROVE  \A i \in DOMAIN (s \o t) : (s \o t)[i] \in S
<1>1. s \o t \in Seq(S)
  OBVIOUS
<1> DEFINE c == s \o t
<1> HIDE DEF c
<1>2. c \in Seq(S) => \A i \in DOMAIN c : c[i] \in S
  OBVIOUS
<1> QED BY <1>1, <1>2 DEF c

(* An empty buffer has no line that could be out of order.                 *)
LEMMA EmptyLines == \A t : Below(t, <<>>) /\ Below(<<>>, t) /\ Increasing(<<>>)
  BY SMT DEF Below, Increasing

(* Ownership and types by index, as the proofs about the order use them.   *)
LEMMA Members ==
  ASSUME TypeOK, BufferOwnership
  PROVE  /\ \A i \in 1 .. Len(buffers) :
              /\ buffers[i] \in Buffers /\ buffers[i] \in Range(buffers)
              /\ buffers[i] \notin {currentBuffer, nextBuffer, newBuffer1, newBuffer2}
         /\ \A i \in 1 .. Len(buffersToWrite) :
              /\ buffersToWrite[i] \in Buffers
              /\ buffersToWrite[i] \in Range(buffersToWrite)
              /\ buffersToWrite[i] \notin {currentBuffer, nextBuffer, newBuffer1, newBuffer2}
         /\ \A i \in written + 1 .. Len(buffersToWrite) : i \in 1 .. Len(buffersToWrite)
         /\ \A i \in 1 .. Len(buffers) : \A j \in i + 1 .. Len(buffers) :
              j \in 1 .. Len(buffers)
         /\ \A i \in 1 .. Len(buffersToWrite) : \A j \in i + 1 .. Len(buffersToWrite) :
              j \in 1 .. Len(buffersToWrite)
         /\ \A b \in Buffers : Data(store, b) \in Seq(Nat)
<1>1. \A i \in 1 .. Len(buffers) : buffers[i] \in Buffers /\ buffers[i] \in Range(buffers)
  BY DEF TypeOK, Range
<1>2. \A i \in 1 .. Len(buffersToWrite) :
        buffersToWrite[i] \in Buffers /\ buffersToWrite[i] \in Range(buffersToWrite)
  BY DEF TypeOK, Range
<1>3. \A b \in Buffers : Data(store, b) \in Seq(Nat)
  BY DEF TypeOK, Data
<1>4. /\ \A i \in written + 1 .. Len(buffersToWrite) : i \in 1 .. Len(buffersToWrite)
      /\ \A i \in 1 .. Len(buffers) : \A j \in i + 1 .. Len(buffers) :
           j \in 1 .. Len(buffers)
      /\ \A i \in 1 .. Len(buffersToWrite) : \A j \in i + 1 .. Len(buffersToWrite) :
           j \in 1 .. Len(buffersToWrite)
  <2>1. Len(buffers) \in Nat /\ Len(buffersToWrite) \in Nat /\ written \in Nat
    BY DEF TypeOK
  <2> QED BY <2>1
<1> QED BY <1>1, <1>2, <1>3, <1>4 DEF BufferOwnership

(* A step of append(): the line goes to the end of the pipeline, behind    *)
(* what the buffer that takes it held.                                     *)
LEMMA OrderAppendFits ==
  ASSUME Inv1, Order, NEW len \in LineLens, AppendFits(len) PROVE Order'
<1> DEFINE c == currentBuffer
           n == lineCount + 1
<1>1. TypeOK /\ BufferOwnership /\ c \in Buffers /\ lineCount \in Nat /\ n \in Nat
  BY DEF Inv1, TypeOK
<1>2. /\ lineCount' = n
      /\ UNCHANGED <<currentBuffer, nextBuffer, buffers, newBuffer1, newBuffer2,
                     buffersToWrite, written, file>>
  BY DEF AppendFits, LogLine, shared, spares, batch, outcome
<1>3. Data(store', c) = Append(Data(store, c), n)
  BY <1>1, <1>2 DEF AppendFits, HasRoom, append, Fits, TypeOK, Data
<1>4. \A b \in Buffers : b # c => Data(store', b) = Data(store, b)
  BY <1>1 DEF AppendFits, TypeOK, Data
<1> HIDE DEF n, c
<1>5. \A b \in Buffers : Data(store, b) \in Seq(Nat) /\ \A i \in DOMAIN Data(store, b) : Data(store, b)[i] < n
  <2>1. \A i \in 1 .. lineCount : i < n
    BY <1>1 DEF n
  <2> QED BY <1>1, <2>1, Members DEF Order, LinesLogged
<1>6. file \in Seq(Nat) /\ \A i \in DOMAIN file : file[i] < n
  <2>1. \A i \in 1 .. lineCount : i < n
    BY <1>1 DEF n
  <2> QED BY <1>1, <2>1 DEF Order, LinesLogged, TypeOK
<1>7. \A b \in Buffers : b # c /\ Older(store, b, c) => Older(store', b, c)
  <2> SUFFICES ASSUME NEW b \in Buffers, b # c, Older(store, b, c) PROVE Older(store', b, c)
    OBVIOUS
  <2>1. Below(Data(store, b), Append(Data(store, c), n))
    BY <1>1, <1>5, AppendNewer DEF Older
  <2> QED BY <1>3, <1>4, <2>1 DEF Older
<1>8. \A a, b \in Buffers : a # c /\ b # c /\ Older(store, a, b) => Older(store', a, b)
  BY <1>4 DEF Older
<1>9. /\ \A i \in 1 .. Len(buffers) : buffers[i] \in Buffers /\ buffers[i] # c
      /\ \A i \in 1 .. Len(buffersToWrite) :
           buffersToWrite[i] \in Buffers /\ buffersToWrite[i] # c
  BY <1>1, Members DEF c
<1>10. LinesLogged'
  <2>1. Increasing(Append(Data(store, c), n))
    BY <1>1, <1>5, AppendNewer DEF Order, LinesLogged
  <2>2. \A i \in DOMAIN Append(Data(store, c), n) : Append(Data(store, c), n)[i] \in 1 .. n
    <3>1. \A i \in DOMAIN Data(store, c) : Data(store, c)[i] \in 1 .. n
      BY <1>1 DEF Order, LinesLogged, n
    <3> QED BY <1>1, <1>5, <3>1 DEF n
  <2>3. \A i \in 1 .. lineCount : i \in 1 .. n
    BY <1>1 DEF n
  <2> QED BY <1>1, <1>2, <1>3, <1>4, <2>1, <2>2, <2>3 DEF Order, LinesLogged
<1>11. FileOldest'
  <2>1. Below(file, Append(Data(store, c), n))
    BY <1>1, <1>5, <1>6, AppendNewer DEF Order, FileOldest, c
  <2> QED BY <1>1, <1>2, <1>3, <1>4, <1>9, <2>1, Members DEF Order, FileOldest, c
<1>12. BatchInOrder'
  BY <1>1, <1>2, <1>7, <1>8, <1>9, Members DEF Order, BatchInOrder, c
<1>13. QueueInOrder'
  BY <1>1, <1>2, <1>7, <1>8, <1>9, Members DEF Order, QueueInOrder, c
<1> QED BY <1>10, <1>11, <1>12, <1>13 DEF Order

(* It is empty when it takes over, and gets the new line.                  *)
LEMMA ReplacementLine ==
  ASSUME Inv1, NEW len \in LineLens, AppendSwitches(len)
  PROVE  Data(store', Replacement) = <<lineCount + 1>>
<1> DEFINE r == Replacement
           n == lineCount + 1
<1>1. /\ store \in [Buffers -> [data : Seq(Nat), cur : Nat]]
      /\ n \in Nat /\ lineCount' = n /\ r \in Buffers
  <2>1. r \in Buffers
    BY ReplacementUnused
  <2> QED BY <2>1 DEF Inv1, TypeOK, AppendSwitches, LogLine
<1>2. (IF nextBuffer = NoBuffer THEN EmptyBuffer ELSE store[r]) = EmptyBuffer
  BY DEF Replacement, Inv1, SparesEmpty
<1>3. Fits(EmptyBuffer, len)
  BY LineLensAssumption, BufferSizeAssumption DEF Fits, avail, EmptyBuffer
<1>4. append(EmptyBuffer, n, len).data = <<n>>
  BY <1>3 DEF append, EmptyBuffer
<1> QED BY <1>1, <1>2, <1>4 DEF AppendSwitches, Data

(* append() with a full current buffer: the queue grows at its newer end,  *)
(* and the new line is the only one of the buffer that takes over.         *)
LEMMA OrderAppendSwitches ==
  ASSUME Inv1, Order, NEW len \in LineLens, AppendSwitches(len) PROVE Order'
<1> DEFINE c == currentBuffer
           r == Replacement
           n == lineCount + 1
           k == Len(buffers)
<1>1. TypeOK /\ BufferOwnership /\ c \in Buffers /\ lineCount \in Nat /\ n \in Nat /\ k \in Nat
  BY DEF Inv1, TypeOK
<1>2. /\ lineCount' = n /\ currentBuffer' = r
      /\ UNCHANGED <<buffersToWrite, written, file>>
  BY DEF AppendSwitches, LogLine, spares, batch, outcome
<1>3. /\ r \in Buffers /\ r # c
      /\ r \notin Range(buffers) \cup Range(buffersToWrite)
  BY ReplacementUnused
<1>4. Data(store', r) = <<n>>
  BY ReplacementLine
<1>5. \A b \in Buffers : b # r => Data(store', b) = Data(store, b)
  BY <1>1, <1>3 DEF AppendSwitches, TypeOK, Data
<1>6. /\ Len(buffers') = k + 1 /\ buffers'[k + 1] = c
      /\ \A i \in 1 .. k : buffers'[i] = buffers[i]
  BY <1>1 DEF AppendSwitches, TypeOK
<1> HIDE DEF n, c, r, k
<1>7. \A i \in 1 .. lineCount : i < n /\ i \in 1 .. n
  BY <1>1 DEF n
<1>8. \A b \in Buffers : b # r => Older(store', b, r)
  <2>1. \A b \in Buffers : \A i \in DOMAIN Data(store, b) : Data(store, b)[i] < n
    BY <1>7 DEF Order, LinesLogged
  <2> QED BY <1>1, <1>4, <1>5, <2>1 DEF Older, Below
<1>9. Below(file, Data(store', r))
  <2>1. \A i \in DOMAIN file : file[i] < n
    BY <1>7 DEF Order, LinesLogged
  <2> QED BY <1>1, <1>4, <2>1 DEF Below
<1>10. \A a, b \in Buffers : a # r /\ b # r /\ Older(store, a, b) => Older(store', a, b)
  BY <1>5 DEF Older
<1>11. /\ \A i \in 1 .. k : buffers[i] \in Buffers /\ buffers[i] # r
       /\ \A i \in 1 .. Len(buffersToWrite) :
            buffersToWrite[i] \in Buffers /\ buffersToWrite[i] # r
  BY <1>1, <1>3, Members DEF k
<1>12. \A i \in 1 .. k + 1 : i \in 1 .. k \/ i = k + 1
  BY <1>1
<1>13. LinesLogged'
  <2>1. Increasing(<<n>>) /\ \A i \in DOMAIN <<n>> : <<n>>[i] \in 1 .. n
    BY <1>1 DEF Increasing, n
  <2>2. \A i \in DOMAIN file : file[i] \in 1 .. n
    BY <1>7 DEF Order, LinesLogged
  <2>3. \A b \in Buffers : /\ Increasing(Data(store', b))
                          /\ \A i \in DOMAIN Data(store', b) : Data(store', b)[i] \in 1 .. n
    BY <1>4, <1>5, <1>7, <2>1 DEF Order, LinesLogged
  <2> QED BY <1>2, <2>2, <2>3 DEF Order, LinesLogged
<1>14. FileOldest'
  <2>1. \A i \in 1 .. k + 1 : Below(file, Data(store', buffers'[i]))
    BY <1>1, <1>3, <1>5, <1>6, <1>11, <1>12 DEF Order, FileOldest, c, k
  <2> QED BY <1>1, <1>2, <1>3, <1>5, <1>6, <1>9, <1>11, <2>1, Members
      DEF Order, FileOldest
<1>15. BatchInOrder'
  <2> SUFFICES ASSUME NEW i \in written + 1 .. Len(buffersToWrite)
               PROVE  /\ \A j \in i + 1 .. Len(buffersToWrite) :
                           Older(store', buffersToWrite[i], buffersToWrite[j])
                      /\ \A j \in 1 .. k + 1 : Older(store', buffersToWrite[i], buffers'[j])
                      /\ Older(store', buffersToWrite[i], r)
    BY <1>2, <1>6 DEF BatchInOrder
  <2>1. i \in 1 .. Len(buffersToWrite) /\ buffersToWrite[i] \in Buffers /\ buffersToWrite[i] # r
    BY <1>1, <1>11, Members
  <2>2. \A j \in i + 1 .. Len(buffersToWrite) :
          Older(store', buffersToWrite[i], buffersToWrite[j])
    BY <1>1, <1>10, <1>11, <2>1, Members DEF Order, BatchInOrder
  <2>3. \A j \in 1 .. k + 1 : Older(store', buffersToWrite[i], buffers'[j])
    BY <1>1, <1>3, <1>6, <1>10, <1>11, <1>12, <2>1 DEF Order, BatchInOrder, c, k
  <2> QED BY <1>8, <2>1, <2>2, <2>3
<1>16. QueueInOrder'
  <2> SUFFICES ASSUME NEW i \in 1 .. k + 1
               PROVE  /\ \A j \in i + 1 .. k + 1 : Older(store', buffers'[i], buffers'[j])
                      /\ Older(store', buffers'[i], r)
    BY <1>2, <1>6 DEF QueueInOrder
  <2>1. CASE i \in 1 .. k
    <3>1. \A j \in i + 1 .. k + 1 : j \in i + 1 .. k \/ j = k + 1
      BY <1>1
    <3>2. \A j \in i + 1 .. k : j \in 1 .. k
      BY <1>1, <2>1
    <3> QED BY <1>1, <1>3, <1>6, <1>8, <1>10, <1>11, <2>1, <3>1, <3>2
        DEF Order, QueueInOrder, c, k
  <2>2. CASE i = k + 1
    <3>1. \A j \in i + 1 .. k + 1 : FALSE
      BY <1>1, <2>2
    <3> QED BY <1>1, <1>3, <1>6, <1>8, <2>2, <3>1
  <2> QED BY <1>12, <2>1, <2>2
<1> QED BY <1>13, <1>14, <1>15, <1>16 DEF Order

(* The back end comes to the collecting block with nothing to write and an *)
(* empty spare to give away.                                               *)
LEMMA SparesAtHand ==
  ASSUME Inv1, pc \in {"collect", "waiting"}
  PROVE  /\ buffersToWrite = <<>> /\ written = 0
         /\ newBuffer1 # NoBuffer /\ Data(store, newBuffer1) = <<>>
<1>1. buffersToWrite = <<>> /\ written = 0 /\ newBuffer1 # NoBuffer
  BY DEF Inv1, Phases
<1>2. store[newBuffer1] = EmptyBuffer
  BY <1>1 DEF Inv1, SparesEmpty
<1> QED BY <1>1, <1>2 DEF EmptyBuffer, Data

(* The collecting block moves the whole queue into the batch.              *)
LEMMA OrderCollect ==
  ASSUME Inv1, Order, pc \in {"collect", "waiting"}, Collect PROVE Order'
<1> DEFINE c == currentBuffer
           k == Len(buffers)
<1>1. /\ TypeOK /\ BufferOwnership /\ c \in Buffers /\ k \in Nat
      /\ newBuffer1 \in Buffers /\ Data(store, newBuffer1) = <<>>
      /\ buffersToWrite = <<>>
  <2>1. TypeOK /\ BufferOwnership
    BY DEF Inv1
  <2>2. c \in Buffers /\ k \in Nat /\ newBuffer1 \in Buffers \cup {NoBuffer}
    BY <2>1 DEF TypeOK
  <2> QED BY <2>1, <2>2, SparesAtHand
<1>2. /\ buffers' = <<>> /\ currentBuffer' = newBuffer1 /\ written' = 0
      /\ UNCHANGED <<store, file, lineCount>>
  BY <1>1 DEF Collect, outcome
<1>3. /\ Len(buffersToWrite') = k + 1 /\ buffersToWrite'[k + 1] = c
      /\ \A i \in 1 .. k : buffersToWrite'[i] = buffers[i]
  BY <1>1 DEF Collect, Queued, TypeOK
<1>4. Len(buffers') = 0 /\ (\A i \in 1 .. 0 : FALSE) /\ 0 + 1 = 1
  BY <1>2
<1> HIDE DEF c, k
<1>5. \A i \in 1 .. k + 1 : i \in 1 .. k \/ i = k + 1
  BY <1>1
<1>6. \A t : Below(t, Data(store, newBuffer1))
  BY <1>1, EmptyLines
<1>7. LinesLogged'
  BY <1>2 DEF Order, LinesLogged
<1>8. FileOldest'
  <2>1. \A i \in 1 .. k + 1 : Below(file, Data(store, buffersToWrite'[i]))
    BY <1>3, <1>5 DEF Order, FileOldest, c, k
  <2> QED BY <1>2, <1>3, <1>4, <1>6, <2>1 DEF FileOldest
<1>9. BatchInOrder'
  <2> SUFFICES ASSUME NEW i \in 1 .. k + 1
               PROVE  \A j \in i + 1 .. k + 1 :
                        Older(store, buffersToWrite'[i], buffersToWrite'[j])
    BY <1>2, <1>3, <1>4, <1>6 DEF BatchInOrder, Older
  <2>1. CASE i \in 1 .. k
    <3>1. \A j \in i + 1 .. k + 1 : (j \in i + 1 .. k /\ j \in 1 .. k) \/ j = k + 1
      BY <1>1
    <3> QED BY <1>3, <2>1, <3>1 DEF Order, QueueInOrder, c, k
  <2>2. CASE i = k + 1
    <3>1. \A j \in i + 1 .. k + 1 : FALSE
      BY <1>1, <2>2
    <3> QED BY <3>1
  <2> QED BY <1>5, <2>1, <2>2
<1>10. QueueInOrder'
  BY <1>4 DEF QueueInOrder
<1> QED BY <1>7, <1>8, <1>9, <1>10 DEF Order

(* Dropping a backlog takes the newer part of the batch out.               *)
LEMMA OrderTrim == ASSUME Inv1, Order, Trim PROVE Order'
<1>1. UNCHANGED <<currentBuffer, buffers, written, store, file, lineCount>>
  BY DEF Trim, shared
<1>2. CASE ~ Backlogged
  <2>1. UNCHANGED buffersToWrite
    BY <1>2 DEF Trim
  <2> QED BY <1>1, <2>1 DEF Order, LinesLogged, FileOldest, BatchInOrder, QueueInOrder
<1>3. CASE Backlogged
  <2>1. /\ Len(buffersToWrite) >= 2 /\ Len(buffersToWrite) \in Nat
        /\ buffersToWrite \in Seq(Buffers) /\ written \in Nat
    BY <1>3, MaxBacklogAssumption DEF Backlogged, Inv1, TypeOK
  <2>2. buffersToWrite' = SubSeq(buffersToWrite, 1, 2)
    BY <1>3 DEF Trim
  <2>3. /\ Len(buffersToWrite') = 2
        /\ buffersToWrite'[1] = buffersToWrite[1] /\ buffersToWrite'[2] = buffersToWrite[2]
    BY <2>1, <2>2, FirstTwo
  <2>4. /\ \A i \in written + 1 .. 2 :
             /\ i \in written + 1 .. Len(buffersToWrite)
             /\ buffersToWrite'[i] = buffersToWrite[i]
        /\ \A i \in written + 1 .. 2 : \A j \in i + 1 .. 2 :
             /\ j \in i + 1 .. Len(buffersToWrite)
             /\ buffersToWrite'[j] = buffersToWrite[j]
    <3>1. /\ \A i \in written + 1 .. 2 :
               i \in written + 1 .. Len(buffersToWrite) /\ (i = 1 \/ i = 2)
          /\ \A i \in written + 1 .. 2 : \A j \in i + 1 .. 2 :
               j \in i + 1 .. Len(buffersToWrite) /\ (j = 1 \/ j = 2)
      BY <2>1
    <3> QED BY <2>3, <3>1
  <2>5. LinesLogged' /\ QueueInOrder'
    BY <1>1 DEF Order, LinesLogged, QueueInOrder
  <2>6. FileOldest'
    BY <1>1, <2>3, <2>4 DEF Order, FileOldest
  <2>7. BatchInOrder'
    BY <1>1, <2>3, <2>4 DEF Order, BatchInOrder
  <2> QED BY <2>5, <2>6, <2>7 DEF Order
<1> QED BY <1>2, <1>3

(* The oldest buffer of the batch goes to the end of the file.             *)
LEMMA OrderWriteBuffer == ASSUME Inv1, Order, WriteBuffer PROVE Order'
<1> DEFINE b == buffersToWrite[written + 1]
           m == Len(buffersToWrite)
<1>1. /\ TypeOK /\ BufferOwnership /\ file \in Seq(Nat) /\ currentBuffer \in Buffers
      /\ written \in Nat /\ m \in Nat /\ written + 1 \in written + 1 .. m
      /\ b \in Buffers /\ Data(store, b) \in Seq(Nat)
  <2>1. TypeOK /\ BufferOwnership
    BY DEF Inv1
  <2>2. /\ file \in Seq(Nat) /\ currentBuffer \in Buffers /\ written \in Nat
        /\ buffersToWrite \in Seq(Buffers) /\ m \in Nat
    BY <2>1 DEF TypeOK
  <2>3. written + 1 \in written + 1 .. m /\ written + 1 \in 1 .. m
    BY <2>2 DEF WriteBuffer
  <2> QED BY <2>1, <2>2, <2>3, Members
<1>2. /\ UNCHANGED <<currentBuffer, buffers, buffersToWrite, store, lineCount>>
      /\ file' = file \o Data(store, b) /\ written' = written + 1
  BY DEF WriteBuffer, shared, Data
<1>3. \A i \in written + 1 + 1 .. m : i \in written + 1 .. m
  BY <1>1
<1>4. Below(file, Data(store, b))
  BY <1>1 DEF Order, FileOldest
<1>5. \A a \in Buffers : Below(file, Data(store, a)) /\ Older(store, b, a)
                          => Below(file', Data(store, a))
  BY <1>1, <1>2, ConcatOlder, Members DEF Older
<1>6. LinesLogged'
  <2>1. Increasing(file')
    BY <1>1, <1>2, <1>4, ConcatOlder DEF Order, LinesLogged
  <2>2. \A i \in DOMAIN file' : file'[i] \in 1 .. lineCount
    <3>1. /\ file \in Seq(1 .. lineCount)
          /\ Data(store, b) \in Seq(1 .. lineCount)
      BY <1>1, SeqOver DEF Order, LinesLogged
    <3> QED BY <1>2, <3>1, ConcatOver
  <2> QED BY <1>2, <2>1, <2>2 DEF Order, LinesLogged
<1>7. FileOldest'
  <2>1. \A i \in written + 1 + 1 .. m : Below(file', Data(store, buffersToWrite[i]))
    BY <1>1, <1>3, <1>5, Members DEF Order, FileOldest, BatchInOrder
  <2>2. \A i \in 1 .. Len(buffers) : Below(file', Data(store, buffers[i]))
    BY <1>1, <1>5, Members DEF Order, FileOldest, BatchInOrder
  <2>3. Below(file', Data(store, currentBuffer))
    BY <1>1, <1>5 DEF Order, FileOldest, BatchInOrder
  <2> QED BY <1>2, <2>1, <2>2, <2>3 DEF FileOldest
<1>8. BatchInOrder'
  BY <1>2, <1>3 DEF Order, BatchInOrder
<1>9. QueueInOrder'
  BY <1>2 DEF Order, QueueInOrder
<1> QED BY <1>6, <1>7, <1>8, <1>9 DEF Order

(* The pipeline keeps its order when a buffer is emptied, or the batch     *)
(* cleared, as Allocate and Recycle do.                                    *)
LEMMA OrderKept ==
  ASSUME Inv1, Order, UNCHANGED <<currentBuffer, buffers, file, lineCount>>,
         \/ UNCHANGED <<buffersToWrite, written>>
         \/ buffersToWrite' = <<>> /\ written' = 0,
         \A b \in Buffers : Data(store', b) \in {Data(store, b), <<>>}
  PROVE  Order'
<1>1. TypeOK /\ BufferOwnership /\ currentBuffer \in Buffers
  BY DEF Inv1, TypeOK
<1>2. \A a, b \in Buffers : Older(store, a, b) => Older(store', a, b)
  BY EmptyLines DEF Older
<1>3. \A b \in Buffers : Below(file, Data(store, b)) => Below(file, Data(store', b))
  BY EmptyLines
<1>4. LinesLogged'
  <2>1. DOMAIN <<>> = {}
    OBVIOUS
  <2> QED BY <2>1, EmptyLines DEF Order, LinesLogged
<1>5. QueueInOrder'
  BY <1>1, <1>2, Members DEF Order, QueueInOrder
<1>6. CASE UNCHANGED <<buffersToWrite, written>>
  <2>1. FileOldest'
    BY <1>1, <1>3, <1>6, Members DEF Order, FileOldest
  <2>2. BatchInOrder'
    BY <1>1, <1>2, <1>6, Members DEF Order, BatchInOrder
  <2> QED BY <1>4, <1>5, <2>1, <2>2 DEF Order
<1>7. CASE buffersToWrite' = <<>> /\ written' = 0
  <2>1. Len(buffersToWrite') = 0 /\ \A i \in 0 + 1 .. 0 : FALSE
    BY <1>7
  <2>2. FileOldest'
    BY <1>1, <1>3, <1>7, <2>1, Members DEF Order, FileOldest
  <2>3. BatchInOrder'
    BY <1>7, <2>1 DEF BatchInOrder
  <2> QED BY <1>4, <1>5, <2>2, <2>3 DEF Order
<1> QED BY <1>6, <1>7

(* The steps that empty buffers outside of the pipeline, and nothing else. *)
LEMMA OrderOthers ==
  ASSUME Inv1, Order,
         \/ Allocate \/ Recycle \/ TestRunning \/ WaitForSeconds \/ Stop
         \/ UNCHANGED vars
  PROVE  Order'
<1> USE DEF shared, spares, batch, outcome
<1>1. store \in [Buffers -> [data : Seq(Nat), cur : Nat]]
  BY DEF Inv1, TypeOK
<1>2. CASE Allocate
  BY <1>1, <1>2, OrderKept DEF Allocate, EmptyBuffer, Data
<1>3. CASE Recycle
  BY <1>1, <1>3, OrderKept DEF Recycle, reset, EmptyBuffer, Data
<1>4. CASE TestRunning \/ WaitForSeconds \/ Stop \/ UNCHANGED vars
  <2>1. UNCHANGED <<currentBuffer, buffers, buffersToWrite, written, store, file, lineCount>>
    BY <1>4 DEF TestRunning, WaitForSeconds, Stop, StopClear, StopNotify, StopJoin, vars
  <2> QED BY <2>1, OrderKept DEF Data
<1> QED BY <1>2, <1>3, <1>4

(* The order from the file to the current buffer is inductive.             *)
LEMMA OrderNext == Inv1 /\ Order /\ [Next]_vars => Order'
<1> SUFFICES ASSUME Inv1, Order, [Next]_vars PROVE Order'
  OBVIOUS
<1>1. CASE FrontEnd
  BY <1>1, OrderAppendFits, OrderAppendSwitches DEF FrontEnd
<1>2. CASE CollectNow \/ CollectSignalled \/ CollectTimeout
  BY <1>2, OrderCollect DEF CollectNow, CollectSignalled, CollectTimeout
<1>3. CASE Trim
  BY <1>3, OrderTrim
<1>4. CASE WriteBuffer
  BY <1>4, OrderWriteBuffer
<1>5. CASE \/ Allocate \/ Recycle \/ TestRunning \/ WaitForSeconds \/ Stop \/ Stopped
           \/ UNCHANGED vars
  BY <1>5, OrderOthers DEF Stopped
<1> QED BY <1>1, <1>2, <1>3, <1>4, <1>5 DEF Next, BackEndStep

(* No line has been logged yet.                                            *)
LEMMA OrderInit == Init => Order
<1> SUFFICES ASSUME Init PROVE Order
  OBVIOUS
<1>1. /\ file = <<>> /\ lineCount = 0 /\ buffers = <<>> /\ buffersToWrite = <<>>
      /\ written = 0
      /\ \A b \in Buffers : Data(store, b) = <<>>
      /\ currentBuffer \in Buffers
  BY Inv1Init DEF Init, EmptyBuffer, Data, Inv1, TypeOK
<1>2. Len(<<>>) = 0 /\ (\A i \in 1 .. 0 : FALSE) /\ 0 + 1 = 1 /\ DOMAIN <<>> = {}
  OBVIOUS
<1>3. LinesLogged
  BY <1>1, <1>2, EmptyLines DEF LinesLogged
<1>4. FileOldest /\ BatchInOrder /\ QueueInOrder
  BY <1>1, <1>2, EmptyLines DEF FileOldest, BatchInOrder, QueueInOrder
<1> QED BY <1>3, <1>4 DEF Order

(* The log file gets each line at most once, in the order of the append()  *)
(* calls, for any number of front-end threads and buffers.                 *)
THEOREM InOrder == Spec => []FileInOrder
<1>1. Order => FileInOrder
  BY DEF Order, LinesLogged, FileInOrder
<1> QED BY <1>1, Inv1Init, Inv1Next, OrderInit, OrderNext, PTL DEF Spec

-----------------------------------------------------------------------------
(* Settled: what the file got is flushed whenever the batch is done with.  *)
(* Here the vectors of the code are not looked into at all.                *)
LEMMA SettledNext == Inv1 /\ Settled /\ [Next]_vars => Settled'
<1> SUFFICES ASSUME Inv1, Settled, [Next]_vars PROVE Settled'
  OBVIOUS
<1> USE DEF Settled, outcome
<1>1. CASE FrontEnd
  BY <1>1 DEF FrontEnd, AppendFits, AppendSwitches
<1>2. CASE Allocate
  BY <1>2 DEF Allocate
<1>3. CASE TestRunning
  BY <1>3 DEF TestRunning, flush
<1>4. CASE CollectNow \/ CollectSignalled \/ CollectTimeout
  BY <1>4 DEF CollectNow, CollectSignalled, CollectTimeout, Collect
<1>5. CASE WaitForSeconds
  BY <1>5 DEF WaitForSeconds
<1>6. CASE Trim \/ WriteBuffer
  BY <1>6 DEF Trim, WriteBuffer
<1>7. CASE Recycle
  BY <1>7 DEF Recycle, flush
<1>8. CASE Stop \/ Stopped \/ UNCHANGED vars
  BY <1>8 DEF Stop, StopClear, StopNotify, StopJoin, Stopped, vars
<1> QED BY <1>1, <1>2, <1>3, <1>4, <1>5, <1>6, <1>7, <1>8 DEF Next, BackEndStep

(* The back end never goes to sleep, nor ends, with unflushed lines.       *)
THEOREM Flushed == Spec => []FlushedBeforeSleep
<1>1. Init => Settled
  BY DEF Init, Settled
<1>2. Settled => FlushedBeforeSleep
  BY DEF Settled, FlushedBeforeSleep
<1> QED BY <1>1, <1>2, Inv1Init, Inv1Next, SettledNext, PTL DEF Spec

-----------------------------------------------------------------------------
(* Line n is in a buffer on its way to the file: in the batch bt behind    *)
(* the first w buffers, in the queue bs, or in the current buffer c.       *)
Held(st, bt, w, bs, c, n) ==
  \/ \E i \in w + 1 .. Len(bt) : n \in Range(Data(st, bt[i]))
  \/ \E i \in 1 .. Len(bs) : n \in Range(Data(st, bs[i]))
  \/ n \in Range(Data(st, c))

InPipeline(n)  == Held(store, buffersToWrite, written, buffers, currentBuffer, n)
InPipeline1(n) == Held(store', buffersToWrite', written', buffers', currentBuffer', n)

(* EveryLineAccounted, with the pipeline by index.                         *)
Accounted ==
  \A n :
    /\ n \in 1 .. lineCount <=> n \in Range(file) \/ n \in lost \/ InPipeline(n)
    /\ ~ (n \in Range(file) /\ n \in lost)
    /\ ~ (n \in Range(file) /\ InPipeline(n))
    /\ ~ (n \in lost /\ InPipeline(n))

(* The lines in the pipeline are those of the unwritten part of the batch, *)
(* of the queue and of the current buffer.                                 *)
LEMMA PipelineLines ==
  ASSUME TypeOK, written <= Len(buffersToWrite)
  PROVE  \A n : n \in LinesIn(Pipeline) <=> InPipeline(n)
<1> DEFINE m == Len(buffersToWrite)
           k == Len(buffers)
           u == m - written
           U == Unwritten
           L(b) == Range(Data(store, b))
<1>1. /\ m \in Nat /\ k \in Nat /\ u \in Nat /\ written \in Nat
      /\ currentBuffer \in Buffers /\ buffers \in Seq(Buffers)
  BY DEF TypeOK
<1>2. /\ U \in Seq(Buffers) /\ Len(U) = u
      /\ \A i \in 1 .. u : U[i] = buffersToWrite[written + i]
  <2>1. buffersToWrite \in Seq(Buffers) /\ \A i \in 1 .. m : buffersToWrite[i] \in Buffers
    BY <1>1 DEF TypeOK
  <2>2. /\ written + 1 \in Int /\ written + 1 <= m + 1 /\ written + 1 >= 1
        /\ m - (written + 1) + 1 = u
        /\ \A i \in written + 1 .. m : i \in 1 .. m
    BY <1>1
  <2> HIDE DEF m
  <2>3. /\ U \in Seq(Buffers)
        /\ Len(U) = IF written + 1 <= m THEN m - (written + 1) + 1 ELSE 0
        /\ \A i \in 1 .. m - (written + 1) + 1 : U[i] = buffersToWrite[written + 1 + i - 1]
    BY <1>1, <2>1, <2>2, SubSeqProperties DEF Unwritten, m
  <2>4. Len(U) = u
    BY <1>1, <2>2, <2>3
  <2>5. \A i \in 1 .. u : written + 1 + i - 1 = written + i
    BY <1>1
  <2> QED BY <2>2, <2>3, <2>4, <2>5
<1>3. /\ Len(Pipeline) = u + k + 1 /\ DOMAIN Pipeline = 1 .. u + k + 1
      /\ \A i \in 1 .. u : Pipeline[i] = buffersToWrite[written + i]
      /\ \A i \in 1 .. k : Pipeline[u + i] = buffers[i]
      /\ Pipeline[u + k + 1] = currentBuffer
  <2> HIDE DEF U, u
  <2>1. U \o buffers \in Seq(Buffers) /\ Len(U \o buffers) = u + k
    BY <1>1, <1>2, ConcatAt
  <2>2. \A i \in 1 .. u + k : (U \o buffers)[i] = IF i <= u THEN U[i] ELSE buffers[i - u]
    BY <1>1, <1>2, ConcatAt
  <2> DEFINE c == U \o buffers
             d == u + k
  <2>3. /\ Len(Pipeline) = u + k + 1 /\ DOMAIN Pipeline = 1 .. u + k + 1
        /\ \A i \in 1 .. u + k : Pipeline[i] = c[i]
        /\ Pipeline[u + k + 1] = currentBuffer
    <3>1. c \in Seq(Buffers) /\ Len(c) = d /\ Pipeline = c \o <<currentBuffer>> /\ d \in Nat
      BY <1>1, <2>1 DEF Pipeline, U
    <3> HIDE DEF c, d
    <3>2. /\ Len(Pipeline) = d + 1 /\ DOMAIN Pipeline = 1 .. d + 1
          /\ \A i \in 1 .. d : Pipeline[i] = c[i]
          /\ Pipeline[d + 1] = currentBuffer
      <4>1. /\ <<currentBuffer>> \in Seq(Buffers) /\ Len(<<currentBuffer>>) = 1
            /\ <<currentBuffer>>[1] = currentBuffer
        BY <1>1
      <4>2. \A i \in 1 .. d + 1 :
              Pipeline[i] = IF i <= d THEN c[i] ELSE <<currentBuffer>>[i - d]
        BY <3>1, <4>1, ConcatAt
      <4>3. Len(Pipeline) = d + 1 /\ DOMAIN Pipeline = 1 .. d + 1
        BY <3>1, <4>1, ConcatAt
      <4>4. d + 1 \in 1 .. d + 1 /\ ~ (d + 1 <= d) /\ d + 1 - d = 1
        BY <3>1
      <4>5. \A i \in 1 .. d : i \in 1 .. d + 1 /\ i <= d
        BY <3>1
      <4>6. Pipeline[d + 1] = <<currentBuffer>>[1]
        BY <3>1, <4>2, <4>4
      <4>7. \A i \in 1 .. d : Pipeline[i] = c[i]
        BY <4>2, <4>5
      <4> QED BY <4>1, <4>3, <4>6, <4>7
    <3> QED BY <3>2 DEF d
  <2>5. \A i \in 1 .. u : i \in 1 .. u + k /\ i <= u
    BY <1>1
  <2>6. \A i \in 1 .. k : u + i \in 1 .. u + k /\ ~ (u + i <= u) /\ u + i - u = i
    BY <1>1
  <2>7. \A i \in 1 .. u : Pipeline[i] = U[i]
    BY <2>2, <2>3, <2>5
  <2>8. \A i \in 1 .. k : Pipeline[u + i] = buffers[i]
    <3> SUFFICES ASSUME NEW i \in 1 .. k, NEW j \in 1 .. u + k, ~ (j <= u), j - u = i
                 PROVE  Pipeline[j] = buffers[i]
      BY <1>1, <2>6
    <3> QED BY <2>2, <2>3
  <2> QED BY <1>2, <2>3, <2>7, <2>8
<1>4. \A n : n \in LinesIn(Pipeline) <=> \E j \in 1 .. u + k + 1 : n \in L(Pipeline[j])
  BY <1>3 DEF LinesIn, LinesOf, Data
<1> HIDE DEF u, k, m, L, U
<1>5. \A j \in 1 .. u + k + 1 :
        j \in 1 .. u \/ (j - u \in 1 .. k /\ u + (j - u) = j) \/ j = u + k + 1
  BY <1>1
<1>6. /\ \A i \in 1 .. u : i \in 1 .. u + k + 1 /\ written + i \in written + 1 .. m
      /\ \A i \in written + 1 .. m : i - written \in 1 .. u /\ written + (i - written) = i
      /\ \A i \in 1 .. k : u + i \in 1 .. u + k + 1
      /\ u + k + 1 \in 1 .. u + k + 1
  BY <1>1 DEF u
<1>7. \A n : (\E j \in 1 .. u + k + 1 : n \in L(Pipeline[j]))
             <=> \/ \E i \in written + 1 .. m : n \in L(buffersToWrite[i])
                 \/ \E i \in 1 .. k : n \in L(buffers[i])
                 \/ n \in L(currentBuffer)
  <2> TAKE n
  <2>1. ASSUME NEW j \in 1 .. u + k + 1, n \in L(Pipeline[j])
        PROVE  \/ \E i \in written + 1 .. m : n \in L(buffersToWrite[i])
               \/ \E i \in 1 .. k : n \in L(buffers[i])
               \/ n \in L(currentBuffer)
    BY <1>3, <1>5, <1>6, <2>1
  <2>2. ASSUME NEW i \in written + 1 .. m, n \in L(buffersToWrite[i])
        PROVE  \E j \in 1 .. u + k + 1 : n \in L(Pipeline[j])
    BY <1>3, <1>6, <2>2
  <2>3. ASSUME NEW i \in 1 .. k, n \in L(buffers[i])
        PROVE  \E j \in 1 .. u + k + 1 : n \in L(Pipeline[j])
    BY <1>3, <1>6, <2>3
  <2>4. n \in L(currentBuffer) => \E j \in 1 .. u + k + 1 : n \in L(Pipeline[j])
    BY <1>3, <1>6
  <2> QED BY <2>1, <2>2, <2>3, <2>4
<1> QED BY <1>4, <1>7 DEF InPipeline, Held, L, m, k

(* The four things a step can do to the lines.                             *)
NewLine ==
  /\ lineCount' = lineCount + 1
  /\ UNCHANGED <<file, lost>>
  /\ \A n : InPipeline1(n) <=> InPipeline(n) \/ n = lineCount'

NoLine ==
  /\ UNCHANGED <<lineCount, file, lost>>
  /\ \A n : InPipeline1(n) <=> InPipeline(n)

LinesWritten ==
  /\ UNCHANGED <<lineCount, lost>>
  /\ \E S : /\ Range(file') = Range(file) \cup S
            /\ \A n : InPipeline(n) <=> InPipeline1(n) \/ n \in S
            /\ \A n \in S : ~ InPipeline1(n)

LinesDropped ==
  /\ UNCHANGED <<lineCount, file>>
  /\ \E S : /\ lost' = lost \cup S
            /\ \A n : InPipeline(n) <=> InPipeline1(n) \/ n \in S
            /\ \A n \in S : ~ InPipeline1(n)

(* Steps that move lines between the file, the dropped ones and the        *)
(* pipeline, and steps that log none, keep the account.                    *)
LEMMA AccountedStep ==
  ASSUME Accounted, lineCount \in Nat,
         NewLine \/ NoLine \/ LinesWritten \/ LinesDropped
  PROVE  Accounted'
<1> SUFFICES ASSUME NEW n
             PROVE  /\ n \in 1 .. lineCount' <=>
                         n \in Range(file') \/ n \in lost' \/ InPipeline1(n)
                    /\ ~ (n \in Range(file') /\ n \in lost')
                    /\ ~ (n \in Range(file') /\ InPipeline1(n))
                    /\ ~ (n \in lost' /\ InPipeline1(n))
  BY DEF Accounted, InPipeline, InPipeline1
<1>1. /\ n \in 1 .. lineCount <=> n \in Range(file) \/ n \in lost \/ InPipeline(n)
      /\ ~ (n \in Range(file) /\ n \in lost)
      /\ ~ (n \in Range(file) /\ InPipeline(n))
      /\ ~ (n \in lost /\ InPipeline(n))
  BY DEF Accounted
<1>2. CASE NewLine
  <2>1. n \in 1 .. lineCount' <=> n \in 1 .. lineCount \/ n = lineCount'
    BY <1>2 DEF NewLine
  <2>2. lineCount' \notin 1 .. lineCount
    BY <1>2 DEF NewLine
  <2> QED BY <1>1, <1>2, <2>1, <2>2 DEF NewLine
<1>3. CASE NoLine
  BY <1>1, <1>3 DEF NoLine
<1>4. CASE LinesWritten
  BY <1>1, <1>4 DEF LinesWritten
<1>5. CASE LinesDropped
  BY <1>1, <1>5 DEF LinesDropped
<1> QED BY <1>2, <1>3, <1>4, <1>5

(* The line that append() puts in the current buffer is the one line the   *)
(* pipeline gains.                                                         *)
LEMMA NewLineAppendFits ==
  ASSUME Inv1, NEW len \in LineLens, AppendFits(len) PROVE NewLine
<1> DEFINE c == currentBuffer
           n == lineCount + 1
<1>1. TypeOK /\ BufferOwnership /\ c \in Buffers /\ n \in Nat
  BY DEF Inv1, TypeOK
<1>2. /\ lineCount' = n
      /\ UNCHANGED <<currentBuffer, buffers, buffersToWrite, written, file, lost>>
  BY DEF AppendFits, LogLine, shared, batch, outcome
<1>3. Data(store', c) = Append(Data(store, c), n)
  BY <1>1, <1>2 DEF AppendFits, HasRoom, append, Fits, TypeOK, Data
<1>4. Range(Data(store', c)) = Range(Data(store, c)) \cup {n}
  BY <1>1, <1>3, Members, RangeAppend
<1>5. \A b \in Buffers : b # c => Data(store', b) = Data(store, b)
  BY <1>1 DEF AppendFits, TypeOK, Data
<1>6. /\ \A i \in 1 .. Len(buffers) : buffers[i] \in Buffers /\ buffers[i] # c
      /\ \A i \in written + 1 .. Len(buffersToWrite) :
           buffersToWrite[i] \in Buffers /\ buffersToWrite[i] # c
  BY <1>1, Members
<1> HIDE DEF n, c
<1>7. \A m : InPipeline1(m) <=> InPipeline(m) \/ m = n
  BY <1>2, <1>4, <1>5, <1>6 DEF InPipeline, InPipeline1, Held, c
<1> QED BY <1>2, <1>7 DEF NewLine, n

(* The same when the current buffer is full and another one takes the      *)
(* line.                                                                   *)
LEMMA NewLineAppendSwitches ==
  ASSUME Inv1, NEW len \in LineLens, AppendSwitches(len) PROVE NewLine
<1> DEFINE c == currentBuffer
           r == Replacement
           n == lineCount + 1
           k == Len(buffers)
<1>1. TypeOK /\ BufferOwnership /\ c \in Buffers /\ n \in Nat /\ k \in Nat
  <2>1. TypeOK /\ BufferOwnership
    BY DEF Inv1
  <2>2. c \in Buffers /\ lineCount \in Nat /\ buffers \in Seq(Buffers)
    BY <2>1 DEF TypeOK
  <2> QED BY <2>1, <2>2
<1>2. /\ lineCount' = n /\ currentBuffer' = r
      /\ UNCHANGED <<buffersToWrite, written, file, lost>>
  BY DEF AppendSwitches, LogLine, batch, outcome
<1>3. /\ r \in Buffers /\ r # c
      /\ r \notin Range(buffers) \cup Range(buffersToWrite)
  BY ReplacementUnused
<1>4. Data(store', r) = <<n>>
  BY ReplacementLine
<1>5. \A b \in Buffers : b # r => Data(store', b) = Data(store, b)
  BY <1>1, <1>3 DEF AppendSwitches, TypeOK, Data
<1>6. /\ Len(buffers') = k + 1 /\ buffers'[k + 1] = c
      /\ \A i \in 1 .. k : buffers'[i] = buffers[i]
  BY <1>1 DEF AppendSwitches, TypeOK
<1>7. /\ \A i \in 1 .. k : buffers[i] \in Buffers /\ buffers[i] # r
      /\ \A i \in written + 1 .. Len(buffersToWrite) :
           buffersToWrite[i] \in Buffers /\ buffersToWrite[i] # r
  BY <1>1, <1>3, Members
<1>8. Range(<<n>>) = {n}
  BY SMT DEF Range
<1> HIDE DEF n, c, r, k
<1>9. \A m : (\E i \in 1 .. k + 1 : m \in Range(Data(store', buffers'[i])))
             <=> \/ \E i \in 1 .. k : m \in Range(Data(store, buffers[i]))
                 \/ m \in Range(Data(store, c))
  <2>1. /\ \A i \in 1 .. k + 1 : i \in 1 .. k \/ i = k + 1
        /\ \A i \in 1 .. k : i \in 1 .. k + 1
        /\ k + 1 \in 1 .. k + 1
    BY <1>1
  <2> QED BY <1>1, <1>3, <1>5, <1>6, <1>7, <2>1
<1>10. \A m : InPipeline1(m) <=> InPipeline(m) \/ m = n
  BY <1>2, <1>4, <1>5, <1>6, <1>7, <1>8, <1>9 DEF InPipeline, InPipeline1, Held, c, k
<1> QED BY <1>2, <1>10 DEF NewLine, n

(* The collecting block takes no line out of the pipeline, and adds none.  *)
LEMMA NoLineCollect ==
  ASSUME Inv1, pc \in {"collect", "waiting"}, Collect PROVE NoLine
<1> DEFINE c == currentBuffer
           k == Len(buffers)
<1>1. /\ TypeOK /\ BufferOwnership /\ c \in Buffers /\ k \in Nat
      /\ Data(store, newBuffer1) = <<>>
      /\ buffersToWrite = <<>> /\ written = 0
  <2>1. TypeOK /\ BufferOwnership
    BY DEF Inv1
  <2>2. c \in Buffers /\ k \in Nat
    BY <2>1 DEF TypeOK
  <2> QED BY <2>1, <2>2, SparesAtHand
<1>2. /\ buffers' = <<>> /\ currentBuffer' = newBuffer1 /\ written' = 0
      /\ UNCHANGED <<store, file, lost, lineCount>>
  BY <1>1 DEF Collect, outcome
<1>3. /\ Len(buffersToWrite') = k + 1 /\ buffersToWrite'[k + 1] = c
      /\ \A i \in 1 .. k : buffersToWrite'[i] = buffers[i]
  BY <1>1 DEF Collect, Queued, TypeOK
<1>4. Len(<<>>) = 0 /\ (\A i \in 1 .. 0 : FALSE) /\ (\A i \in 0 + 1 .. 0 : FALSE)
  OBVIOUS
<1> HIDE DEF c, k
<1>5. /\ \A i \in 0 + 1 .. k + 1 : i \in 1 .. k \/ i = k + 1
      /\ \A i \in 1 .. k : i \in 0 + 1 .. k + 1
      /\ k + 1 \in 0 + 1 .. k + 1
  BY <1>1
<1>6. \A n : (\E i \in 0 + 1 .. k + 1 : n \in Range(Data(store, buffersToWrite'[i])))
             <=> \/ \E i \in 1 .. k : n \in Range(Data(store, buffers[i]))
                 \/ n \in Range(Data(store, c))
  BY <1>3, <1>5
<1>7. \A n : InPipeline1(n) <=> \/ \E i \in 1 .. k : n \in Range(Data(store, buffers[i]))
                                \/ n \in Range(Data(store, c))
  BY <1>1, <1>2, <1>3, <1>4, <1>6, EmptyRange DEF InPipeline1, Held
<1>8. \A n : InPipeline(n) <=> \/ \E i \in 1 .. k : n \in Range(Data(store, buffers[i]))
                               \/ n \in Range(Data(store, c))
  BY <1>1, <1>4 DEF InPipeline, Held, c, k
<1> QED BY <1>2, <1>7, <1>8 DEF NoLine

(* An older buffer shares no line with a newer one.                        *)
LEMMA OlderApart ==
  ASSUME NEW s \in Seq(Nat), NEW t \in Seq(Nat), Below(s, t)
  PROVE  Range(s) \cap Range(t) = {}
<1> SUFFICES ASSUME NEW i \in DOMAIN s, NEW j \in DOMAIN t, s[i] = t[j] PROVE FALSE
  BY DEF Range
<1>1. s[i] \in Nat /\ t[j] \in Nat /\ s[i] < t[j]
  BY DEF Below
<1> QED BY <1>1

(* The lines of the buffer that is written leave the pipeline for the      *)
(* file.                                                                   *)
LEMMA LinesWrittenWriteBuffer ==
  ASSUME Inv1, Order, WriteBuffer PROVE LinesWritten
<1> DEFINE b == buffersToWrite[written + 1]
           m == Len(buffersToWrite)
           S == Range(Data(store, b))
<1>1. TypeOK /\ BufferOwnership
  BY DEF Inv1
<1>2. /\ file \in Seq(Nat) /\ currentBuffer \in Buffers /\ written \in Nat
      /\ buffersToWrite \in Seq(Buffers) /\ m \in Nat
  BY <1>1 DEF TypeOK
<1>3. /\ written + 1 \in written + 1 .. m /\ written + 1 \in 1 .. m
      /\ b \in Buffers /\ Data(store, b) \in Seq(Nat)
  <2>1. written + 1 \in written + 1 .. m /\ written + 1 \in 1 .. m
    BY <1>2 DEF WriteBuffer
  <2> QED BY <1>1, <2>1, Members
<1>4. /\ UNCHANGED <<currentBuffer, buffers, buffersToWrite, store, lineCount, lost>>
      /\ file' = file \o Data(store, b) /\ written' = written + 1
  BY DEF WriteBuffer, shared, Data
<1>5. Range(file') = Range(file) \cup S
  BY <1>2, <1>3, <1>4, RangeConcat
<1>6. /\ \A i \in written + 1 .. m : i = written + 1 \/ i \in written + 1 + 1 .. m
      /\ \A i \in written + 1 + 1 .. m : i \in written + 1 .. m
  BY <1>2
<1>7. \A n : InPipeline(n) <=> InPipeline1(n) \/ n \in S
  BY <1>3, <1>4, <1>6 DEF InPipeline, InPipeline1, Held
<1>8. \A a \in Buffers : Older(store, b, a) => S \cap Range(Data(store, a)) = {}
  BY <1>1, <1>3, Members, OlderApart DEF Older
<1>9. ASSUME NEW n \in S PROVE ~ InPipeline1(n)
  <2>1. \A i \in written + 1 + 1 .. m : n \notin Range(Data(store, buffersToWrite[i]))
    BY <1>1, <1>3, <1>6, <1>8, Members DEF Order, BatchInOrder
  <2>2. \A i \in 1 .. Len(buffers) : n \notin Range(Data(store, buffers[i]))
    BY <1>1, <1>3, <1>8, Members DEF Order, BatchInOrder
  <2>3. n \notin Range(Data(store, currentBuffer))
    BY <1>2, <1>3, <1>8 DEF Order, BatchInOrder
  <2> QED BY <1>4, <2>1, <2>2, <2>3 DEF InPipeline1, Held
<1> QED BY <1>4, <1>5, <1>7, <1>9 DEF LinesWritten

(* The lines of the buffers that are dropped leave the pipeline for the    *)
(* lost ones.                                                              *)
LEMMA LinesDroppedTrim ==
  ASSUME Inv1, Order, Trim PROVE NoLine \/ LinesDropped
<1> DEFINE m == Len(buffersToWrite)
           T == SubSeq(buffersToWrite, 3, m)
           S == LinesIn(T)
<1>1. /\ UNCHANGED <<currentBuffer, buffers, written, store, file, lineCount>>
      /\ pc = "trim" /\ TypeOK /\ BufferOwnership /\ written = 0
      /\ buffersToWrite \in Seq(Buffers) /\ m \in Nat /\ currentBuffer \in Buffers
  BY DEF Trim, shared, Inv1, Phases, TypeOK
<1>2. CASE ~ Backlogged
  <2>1. UNCHANGED <<buffersToWrite, lost>>
    BY <1>2 DEF Trim
  <2> QED BY <1>1, <2>1 DEF NoLine, InPipeline, InPipeline1
<1>3. CASE Backlogged
  <2>1. m >= 2
    BY <1>1, <1>3, MaxBacklogAssumption DEF Backlogged
  <2>2. buffersToWrite' = SubSeq(buffersToWrite, 1, 2) /\ lost' = lost \cup S
    BY <1>3 DEF Trim
  <2>3. /\ Len(buffersToWrite') = 2
        /\ buffersToWrite'[1] = buffersToWrite[1] /\ buffersToWrite'[2] = buffersToWrite[2]
    BY <1>1, <2>1, <2>2, FirstTwo
  <2>4. /\ DOMAIN T = 1 .. m - 2
        /\ \A i \in 1 .. m - 2 : T[i] = buffersToWrite[i + 2]
    BY <1>1, <2>1, FromThird
  <2> HIDE DEF m, T
  <2>5. \A n : n \in S <=> \E i \in 3 .. m : n \in Range(Data(store, buffersToWrite[i]))
    <3>1. /\ \A i \in 1 .. m - 2 : i + 2 \in 3 .. m
          /\ \A i \in 3 .. m : i - 2 \in 1 .. m - 2 /\ i - 2 + 2 = i
      BY <1>1, <2>1
    <3>2. \A n : n \in S <=> \E i \in 1 .. m - 2 : n \in Range(Data(store, buffersToWrite[i + 2]))
      BY <2>4 DEF LinesIn, LinesOf, Data
    <3> QED BY <3>1, <3>2
  <2>6. /\ \A i \in 0 + 1 .. m : i = 1 \/ i = 2 \/ i \in 3 .. m
        /\ \A i \in 3 .. m : i \in 0 + 1 .. m /\ i \in 1 + 1 .. m /\ i \in 2 + 1 .. m
        /\ 1 \in 0 + 1 .. m /\ 2 \in 0 + 1 .. m /\ 2 \in 1 + 1 .. m
        /\ \A i \in 0 + 1 .. 2 : i = 1 \/ i = 2
        /\ 1 \in 0 + 1 .. 2 /\ 2 \in 0 + 1 .. 2
    BY <1>1, <2>1
  <2>7. \A n : InPipeline(n) <=> InPipeline1(n) \/ n \in S
    BY <1>1, <2>3, <2>5, <2>6 DEF InPipeline, InPipeline1, Held, m
  <2>8. \A a, b \in Buffers : Older(store, a, b) =>
          Range(Data(store, a)) \cap Range(Data(store, b)) = {}
    BY <1>1, Members, OlderApart DEF Older
  <2>9. ASSUME NEW n \in S PROVE ~ InPipeline1(n)
    <3>1. PICK i \in 3 .. m : n \in Range(Data(store, buffersToWrite[i]))
      BY <2>5
    <3>2. /\ \A j \in 1 .. m : buffersToWrite[j] \in Buffers
          /\ \A j \in 1 .. Len(buffers) : buffers[j] \in Buffers
          /\ i \in 1 .. m /\ 1 \in 1 .. m /\ 2 \in 1 .. m
      BY <1>1, <2>6, Members DEF m
    <3>3. /\ Older(store, buffersToWrite[1], buffersToWrite[i])
          /\ Older(store, buffersToWrite[2], buffersToWrite[i])
      BY <1>1, <2>6 DEF Order, BatchInOrder, m
    <3>4. /\ Older(store, buffersToWrite[i], currentBuffer)
          /\ \A j \in 1 .. Len(buffers) : Older(store, buffersToWrite[i], buffers[j])
      BY <1>1, <2>6 DEF Order, BatchInOrder, m
    <3>5. n \notin Range(Data(store, buffersToWrite[1])) \cup Range(Data(store, buffersToWrite[2]))
      BY <2>8, <3>1, <3>2, <3>3
    <3>6. /\ n \notin Range(Data(store, currentBuffer))
          /\ \A j \in 1 .. Len(buffers) : n \notin Range(Data(store, buffers[j]))
      BY <1>1, <2>8, <3>1, <3>2, <3>4
    <3> QED BY <1>1, <2>3, <2>6, <3>5, <3>6 DEF InPipeline1, Held
  <2> QED BY <1>1, <2>2, <2>7, <2>9 DEF LinesDropped
<1> QED BY <1>2, <1>3

(* Allocate and Recycle touch buffers outside of the pipeline only.        *)
LEMMA NoLineOthers ==
  ASSUME Inv1,
         \/ Allocate \/ Recycle \/ TestRunning \/ WaitForSeconds \/ Stop
         \/ UNCHANGED vars
  PROVE  NoLine
<1> USE DEF shared, spares, batch, outcome
<1> DEFINE m == Len(buffersToWrite)
<1>1. /\ TypeOK /\ BufferOwnership /\ currentBuffer \in Buffers
      /\ buffersToWrite \in Seq(Buffers) /\ m \in Nat /\ written \in Nat
  BY DEF Inv1, TypeOK
<1>2. CASE Allocate
  <2>1. UNCHANGED <<lineCount, file, lost, buffersToWrite, written, buffers, currentBuffer>>
    BY <1>2 DEF Allocate
  <2>2. \A b \in Buffers \ Free : store'[b] = store[b]
    <3>1. newBuffer1' \in Free /\ newBuffer2' \in Free
      BY <1>2, AllocateFree
    <3> QED BY <1>2, <3>1 DEF Allocate
  <2>3. \A b \in Range(buffers) \cup Range(buffersToWrite) \cup {currentBuffer} : b \notin Free
    BY DEF Free, Pointers
  <2>4. /\ \A i \in 1 .. Len(buffers) : Data(store', buffers[i]) = Data(store, buffers[i])
        /\ \A i \in written + 1 .. m :
             Data(store', buffersToWrite[i]) = Data(store, buffersToWrite[i])
        /\ Data(store', currentBuffer) = Data(store, currentBuffer)
    BY <1>1, <2>2, <2>3, Members DEF Data
  <2> QED BY <2>1, <2>4 DEF NoLine, InPipeline, InPipeline1, Held
<1>3. CASE Recycle
  <2>1. /\ UNCHANGED <<lineCount, file, lost, buffers, currentBuffer>>
        /\ buffersToWrite' = <<>> /\ written' = 0 /\ written = m
    BY <1>3 DEF Recycle
  <2>2. /\ \A i \in 0 + 1 .. 0 : FALSE
        /\ \A i \in m + 1 .. m : FALSE
        /\ Len(<<>>) = 0
    BY <1>1
  <2>3. \A b \in Buffers :
          b \notin Range(buffersToWrite) \cup {newBuffer2} => store'[b] = store[b]
    BY <1>3, RecycledSpares DEF Recycle
  <2>4. \A i \in 1 .. Len(buffers) :
          buffers[i] \in Buffers /\ buffers[i] \notin Range(buffersToWrite) \cup {newBuffer2}
    BY <1>1, Members DEF BufferOwnership
  <2>5. currentBuffer \notin Range(buffersToWrite) \cup {newBuffer2}
    BY <1>1 DEF BufferOwnership
  <2>6. /\ \A i \in 1 .. Len(buffers) : Data(store', buffers[i]) = Data(store, buffers[i])
        /\ Data(store', currentBuffer) = Data(store, currentBuffer)
    BY <1>1, <2>3, <2>4, <2>5 DEF Data
  <2> QED BY <2>1, <2>2, <2>6 DEF NoLine, InPipeline, InPipeline1, Held
<1>4. CASE TestRunning \/ WaitForSeconds \/ Stop \/ UNCHANGED vars
  <2>1. UNCHANGED <<currentBuffer, buffers, buffersToWrite, written, store, file, lost,
                    lineCount>>
    BY <1>4 DEF TestRunning, WaitForSeconds, Stop, StopClear, StopNotify, StopJoin, vars
  <2> QED BY <2>1 DEF NoLine, InPipeline, InPipeline1
<1> QED BY <1>2, <1>3, <1>4

(* The account of the lines is inductive.                                  *)
LEMMA AccountedNext == Inv1 /\ Order /\ Accounted /\ [Next]_vars => Accounted'
<1> SUFFICES ASSUME Inv1, Order, Accounted, [Next]_vars
             PROVE  NewLine \/ NoLine \/ LinesWritten \/ LinesDropped
  BY AccountedStep DEF Inv1, TypeOK
<1>1. CASE FrontEnd
  BY <1>1, NewLineAppendFits, NewLineAppendSwitches DEF FrontEnd
<1>2. CASE CollectNow \/ CollectSignalled \/ CollectTimeout
  BY <1>2, NoLineCollect DEF CollectNow, CollectSignalled, CollectTimeout
<1>3. CASE Trim
  BY <1>3, LinesDroppedTrim
<1>4. CASE WriteBuffer
  BY <1>4, LinesWrittenWriteBuffer
<1>5. CASE \/ Allocate \/ Recycle \/ TestRunning \/ WaitForSeconds \/ Stop \/ Stopped
           \/ UNCHANGED vars
  BY <1>5, NoLineOthers DEF Stopped
<1> QED BY <1>1, <1>2, <1>3, <1>4, <1>5 DEF Next, BackEndStep

(* There is no line to account for yet.                                    *)
LEMMA AccountedInit == Init => Accounted
<1> SUFFICES ASSUME Init, NEW n
             PROVE  n \notin 1 .. lineCount /\ n \notin Range(file) /\ n \notin lost
                    /\ ~ InPipeline(n)
  BY DEF Accounted
<1>1. /\ file = <<>> /\ lineCount = 0 /\ buffers = <<>> /\ buffersToWrite = <<>>
      /\ written = 0 /\ lost = {}
      /\ Data(store, currentBuffer) = <<>>
  BY Inv1Init DEF Init, EmptyBuffer, Data, Inv1, TypeOK
<1>2. Len(<<>>) = 0 /\ (\A i \in 1 .. 0 : FALSE) /\ (\A i \in 0 + 1 .. 0 : FALSE)
  OBVIOUS
<1> QED BY <1>1, <1>2, EmptyRange DEF InPipeline, Held

(* Every line logged is in exactly one of the file, the losses of a        *)
(* backlog, and the buffers on their way to the file.                      *)
THEOREM NothingVanishes == Spec => []EveryLineAccounted
<1>1. Inv1 /\ Accounted => EveryLineAccounted
  <2> SUFFICES ASSUME Inv1, Accounted PROVE EveryLineAccounted
    OBVIOUS
  <2>1. \A n : n \in LinesIn(Pipeline) <=> InPipeline(n)
    BY PipelineLines DEF Inv1, Phases
  <2> QED BY <2>1 DEF Accounted, EveryLineAccounted
<1> QED BY <1>1, Inv1Init, Inv1Next, OrderInit, OrderNext, AccountedInit, AccountedNext, PTL
    DEF Spec

-----------------------------------------------------------------------------
(* Which buffers hold a line: every full one, and when there are full      *)
(* ones the current one, so that a batch of several buffers has no empty   *)
(* buffer in it.                                                           *)
Filled ==
  /\ \A b \in Buffers : Data(store, b) = <<>> => store[b].cur = 0
  /\ \A i \in 1 .. Len(buffers) : Data(store, buffers[i]) # <<>>
  /\ Len(buffers) >= 1 => Data(store, currentBuffer) # <<>>
  /\ Len(buffersToWrite) >= 2 =>
       \A i \in 1 .. Len(buffersToWrite) : Data(store, buffersToWrite[i]) # <<>>

(* The line goes into the current buffer.                                  *)
LEMMA FilledAppendFits ==
  ASSUME Inv1, Filled, NEW len \in LineLens, AppendFits(len) PROVE Filled'
<1> DEFINE c == currentBuffer
           n == lineCount'
<1>1. /\ TypeOK /\ c \in Buffers /\ n \in Nat /\ Data(store, c) \in Seq(Nat)
      /\ UNCHANGED <<currentBuffer, buffers, buffersToWrite>>
  BY DEF Inv1, TypeOK, AppendFits, LogLine, shared, batch, Data
<1>2. Data(store', c) = Append(Data(store, c), n)
  BY <1>1 DEF AppendFits, HasRoom, append, Fits, TypeOK, Data
<1>3. \A b \in Buffers : b # c => store'[b] = store[b]
  BY <1>1 DEF AppendFits, TypeOK
<1>4. Data(store', c) # <<>>
  <2>1. Len(Append(Data(store, c), n)) = Len(Data(store, c)) + 1
    BY <1>1
  <2>2. Len(Data(store, c)) \in Nat /\ Len(<<>>) = 0
    BY <1>1
  <2> QED BY <1>2, <2>1, <2>2
<1>5. /\ \A i \in 1 .. Len(buffers) : buffers[i] \in Buffers
      /\ \A i \in 1 .. Len(buffersToWrite) : buffersToWrite[i] \in Buffers
  BY Members DEF Inv1
<1> HIDE DEF c, n
<1>6. \A b \in Buffers : b # c => Data(store', b) = Data(store, b)
  BY <1>3 DEF Data
<1> QED BY <1>1, <1>3, <1>4, <1>5, <1>6 DEF Filled, c

(* The current buffer is full, so not empty, when it is queued.            *)
LEMMA FilledAppendSwitches ==
  ASSUME Inv1, Filled, NEW len \in LineLens, AppendSwitches(len) PROVE Filled'
<1> DEFINE c == currentBuffer
           r == Replacement
           k == Len(buffers)
<1>1. /\ TypeOK /\ BufferOwnership /\ c \in Buffers /\ k \in Nat
      /\ lineCount + 1 \in Nat
  BY DEF Inv1, TypeOK
<1>2. currentBuffer' = r /\ UNCHANGED buffersToWrite
  BY DEF AppendSwitches, batch
<1>3. /\ r \in Buffers /\ r # c
      /\ r \notin Range(buffers) \cup Range(buffersToWrite)
  BY ReplacementUnused
<1>4. Data(store', r) # <<>>
  BY ReplacementLine
<1>5. \A b \in Buffers : b # r => store'[b] = store[b]
  BY <1>1, <1>3 DEF AppendSwitches, TypeOK
<1>6. /\ Len(buffers') = k + 1 /\ buffers'[k + 1] = c
      /\ \A i \in 1 .. k : buffers'[i] = buffers[i]
  BY <1>1 DEF AppendSwitches, TypeOK
<1>7. Data(store, c) # <<>>
  <2> SUFFICES ASSUME Data(store, c) = <<>> PROVE HasRoom(len)
    BY DEF AppendSwitches
  <2>1. store[c].cur = 0
    BY <1>1 DEF Filled
  <2> QED BY <2>1, LineLensAssumption, BufferSizeAssumption DEF HasRoom, avail
<1>8. /\ \A i \in 1 .. k : buffers[i] \in Buffers /\ buffers[i] # r
      /\ \A i \in 1 .. Len(buffersToWrite) :
           buffersToWrite[i] \in Buffers /\ buffersToWrite[i] # r
  BY <1>1, <1>3, Members
<1> HIDE DEF c, r, k
<1>9. \A b \in Buffers : b # r => Data(store', b) = Data(store, b)
  BY <1>5 DEF Data
<1>10. \A i \in 1 .. k + 1 : i \in 1 .. k \/ i = k + 1
  BY <1>1
<1>11. \A i \in 1 .. k + 1 : Data(store', buffers'[i]) # <<>>
  BY <1>1, <1>3, <1>6, <1>7, <1>8, <1>9, <1>10 DEF Filled, k
<1> QED BY <1>1, <1>2, <1>3, <1>4, <1>5, <1>6, <1>8, <1>9, <1>11 DEF Filled

(* The batch is the queue with the current buffer behind it.               *)
LEMMA FilledCollect ==
  ASSUME Inv1, Filled, pc \in {"collect", "waiting"}, Collect PROVE Filled'
<1> DEFINE c == currentBuffer
           k == Len(buffers)
<1>1. k \in Nat /\ buffersToWrite = <<>>
  BY SparesAtHand DEF Inv1, TypeOK
<1>2. buffers' = <<>> /\ store' = store
  BY <1>1 DEF Collect, outcome
<1>3. /\ Len(buffersToWrite') = k + 1 /\ buffersToWrite'[k + 1] = c
      /\ \A i \in 1 .. k : buffersToWrite'[i] = buffers[i]
  BY <1>1 DEF Collect, Queued, Inv1, TypeOK
<1>4. Len(buffers') = 0 /\ ~ (0 >= 1) /\ (\A i \in 1 .. 0 : FALSE)
  BY <1>2
<1> HIDE DEF c, k
<1>5. /\ \A i \in 1 .. k + 1 : i \in 1 .. k \/ i = k + 1
      /\ k + 1 >= 2 => k >= 1
  BY <1>1
<1> QED BY <1>2, <1>3, <1>4, <1>5 DEF Filled, c, k

(* The two buffers that a backlog leaves are two of the batch.             *)
LEMMA FilledTrim == ASSUME Inv1, Filled, Trim PROVE Filled'
<1>1. UNCHANGED <<currentBuffer, buffers, store>>
  BY DEF Trim, shared
<1>2. CASE ~ Backlogged
  BY <1>1, <1>2 DEF Trim, Filled
<1>3. CASE Backlogged
  <2>1. Len(buffersToWrite) >= 2 /\ buffersToWrite \in Seq(Buffers)
    BY <1>3, MaxBacklogAssumption DEF Backlogged, Inv1, TypeOK
  <2>2. /\ Len(buffersToWrite') = 2
        /\ buffersToWrite'[1] = buffersToWrite[1] /\ buffersToWrite'[2] = buffersToWrite[2]
    BY <1>3, <2>1, FirstTwo DEF Trim
  <2>3. /\ 1 \in 1 .. Len(buffersToWrite) /\ 2 \in 1 .. Len(buffersToWrite)
        /\ \A i \in 1 .. 2 : i = 1 \/ i = 2
    BY <2>1
  <2> QED BY <1>1, <2>1, <2>2, <2>3 DEF Filled
<1> QED BY <1>2, <1>3

(* Buffers are emptied only outside of the pipeline.                       *)
LEMMA FilledEmptied ==
  ASSUME Inv1, Filled, Allocate \/ Recycle PROVE Filled'
<1>1. UNCHANGED <<currentBuffer, buffers>> /\ TypeOK /\ BufferOwnership
  BY DEF Allocate, Recycle, shared, Inv1
<1>2. Len(buffersToWrite') = 0
  BY DEF Allocate, Recycle, batch, Inv1, Phases
<1>3. \A b \in Buffers : store'[b] \in {store[b], EmptyBuffer}
  BY <1>1 DEF Allocate, Recycle, reset, TypeOK
<1>4. \A b \in Range(buffers) \cup {currentBuffer} :
        b \in Buffers => store'[b] = store[b]
  <2>1. CASE Allocate
    <3>1. newBuffer1' \in Free /\ newBuffer2' \in Free
      BY <2>1, AllocateFree
    <3>2. \A b \in Range(buffers) \cup {currentBuffer} : b \notin Free
      BY DEF Free, Pointers
    <3> QED BY <2>1, <3>1, <3>2 DEF Allocate
  <2>2. CASE Recycle
    <3>1. \A b \in Buffers :
            b \notin Range(buffersToWrite) \cup {newBuffer2} => store'[b] = store[b]
      BY <2>2, RecycledSpares DEF Recycle
    <3> QED BY <1>1, <3>1 DEF BufferOwnership
  <2> QED BY <2>1, <2>2
<1>5. /\ \A i \in 1 .. Len(buffers) : buffers[i] \in Buffers /\ buffers[i] \in Range(buffers)
      /\ currentBuffer \in Buffers
  BY <1>1, Members DEF TypeOK
<1> QED BY <1>1, <1>2, <1>3, <1>4, <1>5 DEF Filled, Data, EmptyBuffer

(* Which buffers hold a line is settled by where they are.                 *)
LEMMA FilledNext == Inv1 /\ Filled /\ [Next]_vars => Filled'
<1> SUFFICES ASSUME Inv1, Filled, [Next]_vars PROVE Filled'
  OBVIOUS
<1>1. CASE FrontEnd
  BY <1>1, FilledAppendFits, FilledAppendSwitches DEF FrontEnd
<1>2. CASE CollectNow \/ CollectSignalled \/ CollectTimeout
  BY <1>2, FilledCollect DEF CollectNow, CollectSignalled, CollectTimeout
<1>3. CASE Trim
  BY <1>3, FilledTrim
<1>4. CASE Allocate \/ Recycle
  BY <1>4, FilledEmptied
<1>5. CASE \/ WriteBuffer \/ TestRunning \/ WaitForSeconds \/ Stop \/ Stopped
           \/ UNCHANGED vars
  <2>1. UNCHANGED <<currentBuffer, buffers, buffersToWrite, store>>
    BY <1>5 DEF WriteBuffer, TestRunning, WaitForSeconds, Stop, StopClear, StopNotify,
                StopJoin, Stopped, vars, shared, batch
  <2> QED BY <2>1 DEF Filled
<1> QED BY <1>1, <1>2, <1>3, <1>4, <1>5 DEF Next, BackEndStep

(* All buffers are empty at first.                                         *)
LEMMA FilledInit == Init => Filled
<1> SUFFICES ASSUME Init PROVE Filled
  OBVIOUS
<1>1. /\ buffers = <<>> /\ buffersToWrite = <<>>
      /\ \A b \in Buffers : store[b] = EmptyBuffer
  BY DEF Init
<1>2. Len(<<>>) = 0 /\ (\A i \in 1 .. 0 : FALSE) /\ ~ (0 >= 1) /\ ~ (0 >= 2)
  OBVIOUS
<1> QED BY <1>1, <1>2 DEF Filled, EmptyBuffer

-----------------------------------------------------------------------------
(* The lines of two buffers in order, and the first and last of one.       *)
LEMMA BelowLines ==
  ASSUME NEW s, NEW t, Below(s, t)
  PROVE  \A m \in Range(s), n \in Range(t) : m < n
  BY DEF Below, Range

LEMMA FirstAndLast ==
  ASSUME NEW s \in Seq(Nat), Increasing(s), s # <<>>
  PROVE  /\ s[1] \in Range(s) /\ s[Len(s)] \in Range(s)
         /\ s[1] \in Nat /\ s[Len(s)] \in Nat
         /\ \A n \in Range(s) : n \in Nat /\ s[1] <= n /\ n <= s[Len(s)]
<1> DEFINE m == Len(s)
<1>1. /\ m \in Nat /\ m >= 1 /\ DOMAIN s = 1 .. m
      /\ \A i \in 1 .. m : s[i] \in Nat
  OBVIOUS
<1> HIDE DEF m
<1>2. 1 \in 1 .. m /\ m \in 1 .. m
  BY <1>1
<1>3. \A i, j \in 1 .. m : i < j => s[i] < s[j]
  BY <1>1 DEF Increasing
<1>4. \A i \in 1 .. m : s[1] <= s[i] /\ s[i] <= s[m]
  <2> SUFFICES ASSUME NEW i \in 1 .. m PROVE s[1] <= s[i] /\ s[i] <= s[m]
    OBVIOUS
  <2>1. (i = 1 \/ 1 < i) /\ (i = m \/ i < m)
    BY <1>1
  <2>2. s[1] \in Nat /\ s[i] \in Nat /\ s[m] \in Nat
    BY <1>1, <1>2
  <2>3. (i = 1 \/ s[1] < s[i]) /\ (i = m \/ s[i] < s[m])
    BY <1>2, <1>3, <2>1
  <2> QED BY <2>2, <2>3
<1> QED BY <1>1, <1>2, <1>4 DEF Range, m

(* What the channel counts is what FiniteSets counts.                      *)
LEMMA ChannelCounts == ASSUME NEW S PROVE Channel!Cardinality(S) = Cardinality(S)
  BY DEF Channel!Cardinality, Cardinality, Channel!IsFiniteSet, IsFiniteSet

(* Lines in order are the listing of the set they form.                    *)
LEMMA ListingOfLines ==
  ASSUME NEW s \in Seq(Nat), Increasing(s)
  PROVE  s \in Channel!Listings(Range(s))
<1> DEFINE m == Len(s)
           S == Range(s)
<1>1. /\ m \in Nat /\ DOMAIN s = 1 .. m /\ s \in [1 .. m -> S]
      /\ \A i \in 1 .. m : s[i] \in Nat
  BY DEF Range
<1>2. \A i, j \in 1 .. m : s[i] = s[j] => i = j
  <2> SUFFICES ASSUME NEW i \in 1 .. m, NEW j \in 1 .. m, s[i] = s[j], i # j PROVE FALSE
    OBVIOUS
  <2>1. i < j \/ j < i
    OBVIOUS
  <2>2. s[i] < s[j] \/ s[j] < s[i]
    BY <1>1, <2>1 DEF Increasing
  <2> QED BY <1>1, <2>2
<1>3. \A t \in S : \E i \in 1 .. m : s[i] = t
  BY <1>1 DEF Range
<1>4. s \in Bijection(1 .. m, S)
  BY <1>1, <1>2, <1>3 DEF Bijection, Injection, Surjection, IsInjective
<1>5. Cardinality(S) = m
  BY <1>1, <1>4, FS_CountingElements DEF ExistsBijection
<1> QED BY <1>1, <1>5, ChannelCounts DEF Channel!Listings, Channel!Ascending, Increasing

-----------------------------------------------------------------------------
(* The queue of the channel before and after a step, line by line.         *)
QueueByIndex == \A n : n \in LinesIn(Pipeline) <=> InPipeline(n)

LEMMA QueueBefore == Inv1 => QueueByIndex
  BY PipelineLines DEF Inv1, Phases, QueueByIndex

LEMMA QueueAfter == Inv1' => \A n : n \in LinesIn(Pipeline)' <=> InPipeline1(n)
<1>1. Inv1' => QueueByIndex'
  BY QueueBefore, PTL
<1> QED BY <1>1 DEF QueueByIndex, InPipeline, InPipeline1

(* An append() is accepted by the channel.                                 *)
LEMMA AcceptStep == ASSUME Inv1, Inv1', NewLine PROVE Channel!Accept
  BY QueueBefore, QueueAfter DEF QueueByIndex, NewLine, Channel!Accept

(* The channel does not see buffers change hands.                          *)
LEMMA InvisibleStep == ASSUME Inv1, Inv1', NoLine PROVE UNCHANGED Channel!vars
<1>1. LinesIn(Pipeline)' = LinesIn(Pipeline)
  BY QueueBefore, QueueAfter DEF QueueByIndex, NoLine
<1> QED BY <1>1 DEF NoLine, Channel!vars

(* output.append() of a buffer delivers the oldest lines of the queue, in  *)
(* order; an empty buffer delivers none.                                   *)
LEMMA DeliverStep ==
  ASSUME Inv1, Inv1', Order, WriteBuffer
  PROVE  Channel!Deliver \/ UNCHANGED Channel!vars
<1> DEFINE m == Len(buffersToWrite)
           b == buffersToWrite[written + 1]
           s == Data(store, b)
           Q == LinesIn(Pipeline)
<1>1. /\ TypeOK /\ BufferOwnership /\ written \in Nat /\ m \in Nat
      /\ file \in Seq(Nat) /\ currentBuffer \in Buffers
  <2>1. TypeOK /\ BufferOwnership /\ buffersToWrite \in Seq(Buffers)
    BY DEF Inv1, TypeOK
  <2> QED BY <2>1 DEF TypeOK
<1>2. /\ written + 1 \in written + 1 .. m /\ written + 1 \in 1 .. m
      /\ b \in Buffers /\ s \in Seq(Nat) /\ Increasing(s)
  <2>1. written + 1 \in written + 1 .. m /\ written + 1 \in 1 .. m
    BY <1>1 DEF WriteBuffer
  <2> QED BY <1>1, <2>1, Members DEF Order, LinesLogged
<1>3. /\ UNCHANGED <<currentBuffer, buffers, buffersToWrite, store, lineCount, lost>>
      /\ file' = file \o s /\ written' = written + 1
  BY DEF WriteBuffer, shared, Data
<1>4. /\ \A i \in written + 1 .. m : i = written + 1 \/ i \in written + 1 + 1 .. m
      /\ \A i \in written + 1 + 1 .. m : i \in written + 1 .. m
  BY <1>1
<1>5. \A n : InPipeline(n) <=> InPipeline1(n) \/ n \in Range(s)
  BY <1>2, <1>3, <1>4 DEF InPipeline, InPipeline1, Held
<1>6. \A a \in Buffers : Older(store, b, a) =>
        \A k \in Range(s), n \in Range(Data(store, a)) : k < n
  BY BelowLines DEF Older
<1>7. \A k \in Range(s) : \A n : InPipeline1(n) => k < n
  <2> SUFFICES ASSUME NEW k \in Range(s), NEW n, InPipeline1(n) PROVE k < n
    OBVIOUS
  <2>1. ASSUME NEW i \in written + 1 + 1 .. m, n \in Range(Data(store, buffersToWrite[i]))
        PROVE  k < n
    BY <1>1, <1>2, <1>4, <1>6, <2>1, Members DEF Order, BatchInOrder
  <2>2. ASSUME NEW i \in 1 .. Len(buffers), n \in Range(Data(store, buffers[i]))
        PROVE  k < n
    BY <1>1, <1>2, <1>6, <2>2, Members DEF Order, BatchInOrder
  <2>3. ASSUME n \in Range(Data(store, currentBuffer)) PROVE k < n
    BY <1>1, <1>2, <1>6, <2>3 DEF Order, BatchInOrder
  <2> QED BY <1>3, <2>1, <2>2, <2>3 DEF InPipeline1, Held
<1>8. /\ \A n : n \in Q <=> InPipeline(n)
      /\ \A n : n \in Q' <=> InPipeline1(n)
  BY QueueBefore, QueueAfter DEF QueueByIndex
<1>9. \A n : InPipeline1(n) => n \in Nat
  <2>1. \A a \in Buffers : \A n \in Range(Data(store, a)) : n \in Nat
    BY <1>1, Members DEF Range
  <2> QED BY <1>1, <1>3, <1>4, <2>1, Members DEF InPipeline1, Held
<1> HIDE DEF m, b, s
<1>10. CASE s = <<>>
  <2>1. Range(s) = {} /\ file' = file
    BY <1>1, <1>3, <1>10, EmptyRange
  <2>2. Q' = Q
    BY <1>5, <1>8, <2>1
  <2> QED BY <1>3, <2>1, <2>2 DEF Channel!vars
<1>11. CASE s # <<>>
  <2> DEFINE last == s[Len(s)]
             oldest == {n \in Q : n <= last}
  <2>1. /\ last \in Range(s) /\ last \in Nat
        /\ \A n \in Range(s) : n \in Nat /\ n <= last
    BY <1>2, <1>11, FirstAndLast
  <2> HIDE DEF last
  <2>2. \A n : InPipeline1(n) => ~ (n <= last)
    BY <1>7, <1>9, <2>1
  <2>3. oldest = Range(s)
    BY <1>5, <1>8, <2>1, <2>2
  <2>4. last \in Q /\ Q' = Q \ oldest
    <3>1. \A n : n \in Q' <=> n \in Q /\ n \notin Range(s)
      BY <1>5, <1>8, <2>1, <2>2
    <3> QED BY <1>5, <1>8, <2>1, <2>3, <3>1
  <2>5. s \in Channel!Listings(oldest)
    BY <1>2, <2>3, ListingOfLines
  <2> QED BY <1>3, <2>4, <2>5 DEF Channel!Deliver
<1> QED BY <1>10, <1>11

(* The queue of the channel can be counted.                                *)
LEMMA QueueFinite ==
  ASSUME Inv1, Order
  PROVE  IsFiniteSet(LinesIn(Pipeline)) /\ Cardinality(LinesIn(Pipeline)) \in Nat
<1> DEFINE Q == LinesIn(Pipeline)
<1>1. TypeOK /\ BufferOwnership /\ lineCount \in Nat /\ currentBuffer \in Buffers
  BY DEF Inv1, TypeOK
<1>2. Q \subseteq 1 .. lineCount
  <2>1. \A b \in Buffers : Range(Data(store, b)) \subseteq 1 .. lineCount
    BY DEF Order, LinesLogged, Range
  <2>2. \A n : n \in Q <=> InPipeline(n)
    BY QueueBefore DEF QueueByIndex
  <2> QED BY <1>1, <2>1, <2>2, Members DEF InPipeline, Held
<1>3. IsFiniteSet(1 .. lineCount)
  <2>1. lineCount \in Int /\ 1 \in Int
    BY <1>1
  <2> QED BY <2>1, FS_Interval
<1> HIDE DEF Q
<1>4. IsFiniteSet(Q)
  BY <1>2, <1>3, FS_Subset
<1> QED BY <1>4, FS_CardinalityType DEF Q

(* The first line of each buffer of a batch, and no two of them the same:  *)
(* a backlog of buffers is one of lines.                                   *)
LEMMA LinePerBuffer ==
  ASSUME Inv1, Order, Filled, written = 0, Len(buffersToWrite) >= 2
  PROVE  Cardinality(LinesIn(Pipeline)) >= Len(buffersToWrite)
<1> DEFINE m == Len(buffersToWrite)
           D(i) == Data(store, buffersToWrite[i])
           f == [i \in 1 .. m |-> D(i)[1]]
           Q == LinesIn(Pipeline)
<1>1. /\ TypeOK /\ BufferOwnership /\ m \in Nat /\ lineCount \in Nat
      /\ currentBuffer \in Buffers
      /\ \A i \in 1 .. m : buffersToWrite[i] \in Buffers /\ i \in 0 + 1 .. m
      /\ \A i, j \in 1 .. m : i < j => j \in i + 1 .. m
  <2>1. TypeOK /\ BufferOwnership
    BY DEF Inv1
  <2>2. m \in Nat /\ lineCount \in Nat /\ currentBuffer \in Buffers
    BY <2>1 DEF TypeOK
  <2>3. \A i \in 1 .. m : buffersToWrite[i] \in Buffers
    BY <2>1, Members
  <2> HIDE DEF m
  <2>4. /\ \A i \in 1 .. m : i \in 0 + 1 .. m
        /\ \A i, j \in 1 .. m : i < j => j \in i + 1 .. m
    BY <2>2
  <2> QED BY <2>1, <2>2, <2>3, <2>4
<1>2. \A i \in 1 .. m : /\ D(i) \in Seq(Nat) /\ D(i) # <<>> /\ Increasing(D(i))
                        /\ D(i)[1] \in Range(D(i)) /\ D(i)[1] \in Nat
  <2> SUFFICES ASSUME NEW i \in 1 .. m
               PROVE  /\ D(i) \in Seq(Nat) /\ D(i) # <<>> /\ Increasing(D(i))
                      /\ D(i)[1] \in Range(D(i)) /\ D(i)[1] \in Nat
    OBVIOUS
  <2>1. D(i) \in Seq(Nat) /\ D(i) # <<>> /\ Increasing(D(i))
    BY <1>1, Members DEF Order, LinesLogged, Filled
  <2> QED BY <2>1, FirstAndLast
<1>3. \A i, j \in 1 .. m : i < j => D(i)[1] < D(j)[1]
  <2> SUFFICES ASSUME NEW i \in 1 .. m, NEW j \in 1 .. m, i < j PROVE D(i)[1] < D(j)[1]
    OBVIOUS
  <2>1. Below(D(i), D(j))
    BY <1>1 DEF Order, BatchInOrder, Older
  <2> QED BY <1>2, <2>1, BelowLines
<1>4. \A n : n \in Q <=> InPipeline(n)
  BY QueueBefore DEF QueueByIndex
<1>5. \A i \in 1 .. m : D(i)[1] \in Q
  BY <1>1, <1>2, <1>4 DEF InPipeline, Held
<1>6. IsFiniteSet(Q) /\ Cardinality(Q) \in Nat
  BY QueueFinite
<1> HIDE DEF m, D, Q
<1>7. f \in Injection(1 .. m, Q)
  <2>1. f \in [1 .. m -> Q]
    BY <1>5
  <2>2. \A i, j \in 1 .. m : f[i] = f[j] => i = j
    <3> SUFFICES ASSUME NEW i \in 1 .. m, NEW j \in 1 .. m, D(i)[1] = D(j)[1], i # j
                 PROVE  FALSE
      OBVIOUS
    <3>1. i < j \/ j < i
      OBVIOUS
    <3>2. D(i)[1] < D(j)[1] \/ D(j)[1] < D(i)[1]
      BY <1>3, <3>1
    <3> QED BY <1>2, <3>2
  <2> QED BY <2>1, <2>2 DEF Injection, IsInjective
<1>8. Cardinality(1 .. m) <= Cardinality(Q)
  BY <1>6, <1>7, FS_Injection
<1>9. Cardinality(1 .. m) = m
  <2>1. m \in Int /\ 1 \in Int
    BY <1>1
  <2>2. Cardinality(1 .. m) = IF 1 > m THEN 0 ELSE m - 1 + 1
    BY <2>1, FS_Interval
  <2> QED BY <1>1, <2>2
<1> QED BY <1>1, <1>6, <1>8, <1>9 DEF m, Q

(* The erase() behind a backlog is an Overflow of the channel: it costs    *)
(* the lines from the first of the third buffer to the last of the last    *)
(* buffer, of a batch that has more than MaxBacklog lines.                 *)
LEMMA OverflowStep ==
  ASSUME Inv1, Inv1', Order, Filled, Trim
  PROVE  Channel!Overflow \/ UNCHANGED Channel!vars
<1> DEFINE m == Len(buffersToWrite)
           D(i) == Data(store, buffersToWrite[i])
           Q == LinesIn(Pipeline)
           T == SubSeq(buffersToWrite, 3, m)
           S == LinesIn(T)
<1>1. CASE ~ Backlogged
  <2>1. UNCHANGED <<currentBuffer, buffers, buffersToWrite, written, store, file, lineCount, lost>>
    BY <1>1 DEF Trim, shared
  <2>2. NoLine
    BY <2>1 DEF NoLine, InPipeline, InPipeline1
  <2> QED BY <2>2, InvisibleStep
<1>2. CASE Backlogged
  <2>1. /\ UNCHANGED <<currentBuffer, buffers, written, store, file, lineCount>>
        /\ written = 0 /\ TypeOK /\ BufferOwnership
        /\ buffersToWrite' = SubSeq(buffersToWrite, 1, 2)
        /\ lost' = lost \cup S
    BY <1>2 DEF Trim, shared, Inv1, Phases
  <2>2. /\ m \in Nat /\ m >= MaxBacklog + 1 /\ m >= 3 /\ MaxBacklog \in Nat
        /\ buffersToWrite \in Seq(Buffers) /\ currentBuffer \in Buffers
    <3>1. buffersToWrite \in Seq(Buffers) /\ currentBuffer \in Buffers
      BY <2>1 DEF TypeOK
    <3>2. m \in Nat
      BY <3>1
    <3> QED BY <1>2, <3>1, <3>2, MaxBacklogAssumption DEF Backlogged
  <2>3. /\ Len(buffersToWrite') = 2
        /\ buffersToWrite'[1] = buffersToWrite[1] /\ buffersToWrite'[2] = buffersToWrite[2]
    BY <2>1, <2>2, FirstTwo
  <2>4. /\ DOMAIN T = 1 .. m - 2
        /\ \A i \in 1 .. m - 2 : T[i] = buffersToWrite[i + 2]
    BY <2>2, FromThird
  <2>5. Cardinality(Q) >= MaxBacklog + 1
    <3>1. Cardinality(Q) >= m
      BY <2>1, <2>2, LinePerBuffer
    <3>2. Cardinality(Q) \in Nat
      BY QueueFinite
    <3> QED BY <2>2, <3>1, <3>2
  <2> HIDE DEF T
  <2>6. \A n : n \in S <=> \E i \in 3 .. m : n \in Range(D(i))
    <3>1. /\ \A i \in 1 .. m - 2 : i + 2 \in 3 .. m
          /\ \A i \in 3 .. m : i - 2 \in 1 .. m - 2 /\ i - 2 + 2 = i
      BY <2>2
    <3>2. \A n : n \in S <=> \E i \in 1 .. m - 2 : n \in Range(D(i + 2))
      BY <2>4 DEF LinesIn, LinesOf, Data
    <3> QED BY <3>1, <3>2
  <2> HIDE DEF m
  <2>7. /\ \A i \in 0 + 1 .. m : i = 1 \/ i = 2 \/ i \in 3 .. m
        /\ \A i \in 3 .. m : i \in 0 + 1 .. m /\ i \in 1 + 1 .. m /\ i \in 2 + 1 .. m
        /\ 1 \in 0 + 1 .. m /\ 2 \in 0 + 1 .. m /\ 2 \in 1 + 1 .. m
        /\ \A i \in 0 + 1 .. 2 : i = 1 \/ i = 2
        /\ 1 \in 0 + 1 .. 2 /\ 2 \in 0 + 1 .. 2
        /\ \A i \in 0 + 1 .. m : i \in 1 .. m
        /\ 3 \in 3 .. m /\ m \in 3 .. m
    BY <2>2
  <2>8. \A i \in 0 + 1 .. m :
          /\ buffersToWrite[i] \in Buffers
          /\ D(i) \in Seq(Nat) /\ D(i) # <<>> /\ Increasing(D(i))
    <3> TAKE i \in 0 + 1 .. m
    <3>1. i \in 1 .. m /\ m >= 2
      BY <2>2, <2>7
    <3>2. buffersToWrite[i] \in Buffers
      BY <2>1, <3>1, Members DEF m
    <3> QED BY <2>1, <3>1, <3>2, Members DEF Order, LinesLogged, Filled, m
  <2>9. /\ \A n : n \in Q <=> InPipeline(n)
        /\ \A n : n \in Q' <=> InPipeline1(n)
    BY QueueBefore, QueueAfter DEF QueueByIndex
  <2> DEFINE first == D(3)[1]
             last == D(m)[Len(D(m))]
  <2>10. /\ first \in Range(D(3)) /\ first \in Nat
         /\ \A n \in Range(D(3)) : n \in Nat /\ first <= n
    BY <2>7, <2>8, FirstAndLast
  <2>11. /\ last \in Range(D(m)) /\ last \in Nat
         /\ \A n \in Range(D(m)) : n \in Nat /\ n <= last
    BY <2>7, <2>8, FirstAndLast
  <2>12. \A i, j \in 0 + 1 .. m : i < j =>
           \A a \in Range(D(i)), b \in Range(D(j)) : a \in Nat /\ b \in Nat /\ a < b
    <3> TAKE i, j \in 0 + 1 .. m
    <3> HAVE i < j
    <3>1. i + 1 \in Nat /\ j \in i + 1 .. m
      BY <2>2
    <3>2. Below(D(i), D(j))
      BY <2>1, <3>1 DEF Order, BatchInOrder, Older, m
    <3>3. \A a \in Range(D(i)), b \in Range(D(j)) : a \in Nat /\ b \in Nat
      BY <2>8 DEF Range
    <3> QED BY <3>2, <3>3, BelowLines
  <2>13. \A n \in S : n \in Nat /\ first <= n /\ n <= last
    <3> SUFFICES ASSUME NEW i \in 3 .. m, NEW n \in Range(D(i))
                 PROVE  n \in Nat /\ first <= n /\ n <= last
      BY <2>6
    <3>1. n \in Nat
      <4>1. D(i) \in Seq(Nat)
        BY <2>7, <2>8
      <4> QED BY <4>1, RangeOver
    <3>2. first <= n
      <4>1. i = 3 \/ 3 < i
        BY <2>2
      <4> QED BY <2>7, <2>10, <2>12, <3>1, <4>1
    <3>3. n <= last
      <4>1. i = m \/ i < m
        BY <2>2
      <4> QED BY <2>7, <2>11, <2>12, <3>1, <4>1
    <3> QED BY <3>1, <3>2, <3>3
  <2>14. \A n : InPipeline1(n) => ~ (first <= n /\ n <= last)
    <3> SUFFICES ASSUME NEW n, InPipeline1(n) PROVE ~ (first <= n /\ n <= last)
      OBVIOUS
    <3>1. ASSUME NEW i \in {1, 2}, n \in Range(D(i)) PROVE ~ (first <= n)
      BY <2>7, <2>10, <2>12, <3>1
    <3>2. \A a \in Buffers : Older(store, buffersToWrite[m], a) =>
            \A b \in Range(Data(store, a)) : b \in Nat /\ last < b
      <4>1. \A a \in Buffers : \A b \in Range(Data(store, a)) : b \in Nat
        BY <2>1, Members DEF Range
      <4> QED BY <2>11, <4>1, BelowLines DEF Older
    <3>3. ASSUME NEW i \in 1 .. Len(buffers), n \in Range(Data(store, buffers[i]))
          PROVE  ~ (n <= last)
      <4>1. buffers[i] \in Buffers
        BY <2>1, Members
      <4>2. Older(store, buffersToWrite[m], buffers[i])
        BY <2>1, <2>7 DEF Order, BatchInOrder, m
      <4>3. n \in Nat /\ last < n
        BY <3>2, <3>3, <4>1, <4>2
      <4> QED BY <2>11, <4>3
    <3>4. ASSUME n \in Range(Data(store, currentBuffer)) PROVE ~ (n <= last)
      BY <2>1, <2>2, <2>7, <2>11, <3>2, <3>4 DEF Order, BatchInOrder, m
    <3>5. \/ n \in Range(D(1)) \/ n \in Range(D(2))
          \/ \E i \in 1 .. Len(buffers) : n \in Range(Data(store, buffers[i]))
          \/ n \in Range(Data(store, currentBuffer))
      BY <2>1, <2>3, <2>7 DEF InPipeline1, Held
    <3> QED BY <3>1, <3>3, <3>4, <3>5
  <2>15. \A n : InPipeline(n) <=> InPipeline1(n) \/ n \in S
    BY <2>1, <2>3, <2>6, <2>7 DEF InPipeline, InPipeline1, Held, m
  <2> DEFINE dropped == {n \in Q : first <= n /\ n <= last}
  <2> HIDE DEF first, last, S
  <2>16. dropped = S
    BY <2>9, <2>13, <2>14, <2>15
  <2>17. Q' = Q \ dropped /\ lost' = lost \cup dropped
    <3>1. \A n : n \in Q' <=> n \in Q /\ n \notin S
      BY <2>9, <2>13, <2>14, <2>15
    <3> QED BY <2>1, <2>16, <3>1
  <2>18. first \in Q /\ last \in Q /\ first <= last
    <3>1. first \in S /\ last \in S
      BY <2>6, <2>7, <2>10, <2>11
    <3> QED BY <2>9, <2>13, <2>15, <3>1
  <2>19. \E a, b \in Q : a < b /\ b < first
    <3>1. /\ D(1)[1] \in Range(D(1)) /\ D(2)[1] \in Range(D(2))
      BY <2>7, <2>8, FirstAndLast
    <3>2. D(1)[1] \in Q /\ D(2)[1] \in Q
      BY <2>1, <2>7, <2>9, <3>1 DEF InPipeline, Held, m
    <3>3. 1 < 2 /\ 2 < 3 /\ 3 \in 0 + 1 .. m
      BY <2>7
    <3>4. D(1)[1] < D(2)[1]
      BY <2>7, <2>12, <3>1, <3>3
    <3>5. D(2)[1] < first
      BY <2>7, <2>10, <2>12, <3>1, <3>3
    <3> QED BY <3>2, <3>4, <3>5
  <2>20. Channel!Cardinality(Q) >= MaxBacklog + 1
    BY <2>5, ChannelCounts
  <2> HIDE DEF Q
  <2> QED BY <2>1, <2>17, <2>18, <2>19, <2>20 DEF Channel!Overflow, Q
<1> QED BY <1>1, <1>2

(* Every step of the logger is one of the channel, or invisible.           *)
LEMMA ChannelNext ==
  ASSUME Inv1, Inv1', Order, Filled, [Next]_vars
  PROVE  [Channel!Next]_(Channel!vars)
<1> USE DEF Channel!Next
<1>1. CASE FrontEnd
  BY <1>1, NewLineAppendFits, NewLineAppendSwitches, AcceptStep DEF FrontEnd
<1>2. CASE CollectNow \/ CollectSignalled \/ CollectTimeout
  BY <1>2, NoLineCollect, InvisibleStep DEF CollectNow, CollectSignalled, CollectTimeout
<1>3. CASE Trim
  BY <1>3, OverflowStep
<1>4. CASE WriteBuffer
  BY <1>4, DeliverStep
<1>5. CASE \/ Allocate \/ Recycle \/ TestRunning \/ WaitForSeconds \/ Stop \/ Stopped
           \/ UNCHANGED vars
  BY <1>5, NoLineOthers, InvisibleStep DEF Stopped
<1> QED BY <1>1, <1>2, <1>3, <1>4, <1>5 DEF Next, BackEndStep

(* The channel is empty at first.                                          *)
LEMMA ChannelInit == Init => Channel!Init
<1> SUFFICES ASSUME Init PROVE Channel!Init
  OBVIOUS
<1>1. \A n : ~ InPipeline(n)
  <2>1. lineCount = 0 /\ Accounted
    BY AccountedInit DEF Init
  <2>2. \A n : n \notin 1 .. lineCount
    BY <2>1
  <2> QED BY <2>1, <2>2 DEF Accounted
<1>2. LinesIn(Pipeline) = {}
  BY <1>1, Inv1Init, QueueBefore DEF QueueByIndex
<1> QED BY <1>2 DEF Init, Channel!Init

(* For any number of threads, buffers and lines, the double-buffered       *)
(* logger is a queue of lines to its users: it delivers the oldest lines   *)
(* in order, and loses lines only when more than MaxBacklog of them wait,  *)
(* in one run, and never the two oldest.                                   *)
THEOREM LoggerIsAChannel == Spec => ImplementsLogChannel
<1> DEFINE I == Inv1 /\ Order /\ Filled
<1>1. Init => I
  BY Inv1Init, OrderInit, FilledInit
<1>2. I /\ [Next]_vars => I'
  BY Inv1Next, OrderNext, FilledNext
<1>3. I /\ I' /\ [Next]_vars => [Channel!Next]_(Channel!vars)
  BY ChannelNext
<1> QED BY <1>1, <1>2, <1>3, ChannelInit, PTL DEF Spec, ImplementsLogChannel, Channel!Spec
=============================================================================
