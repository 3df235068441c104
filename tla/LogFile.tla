------------------------------- MODULE LogFile -------------------------------
(***************************************************************************)
(* The log file of LogFile.{h,cpp} over AppendFile of FileUtil.{h,cpp}, as *)
(* the back end of AsyncLogging uses it: one thread appends and flushes.   *)
(* The process may be killed at any time, and started again; the disk may  *)
(* refuse a write at any time, of which the code learns nothing.  fopen()  *)
(* that fails ends the process in the constructor (setbuffer of a null     *)
(* FILE), which is one more kill.                                          *)
(*                                                                         *)
(* What is appended is the number of the append() call.                    *)
(***************************************************************************)
EXTENDS Integers, Sequences, FiniteSets, Functions

CONSTANTS
  Lens,          (* lengths an appended item can have                      *)
  KMAXFileSize,
  FlushEveryN,   (* flushEveryN_, 1024 by default                          *)
  MaxAppends,    (* BOUND: append() calls                                  *)
  EndTime,       (* BOUND: seconds                                         *)
  Pids           (* the numbers a process can have, used in any order      *)

ASSUME LensAssumption  == Lens \subseteq Nat \ {0}
ASSUME SizesAssumption == {KMAXFileSize, FlushEveryN} \subseteq Nat \ {0}
ASSUME LogFileBoundsAssumption == {MaxAppends, EndTime} \subseteq Nat

VARIABLES
  now,        (* time(NULL)                                                *)
  pid,
  pc,         (* where the thread is, or "killed"                          *)
  file_,      (* the name of the open file                                 *)
  buffered,   (* what stdio holds for it                                   *)
  ferror,     (* a write of the open file has failed                       *)
  disk,       (* per name, what the file has                               *)
  count_, curSize_,
  appends,    (* append() calls so far                                     *)
  len,        (* the length of the current one                             *)
  flushed,    (* appends that were written when a fflush() of flush() had  *)
              (* succeeded                                                 *)
  cut,        (* appends that fwrite did not take to the end               *)
  lost,       (* appends that stdio took and could not write               *)
  killed      (* appends that stdio held in a process that was killed      *)

vars == <<now, pid, pc, file_, buffered, ferror, disk, count_, curSize_, appends, len,
          flushed, cut, lost, killed>>

stdio == <<buffered, ferror, disk, lost>>

(* The parts of a file name that change.                                   *)
Names == (0 .. EndTime) \X Pids

Init ==
  /\ now = 0
  /\ pid \in Pids
  /\ pc = "roll"
  /\ file_ = <<0, pid>>
  /\ buffered = <<>>
  /\ ferror = FALSE
  /\ disk = [n \in Names |-> <<>>]
  /\ count_ = 0
  /\ curSize_ = 0
  /\ appends = 0
  /\ len = 0
  /\ flushed = {}
  /\ cut = {}
  /\ lost = {}
  /\ killed = {}

(* The local time does not go back.                                        *)
Tick ==
  /\ now < EndTime
  /\ now' = now + 1
  /\ UNCHANGED <<pid, pc, file_, buffered, ferror, disk, count_, curSize_, appends, len,
                 flushed, cut, lost, killed>>

Goto(from, to) == pc = from /\ pc' = to

-----------------------------------------------------------------------------
(* The files once the first n items that stdio holds are written.          *)
Written(held, n) == [disk EXCEPT ![file_] = @ \o SubSeq(held, 1, n)]

Part(held, from, to) == {held[i] : i \in from .. to}

(* stdio writes the first n items it holds, loses those up to the k-th     *)
(* when the write fails, and goes on holding the others.  (C leaves open   *)
(* what of the buffer a failed write costs; glibc empties it.)             *)
Stdio(held, n, k) ==
  /\ disk' = Written(held, n)
  /\ lost' = lost \cup Part(held, n + 1, k)
  /\ buffered' = SubSeq(held, k + 1, Len(held))
  /\ ferror' \in {ferror, TRUE}
  /\ n < k => ferror'

(* MUTANT of fflush: the call is left out.                                 *)
fflush_Omitted == UNCHANGED stdio

(* AppendFile::flush(), which does not look at what fflush() returns.      *)
fflush ==
  \E n, k \in 0 .. Len(buffered) :
    /\ n <= k
    /\ Stdio(buffered, n, k)
    /\ n < Len(buffered) => ferror'

(* AppendFile::append() by append_unlocked(): stdio takes the item, and    *)
(* writes what does not fit its buffer.                                    *)
Write ==
  /\ appends < MaxAppends
  /\ Goto("ready", "count")
  /\ appends' = appends + 1
  /\ len' \in Lens
  /\ LET held == Append(buffered, appends')
     IN \E n, k \in 0 .. Len(held) : n <= k /\ Stdio(held, n, k)
  /\ UNCHANGED <<now, pid, file_, count_, curSize_, flushed, cut, killed>>

(* fwrite fails and does not take all of the item, or loses a part of it:  *)
(* append() gives up or goes on with the rest, and tells nobody.           *)
WriteBreaks ==
  /\ appends < MaxAppends
  /\ Goto("ready", "count")
  /\ appends' = appends + 1
  /\ len' \in Lens
  /\ cut' = cut \cup {appends'}
  /\ \E n, k \in 0 .. Len(buffered) : n <= k /\ Stdio(buffered, n, k)
  /\ ferror'
  /\ UNCHANGED <<now, pid, file_, count_, curSize_, flushed, killed>>

(* MUTANT of CountDue: > for >=.                                           *)
CountDue_Late == count_ + 1 > FlushEveryN

CountDue == count_ + 1 >= FlushEveryN

(* append_unlocked(): every flushEveryN_-th call flushes, and counts from  *)
(* 0 again whatever became of the flush.                                   *)
Count ==
  /\ Goto("count", "size")
  /\ IF CountDue THEN count_' = 0 /\ fflush
                 ELSE count_' = count_ + 1 /\ UNCHANGED stdio
  /\ UNCHANGED <<now, pid, file_, curSize_, appends, len, flushed, cut, killed>>

(* append() behind append_unlocked().                                      *)
Size ==
  /\ curSize_' = curSize_ + len
  /\ len' = 0
  /\ \/ curSize_' < KMAXFileSize /\ Goto("size", "ready") /\ UNCHANGED stdio
     \/ curSize_' >= KMAXFileSize /\ Goto("size", "roll") /\ fflush
  /\ UNCHANGED <<now, pid, file_, count_, appends, flushed, cut, killed>>

(* MUTANT of getFilename: too few digits of the time.                      *)
getFilename_Short == <<now % 2, pid>>

(* The second comes before the number of the process in a name.            *)
getFilename == <<now, pid>>

(* MUTANT of fopen: the mode is "we".                                      *)
fopen_Truncates(name, files) == file_' = name /\ disk' = [files EXCEPT ![name] = <<>>]

(* fopen with "ae" in AppendFile().                                        *)
fopen(name, files) == file_' = name /\ disk' = files

(* rollFile(), in the constructor and by append(): the new file is opened, *)
(* and fclose() of the file that was open, if there is one, writes what it *)
(* can of what a flush that failed has left, and drops the rest.           *)
rollFile ==
  /\ Goto("roll", "ready")
  /\ \E n \in 0 .. Len(buffered) :
       /\ fopen(getFilename, Written(buffered, n))
       /\ lost' = lost \cup Part(buffered, n + 1, Len(buffered))
  /\ buffered' = <<>>
  /\ ferror' = FALSE
  /\ count_' = 0
  /\ curSize_' = 0
  /\ UNCHANGED <<now, pid, appends, len, flushed, cut, killed>>

(* flush(), which leaves count_ alone.  Its caller is not told whether     *)
(* everything could be written; `flushed` grows only then.                 *)
Flush ==
  /\ pc = "ready"
  /\ fflush
  /\ flushed' = IF buffered' = <<>> /\ lost' = lost
                THEN (1 .. appends) \ (cut \cup lost \cup killed)
                ELSE flushed
  /\ UNCHANGED <<now, pid, pc, file_, count_, curSize_, appends, len, cut, killed>>

-----------------------------------------------------------------------------
(* The process is killed, with what stdio holds; another one is started.   *)
Kill ==
  /\ pc # "killed"
  /\ pc' = "killed"
  /\ killed' = killed \cup Range(buffered)
  /\ buffered' = <<>>
  /\ UNCHANGED <<now, pid, file_, ferror, disk, count_, curSize_, appends, len, flushed, cut,
                 lost>>

Restart ==
  /\ Goto("killed", "roll")
  /\ pid' \in Pids
  /\ len' = 0
  /\ UNCHANGED <<now, file_, buffered, ferror, disk, count_, curSize_, appends, flushed, cut,
                 lost, killed>>

Next ==
  \/ Tick
  \/ Write \/ WriteBreaks \/ Count \/ Size \/ rollFile
  \/ Flush
  \/ Kill \/ Restart

Spec == Init /\ [][Next]_vars

-----------------------------------------------------------------------------
TypeOK ==
  /\ now \in 0 .. EndTime
  /\ pid \in Pids
  /\ pc \in {"roll", "ready", "count", "size", "killed"}
  /\ file_ \in Names
  /\ buffered \in Seq(1 .. MaxAppends)
  /\ ferror \in BOOLEAN
  /\ disk \in [Names -> Seq(1 .. MaxAppends)]
  /\ count_ \in 0 .. FlushEveryN - 1
  /\ curSize_ \in Nat
  /\ appends \in 0 .. MaxAppends
  /\ len \in Lens \cup {0}
  /\ flushed \subseteq 1 .. appends
  /\ cut \subseteq 1 .. appends
  /\ lost \subseteq 1 .. appends
  /\ killed \subseteq 1 .. appends

(* Rolling, flushing and opening a name a second time in one second lose   *)
(* nothing and write nothing twice: each append is in one file or with     *)
(* stdio, unless a write failed or it was killed; and what had been        *)
(* written when a flush() succeeded is in a file, whatever kills the       *)
(* process, fails or rolls the file later.                                 *)
Held == Range(buffered)

OnDisk == UNION {Range(disk[n]) : n \in Names}

Gone == cut \cup lost \cup killed

NothingLost ==
  /\ 1 .. appends = OnDisk \cup Held \cup Gone
  /\ flushed \subseteq OnDisk
  /\ Held \cap OnDisk = {} /\ Gone \cap (OnDisk \cup Held) = {}

(* The files, read in the order of the seconds in their names, give the    *)
(* appends in order, and none of them twice.  Of two processes that log    *)
(* within one second nothing is said: their names differ in the number of  *)
(* the process, as text (10000 is before 9999), and that may be any.       *)
NameBefore(m, n) == m[1] < n[1]

InOrder(s, t) == \A i \in DOMAIN s, j \in DOMAIN t : s[i] < t[j]

FilesInOrder ==
  /\ \A n \in Names : \A i, j \in DOMAIN disk[n] : i < j => disk[n][i] < disk[n][j]
  /\ \A m, n \in Names : NameBefore(m, n) => InOrder(disk[m], disk[n])

(* LogFile.h 13: every flushEveryN_ appends are flushed.  So, while no     *)
(* write of the open file has failed, a kill costs no more than that many  *)
(* of the last appends, and between two calls one less.  After a failure   *)
(* the code bounds nothing: count_ starts again over a full buffer.        *)
LossBounded ==
  ~ ferror => /\ Len(buffered) <= FlushEveryN
              /\ pc = "ready" => Len(buffered) <= count_
=============================================================================
