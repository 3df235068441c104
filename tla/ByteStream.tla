------------------------------ MODULE ByteStream ------------------------------
(***************************************************************************)
(* readn() and writen() of Util.{h,cpp} at the two ends of a non-blocking  *)
(* connection.  Each is a loop of system calls that may move less than was *)
(* asked for, be interrupted (EINTR), find nothing to do (EAGAIN), the end *)
(* of the stream or an error.  The forms with a std::string keep in it     *)
(* what could not be written, and append to it what was read; the forms    *)
(* with a raw buffer leave that to the caller and to the value returned.   *)
(*                                                                         *)
(* Nothing in the repository calls them: the callers here do what the      *)
(* signatures ask for, keep the rest and call again, and give up a         *)
(* connection after -1.  One system call is one action.                    *)
(***************************************************************************)
EXTENDS Integers, Sequences, SequencesExt

CONSTANTS
  MAX_BUFF,      (* bytes that a string readn() asks for, 4096             *)
  Capacity,      (* bytes that the connection holds                        *)
  MaxBytes,      (* BOUND: bytes sent                                      *)
  MaxSignals     (* BOUND: interrupted system calls                        *)

ASSUME ByteStreamAssumption ==
  {MAX_BUFF, Capacity, MaxBytes, MaxSignals} \subseteq Nat /\ MAX_BUFF > 0 /\ Capacity > 0

VARIABLES
  produced,      (* bytes 1 .. produced have been given to the writer      *)
  sbuff,         (* those that writen() still has to write                 *)
  writer,        (* its call: pc, nleft and writeSum                       *)
  connection,    (* bytes on their way                                     *)
  state,         (* of the connection: "open", "shut" by the writer, or    *)
                 (* "reset", when all calls fail                           *)
  reader,        (* its call: pc, form, nleft and the raw buffer           *)
  inBuffer,      (* all that the reader has got                            *)
  zero,          (* readn() has found the end                              *)
  signals

streamvars == <<produced, sbuff, writer, connection, state, reader, inBuffer, zero, signals>>

AtRest == [pc |-> "idle", nleft |-> 0, writeSum |-> 0]
Unread == [pc |-> "idle", form |-> "string", nleft |-> 0, buff |-> <<>>]

StreamInit ==
  /\ produced = 0 /\ sbuff = <<>> /\ writer = AtRest
  /\ connection = <<>> /\ state = "open"
  /\ reader = Unread /\ inBuffer = <<>> /\ zero = FALSE
  /\ signals = 0

-----------------------------------------------------------------------------
(* The caller has bytes to send; ...                                       *)
Produce ==
  /\ writer.pc = "idle" /\ produced < MaxBytes /\ state = "open"
  /\ \E n \in 1 .. MaxBytes - produced :
       /\ produced' = produced + n
       /\ sbuff' = sbuff \o [i \in 1 .. n |-> produced + i]
  /\ UNCHANGED <<writer, connection, state, reader, inBuffer, zero, signals>>

(* ... writen(fd, sbuff) tries all of them, writen(fd, buff, n) the first n. *)
WritenBegins ==
  /\ writer.pc = "idle"
  /\ \E n \in 1 .. Len(sbuff) : writer' = [pc |-> "write", nleft |-> n, writeSum |-> 0]
  /\ UNCHANGED <<produced, sbuff, connection, state, reader, inBuffer, zero, signals>>

(* write() takes n bytes from where ptr points.                            *)
Write ==
  /\ writer.pc = "write" /\ writer.nleft > 0 /\ state # "reset"
  /\ \E n \in 1 .. writer.nleft :
       /\ Len(connection) + n <= Capacity
       /\ connection' = connection \o SubSeq(sbuff, writer.writeSum + 1, writer.writeSum + n)
       /\ writer' = [writer EXCEPT !.nleft = @ - n, !.writeSum = @ + n]
  /\ UNCHANGED <<produced, sbuff, state, reader, inBuffer, zero, signals>>

WriteInterrupted ==
  /\ writer.pc = "write" /\ writer.nleft > 0 /\ signals < MaxSignals
  /\ signals' = signals + 1
  /\ UNCHANGED <<produced, sbuff, writer, connection, state, reader, inBuffer, zero>>

(* MUTANT of Rest: sbuff is cleared, however much was written.             *)
Rest_Cleared(n) == <<>>

Rest(n) == SubSeq(sbuff, n + 1, Len(sbuff))

(* The loop ends, by nleft or by EAGAIN, and what was written is removed:  *)
(* sbuff.substr(writeSum), or the caller of the raw form does it.          *)
WritenReturns ==
  /\ writer.pc = "write"
  /\ writer.nleft = 0 \/ (Len(connection) = Capacity /\ state # "reset")
  /\ sbuff' = Rest(writer.writeSum)
  /\ writer' = AtRest
  /\ UNCHANGED <<produced, connection, state, reader, inBuffer, zero, signals>>

(* An error returns -1, whatever has been written, and sbuff as it was.    *)
WritenFails ==
  /\ writer.pc = "write" /\ writer.nleft > 0 /\ state = "reset"
  /\ writer' = [AtRest EXCEPT !.pc = "failed"]
  /\ UNCHANGED <<produced, sbuff, connection, state, reader, inBuffer, zero, signals>>

-----------------------------------------------------------------------------
(* readn(fd, inBuffer, zero), without zero, or readn(fd, buff, n).         *)
ReadnBegins ==
  /\ reader.pc = "idle" /\ ~ zero
  /\ \E form \in {"zero", "string", "raw"}, n \in 0 .. MaxBytes :
       /\ form = "raw" <=> n > 0
       /\ reader' = [pc |-> "read", form |-> form, nleft |-> n, buff |-> <<>>]
  /\ UNCHANGED <<produced, sbuff, writer, connection, state, inBuffer, zero, signals>>

Raw == reader.form = "raw"
Asks == reader.pc = "read" /\ (Raw => reader.nleft > 0)

Read ==
  /\ Asks /\ state # "reset"
  /\ \E n \in 1 .. Len(connection) :
       LET bytes == SubSeq(connection, 1, n) IN
       /\ n <= (IF Raw THEN reader.nleft ELSE MAX_BUFF)
       /\ connection' = SubSeq(connection, n + 1, Len(connection))
       /\ IF Raw
          THEN /\ reader' = [reader EXCEPT !.nleft = @ - n, !.buff = @ \o bytes]
               /\ UNCHANGED inBuffer
          ELSE inBuffer' = inBuffer \o bytes /\ UNCHANGED reader
  /\ UNCHANGED <<produced, sbuff, writer, state, zero, signals>>

ReadInterrupted ==
  /\ Asks /\ signals < MaxSignals
  /\ signals' = signals + 1
  /\ UNCHANGED <<produced, sbuff, writer, connection, state, reader, inBuffer, zero>>

(* MUTANT of AtEnd: EAGAIN is taken for the end.                           *)
AtEnd_Empty == connection = <<>> /\ state # "reset"

(* read() returns 0.                                                       *)
AtEnd == connection = <<>> /\ state = "shut"

(* MUTANT of RawResult: the buffer counts only when it is full.            *)
RawResult_Full == IF reader.nleft = 0 THEN reader.buff ELSE <<>>

(* buff and readSum of the raw form.                                       *)
RawResult == IF Raw THEN reader.buff ELSE <<>>

(* The loop ends: by nleft, by EAGAIN, or at the end of the stream, of     *)
(* which only the form with `zero` tells.                                  *)
ReadnReturns ==
  /\ reader.pc = "read"
  /\ (Raw /\ reader.nleft = 0) \/ (connection = <<>> /\ state # "reset")
  /\ zero' = (zero \/ (reader.form = "zero" /\ AtEnd))
  /\ inBuffer' = inBuffer \o RawResult
  /\ reader' = Unread
  /\ UNCHANGED <<produced, sbuff, writer, connection, state, signals>>

(* An error returns -1: what a raw buffer had got by then is lost.         *)
ReadnFails ==
  /\ Asks /\ state = "reset"
  /\ reader' = [Unread EXCEPT !.pc = "failed"]
  /\ UNCHANGED <<produced, sbuff, writer, connection, state, inBuffer, zero, signals>>

-----------------------------------------------------------------------------
(* The writer shuts its end when it has nothing more to send; and a        *)
(* connection may be reset, with what is on its way.                       *)
Shut ==
  /\ state = "open" /\ writer.pc = "idle" /\ sbuff = <<>>
  /\ state' = "shut"
  /\ UNCHANGED <<produced, sbuff, writer, connection, reader, inBuffer, zero, signals>>

Reset ==
  /\ state # "reset"
  /\ state' = "reset" /\ connection' = <<>>
  /\ UNCHANGED <<produced, sbuff, writer, reader, inBuffer, zero, signals>>

writen == WritenBegins \/ Write \/ WriteInterrupted \/ WritenReturns \/ WritenFails
readn  == ReadnBegins \/ Read \/ ReadInterrupted \/ ReadnReturns \/ ReadnFails

StreamNext == Produce \/ writen \/ readn \/ Shut \/ Reset

(* Both callers call again as long as there is something to write or, as   *)
(* far as they know, to read, and a system call returns.                   *)
StreamSpec ==
  /\ StreamInit /\ [][StreamNext]_streamvars
  /\ WF_streamvars(writen) /\ WF_streamvars(readn)

-----------------------------------------------------------------------------
StreamTypeOK ==
  /\ produced \in 0 .. MaxBytes
  /\ {sbuff, connection, inBuffer} \subseteq Seq(1 .. MaxBytes)
  /\ Len(connection) <= Capacity
  /\ writer \in [pc : {"idle", "write", "failed"}, nleft : 0 .. MaxBytes,
                 writeSum : 0 .. MaxBytes]
  /\ state \in {"open", "shut", "reset"}
  /\ reader \in [pc : {"idle", "read", "failed"}, form : {"zero", "string", "raw"},
                 nleft : 0 .. MaxBytes, buff : Seq(1 .. MaxBytes)]
  /\ zero \in BOOLEAN /\ signals \in 0 .. MaxSignals

(* Whatever partial writes and reads, signals and EAGAINs come between:    *)
(* what was read, is on its way and is still in sbuff are the bytes that   *)
(* were sent, each once and in order (Util.cpp 96-144, 38-93).  After a    *)
(* reset, what was read is still a beginning of them.                      *)
Sent == [i \in 1 .. produced |-> i]

Unwritten == SubSeq(sbuff, writer.writeSum + 1, Len(sbuff))

StreamIntact ==
  IF state = "reset" THEN IsPrefix(inBuffer \o reader.buff, Sent)
  ELSE inBuffer \o reader.buff \o connection \o Unwritten = Sent

(* Util.cpp 52-55: `zero` tells that the writer has shut its end and that  *)
(* everything it sent has been read.                                       *)
ZeroIsEnd == zero => state # "open" /\ inBuffer = Sent

(* Unless the connection is reset, everything that was to be sent is read: *)
(* no byte is forgotten in sbuff, in a raw buffer or behind an EAGAIN.     *)
AllArrives ==
  \A n \in 1 .. MaxBytes : produced = n ~> Len(inBuffer) >= n \/ state = "reset"
=============================================================================
