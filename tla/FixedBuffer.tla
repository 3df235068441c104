----------------------------- MODULE FixedBuffer -----------------------------
(***************************************************************************)
(* FixedBuffer<SIZE> of LogStream.h: a byte array filled from the front    *)
(* through the cursor cur_.  A buffer is a record: `data` is the sequence  *)
(* of items copied in, `cur` the distance from data_ to cur_ in bytes.     *)
(* What an item is (a log line, a formatted piece) is up to the user.      *)
(***************************************************************************)
EXTENDS Naturals, Sequences

CONSTANT BufferSize     (* the template parameter SIZE, in bytes *)

ASSUME BufferSizeAssumption == BufferSize \in Nat \ {0}

EmptyBuffer == [data |-> <<>>, cur |-> 0]

avail(b) == BufferSize - b.cur

(* append copies only when the item fits with one byte to spare, and drops *)
(* it silently otherwise.                                                  *)
Fits(b, len) == avail(b) > len

append(b, item, len) ==
  IF Fits(b, len) THEN [data |-> Append(b.data, item), cur |-> b.cur + len]
                  ELSE b
=============================================================================
