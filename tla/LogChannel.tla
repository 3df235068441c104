----------------------------- MODULE LogChannel -----------------------------
(***************************************************************************)
(* What AsyncLogging promises its users: a queue of lines between the      *)
(* callers of append() and the log file.  A line is its number in the      *)
(* order in which the lines were accepted, so the set of the queued lines  *)
(* is the queue: its smallest number is its front.  Lines leave it from    *)
(* the front, in order; a backlog may cost lines, in one run of them, but  *)
(* never the two oldest.                                                   *)
(***************************************************************************)
EXTENDS Naturals, Sequences, FiniteSets

CONSTANTS MinBacklog    (* no line is lost with fewer lines queued         *)

VARIABLES count, queue, out, lost

vars == <<count, queue, out, lost>>

Ascending(s) == \A i, j \in DOMAIN s : i < j => s[i] < s[j]

(* The lines of S one after the other: there is one such sequence.         *)
Listings(S) == {s \in [1 .. Cardinality(S) -> S] : Ascending(s)}

Init == count = 0 /\ queue = {} /\ out = <<>> /\ lost = {}

Accept ==
  /\ count' = count + 1
  /\ queue' = queue \cup {count'}
  /\ UNCHANGED <<out, lost>>

Deliver ==
  \E last \in queue :
    LET oldest == {n \in queue : n <= last}
    IN  /\ queue' = queue \ oldest
        /\ \E s \in Listings(oldest) : out' = out \o s
        /\ UNCHANGED <<count, lost>>

Overflow ==
  /\ Cardinality(queue) >= MinBacklog
  /\ \E first, last \in queue :
       LET dropped == {n \in queue : first <= n /\ n <= last}
       IN  /\ first <= last
           /\ \E a, b \in queue : a < b /\ b < first
           /\ queue' = queue \ dropped
           /\ lost' = lost \cup dropped
  /\ UNCHANGED <<count, out>>

Next == Accept \/ Deliver \/ Overflow

Spec == Init /\ [][Next]_vars
=============================================================================
