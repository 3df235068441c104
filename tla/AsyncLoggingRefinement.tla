----------------------- MODULE AsyncLoggingRefinement -----------------------
(***************************************************************************)
(* AsyncLogging implements LogChannel: the queue of the channel is what    *)
(* the buffers hold that the back end has not written yet, those of its    *)
(* batch, the queued ones and the current one.  An append() is an Accept,  *)
(* output.append() of a buffer a Deliver, the erase() behind a backlog an  *)
(* Overflow; the rest, and the writing of an empty buffer, is invisible.   *)
(***************************************************************************)
EXTENDS AsyncLogging

Channel == INSTANCE LogChannel WITH MinBacklog <- MaxBacklog + 1, count <- lineCount,
                                    queue <- LinesIn(Pipeline), out <- file

(* The double buffering is invisible to the users of append(): every step  *)
(* of the front end and of the back end is a step of the channel or        *)
(* invisible, and only a backlog of full buffers costs lines.              *)
ImplementsLogChannel == Channel!Spec
=============================================================================
