------------------------------- MODULE MCTimer -------------------------------
(***************************************************************************)
(* TimerManager for TLC: the workers are interchangeable.                  *)
(***************************************************************************)
EXTENDS TimerManager, TLC

WorkerSymmetry == Permutations(Workers)
=============================================================================
