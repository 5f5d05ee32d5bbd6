------------------------------- MODULE MCHlc -------------------------------
(***************************************************************************)
(* A small instance of Hlc: milliseconds up to three, two counts of each,  *)
(* a skew window of one, and two operations in the log.                    *)
(***************************************************************************)
EXTENDS Hlc

SmallWalls == 0..2
============================================================================
