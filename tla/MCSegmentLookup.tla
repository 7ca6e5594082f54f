--------------------------- MODULE MCSegmentLookup ---------------------------
(***************************************************************************)
(* Every order of calls of find_segment on a short queue.                  *)
(***************************************************************************)
EXTENDS SegmentLookup, TLC

ThreadSymmetry == Permutations(Threads)
=============================================================================
