------------------------- MODULE MCFinalityTracker -------------------------
(* A chain of four heights and two forks: long enough for a fork below the *)
(* search depth, for a prune that leaves a gap, and for a rewind that is   *)
(* itself overtaken by a reorganisation.                                   *)
EXTENDS FinalityTracker
=============================================================================
