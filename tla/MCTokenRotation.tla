--------------------------- MODULE MCTokenRotation ---------------------------
(* Model values for TokenRotation.  Callers of one role are interchangeable. *)
EXTENDS TokenRotation, TLC

CONSTANTS r1, r2, scheduler, timer

MCSymmetry == Permutations(Request)
=============================================================================
