---------------------------- MODULE MCAsyncWriter ----------------------------
(* Model values for AsyncWriter.  Requests are interchangeable. *)
EXTENDS AsyncWriter, TLC

CONSTANTS r1, r2, r3, r4

MCSymmetry == Permutations(Request)
=============================================================================
