--------------------------- MODULE MCPayloadWriter ---------------------------
(* Model values for PayloadWriter.  Payloads are interchangeable. *)
EXTENDS PayloadWriter, TLC

CONSTANTS p1, p2, p3

MCSymmetry == Permutations(Payload)
=============================================================================
