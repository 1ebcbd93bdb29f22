--------------------------- MODULE MCSpacedReadGate ---------------------------
(* Model values for SpacedReadGate. *)
EXTENDS SpacedReadGate, TLC

CONSTANTS a1, a2, a3
=============================================================================
