---------------------------- MODULE MCOverloadHold ----------------------------
(* Model values for OverloadHold. *)
EXTENDS OverloadHold, TLC

CONSTANTS r1, r2, haiku, opus
=============================================================================
