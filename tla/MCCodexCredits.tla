---------------------------- MODULE MCCodexCredits ----------------------------
(* Model values for CodexCredits: one credit lapses soon, one does not. *)
EXTENDS CodexCredits, TLC

CONSTANTS c1, c2
=============================================================================
