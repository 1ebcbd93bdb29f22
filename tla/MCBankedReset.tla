---------------------------- MODULE MCBankedReset ----------------------------
(* Model values for BankedReset.  Grants of one account, and attempts, are
   interchangeable. *)
EXTENDS BankedReset, TLC

CONSTANTS a1, g1, g2

MCOwnerOf == [g \in Grant |-> a1]
MCSymmetry == Permutations(Grant) \cup Permutations(Attempt)
=============================================================================
