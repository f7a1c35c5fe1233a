-------------------------- MODULE MCRestoreBudget --------------------------
(* RestoreBudget with limits of two: every counter passes below, at and     *)
(* beyond its limit.  Nothing else needs a bound.                           *)
EXTENDS RestoreBudget
=============================================================================
