------------------------------- MODULE MCSpend -------------------------------
(* Instances of Spend for TLC.                                             *)
EXTENDS Spend, TLC

MCFallbacks == <<"fallback">>

MCSymmetry == Permutations(Sessions)
=============================================================================
