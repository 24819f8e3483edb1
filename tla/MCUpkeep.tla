------------------------------ MODULE MCUpkeep ------------------------------
(* Instances of Upkeep for TLC.                                            *)
EXTENDS Upkeep, TLC

MCSymmetry == Permutations(Sessions)
=============================================================================
