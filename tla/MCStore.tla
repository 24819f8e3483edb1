------------------------------- MODULE MCStore -------------------------------
(* Instances of Store: the tasks are alike but for their operation.        *)
EXTENDS Store, TLC

CONSTANTS t1, t2, t3

MCSymmetry == Permutations({t1, t2, t3})
==============================================================================
