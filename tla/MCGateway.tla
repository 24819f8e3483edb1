------------------------------ MODULE MCGateway ------------------------------
(* Instances of Gateway: m1 and m2 belong to session s1, m3 to s2.  The    *)
(* safety run may swap m1 and m2: no definition tells them apart.          *)
EXTENDS Gateway, TLC

CONSTANTS m1, m2, m3, s1, s2

MCSessionOf == [m \in Messages |-> IF m = m3 THEN s2 ELSE s1]
MCSymmetry  == Permutations({m1, m2})
==============================================================================
