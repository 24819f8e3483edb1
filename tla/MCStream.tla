------------------------------ MODULE MCStream ------------------------------
(* Instances of Stream for TLC.                                            *)
EXTENDS Stream, TLC

(* All sockets are of the one client.                                      *)
MCOwnerOf == [c \in Sockets |-> CHOOSE k \in Clients : TRUE]

(* Sockets of one client are told apart by no definition.                  *)
MCSymmetry == Permutations(Sockets)
=============================================================================
