----------------------------- MODULE MCApprovals -----------------------------
(* Instances of Approvals: all sockets belong to s1, the chat moves between *)
(* the sessions; bash needs consent and full trust, note neither.           *)
EXTENDS Approvals

CONSTANTS c1, c2, s1, s2, bash, note, w1, w2

MCMinTrust == [t \in Tools |-> IF t = bash THEN 2 ELSE 1]
MCSocketOf == [w \in Sockets |-> s1]
==============================================================================
