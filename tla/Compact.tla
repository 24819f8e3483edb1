------------------------------- MODULE Compact -------------------------------
(***************************************************************************)
(* What compact() of core/compaction.py keeps of a conversation, in closed *)
(* form: the oldest prose of the assistant goes first, then the oldest     *)
(* tool calls with the results that follow them, until the rest fits.      *)
(***************************************************************************)
EXTENDS Naturals, Sequences, FiniteSets

Kinds == {"system", "user", "prose", "calls", "tool"}

(* Where the messages of a kind are.                                       *)
Positions(h, kind) == {p \in DOMAIN h : h[p] = kind}

(* The positions that survive the first pass over the kinds h.             *)
AfterProse(h, max) ==
  LET Prose    == Positions(h, "prose")
      Older(p) == {q \in Prose : q < p}
  IN  DOMAIN h \ {p \in Prose : Cardinality(Older(p)) + max < Len(h)}

(* Fault: the call goes, its results stay.                                 *)
CallOnly(h, K, p) == {p}

(* A tool call and the results that directly follow it, among K.           *)
Block(h, K, p) ==
  {q \in K : p <= q /\ \A r \in K : p < r /\ r <= q => h[r] = "tool"}

(* Fault: the newest blocks go first.                                      *)
KeptOldest(h, max) ==
  LET K     == AfterProse(h, max)
      Calls == Positions(h, "calls") \cap K
      Newer(p) == UNION {Block(h, K, q) : q \in {r \in Calls : r > p}}
  IN  K \ UNION {Block(h, K, p) :
                   p \in {r \in Calls :
                            Cardinality(K) > max + Cardinality(Newer(r))}}

(* The positions that survive both passes.                                 *)
Kept(h, max) ==
  LET K     == AfterProse(h, max)
      Calls == Positions(h, "calls") \cap K
      Older(p) == UNION {Block(h, K, q) : q \in {r \in Calls : r < p}}
  IN  K \ UNION {Block(h, K, p) :
                   p \in {r \in Calls :
                            Cardinality(K) > max + Cardinality(Older(r))}}

(* The elements of s at the positions P, in order.                         *)
Pick(s, P) ==
  [k \in 1..Cardinality(P) |->
     s[CHOOSE p \in P : Cardinality({q \in P : q < p}) = k - 1]]
==============================================================================
