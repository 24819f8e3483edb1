----------------------------- MODULE AgentProofs -----------------------------
(***************************************************************************)
(* Theorems about Agent, for any number of messages and lives, any model,  *)
(* any bounds on its calls and on the history; and that compact(), as it   *)
(* runs in Compaction, computes what Agent takes it to.                    *)
(***************************************************************************)
EXTENDS Agent, Compaction, FiniteSetTheorems, SequenceTheorems, TLAPS

-----------------------------------------------------------------------------
(* The inductive invariant.                                                *)

(* Where a turn is, and what that means for its variables.                 *)
Stages ==
  /\ pc # "down" => life \in 1..MaxLives
  /\ IF pc \in {"down", "idle"} THEN cur = 0 ELSE cur \in Inbound
  /\ pc \in {"model", "tools"} => steps \in 1..MaxTurns
  /\ pc = "tools" <=> todo # <<>>
  /\ \A p \in DOMAIN hist : hist[p].kind # "system"

(* A call waits with its provider's id, which the log knows if it came in  *)
(* the first delta, or with ids made up here.                              *)
Waiting(c) ==
  \/ c.result \in FirstIds \cap DOMAIN log /\ c.summary = c.result
  \/ c.result \in LaterIds /\ c.summary = c.result
  \/ {c.result, c.summary} \subseteq MadeUpIds

Waits == \A k \in DOMAIN todo : Waiting(todo[k])

(* The calls at q are the turn's latest, and nothing but results follows.  *)
Open(q) ==
  /\ q \in DOMAIN hist
  /\ hist[q].kind = "calls" /\ hist[q].of = cur
  /\ \A p \in DOMAIN hist : p > q => hist[p].kind = "tool"

Owed(q, id) == Open(q) /\ \E k \in DOMAIN todo : todo[k].summary = id

(* What is left to run belongs to the latest calls.                        *)
Calling ==
  pc = "tools" =>
    \E q \in DOMAIN hist :
      Open(q) /\ \A k \in DOMAIN todo : todo[k].result \in hist[q].ids \cup MadeUpIds

(* A pending call, named in its first delta, of a turn that goes on is     *)
(* about to run.                                                           *)
PendingIsTodo ==
  \A id \in DOMAIN log \cap FirstIds :
    log[id] = "pending" /\ pc # "down" /\ id[2] = cur /\ cur \notin cut =>
      \E k \in DOMAIN todo : todo[k].result = id

(* The message of the turn is the last of the user while its loop runs.    *)
CurrentUser(u) ==
  /\ hist[u].kind = "user" /\ hist[u].of = cur
  /\ \A p \in DOMAIN hist : p > u => hist[p].kind # "user" /\ hist[p].of = cur

OnCurrent ==
  pc \in {"ask", "model", "tools"} => \E u \in DOMAIN hist : CurrentUser(u)

Result(q, id, p) == Answers(hist, p, q) /\ (hist[p].ids = {id} \/ id \in MadeUpIds)

(* A call has its result, or will get it, or its turn broke.               *)
Answered ==
  \A q \in DOMAIN hist :
    hist[q].kind = "calls" /\ hist[q].of \notin cut =>
      \A id \in hist[q].ids :
        (\E p \in DOMAIN hist : Result(q, id, p)) \/ Owed(q, id)

(* The latest calls, when the provider numbers them, take one place in the *)
(* history and each of their results another.                              *)
Numbered == fresh # {} /\ fresh \subseteq GivenIds

FreshAt(q) ==
  /\ Open(q)
  /\ hist[q].ids = fresh
  /\ Len(hist) + Len(todo) = q + Cardinality(fresh)
  /\ \A id \in fresh :
       \/ \E p \in DOMAIN hist : p > q /\ hist[p].ids = {id}
       \/ \E k \in DOMAIN todo : todo[k].result = id

FreshBlock ==
  /\ IsFiniteSet(fresh)
  /\ pc \in {"ask", "tools"} /\ Numbered => \E q \in DOMAIN hist : FreshAt(q)

IInv == /\ TypeOK /\ Stages
        /\ LogAgrees /\ PendingIsTodo /\ Waits
        /\ OnCurrent /\ Calling
        /\ ResultsAnswerCalls /\ Answered
        /\ FreshBlock /\ FreshResultsSeen

-----------------------------------------------------------------------------
(* Picking from a sequence.                                                *)

(* e lists the elements of P in their order.                               *)
Lists(e, P) ==
  /\ e \in [1..Cardinality(P) -> P]
  /\ \A j, k \in 1..Cardinality(P) : e[j] < e[k] <=> j < k
  /\ \A p \in P : \E k \in 1..Cardinality(P) : e[k] = p

(* Pick keeps the order of the positions and misses none of them.          *)
LEMMA PickLists ==
  ASSUME NEW S, NEW s \in Seq(S), NEW P \in SUBSET DOMAIN s
  PROVE  /\ IsFiniteSet(P) /\ Cardinality(P) \in Nat
         /\ Pick(s, P) \in Seq(S) /\ Len(Pick(s, P)) = Cardinality(P)
         /\ \E e : Lists(e, P) /\ \A k \in 1..Cardinality(P) : Pick(s, P)[k] = s[e[k]]
<1> DEFINE Below(p) == {q \in P : q < p}
           n        == Cardinality(P)
           rank     == [p \in P |-> Cardinality(Below(p)) + 1]
           e        == [k \in 1..n |-> CHOOSE p \in P : Cardinality(Below(p)) = k - 1]
<1>1. DOMAIN s = 1..Len(s) /\ Len(s) \in Nat
  OBVIOUS
<1>2. P \subseteq Nat /\ IsFiniteSet(P)
  <2>1. IsFiniteSet(1..Len(s))
    BY <1>1, FS_Interval
  <2> QED  BY <1>1, <2>1, FS_Subset
<1>3. n \in Nat
  BY <1>2, FS_CardinalityType
<1>4. \A p \in P : IsFiniteSet(Below(p)) /\ Cardinality(Below(p)) \in Nat
  BY <1>2, FS_Subset, FS_CardinalityType
<1>5. ASSUME NEW p \in P, NEW q \in P, p < q
      PROVE  Cardinality(Below(p)) < Cardinality(Below(q))
  <2>1. Below(p) \cup {p} \subseteq Below(q)
    BY <1>2, <1>5
  <2>2. p \notin Below(p)
    BY <1>2
  <2> HIDE DEF Below
  <2>3. Cardinality(Below(p) \cup {p}) = Cardinality(Below(p)) + 1
    BY <1>4, <2>2, FS_AddElement
  <2>4. Cardinality(Below(p) \cup {p}) <= Cardinality(Below(q))
    BY <1>4, <2>1, FS_Subset
  <2> QED  BY <1>4, <2>3, <2>4
<1>6. \A p \in P : Cardinality(Below(p)) + 1 \in 1..n
  <2> TAKE p \in P
  <2>1. Below(p) \subseteq P \ {p}
    BY <1>2
  <2> HIDE DEF Below
  <2>2. IsFiniteSet(P \ {p}) /\ Cardinality(P \ {p}) = n - 1
    BY <1>2, FS_RemoveElement
  <2>3. Cardinality(Below(p)) <= n - 1
    BY <2>1, <2>2, FS_Subset
  <2> QED  BY <1>3, <1>4, <2>3
<1>7. rank \in Injection(P, 1..n)
  <2>1. rank \in [P -> 1..n]
    BY <1>6
  <2>2. ASSUME NEW p \in P, NEW q \in P, rank[p] = rank[q]
        PROVE  p = q
    <3> HIDE DEF Below
    <3>1. Cardinality(Below(p)) = Cardinality(Below(q))
      BY <1>4, <2>2
    <3>2. ~(p < q) /\ ~(q < p)
      BY <1>4, <1>5, <3>1
    <3> QED  BY <1>2, <3>2
  <2> HIDE DEF rank
  <2> QED  BY <2>1, <2>2 DEF Injection, IsInjective
<1>8. rank \in Surjection(P, 1..n)
  <2>1. IsFiniteSet(1..n) /\ Cardinality(1..n) = n
    BY <1>3, FS_Interval
  <2> HIDE DEF rank
  <2> QED  BY <1>7, <2>1, FS_Injection
<1>9. \A k \in 1..n : \E p \in P : Cardinality(Below(p)) = k - 1
  <2> TAKE k \in 1..n
  <2> HIDE DEF Below
  <2>1. PICK p \in P : rank[p] = k
    BY <1>8 DEF Surjection
  <2>2. rank[p] = Cardinality(Below(p)) + 1
    OBVIOUS
  <2> HIDE DEF rank
  <2> QED  BY <1>3, <1>4, <2>1, <2>2
<1>10. \A k \in 1..n : e[k] \in P /\ Cardinality(Below(e[k])) = k - 1
  BY <1>9
<1>11. \A k \in 1..n : Pick(s, P)[k] = s[e[k]]
  BY DEF Pick
<1>12. DOMAIN Pick(s, P) = 1..n /\ Pick(s, P) = [k \in 1..n |-> s[e[k]]]
  BY DEF Pick
<1> HIDE DEF e, n, Below
<1>13. \A k \in 1..n : s[e[k]] \in S
  BY <1>10
<1>14. Pick(s, P) \in Seq(S) /\ Len(Pick(s, P)) = n
  <2> DEFINE t == [k \in 1..n |-> s[e[k]]]
  <2>1. t \in Seq(S) /\ Len(t) = n
    BY <1>3, <1>13
  <2> HIDE DEF t
  <2> QED  BY <1>12, <2>1 DEF t
<1>15. \A j, k \in 1..n : e[j] < e[k] <=> j < k
  <2> TAKE j, k \in 1..n
  <2>1. e[j] \in P /\ e[k] \in P /\ e[j] \in Nat /\ e[k] \in Nat
    BY <1>2, <1>10
  <2>2. Cardinality(Below(e[j])) = j - 1 /\ Cardinality(Below(e[k])) = k - 1
    BY <1>10
  <2>3. e[j] < e[k] => j - 1 < k - 1
    BY <1>5, <2>1, <2>2
  <2>4. e[k] < e[j] => k - 1 < j - 1
    BY <1>5, <2>1, <2>2
  <2>5. e[j] = e[k] => j = k
    BY <1>3, <2>2
  <2> QED  BY <1>3, <2>1, <2>3, <2>4, <2>5
<1>16. \A p \in P : \E k \in 1..n : e[k] = p
  <2> TAKE p \in P
  <2> DEFINE k == Cardinality(Below(p)) + 1
  <2>1. k \in 1..n /\ k - 1 = Cardinality(Below(p))
    BY <1>3, <1>4, <1>6
  <2>2. e[k] \in P /\ Cardinality(Below(e[k])) = Cardinality(Below(p))
    BY <1>10, <2>1
  <2>3. ~(e[k] < p) /\ ~(p < e[k])
    BY <1>4, <1>5, <2>2
  <2>4. e[k] = p
    BY <1>2, <2>2, <2>3
  <2> QED  BY <2>1, <2>4
<1>17. e \in [1..n -> P]
  BY <1>10 DEF e
<1>18. Lists(e, P)
  BY <1>15, <1>16, <1>17 DEF Lists, n
<1> QED  BY <1>2, <1>3, <1>11, <1>14, <1>18 DEF n

-----------------------------------------------------------------------------
(* What compact() keeps.                                                   *)

LEMMA AfterProseKeeps ==
  ASSUME NEW h, NEW limit
  PROVE  /\ AfterProse(h, limit) \subseteq DOMAIN h
         /\ \A p \in DOMAIN h : h[p] # "prose" => p \in AfterProse(h, limit)
BY DEF AfterProse, Positions

(* A position is dropped with the call it stands behind, and never if it   *)
(* is neither prose nor in a block.                                        *)
LEMMA KeptKeeps ==
  ASSUME NEW h \in Seq(Kinds), NEW limit
  PROVE  /\ Kept(h, limit) \subseteq DOMAIN h
         /\ \A p \in DOMAIN h : h[p] = "user" => p \in Kept(h, limit)
<1> DEFINE K == AfterProse(h, limit)
           Calls == Positions(h, "calls") \cap K
           Older(p) == UNION {Block(h, K, q) : q \in {r \in Calls : r < p}}
           Dropped == {r \in Calls : Cardinality(K) > limit + Cardinality(Older(r))}
<1>1. Kept(h, limit) = K \ UNION {Block(h, K, p) : p \in Dropped}
  BY DEF Kept
<1> HIDE DEF Dropped
<1>2. ASSUME NEW p \in DOMAIN h, h[p] = "user", NEW r \in Calls, p \in Block(h, K, r)
      PROVE  FALSE
  BY <1>2 DEF Block, Positions
<1>3. Dropped \subseteq Calls
  BY DEF Dropped
<1> HIDE DEF K, Calls
<1>4. \A p \in DOMAIN h : h[p] = "user" => p \in K
  BY AfterProseKeeps DEF K
<1> QED  BY <1>1, <1>2, <1>3, <1>4, AfterProseKeeps DEF K

(* Calls and the results behind them are dropped together.                 *)
LEMMA KeptPairs ==
  ASSUME NEW h \in Seq(Kinds), NEW limit,
         NEW q \in DOMAIN h, NEW p \in DOMAIN h, q < p, h[q] = "calls",
         \A x \in q + 1..p : h[x] = "tool"
  PROVE  p \in Kept(h, limit) <=> q \in Kept(h, limit)
<1> DEFINE K == AfterProse(h, limit)
           Calls == Positions(h, "calls") \cap K
           Older(r) == UNION {Block(h, K, x) : x \in {y \in Calls : y < r}}
           Dropped == {r \in Calls : Cardinality(K) > limit + Cardinality(Older(r))}
<1>1. Kept(h, limit) = K \ UNION {Block(h, K, r) : r \in Dropped}
  BY DEF Kept
<1>2. DOMAIN h = 1..Len(h) /\ Len(h) \in Nat
  OBVIOUS
<1>3. h[p] = "tool" /\ p \in K /\ q \in K /\ K \subseteq DOMAIN h
  BY <1>2, AfterProseKeeps
<1>4. \A r \in Calls : r \in K /\ h[r] = "calls"
  BY DEF Positions
<1>5. Dropped \subseteq Calls
  OBVIOUS
<1> HIDE DEF K, Calls, Dropped
<1>6. ASSUME NEW r \in Calls
      PROVE  p \in Block(h, K, r) <=> r = q
  <2>1. r \in Nat /\ p \in Nat /\ q \in Nat
    BY <1>2, <1>3, <1>4
  <2>2. r < q => p \notin Block(h, K, r)
    BY <1>3, <1>4, <2>1 DEF Block
  <2>3. r > q /\ r <= p => h[r] = "tool"
    BY <2>1
  <2>4. r > q => p \notin Block(h, K, r)
    BY <1>4, <2>1, <2>3 DEF Block
  <2>5. r = q => p \in Block(h, K, r)
    BY <1>2, <1>3, <2>1 DEF Block
  <2> QED  BY <2>1, <2>2, <2>4, <2>5
<1>7. ASSUME NEW r \in Calls
      PROVE  q \in Block(h, K, r) <=> r = q
  BY <1>2, <1>3, <1>4 DEF Block
<1> QED  BY <1>1, <1>3, <1>5, <1>6, <1>7

(* Prose stays only if all that the first pass keeps fits: what is older   *)
(* than the oldest prose that stays is gone.                               *)
LEMMA ProseFits ==
  ASSUME NEW h \in Seq(Kinds), NEW limit \in Nat,
         NEW p \in AfterProse(h, limit), h[p] = "prose"
  PROVE  Cardinality(AfterProse(h, limit)) <= limit
<1> DEFINE Prose    == Positions(h, "prose")
           Older(x) == {y \in Prose : y < x}
           K        == AfterProse(h, limit)
           T        == {x \in K : h[x] = "prose"}
<1>1. DOMAIN h = 1..Len(h) /\ Len(h) \in Nat
  OBVIOUS
<1>2. IsFiniteSet(DOMAIN h) /\ Cardinality(DOMAIN h) = Len(h)
  <2> DEFINE n == Len(h)
  <2>1. n \in Nat /\ DOMAIN h = 1..n
    BY <1>1
  <2> HIDE DEF n
  <2>2. IsFiniteSet(1..n) /\ Cardinality(1..n) = n
    BY <2>1, FS_Interval
  <2> QED  BY <2>1, <2>2 DEF n
<1>3. /\ K \subseteq DOMAIN h /\ T \subseteq DOMAIN h /\ p \in T
      /\ \A x \in T : x \in K /\ x \in Prose
  BY AfterProseKeeps DEF Positions
<1>4. \A x \in T : ~(Cardinality(Older(x)) + limit < Len(h))
  <2>1. K = DOMAIN h \ {x \in Prose : Cardinality(Older(x)) + limit < Len(h)}
    BY DEF AfterProse
  <2> HIDE DEF K, T, Older, Prose
  <2> QED  BY <1>3, <2>1
<1> HIDE DEF T, K
<1>5. PICK e : Lists(e, T)
  BY <1>3, PickLists
<1>6. /\ Cardinality(T) \in Nat /\ IsFiniteSet(T)
      /\ 1 \in 1..Cardinality(T)
  <2>1. IsFiniteSet(T)
    BY <1>2, <1>3, FS_Subset
  <2>2. Cardinality(T) \in Nat /\ Cardinality(T) # 0
    BY <1>3, <2>1, FS_CardinalityType, FS_EmptySet
  <2> QED  BY <2>1, <2>2
<1> DEFINE m == e[1]
<1>7. m \in T /\ \A x \in T : ~(x < m)
  BY <1>5, <1>6 DEF Lists
<1> HIDE DEF m
<1>8. Older(m) \subseteq DOMAIN h /\ Older(m) \cap K = {}
  <2>1. \A x \in Older(m) \cap K : x \in T
    BY DEF T, Positions
  <2> QED  BY <1>7, <2>1 DEF Positions
<1>9. ~(Cardinality(Older(m)) + limit < Len(h))
  BY <1>4, <1>7
<1> HIDE DEF Older
<1>10. /\ IsFiniteSet(Older(m)) /\ Cardinality(Older(m)) \in Nat
       /\ IsFiniteSet(K) /\ Cardinality(K) \in Nat
  BY <1>2, <1>3, <1>8, FS_Subset, FS_CardinalityType
<1>11. Cardinality(Older(m) \cup K) = Cardinality(Older(m)) + Cardinality(K)
  <2>1. Cardinality(Older(m) \cap K) = 0
    BY <1>8, FS_EmptySet
  <2>2. Cardinality(Older(m) \cup K)
          = Cardinality(Older(m)) + Cardinality(K) - Cardinality(Older(m) \cap K)
    BY <1>10, FS_Union
  <2> QED  BY <1>10, <2>1, <2>2
<1>12. Cardinality(Older(m) \cup K) <= Len(h)
  <2>1. Older(m) \cup K \subseteq DOMAIN h
    BY <1>3, <1>8
  <2> QED  BY <1>2, <2>1, FS_Subset
<1>13. Cardinality(K) <= limit
  BY <1>1, <1>9, <1>10, <1>11, <1>12
<1> QED  BY <1>13 DEF K

(* A call stays if it, all that follows it and the messages of the user    *)
(* fit: what is dropped before it makes the room.                          *)
LEMMA LatestStays ==
  ASSUME NEW h \in Seq(Kinds), NEW limit \in Nat,
         NEW q \in DOMAIN h, h[q] = "calls",
         \A x \in DOMAIN h : h[x] # "system",
         \A x \in DOMAIN h : h[x] = "tool" =>
           \E c \in DOMAIN h : /\ h[c] = "calls" /\ c < x
                               /\ \A k \in c + 1..x : h[k] = "tool",
         Cardinality(Positions(h, "user")) + (Len(h) - q + 1) <= limit
  PROVE  q \in Kept(h, limit)
<1> DEFINE K        == AfterProse(h, limit)
           Calls    == Positions(h, "calls") \cap K
           Older(r) == UNION {Block(h, K, x) : x \in {y \in Calls : y < r}}
           Users    == Positions(h, "user")
           Rest     == q..Len(h)
           Dropped  == {r \in Calls : Cardinality(K) > limit + Cardinality(Older(r))}
<1>1. Kept(h, limit) = K \ UNION {Block(h, K, r) : r \in Dropped}
  BY DEF Kept
<1>2. DOMAIN h = 1..Len(h) /\ Len(h) \in Nat /\ q \in Nat /\ q <= Len(h)
  OBVIOUS
<1>3. IsFiniteSet(DOMAIN h)
  BY <1>2, FS_Interval
<1>4. K \subseteq DOMAIN h /\ \A x \in DOMAIN h : h[x] # "prose" => x \in K
  BY AfterProseKeeps
<1>5. \A r \in Calls : r \in K /\ h[r] = "calls" /\ r \in DOMAIN h
  BY <1>4 DEF Positions
<1>6. q \in Calls
  BY <1>4 DEF Positions
<1> HIDE DEF K
<1>7. Older(q) \subseteq K
  BY DEF Block
<1>8. ASSUME NEW r \in Calls, q \in Block(h, K, r)
      PROVE  r = q
  BY <1>2, <1>4, <1>5, <1>6, <1>8 DEF Block
<1>9. Cardinality(K) <= limit + Cardinality(Older(q))
  <2>1. IsFiniteSet(K) /\ Cardinality(K) \in Nat
    BY <1>3, <1>4, FS_Subset, FS_CardinalityType
  <2>2. IsFiniteSet(Older(q)) /\ Cardinality(Older(q)) \in Nat
    BY <1>7, <2>1, FS_Subset, FS_CardinalityType
  <2>3. CASE \E p \in K : h[p] = "prose"
    <3>1. Cardinality(K) <= limit
      BY <2>3, ProseFits DEF K
    <3> HIDE DEF Older
    <3> QED  BY <2>1, <2>2, <3>1
  <2>4. CASE \A p \in K : h[p] # "prose"
    <3>1. ASSUME NEW x \in K
          PROVE  x \in Older(q) \cup (Users \cup Rest)
      <4>1. x \in DOMAIN h /\ x \in Nat /\ x <= Len(h)
        BY <1>2, <1>4
      <4>2. CASE q <= x
        BY <1>2, <4>1, <4>2
      <4>3. CASE x < q /\ h[x] = "user"
        BY <4>1, <4>3 DEF Positions
      <4>4. CASE x < q /\ h[x] = "calls"
        <5>1. x \in Calls /\ x \in Block(h, K, x)
          <6>1. \A r \in K : ~(x < r /\ r <= x)
            BY <1>2, <1>4, <4>1
          <6> QED  BY <4>1, <4>4, <6>1 DEF Block, Positions
        <5> QED  BY <4>4, <5>1
      <4>5. CASE x < q /\ h[x] = "tool"
        <5>1. PICK c \in DOMAIN h : /\ h[c] = "calls" /\ c < x
                                    /\ \A k \in c + 1..x : h[k] = "tool"
          BY <4>1, <4>5
        <5>2. c \in Calls /\ c \in Nat
          BY <1>2, <1>4, <5>1 DEF Positions
        <5>3. \A k \in K : c < k /\ k <= x => k \in c + 1..x
          BY <1>2, <1>4, <4>1, <5>2
        <5>4. x \in Block(h, K, c)
          BY <4>1, <5>1, <5>2, <5>3 DEF Block
        <5>5. c < q
          BY <1>2, <4>1, <4>5, <5>1, <5>2
        <5> QED  BY <5>2, <5>4, <5>5
      <4>6. h[x] \in Kinds /\ h[x] # "system" /\ h[x] # "prose"
        BY <2>4, <4>1
      <4>7. x < q \/ q <= x
        BY <1>2, <4>1
      <4> QED  BY <4>2, <4>3, <4>4, <4>5, <4>6, <4>7 DEF Kinds
    <3>2. /\ IsFiniteSet(Users) /\ Cardinality(Users) \in Nat
      <4>1. Users \subseteq DOMAIN h
        BY DEF Positions
      <4> QED  BY <1>3, <4>1, FS_Subset, FS_CardinalityType
    <3>3. IsFiniteSet(Rest) /\ Cardinality(Rest) = Len(h) - q + 1
      BY <1>2, FS_Interval
    <3>4. Cardinality(Users) + Cardinality(Rest) <= limit
      BY <3>3
    <3> HIDE DEF Older, Users, Rest
    <3>5. /\ IsFiniteSet(Users \cup Rest) /\ Cardinality(Users \cup Rest) \in Nat
          /\ Cardinality(Users \cup Rest) <= Cardinality(Users) + Cardinality(Rest)
      <4>1. Cardinality(Users \cap Rest) \in Nat /\ Cardinality(Rest) \in Nat
        BY <3>2, <3>3, FS_Intersection, FS_CardinalityType
      <4>2. /\ IsFiniteSet(Users \cup Rest)
            /\ Cardinality(Users \cup Rest)
                 = Cardinality(Users) + Cardinality(Rest) - Cardinality(Users \cap Rest)
        BY <3>2, <3>3, FS_Union
      <4> QED  BY <3>2, <4>1, <4>2, FS_CardinalityType
    <3>6. /\ IsFiniteSet(Older(q) \cup (Users \cup Rest))
          /\ Cardinality(Older(q) \cup (Users \cup Rest)) \in Nat
          /\ Cardinality(Older(q) \cup (Users \cup Rest))
               <= Cardinality(Older(q)) + Cardinality(Users \cup Rest)
      <4> DEFINE U == Users \cup Rest
      <4> HIDE DEF U
      <4>1. IsFiniteSet(U) /\ Cardinality(U) \in Nat
        BY <3>5 DEF U
      <4>2. Cardinality(Older(q) \cap U) \in Nat
        BY <2>2, FS_Intersection, FS_CardinalityType
      <4>3. /\ IsFiniteSet(Older(q) \cup U)
            /\ Cardinality(Older(q) \cup U)
                 = Cardinality(Older(q)) + Cardinality(U) - Cardinality(Older(q) \cap U)
        BY <2>2, <4>1, FS_Union
      <4>4. Cardinality(Older(q) \cup U) \in Nat
        BY <4>3, FS_CardinalityType
      <4> QED  BY <2>2, <4>1, <4>2, <4>3, <4>4 DEF U
    <3>7. Cardinality(K) <= Cardinality(Older(q) \cup (Users \cup Rest))
      <4>1. K \subseteq Older(q) \cup (Users \cup Rest)
        BY <3>1 DEF Older, Users, Rest
      <4> QED  BY <3>6, <4>1, FS_Subset
    <3>8. Cardinality(Rest) \in Nat
      BY <3>3, FS_CardinalityType
    <3> QED  BY <2>1, <2>2, <3>2, <3>4, <3>5, <3>6, <3>7, <3>8
  <2> QED  BY <2>3, <2>4
<1>10. Cardinality(K) \in Nat /\ Cardinality(Older(q)) \in Nat
  <2>1. IsFiniteSet(K)
    BY <1>3, <1>4, FS_Subset
  <2> QED  BY <1>7, <2>1, FS_Subset, FS_CardinalityType
<1>11. q \notin Dropped
  <2> HIDE DEF Older
  <2> QED  BY <1>9, <1>10
<1>12. Dropped \subseteq Calls
  OBVIOUS
<1> HIDE DEF Dropped
<1> QED  BY <1>1, <1>5, <1>6, <1>8, <1>11, <1>12

(* The history as compact() leaves it.                                     *)
Surviving == Kept([a \in DOMAIN hist |-> hist[a].kind], MaxMessages)

(* e leads from each place of the compacted history to where it was.       *)
Shrinks(e, new) ==
  /\ Lists(e, Surviving)
  /\ new \in Seq(Message) /\ DOMAIN new = 1..Cardinality(Surviving)
  /\ \A k \in DOMAIN new : e[k] \in DOMAIN hist /\ new[k] = hist[e[k]]

LEMMA CompactedShrinks ==
  ASSUME hist \in Seq(Message)
  PROVE  /\ \E e : Shrinks(e, Compacted(hist))
         /\ \A u \in DOMAIN hist : hist[u].kind = "user" => u \in Surviving
         /\ \A p, q \in DOMAIN hist :
              Answers(hist, p, q) => (p \in Surviving <=> q \in Surviving)
<1> DEFINE h == [a \in DOMAIN hist |-> hist[a].kind]
<1>1. h \in Seq(Kinds) /\ DOMAIN h = DOMAIN hist
  <2>1. \A a \in DOMAIN hist : hist[a].kind \in Kinds
    <3>1. \A a \in DOMAIN hist : hist[a] \in Message
      OBVIOUS
    <3>2. \A x \in Message : x.kind \in Kinds
      BY DEF Message
    <3> QED  BY <3>1, <3>2
  <2>2. DOMAIN hist = 1..Len(hist) /\ Len(hist) \in Nat
    OBVIOUS
  <2> QED  BY <2>1, <2>2
<1>2. \A a \in DOMAIN hist : h[a] = hist[a].kind
  OBVIOUS
<1>3. Surviving = Kept(h, MaxMessages) /\ Compacted(hist) = Pick(hist, Surviving)
  BY DEF Surviving, Compacted
<1> HIDE DEF h
<1>4. /\ Surviving \subseteq DOMAIN hist
      /\ \A u \in DOMAIN hist : hist[u].kind = "user" => u \in Surviving
  BY <1>1, <1>2, <1>3, KeptKeeps
<1>5. ASSUME NEW p \in DOMAIN hist, NEW q \in DOMAIN hist, Answers(hist, p, q)
      PROVE  p \in Surviving <=> q \in Surviving
  <2>1. h[q] = "calls" /\ q < p
    BY <1>2, <1>5 DEF Answers
  <2>2. \A x \in q + 1..p : x \in DOMAIN hist
    OBVIOUS
  <2>3. \A x \in q + 1..p : h[x] = "tool"
    BY <1>2, <1>5, <2>2 DEF Answers
  <2> QED  BY <1>1, <1>3, <2>1, <2>3, KeptPairs
<1>6. \E e : Shrinks(e, Compacted(hist))
  <2>1. /\ Cardinality(Surviving) \in Nat
        /\ Pick(hist, Surviving) \in Seq(Message)
        /\ Len(Pick(hist, Surviving)) = Cardinality(Surviving)
    BY <1>4, PickLists
  <2>2. PICK e : /\ Lists(e, Surviving)
                 /\ \A k \in 1..Cardinality(Surviving) : Pick(hist, Surviving)[k] = hist[e[k]]
    BY <1>4, PickLists
  <2>3. DOMAIN Compacted(hist) = 1..Cardinality(Surviving)
    BY <1>3, <2>1
  <2>4. \A k \in 1..Cardinality(Surviving) : e[k] \in DOMAIN hist
    BY <1>4, <2>2 DEF Lists
  <2> QED  BY <1>3, <2>1, <2>2, <2>3, <2>4 DEF Shrinks
<1> QED  BY <1>4, <1>5, <1>6

(* Where the compacted history answers, the history did, and the other way *)
(* round for what survived.                                                *)
LEMMA ShrunkAnswers ==
  ASSUME hist \in Seq(Message), NEW new, NEW e, Shrinks(e, new)
  PROVE  \A j, k \in DOMAIN new :
           Answers(hist, e[j], e[k]) => Answers(new, j, k)
<1> TAKE j, k \in DOMAIN new
<1> HAVE Answers(hist, e[j], e[k])
<1>1. /\ DOMAIN new = 1..Len(new) /\ Len(new) \in Nat
      /\ DOMAIN hist = 1..Len(hist) /\ Len(hist) \in Nat
  BY DEF Shrinks
<1>2. \A a \in DOMAIN new : e[a] \in DOMAIN hist /\ new[a] = hist[e[a]]
  BY DEF Shrinks
<1>3. \A a, l \in DOMAIN new : e[a] < e[l] <=> a < l
  BY DEF Shrinks, Lists
<1>4. k < j /\ new[k].kind = "calls"
  BY <1>2, <1>3 DEF Answers
<1>5. ASSUME NEW a \in k + 1..j
      PROVE  new[a].kind = "tool"
  <2>1. a \in DOMAIN new /\ k < a /\ ~(j < a)
    BY <1>1
  <2>2. e[k] < e[a] /\ ~(e[j] < e[a])
    BY <1>3, <2>1
  <2>3. e[a] \in e[k] + 1..e[j]
    BY <1>1, <1>2, <2>1, <2>2
  <2>4. hist[e[a]].kind = "tool"
    BY <2>3 DEF Answers
  <2> QED  BY <1>2, <2>1, <2>4
<1> QED  BY <1>4, <1>5 DEF Answers

(* A position that survives has its place in the compacted history.        *)
LEMMA ShrunkPlaces ==
  ASSUME NEW new, NEW e, Shrinks(e, new), NEW p \in Surviving
  PROVE  \E k \in DOMAIN new : e[k] = p /\ new[k] = hist[p]
<1>1. PICK k \in 1..Cardinality(Surviving) : e[k] = p
  BY DEF Shrinks, Lists
<1> QED  BY <1>1 DEF Shrinks

-----------------------------------------------------------------------------
(* The ids of calls.                                                       *)

LEMMA IdFacts ==
  /\ FirstIds \cap LaterIds = {} /\ GivenIds \cap MadeUpIds = {}
  /\ NoId \notin GivenIds /\ NoId \notin MadeUpIds
  /\ \A id \in GivenIds : id[2] \in Inbound /\ id[3] \in 1..MaxLives
<1>1. ASSUME NEW delta, NEW id \in Named(delta)
      PROVE  id[1] = delta /\ id[2] \in Inbound /\ id[3] \in 1..MaxLives
  BY DEF Named
<1>2. ASSUME NEW id \in MadeUpIds
      PROVE  id[1] = "call"
  BY DEF MadeUpIds
<1>3. NoId[1] = ""
  BY DEF NoId
<1>4. \A id \in FirstIds : id[1] = "first" /\ id[2] \in Inbound /\ id[3] \in 1..MaxLives
  BY <1>1 DEF FirstIds
<1>5. \A id \in LaterIds : id[1] = "later" /\ id[2] \in Inbound /\ id[3] \in 1..MaxLives
  BY <1>1 DEF LaterIds
<1> QED  BY <1>2, <1>3, <1>4, <1>5 DEF GivenIds

(* The calls of a reply have the provider's ids, all of this turn and life *)
(* and all different, or ids made up here.                                 *)
LEMMA CallsAre ==
  ASSUME TypeOK, Stages, pc = "model", NEW r \in Replies
  PROVE  /\ r.calls \in 0..MaxCalls /\ MaxCalls \in Nat
         /\ r.given \in {"first", "later", "never"}
         /\ CallsOf(r) \in Seq(Call) /\ Len(CallsOf(r)) = r.calls
         /\ \A k \in 1..r.calls :
              LET c == CallsOf(r)[k]
              IN  /\ c.logged = IF r.given = "first" THEN c.result ELSE NoId
                  /\ IF r.given = "never"
                     THEN {c.summary, c.result} \subseteq MadeUpIds
                     ELSE /\ c.summary = c.result
                          /\ c.result = <<r.given, cur, life, steps, k - 1>>
                          /\ c.result \in Named(r.given)
<1>1. /\ r.calls \in 0..MaxCalls /\ MaxCalls \in Nat
      /\ r.given \in {"first", "later", "never"} /\ r.text \in BOOLEAN
  BY AgentAssumption
<1>2. cur \in Inbound /\ life \in 1..MaxLives /\ steps \in 1..MaxTurns
  BY DEF Stages
<1>3. \A k \in 1..r.calls : <<r.given, cur, life, steps, k - 1>> \in Named(r.given)
  <2> TAKE k \in 1..r.calls
  <2>1. k - 1 \in 0..MaxCalls - 1
    BY <1>1
  <2> QED  BY <1>2, <2>1 DEF Named
<1>4. \A k \in 0..MaxCalls : <<"call", k>> \in MadeUpIds
  BY DEF MadeUpIds
<1>5. \A k \in 1..r.calls : k - 1 \in 0..MaxCalls /\ k - 1 + 1 \in 0..MaxCalls
  BY <1>1
<1>6. \A k \in 1..r.calls : CallsOf(r)[k] = CallOf(r, k - 1)
  BY DEF CallsOf
<1>7. ASSUME NEW k \in 1..r.calls, r.given # "never"
      PROVE  LET c == CallsOf(r)[k]
             IN  /\ c.logged = IF r.given = "first" THEN c.result ELSE NoId
                 /\ c.summary = c.result
                 /\ c.result = <<r.given, cur, life, steps, k - 1>>
                 /\ c \in Call
  <2> DEFINE g == <<r.given, cur, life, steps, k - 1>>
  <2>1. CallsOf(r)[k] = [logged |-> IF r.given = "first" THEN g ELSE NoId,
                         summary |-> g, result |-> g]
    BY <1>6, <1>7 DEF CallOf
  <2>2. g \in Ids /\ NoId \in Ids
    BY <1>1, <1>3, <1>7 DEF Ids, GivenIds, FirstIds, LaterIds
  <2>3. (IF r.given = "first" THEN g ELSE NoId) \in Ids
    BY <2>2
  <2>4. g = <<r.given, cur, life, steps, k - 1>>
    OBVIOUS
  <2> HIDE DEF g
  <2> QED  BY <2>1, <2>2, <2>3, <2>4 DEF Call
<1>8. ASSUME NEW k \in 1..r.calls, r.given = "never"
      PROVE  LET c == CallsOf(r)[k]
             IN  /\ c.logged = NoId /\ {c.summary, c.result} \subseteq MadeUpIds
                 /\ c \in Call
  <2>1. PICK b \in {k - 1, k - 1 + 1} :
          CallsOf(r)[k] = [logged |-> NoId, summary |-> <<"call", k - 1>>,
                           result |-> <<"call", b>>]
    BY <1>1, <1>6, <1>8 DEF CallOf
  <2>2. <<"call", k - 1>> \in MadeUpIds /\ <<"call", b>> \in MadeUpIds
    BY <1>4, <1>5
  <2> QED  BY <2>1, <2>2 DEF Call, Ids
<1>9. CallsOf(r) \in Seq(Call) /\ Len(CallsOf(r)) = r.calls
  <2> DEFINE f == [k \in 1..r.calls |-> CallOf(r, k - 1)]
  <2>1. \A k \in 1..r.calls : f[k] \in Call
    BY <1>1, <1>7, <1>8 DEF CallsOf
  <2> HIDE DEF f
  <2>2. DOMAIN f = 1..r.calls /\ f = [k \in 1..r.calls |-> f[k]]
    BY DEF f
  <2>3. f \in Seq(Call) /\ Len(f) = r.calls
    BY <1>1, <2>1, <2>2
  <2> QED  BY <2>3 DEF f, CallsOf
<1> QED  BY <1>1, <1>3, <1>7, <1>8, <1>9

-----------------------------------------------------------------------------
(* Types and stages.                                                       *)

LEMMA Numbers ==
  /\ NumMessages \in Nat /\ MaxTurns \in Nat /\ MaxMessages \in Nat
  /\ MaxCalls \in Nat /\ MaxLives \in Nat
BY AgentAssumption

LEMMA RowTypes ==
  ASSUME TypeOK
  PROVE  /\ DOMAIN rows = 1..Len(rows) /\ Len(rows) \in Nat
         /\ \A a \in DOMAIN rows : rows[a].of \in Inbound
<1> DEFINE Row == [dir : {"inbound", "outbound"}, of : Inbound]
<1>1. rows \in Seq(Row)
  BY DEF TypeOK
<1>2. \A x \in Row : x.of \in Inbound
  OBVIOUS
<1> HIDE DEF Row
<1> QED  BY <1>1, <1>2

LEMMA SubmittedType ==
  ASSUME TypeOK
  PROVE  /\ Submitted \subseteq Inbound /\ IsFiniteSet(Submitted)
         /\ Cardinality(Submitted) \in Nat
<1>1. Submitted \subseteq Inbound
  BY RowTypes DEF Submitted
<1>2. IsFiniteSet(Inbound)
  BY Numbers, FS_Interval DEF Inbound
<1> QED  BY <1>1, <1>2, FS_Subset, FS_CardinalityType

LEMMA HydratedType ==
  ASSUME TypeOK
  PROVE  /\ Hydrated \in Seq(Message) /\ Len(Hydrated) = Len(rows)
         /\ \A p \in DOMAIN Hydrated : Hydrated[p].kind \in {"user", "prose"}
<1>1. DOMAIN rows = 1..Len(rows) /\ Len(rows) \in Nat
  BY RowTypes
<1>2. \A a \in DOMAIN rows : rows[a].of \in Inbound
  BY RowTypes
<1>3. DOMAIN Hydrated = 1..Len(rows)
  BY <1>1 DEF Hydrated
<1>4. ASSUME NEW a \in 1..Len(rows)
      PROVE  Hydrated[a] \in Message /\ Hydrated[a].kind \in {"user", "prose"}
  <2>1. /\ Hydrated[a].kind \in {"user", "prose"}
        /\ Hydrated[a] = [kind |-> Hydrated[a].kind, of |-> rows[a].of, ids |-> {}]
    BY <1>1 DEF Hydrated
  <2> QED  BY <1>1, <1>2, <2>1 DEF Message, Kinds
<1>5. Hydrated = [a \in 1..Len(rows) |-> Hydrated[a]]
  BY <1>1 DEF Hydrated
<1>6. Hydrated \in Seq(Message) /\ Len(Hydrated) = Len(rows)
  BY <1>1, <1>3, <1>4, <1>5
<1> QED  BY <1>3, <1>4, <1>6

(* What the history of a turn starts from.                                 *)
LEMMA HistoryType ==
  ASSUME TypeOK, Stages
  PROVE  /\ History \in Seq(Message)
         /\ \A p \in DOMAIN History : History[p].kind # "system"
BY HydratedType DEF History, TypeOK, Stages

LEMMA RecordedType ==
  ASSUME TypeOK, NEW ids \in SUBSET Ids
  PROVE  /\ DOMAIN Recorded(ids) = DOMAIN log \cup ids
         /\ DOMAIN Recorded(ids) \subseteq Ids
         /\ \A id \in DOMAIN Recorded(ids) :
              Recorded(ids)[id] \in {"pending", "completed", "interrupted"}
BY DEF Recorded, TypeOK

(* The ids a reply writes to the log, and the ones it puts in the history. *)
Logged(r) == {CallsOf(r)[k].logged : k \in DOMAIN CallsOf(r)}
Told(r)   == {CallsOf(r)[k].summary : k \in DOMAIN CallsOf(r)}

LEMMA ReplyIs ==
  ASSUME NEW r, Reply(r)
  PROVE  /\ pc = "model"
         /\ log' = Recorded(Logged(r))
         /\ hist' = Append(hist, [kind |-> IF r.calls = 0 THEN "prose" ELSE "calls",
                                  of |-> cur, ids |-> Told(r)])
         /\ todo' = CallsOf(r) /\ fresh' = Told(r)
         /\ pc' = IF r.calls = 0 THEN "end" ELSE "tools"
         /\ said' = (said \/ r.text)
         /\ UNCHANGED <<rows, delivered, life, loaded, cur, steps, cut>>
BY DEF Reply, Logged, Told

LEMMA ReplyIds ==
  ASSUME TypeOK, Stages, pc = "model", NEW r \in Replies
  PROVE  /\ Logged(r) \subseteq Ids /\ Told(r) \subseteq Ids
         /\ DOMAIN CallsOf(r) = 1..r.calls
         /\ IF r.given = "first" THEN Logged(r) \subseteq FirstIds
                                  ELSE Logged(r) \subseteq {NoId}
         /\ Told(r) \subseteq IF r.given = "never" THEN MadeUpIds ELSE GivenIds
<1>1. DOMAIN CallsOf(r) = 1..r.calls
  BY CallsAre
<1>2. \A k \in 1..r.calls : CallsOf(r)[k] \in Call
  BY <1>1, CallsAre
<1>3. Logged(r) \subseteq Ids /\ Told(r) \subseteq Ids
  BY <1>1, <1>2 DEF Logged, Told, Call
<1>4. IF r.given = "first" THEN Logged(r) \subseteq FirstIds ELSE Logged(r) \subseteq {NoId}
  BY <1>1, CallsAre DEF Logged, FirstIds
<1>5. Told(r) \subseteq IF r.given = "never" THEN MadeUpIds ELSE GivenIds
  <2>1. CASE r.given = "never"
    BY <1>1, <2>1, CallsAre DEF Told
  <2>2. CASE r.given # "never"
    <3>1. Named(r.given) \subseteq GivenIds
      BY <2>2, CallsAre DEF GivenIds, FirstIds, LaterIds
    <3>2. Told(r) \subseteq Named(r.given)
      BY <1>1, <2>2, CallsAre DEF Told
    <3> QED  BY <2>2, <3>1, <3>2
  <2> QED  BY <2>1, <2>2
<1> QED  BY <1>1, <1>3, <1>4, <1>5

LEMMA InitIsTyped ==
  Init => TypeOK /\ Stages
<1> SUFFICES ASSUME Init PROVE TypeOK /\ Stages
  OBVIOUS
<1>1. /\ rows \in Seq([dir : {"inbound", "outbound"}, of : Inbound])
      /\ hist \in Seq(Message) /\ todo \in Seq(Call)
  BY DEF Init
<1>2. DOMAIN log = {}
  BY DEF Init
<1>3. /\ DOMAIN log \subseteq Ids
      /\ \A id \in DOMAIN log : log[id] \in {"pending", "completed", "interrupted"}
  BY <1>2
<1>4. life \in 0..MaxLives /\ cur \in 0..NumMessages /\ steps \in 0..MaxTurns
  BY Numbers DEF Init
<1>5. /\ delivered \subseteq Inbound /\ cut \subseteq Inbound /\ fresh \subseteq Ids
      /\ pc \in {"down", "idle", "ask", "model", "tools", "end", "closing"}
  BY DEF Init
<1>6. loaded \in BOOLEAN /\ said \in BOOLEAN
  BY DEF Init
<1>7. TypeOK
  BY <1>1, <1>3, <1>4, <1>5, <1>6 DEF TypeOK
<1> QED  BY <1>7 DEF Init, Stages

LEMMA SubmitIsTyped ==
  ASSUME TypeOK, Stages, Submit
  PROVE  TypeOK' /\ Stages'
<1>1. Cardinality(Submitted) + 1 \in Inbound
  BY SubmittedType, Numbers DEF Submit, Inbound
<1>2. rows' \in Seq([dir : {"inbound", "outbound"}, of : Inbound])
  BY <1>1 DEF Submit, TypeOK
<1>3. TypeOK'
  BY <1>2 DEF Submit, TypeOK
<1> QED  BY <1>3 DEF Submit, Stages

LEMMA BeginIsTyped ==
  ASSUME TypeOK, Stages, NEW m \in Inbound, Begin(m)
  PROVE  TypeOK' /\ Stages'
<1>1. [kind |-> "user", of |-> m, ids |-> {}] \in Message
  BY DEF Message, Kinds
<1>2. hist' \in Seq(Message) /\ \A p \in DOMAIN hist' : hist'[p].kind # "system"
  BY <1>1, HistoryType DEF Begin
<1>3. m \in 0..NumMessages /\ 0 \in 0..MaxTurns
  BY Numbers DEF Inbound
<1>4. UNCHANGED <<rows, delivered, log, life, todo, cut>>
  BY DEF Begin, store
<1>5. loaded' = TRUE /\ pc = "idle" /\ pc' = "ask" /\ cur' = m /\ steps' = 0 /\ said' = FALSE /\ fresh' = {}
  BY DEF Begin
<1>6. TypeOK'
  BY <1>2, <1>3, <1>4, <1>5 DEF TypeOK
<1> QED  BY <1>2, <1>4, <1>5, <1>6 DEF Stages

LEMMA AskIsTyped ==
  ASSUME TypeOK, Stages, Ask
  PROVE  TypeOK' /\ Stages'
<1>1. hist \in Seq(Message) /\ hist' = Compacted(hist)
  BY DEF Ask, TypeOK
<1>2. PICK e : Shrinks(e, hist')
  BY <1>1, CompactedShrinks
<1>3. hist' \in Seq(Message) /\ \A p \in DOMAIN hist' : hist'[p].kind # "system"
  BY <1>2 DEF Shrinks, Stages
<1>4. steps' \in 1..MaxTurns
  BY Numbers DEF Ask, TypeOK
<1>5. TypeOK'
  BY <1>3, <1>4, Numbers DEF Ask, TypeOK, store
<1>6. pc = "ask" /\ pc' = "model" /\ UNCHANGED <<life, cur, todo>>
  BY DEF Ask
<1> QED  BY <1>3, <1>4, <1>5, <1>6 DEF Stages

LEMMA ReplyIsTyped ==
  ASSUME TypeOK, Stages, NEW r \in Replies, Reply(r)
  PROVE  TypeOK' /\ Stages'
<1>1. pc = "model"
  BY ReplyIs
<1>2. cur \in Inbound
  BY <1>1 DEF Stages
<1> DEFINE x == [kind |-> IF r.calls = 0 THEN "prose" ELSE "calls",
                 of |-> cur, ids |-> Told(r)]
<1>3. x \in Message /\ x.kind # "system"
  BY <1>1, <1>2, ReplyIds DEF Message, Kinds
<1>4. hist' = Append(hist, x)
  BY ReplyIs
<1> HIDE DEF x
<1>5. hist' \in Seq(Message) /\ \A p \in DOMAIN hist' : hist'[p].kind # "system"
  BY <1>3, <1>4 DEF TypeOK, Stages
<1>6. todo' \in Seq(Call) /\ (todo' # <<>> <=> r.calls # 0)
  <2>1. todo' \in Seq(Call) /\ Len(todo') = r.calls
    BY <1>1, CallsAre, ReplyIs
  <2> QED  BY <2>1
<1>7. /\ DOMAIN log' \subseteq Ids
      /\ \A id \in DOMAIN log' : log'[id] \in {"pending", "completed", "interrupted"}
  <2>1. Logged(r) \in SUBSET Ids
    BY <1>1, ReplyIds
  <2>2. log' = Recorded(Logged(r))
    BY ReplyIs
  <2> HIDE DEF Logged
  <2> QED  BY <2>1, <2>2, RecordedType
<1>8. fresh' \subseteq Ids /\ said' \in BOOLEAN
  BY <1>1, ReplyIds, ReplyIs, CallsAre, AgentAssumption DEF TypeOK
<1>9. TypeOK'
  BY <1>5, <1>6, <1>7, <1>8, ReplyIs DEF TypeOK
<1>10. /\ pc' = IF r.calls = 0 THEN "end" ELSE "tools"
       /\ UNCHANGED <<life, cur, steps>>
  BY ReplyIs
<1>11. pc' # "down" /\ pc' # "idle" /\ pc' # "model" /\ (pc' = "tools" <=> r.calls # 0)
  BY <1>10
<1>12. life \in 1..MaxLives /\ steps \in 1..MaxTurns
  BY <1>1 DEF Stages
<1>13. pc' = "tools" <=> todo' # <<>>
  BY <1>6, <1>11
<1>14. cur' \in Inbound /\ life' \in 1..MaxLives
  BY <1>2, <1>10, <1>12
<1>15. steps' \in 1..MaxTurns
  BY <1>10, <1>12
<1>16. TypeOK' /\ Stages'
  BY <1>5, <1>9, <1>11, <1>13, <1>14, <1>15 DEF Stages
<1> QED  BY <1>16

LEMMA ModelFailsIsTyped ==
  ASSUME TypeOK, Stages, NEW r \in Replies, ModelFails(r)
  PROVE  TypeOK' /\ Stages' /\ log' = Recorded(Logged(r))
<1>1. pc = "model" /\ log' = Recorded(Logged(r))
  BY DEF ModelFails, Logged
<1>2. /\ DOMAIN log' \subseteq Ids
      /\ \A id \in DOMAIN log' : log'[id] \in {"pending", "completed", "interrupted"}
  <2>1. Logged(r) \in SUBSET Ids
    BY <1>1, ReplyIds
  <2> QED  BY <1>1, <2>1, RecordedType
<1>3. cut' \subseteq Inbound /\ todo' = <<>> /\ todo' \in Seq(Call)
  BY <1>1 DEF ModelFails, Broken, TypeOK, Stages
<1>4. TypeOK'
  BY <1>2, <1>3 DEF ModelFails, Broken, TypeOK
<1> QED  BY <1>1, <1>3, <1>4 DEF ModelFails, Broken, Stages

LEMMA RunToolIsTyped ==
  ASSUME TypeOK, Stages, RunTool
  PROVE  TypeOK' /\ Stages'
<1>1. todo # <<>> /\ todo \in Seq(Call) /\ cur \in Inbound
  BY DEF RunTool, TypeOK, Stages
<1>2. Head(todo) \in Call /\ Tail(todo) \in Seq(Call) /\ (Tail(todo) = <<>> <=> Len(todo) = 1)
  <2>1. Head(todo) \in Call /\ Tail(todo) \in Seq(Call) /\ Len(Tail(todo)) = Len(todo) - 1
    BY <1>1
  <2>2. Len(todo) \in Nat
    BY <1>1
  <2>3. Tail(todo) = <<>> <=> Len(Tail(todo)) = 0
    BY <2>1, EmptySeq
  <2> QED  BY <2>1, <2>2, <2>3
<1>3. Head(todo).result \in Ids
  BY <1>2 DEF Call
<1> DEFINE x == [kind |-> "tool", of |-> cur, ids |-> {Head(todo).result}]
<1>4. x \in Message /\ x.kind # "system"
  BY <1>1, <1>3 DEF Message, Kinds
<1>5. hist' = Append(hist, x)
  BY DEF RunTool
<1> HIDE DEF x
<1>6. hist' \in Seq(Message) /\ \A p \in DOMAIN hist' : hist'[p].kind # "system"
  BY <1>4, <1>5 DEF TypeOK, Stages
<1>7. TypeOK'
  BY <1>2, <1>6 DEF RunTool, TypeOK, Completed
<1>8. /\ pc = "tools" /\ pc' = IF Len(todo) = 1 THEN "ask" ELSE "tools"
      /\ todo' = Tail(todo) /\ UNCHANGED <<life, cur, steps>>
  BY DEF RunTool
<1> QED  BY <1>2, <1>6, <1>7, <1>8 DEF Stages

LEMMA StepIsTyped ==
  ASSUME TypeOK, Stages, [Next]_vars
  PROVE  TypeOK' /\ Stages'
<1>1. CASE Submit
  BY <1>1, SubmitIsTyped
<1>2. CASE Crash
  <2>1. hist' \in Seq(Message) /\ todo' \in Seq(Call)
    BY <1>2 DEF Crash
  <2>2. 0 \in 0..NumMessages /\ 0 \in 0..MaxTurns /\ UNCHANGED <<rows, delivered, log, life>>
    BY <1>2, Numbers DEF Crash, store
  <2>3. TypeOK'
    BY <1>2, <2>1, <2>2 DEF Crash, TypeOK
  <2> QED  BY <1>2, <2>3 DEF Crash, Stages
<1>3. CASE Boot
  <2>1. TypeOK'
    BY <1>3, Numbers DEF Boot, TypeOK, Swept
  <2>2. life' \in 1..MaxLives
    BY <1>3, Numbers DEF Boot, TypeOK
  <2> QED  BY <1>3, <2>1, <2>2 DEF Boot, Stages
<1>4. CASE Ask
  BY <1>4, AskIsTyped
<1>5. CASE OutOfTurns
  BY <1>5 DEF OutOfTurns, TypeOK, Stages, store
<1>6. CASE RunTool
  BY <1>6, RunToolIsTyped
<1>7. CASE ToolFails \/ LoopDetected
  <2>1. cut' \subseteq Inbound /\ todo' = <<>> /\ todo' \in Seq(Call)
    <3>1. cur \in Inbound /\ todo' = <<>> /\ cut' = cut \cup {cur}
      BY <1>7 DEF ToolFails, LoopDetected, Broken, Stages
    <3> QED  BY <3>1 DEF TypeOK
  <2>2. TypeOK'
    BY <1>7, <2>1 DEF ToolFails, LoopDetected, Broken, TypeOK, store
  <2> QED  BY <1>7, <2>1, <2>2 DEF ToolFails, LoopDetected, Broken, Stages
<1>8. CASE EndTurn
  <2>1. cur \in Inbound
    BY <1>8 DEF EndTurn, Stages
  <2>2. rows' \in Seq([dir : {"inbound", "outbound"}, of : Inbound])
    <3>1. rows' = rows \/ rows' = Append(rows, [dir |-> "outbound", of |-> cur])
      BY <1>8 DEF EndTurn
    <3>2. [dir |-> "outbound", of |-> cur] \in [dir : {"inbound", "outbound"}, of : Inbound]
      BY <2>1
    <3>3. rows \in Seq([dir : {"inbound", "outbound"}, of : Inbound])
      BY DEF TypeOK
    <3> DEFINE Row == [dir : {"inbound", "outbound"}, of : Inbound]
               x   == [dir |-> "outbound", of |-> cur]
    <3>4. rows \in Seq(Row) /\ x \in Row /\ (rows' = rows \/ rows' = Append(rows, x))
      BY <3>1, <3>2, <3>3
    <3> HIDE DEF Row, x
    <3>5. rows' \in Seq(Row)
      BY <3>4
    <3> USE DEF Row
    <3> QED  BY <3>5
  <2>3. TypeOK'
    BY <1>8, <2>2 DEF EndTurn, TypeOK
  <2> QED  BY <1>8, <2>3 DEF EndTurn, Stages
<1>9. CASE MarkDelivered
  <2>1. delivered' \subseteq Inbound
    BY <1>9 DEF MarkDelivered, TypeOK, Stages
  <2>2. TypeOK'
    BY <1>9, <2>1, Numbers DEF MarkDelivered, TypeOK
  <2> QED  BY <1>9, <2>2 DEF MarkDelivered, Stages
<1>10. CASE \E r \in Replies : Reply(r) \/ ModelFails(r)
  BY <1>10, ReplyIsTyped, ModelFailsIsTyped
<1>11. CASE \E m \in Inbound : Begin(m)
  BY <1>11, BeginIsTyped
<1>12. CASE UNCHANGED vars
  BY <1>12 DEF vars, store, TypeOK, Stages
<1> QED  BY <1>1, <1>2, <1>3, <1>4, <1>5, <1>6, <1>7, <1>8, <1>9, <1>10, <1>11,
            <1>12 DEF Next, TurnStep

-----------------------------------------------------------------------------
(* The log.                                                                *)

(* What a record of new calls does to the log.                             *)
LEMMA RecordedKeeps ==
  ASSUME NEW ids, NEW id \in DOMAIN log \cup ids
  PROVE  /\ id \in DOMAIN Recorded(ids)
         /\ id \in DOMAIN log => Recorded(ids)[id] = log[id]
         /\ id \notin DOMAIN log => Recorded(ids)[id] = "pending"
BY DEF Recorded

LEMMA StepKeepsResultsLogged ==
  ASSUME TypeOK, Stages, ResultsAreLogged, Waits, [Next]_vars
  PROVE  ResultsAreLogged'
<1> DEFINE Complete(id) == id \in DOMAIN log /\ log[id] = "completed"
           Tools(h)     == {p \in DOMAIN h : h[p].kind = "tool"}
<1>1. ASSUME \A id \in FirstIds : Complete(id) => id \in DOMAIN log' /\ log'[id] = "completed",
             \A p \in Tools(hist') : \E q \in Tools(hist) : hist'[p] = hist[q]
      PROVE  ResultsAreLogged'
  BY <1>1 DEF ResultsAreLogged
<1>2. ASSUME UNCHANGED log, \A p \in Tools(hist') : \E q \in Tools(hist) : hist'[p] = hist[q]
      PROVE  ResultsAreLogged'
  BY <1>1, <1>2
<1>3. ASSUME UNCHANGED hist, UNCHANGED log
      PROVE  ResultsAreLogged'
  BY <1>3 DEF ResultsAreLogged
<1>4. hist \in Seq(Message) /\ DOMAIN hist = 1..Len(hist) /\ Len(hist) \in Nat
  BY DEF TypeOK
<1>5. CASE Submit \/ OutOfTurns \/ ToolFails \/ LoopDetected \/ EndTurn \/ MarkDelivered
           \/ UNCHANGED vars
  BY <1>3, <1>5 DEF Submit, OutOfTurns, ToolFails, LoopDetected, EndTurn, MarkDelivered,
                    vars, store
<1>6. CASE Crash
  <2>1. DOMAIN hist' = {} /\ UNCHANGED log
    BY <1>6 DEF Crash, store
  <2> QED  BY <1>2, <2>1
<1>7. CASE Boot
  <2>1. UNCHANGED hist /\ \A id : Complete(id) => id \in DOMAIN log' /\ log'[id] = "completed"
    BY <1>7 DEF Boot, Swept
  <2> QED  BY <1>1, <2>1
<1>8. CASE Ask
  <2>1. UNCHANGED log /\ hist' = Compacted(hist)
    BY <1>8 DEF Ask, store
  <2>2. PICK e : Shrinks(e, hist')
    BY <1>4, <2>1, CompactedShrinks
  <2>3. \A p \in DOMAIN hist' : e[p] \in DOMAIN hist /\ hist'[p] = hist[e[p]]
    BY <2>2 DEF Shrinks
  <2> QED  BY <1>2, <2>1, <2>3
<1>9. ASSUME NEW m \in Inbound, Begin(m)
      PROVE  ResultsAreLogged'
  <2>1. UNCHANGED log /\ hist' = Append(History, [kind |-> "user", of |-> m, ids |-> {}])
    BY <1>9 DEF Begin, store
  <2>2. History = hist \/ \A p \in DOMAIN History : History[p].kind # "tool"
    BY HydratedType DEF History
  <2>3. History \in Seq(Message)
    BY HistoryType
  <2>4. \A p \in Tools(hist') : p \in DOMAIN History /\ hist'[p] = History[p]
    BY <2>1, <2>3
  <2> QED  BY <1>2, <2>1, <2>2, <2>4
<1>10. ASSUME NEW r \in Replies, Reply(r)
       PROVE  ResultsAreLogged'
  <2>1. \A id \in FirstIds : Complete(id) => id \in DOMAIN log' /\ log'[id] = "completed"
    BY <1>10, ReplyIs, RecordedKeeps
  <2> DEFINE x == [kind |-> IF r.calls = 0 THEN "prose" ELSE "calls",
                   of |-> cur, ids |-> Told(r)]
  <2>2. hist' = Append(hist, x) /\ x.kind # "tool"
    BY <1>10, ReplyIs
  <2> HIDE DEF x
  <2>3. \A p \in Tools(hist') : p \in Tools(hist) /\ hist'[p] = hist[p]
    BY <1>4, <2>2
  <2> QED  BY <1>1, <2>1, <2>3
<1>11. ASSUME NEW r \in Replies, ModelFails(r)
       PROVE  ResultsAreLogged'
  <2>1. \A id \in FirstIds : Complete(id) => id \in DOMAIN log' /\ log'[id] = "completed"
    BY <1>11, ModelFailsIsTyped, RecordedKeeps
  <2>2. UNCHANGED hist
    BY <1>11 DEF ModelFails
  <2> QED  BY <1>1, <2>1, <2>2
<1>12. CASE RunTool
  <2> DEFINE id == Head(todo).result
  <2>1. /\ log' = Completed(id)
        /\ hist' = Append(hist, [kind |-> "tool", of |-> cur, ids |-> {id}])
    BY <1>12 DEF RunTool
  <2>2. 1 \in DOMAIN todo /\ todo[1] = Head(todo)
    BY <1>12 DEF RunTool, TypeOK, Stages
  <2>3. id \in DOMAIN log \/ id \in LaterIds \cup MadeUpIds
    BY <2>2 DEF Waits, Waiting
  <2> HIDE DEF id
  <2>4. ASSUME NEW p \in DOMAIN hist', hist'[p].kind = "tool",
               NEW a \in hist'[p].ids \cap FirstIds
        PROVE  a \in DOMAIN log' /\ log'[a] = "completed"
    <3>1. CASE p \in DOMAIN hist
      <4>1. hist'[p] = hist[p]
        BY <1>4, <2>1, <3>1
      <4>2. a \in DOMAIN log /\ log[a] = "completed"
        BY <2>4, <3>1, <4>1 DEF ResultsAreLogged
      <4> QED  BY <2>1, <4>2 DEF Completed
    <3>2. CASE p \notin DOMAIN hist
      <4>1. a = id
        BY <1>4, <2>1, <2>4, <3>2
      <4>2. a \in DOMAIN log
        BY <2>3, <2>4, <4>1, IdFacts DEF GivenIds
      <4> QED  BY <2>1, <4>1, <4>2 DEF Completed
    <3> QED  BY <3>1, <3>2
  <2> QED  BY <2>4 DEF ResultsAreLogged
<1> QED  BY <1>5, <1>6, <1>7, <1>8, <1>9, <1>10, <1>11, <1>12 DEF Next, TurnStep

LEMMA StepKeepsWaits ==
  ASSUME TypeOK, Stages, Waits, [Next]_vars
  PROVE  Waits'
<1>1. ASSUME UNCHANGED todo, DOMAIN log \subseteq DOMAIN log'
      PROVE  Waits'
  BY <1>1 DEF Waits, Waiting
<1>2. ASSUME todo' = <<>>
      PROVE  Waits'
  BY <1>2 DEF Waits
<1>3. ASSUME UNCHANGED <<todo, log>>
      PROVE  Waits'
  BY <1>1, <1>3
<1>4. CASE Submit \/ Ask \/ OutOfTurns \/ EndTurn \/ MarkDelivered \/ UNCHANGED vars
           \/ \E m \in Inbound : Begin(m)
  BY <1>3, <1>4 DEF Submit, Ask, OutOfTurns, EndTurn, MarkDelivered, Begin, vars, store
<1>5. CASE Crash \/ ToolFails \/ LoopDetected \/ \E r \in Replies : ModelFails(r)
  BY <1>2, <1>5 DEF Crash, ToolFails, LoopDetected, ModelFails, Broken
<1>6. CASE Boot
  BY <1>1, <1>6 DEF Boot, Swept
<1>7. ASSUME NEW r \in Replies, Reply(r)
      PROVE  Waits'
  <2>1. pc = "model" /\ todo' = CallsOf(r) /\ log' = Recorded(Logged(r))
    BY <1>7, ReplyIs
  <2>2. DOMAIN todo' = 1..r.calls
    BY <2>1, ReplyIds
  <2>3. ASSUME NEW k \in DOMAIN todo'
        PROVE  Waiting(todo[k])'
    <3>1. CASE r.given = "first"
      <4>1. /\ todo'[k].result \in FirstIds /\ todo'[k].summary = todo'[k].result
            /\ todo'[k].logged = todo'[k].result
        BY <2>1, <2>2, <3>1, CallsAre DEF FirstIds
      <4>2. todo'[k].logged \in Logged(r)
        BY <2>1 DEF Logged
      <4>3. todo'[k].result \in DOMAIN log'
        BY <2>1, <4>1, <4>2, RecordedKeeps
      <4> QED  BY <4>1, <4>3 DEF Waiting
    <3>2. CASE r.given = "later"
      BY <2>1, <2>2, <3>2, CallsAre DEF Waiting, LaterIds
    <3>3. CASE r.given = "never"
      BY <2>1, <2>2, <3>3, CallsAre DEF Waiting
    <3> QED  BY <2>1, <3>1, <3>2, <3>3, CallsAre
  <2> QED  BY <2>3 DEF Waits
<1>8. CASE RunTool
  <2>1. todo' = Tail(todo) /\ log' = Completed(Head(todo).result) /\ todo # <<>>
    BY <1>8 DEF RunTool, Stages
  <2>2. \A k \in DOMAIN todo' : k + 1 \in DOMAIN todo /\ todo'[k] = todo[k + 1]
    BY <2>1 DEF TypeOK
  <2>3. DOMAIN log' = DOMAIN log
    BY <2>1 DEF Completed
  <2> QED  BY <2>2, <2>3 DEF Waits, Waiting
<1> QED  BY <1>4, <1>5, <1>6, <1>7, <1>8 DEF Next, TurnStep

(* The calls not named in their first delta have one row, which no result  *)
(* completes: what a result is logged by is never the empty id.            *)
LEMMA StepKeepsOthers ==
  ASSUME TypeOK, Stages, Waits, OthersShareARow, [Next]_vars
  PROVE  OthersShareARow'
<1>1. ASSUME DOMAIN log' = DOMAIN log,
             \/ UNCHANGED log
             \/ log' = Swept
             \/ \E id : id # NoId /\ log' = Completed(id)
      PROVE  OthersShareARow'
  <2>1. DOMAIN log' \subseteq FirstIds \cup {NoId}
    BY <1>1 DEF OthersShareARow
  <2>2. ASSUME NoId \in DOMAIN log
        PROVE  log'[NoId] \in {"pending", "interrupted"}
    <3>1. log[NoId] \in {"pending", "interrupted"}
      BY <2>2 DEF OthersShareARow
    <3>2. CASE log' = Swept
      BY <2>2, <3>1, <3>2 DEF Swept
    <3>3. CASE \E id : id # NoId /\ log' = Completed(id)
      BY <2>2, <3>1, <3>3 DEF Completed
    <3> QED  BY <1>1, <3>1, <3>2, <3>3
  <2> QED  BY <1>1, <2>1, <2>2 DEF OthersShareARow
<1>2. CASE \/ Submit \/ Crash \/ Ask \/ OutOfTurns \/ ToolFails \/ LoopDetected
           \/ EndTurn \/ MarkDelivered \/ UNCHANGED vars
           \/ \E m \in Inbound : Begin(m)
  <2>1. UNCHANGED log
    BY <1>2 DEF Submit, Crash, Ask, OutOfTurns, ToolFails, LoopDetected, EndTurn,
                MarkDelivered, Begin, vars, store
  <2> QED  BY <1>1, <2>1
<1>3. CASE Boot
  <2>1. log' = Swept /\ DOMAIN Swept = DOMAIN log
    BY <1>3 DEF Boot, Swept
  <2> QED  BY <1>1, <2>1
<1>4. ASSUME NEW r \in Replies, pc = "model", log' = Recorded(Logged(r))
      PROVE  OthersShareARow'
  <2>1. Logged(r) \subseteq FirstIds \cup {NoId}
    BY <1>4, ReplyIds
  <2>2. DOMAIN log' = DOMAIN log \cup Logged(r)
    BY <1>4 DEF Recorded
  <2>3. ASSUME NoId \in DOMAIN log'
        PROVE  log'[NoId] \in {"pending", "interrupted"}
    BY <1>4, <2>2, <2>3, RecordedKeeps DEF OthersShareARow
  <2>4. DOMAIN log' \subseteq FirstIds \cup {NoId}
    BY <2>1, <2>2 DEF OthersShareARow
  <2> QED  BY <2>3, <2>4 DEF OthersShareARow
<1>5. ASSUME NEW r \in Replies, Reply(r) \/ ModelFails(r)
      PROVE  OthersShareARow'
  BY <1>4, <1>5, ReplyIs, ModelFailsIsTyped DEF ModelFails
<1>6. CASE RunTool
  <2>1. log' = Completed(Head(todo).result)
    BY <1>6 DEF RunTool
  <2>2. 1 \in DOMAIN todo /\ todo[1] = Head(todo)
    BY <1>6 DEF RunTool, TypeOK, Stages
  <2>3. Head(todo).result # NoId
    BY <2>2, IdFacts DEF Waits, Waiting, GivenIds
  <2>4. DOMAIN log' = DOMAIN log
    BY <2>1 DEF Completed
  <2> QED  BY <1>1, <2>1, <2>3, <2>4
<1> QED  BY <1>2, <1>3, <1>5, <1>6 DEF Next, TurnStep

(* The calls pending in the log that were named in their first delta.      *)
Pending == {id \in DOMAIN log \cap FirstIds : log[id] = "pending"}

LEMMA StepKeepsPending ==
  ASSUME TypeOK, Stages, PendingIsOurs, PendingIsTodo, Waits, [Next]_vars
  PROVE  PendingIsOurs' /\ PendingIsTodo'
<1>1. /\ PendingIsOurs <=> \A id \in Pending : pc # "down" =>
           id[3] = life /\ (id[2] = cur \/ id[2] \in cut)
      /\ PendingIsOurs' <=> \A id \in Pending' : pc' # "down" =>
           id[3] = life' /\ (id[2] = cur' \/ id[2] \in cut')
  BY DEF PendingIsOurs, Pending
<1>2. /\ PendingIsTodo <=> \A id \in Pending :
           pc # "down" /\ id[2] = cur /\ cur \notin cut => \E k \in DOMAIN todo : todo[k].result = id
      /\ PendingIsTodo' <=> \A id \in Pending' :
           pc' # "down" /\ id[2] = cur' /\ cur' \notin cut'
             => \E k \in DOMAIN todo' : todo'[k].result = id
  BY DEF PendingIsTodo, Pending
<1>3. \A id \in Pending : id[2] # 0
  BY IdFacts, Numbers DEF Pending, GivenIds, Inbound
<1>4. Pending' \subseteq FirstIds /\ Pending \subseteq FirstIds
  BY DEF Pending, FirstIds, Named, Inbound
<1>5. CASE Submit \/ Ask \/ OutOfTurns \/ EndTurn \/ UNCHANGED vars
  <2>1. UNCHANGED <<log, life, cur, cut, todo>> /\ (pc' # "down" => pc # "down")
    BY <1>5 DEF Submit, Ask, OutOfTurns, EndTurn, vars, store
  <2>2. Pending' = Pending
    BY <2>1 DEF Pending, FirstIds, Named, Inbound
  <2> QED  BY <1>1, <1>2, <2>1, <2>2
<1>6. CASE Crash
  BY <1>1, <1>2, <1>6 DEF Crash
<1>7. CASE Boot
  <2>1. Pending' = {}
    BY <1>7 DEF Boot, Swept, Pending
  <2> QED  BY <1>1, <1>2, <2>1
<1>8. CASE \E m \in Inbound : Begin(m)
  <2>1. UNCHANGED <<log, life, cut, todo>> /\ pc = "idle"
    BY <1>8 DEF Begin, store
  <2>2. Pending' = Pending /\ cur = 0
    BY <2>1 DEF Pending, FirstIds, Named, Inbound, Stages
  <2>3. \A id \in Pending : id[3] = life /\ id[2] \in cut
    BY <1>1, <1>3, <2>1, <2>2
  <2> QED  BY <1>1, <1>2, <2>1, <2>2, <2>3
<1>9. CASE ToolFails \/ LoopDetected
  <2>1. /\ UNCHANGED <<log, life, cur>> /\ pc = "tools" /\ pc' # "down"
        /\ cut' = cut \cup {cur}
    BY <1>9 DEF ToolFails, LoopDetected, Broken, store
  <2>2. Pending' = Pending
    BY <2>1 DEF Pending, FirstIds, Named, Inbound
  <2> QED  BY <1>1, <1>2, <2>1, <2>2
<1>10. CASE MarkDelivered
  <2>1. UNCHANGED <<log, life, cut, todo>> /\ pc = "closing" /\ cur' = 0
    BY <1>10 DEF MarkDelivered
  <2>2. Pending' = Pending /\ todo = <<>>
    BY <2>1 DEF Pending, FirstIds, Named, Inbound, Stages
  <2>3. DOMAIN todo = {}
    BY <2>2
  <2>4. \A id \in Pending : id[3] = life /\ id[2] \in cut
    BY <1>1, <1>2, <2>1, <2>3
  <2> QED  BY <1>1, <1>2, <1>3, <2>1, <2>2, <2>4
<1>11. ASSUME NEW r \in Replies, pc = "model", log' = Recorded(Logged(r))
       PROVE  \A id \in Pending' : \/ id \in Pending
                                   \/ id[3] = life /\ id[2] = cur /\ id \in Logged(r) /\ r.given = "first"
  <2> TAKE id \in Pending'
  <2>1. id \in DOMAIN log' /\ id \in FirstIds /\ log'[id] = "pending"
    BY DEF Pending, FirstIds, Named, Inbound
  <2>2. id \in DOMAIN log \/ id \in Logged(r)
    BY <1>11, <2>1 DEF Recorded
  <2>3. CASE id \in DOMAIN log
    BY <1>11, <2>1, <2>3, RecordedKeeps DEF Pending
  <2>4. CASE id \in Logged(r)
    <3>1. r.given = "first"
      BY <1>11, <2>1, <2>4, ReplyIds, IdFacts DEF GivenIds
    <3>2. PICK k \in 1..r.calls : id = CallsOf(r)[k].logged
      BY <1>11, <2>4, ReplyIds DEF Logged
    <3>3. id = <<"first", cur, life, steps, k - 1>>
      BY <1>11, <3>1, <3>2, CallsAre
    <3> QED  BY <2>4, <3>1, <3>3
  <2> QED  BY <2>2, <2>3, <2>4
<1>12. ASSUME NEW r \in Replies, Reply(r)
       PROVE  PendingIsOurs' /\ PendingIsTodo'
  <2>1. pc = "model" /\ log' = Recorded(Logged(r)) /\ todo' = CallsOf(r)
        /\ UNCHANGED <<life, cur, cut>>
    BY <1>12, ReplyIs
  <2>2. DOMAIN todo = {}
    BY <2>1 DEF Stages
  <2>3. ASSUME NEW id \in Logged(r), r.given = "first"
        PROVE  \E k \in DOMAIN todo' : todo'[k].result = id
    <3>1. PICK k \in 1..r.calls : id = CallsOf(r)[k].logged
      BY <2>1, ReplyIds DEF Logged
    <3>2. CallsOf(r)[k].logged = CallsOf(r)[k].result
      BY <2>1, <2>3, CallsAre
    <3> QED  BY <2>1, <3>1, <3>2, ReplyIds
  <2>4. PendingIsOurs'
    BY <1>1, <1>11, <2>1
  <2>5. PendingIsTodo'
    BY <1>2, <1>11, <2>1, <2>2, <2>3
  <2> QED  BY <2>4, <2>5
<1>13. ASSUME NEW r \in Replies, ModelFails(r)
       PROVE  PendingIsOurs' /\ PendingIsTodo'
  <2>1. pc = "model" /\ log' = Recorded(Logged(r)) /\ UNCHANGED <<life, cur>>
        /\ cut' = cut \cup {cur}
    BY <1>13, ModelFailsIsTyped DEF ModelFails, Broken
  <2> QED  BY <1>1, <1>2, <1>11, <2>1
<1>14. CASE RunTool
  <2> DEFINE done == Head(todo).result
  <2>1. /\ log' = Completed(done) /\ todo' = Tail(todo) /\ todo # <<>>
        /\ UNCHANGED <<life, cur, cut>> /\ pc = "tools" /\ todo \in Seq(Call)
    BY <1>14 DEF RunTool, Stages, TypeOK
  <2>2. Pending' \subseteq Pending /\ done \notin Pending'
    BY <2>1 DEF Pending, Completed, FirstIds, Named, Inbound
  <2>3. \A k \in DOMAIN todo : \/ todo[k].result = done
                               \/ k - 1 \in DOMAIN todo' /\ todo'[k - 1] = todo[k]
    <3>1. Head(todo) = todo[1] /\ DOMAIN todo = 1..Len(todo) /\ Len(todo) \in Nat
      BY <2>1
    <3>2. \A k \in DOMAIN todo : k # 1 => k - 1 \in DOMAIN Tail(todo) /\ Tail(todo)[k - 1] = todo[k]
      BY <2>1
    <3> QED  BY <2>1, <3>1, <3>2
  <2> HIDE DEF done
  <2>4. PendingIsOurs'
    BY <1>1, <2>1, <2>2
  <2>5. PendingIsTodo'
    BY <1>2, <2>1, <2>2, <2>3
  <2> QED  BY <2>4, <2>5
<1> QED  BY <1>5, <1>6, <1>7, <1>8, <1>9, <1>10, <1>12, <1>13, <1>14 DEF Next, TurnStep

-----------------------------------------------------------------------------
(* The history: whom the model is asked about, and what its calls were     *)
(* answered.                                                               *)

(* A message at the end of a history: what was there stays, and so do the  *)
(* answers; a result at the end answers the calls that only results follow. *)
LEMMA AppendIs ==
  ASSUME NEW h \in Seq(Message), NEW x
  PROVE  LET n == Len(h) + 1
             g == Append(h, x)
         IN  /\ n \in Nat /\ DOMAIN h = 1..Len(h) /\ Len(h) \in Nat
             /\ DOMAIN g = 1..n /\ n \notin DOMAIN h /\ n \in DOMAIN g
             /\ \A p \in DOMAIN g : p = n \/ p \in DOMAIN h
             /\ g[n] = x
             /\ \A p \in DOMAIN h : p \in DOMAIN g /\ p < n /\ ~(n < p) /\ g[p] = h[p]
             /\ \A p, q \in DOMAIN h : Answers(h, p, q) => Answers(g, p, q)
             /\ \A q \in DOMAIN h :
                  h[q].kind = "calls" /\ x.kind = "tool"
                    /\ (\A p \in DOMAIN h : p > q => h[p].kind = "tool")
                  => Answers(g, n, q)
<1> DEFINE n == Len(h) + 1
           g == Append(h, x)
<1>1. n \in Nat /\ DOMAIN h = 1..Len(h) /\ Len(h) \in Nat
  OBVIOUS
<1>2. DOMAIN g = 1..n /\ g[n] = x /\ \A p \in 1..Len(h) : g[p] = h[p]
  OBVIOUS
<1> HIDE DEF g
<1>3. \A p \in DOMAIN g : p = n \/ p \in DOMAIN h
  BY <1>1, <1>2
<1>4. /\ n \notin DOMAIN h /\ n \in DOMAIN g
      /\ \A p \in DOMAIN h : p \in DOMAIN g /\ p < n /\ ~(n < p) /\ g[p] = h[p]
  BY <1>1, <1>2
<1>5. ASSUME NEW p \in DOMAIN h, NEW q \in DOMAIN h, Answers(h, p, q)
      PROVE  Answers(g, p, q)
  <2>1. \A k \in q + 1..p : k \in DOMAIN h
    BY <1>1
  <2> QED  BY <1>4, <1>5, <2>1 DEF Answers
<1>6. ASSUME NEW q \in DOMAIN h, h[q].kind = "calls", x.kind = "tool",
             \A p \in DOMAIN h : p > q => h[p].kind = "tool"
      PROVE  Answers(g, n, q)
  <2>1. \A k \in q + 1..n : k = n \/ (k \in DOMAIN h /\ k > q)
    BY <1>1
  <2>2. \A k \in q + 1..n : g[k].kind = "tool"
    BY <1>2, <1>4, <1>6, <2>1
  <2>3. q < n /\ g[q].kind = "calls"
    BY <1>4, <1>6
  <2> QED  BY <2>2, <2>3 DEF Answers
<1>7. DOMAIN g = 1..n /\ g[n] = x
  BY <1>2
<1> HIDE DEF n
<1>8. /\ n \in Nat /\ DOMAIN h = 1..Len(h) /\ Len(h) \in Nat
      /\ DOMAIN g = 1..n /\ n \notin DOMAIN h /\ n \in DOMAIN g
      /\ \A p \in DOMAIN g : p = n \/ p \in DOMAIN h
      /\ g[n] = x
      /\ \A p \in DOMAIN h : p \in DOMAIN g /\ p < n /\ ~(n < p) /\ g[p] = h[p]
      /\ \A p, q \in DOMAIN h : Answers(h, p, q) => Answers(g, p, q)
      /\ \A q \in DOMAIN h :
           h[q].kind = "calls" /\ x.kind = "tool"
             /\ (\A p \in DOMAIN h : p > q => h[p].kind = "tool")
           => Answers(g, n, q)
  BY <1>1, <1>3, <1>4, <1>5, <1>6, <1>7
<1> QED  BY <1>8 DEF g, n

(* The actions that append to the history.                                 *)
Adds(x) == hist' = Append(hist, x)

LEMMA Turns ==
  ASSUME TypeOK, Stages
  PROVE  /\ hist \in Seq(Message)
         /\ pc # "tools" => DOMAIN todo = {} /\ \A q, id : ~Owed(q, id)
<1>1. pc # "tools" => todo = <<>>
  BY DEF Stages
<1> QED  BY <1>1 DEF TypeOK, Owed

(* The steps that leave the history alone, and the message of the turn.    *)
Aside == \/ Submit \/ OutOfTurns \/ EndTurn
         \/ UNCHANGED vars \/ Boot
Cuts  == ToolFails \/ LoopDetected \/ \E r \in Replies : ModelFails(r)

LEMMA AsideIs ==
  ASSUME Aside
  PROVE  /\ UNCHANGED <<hist, cur, todo, cut, fresh>>
         /\ pc' = pc \/ pc' \in {"end", "closing", "idle"}
BY DEF Aside, Submit, OutOfTurns, EndTurn, Boot, vars, store

LEMMA CutsIs ==
  ASSUME TypeOK, Stages, Cuts
  PROVE  /\ UNCHANGED <<hist, cur, fresh>> /\ todo' = <<>> /\ cut' = cut \cup {cur}
         /\ pc' \in {"end", "closing"}
         /\ pc \in {"model", "tools"}
BY DEF Cuts, ToolFails, LoopDetected, ModelFails, Broken, store

LEMMA Steps ==
  ASSUME [Next]_vars
  PROVE  \/ Aside \/ Cuts \/ MarkDelivered \/ Crash \/ Ask \/ RunTool
         \/ \E r \in Replies : Reply(r)
         \/ \E m \in Inbound : Begin(m)
BY DEF Next, TurnStep, Aside, Cuts

LEMMA StepKeepsOnCurrent ==
  ASSUME TypeOK, Stages, OnCurrent, [Next]_vars
  PROVE  OnCurrent'
<1>1. hist \in Seq(Message)
  BY Turns
<1>2. ASSUME NEW x, Adds(x), pc \in {"ask", "model", "tools"}, UNCHANGED cur,
             x.kind # "user", x.of = cur
      PROVE  OnCurrent'
  <2>1. PICK u \in DOMAIN hist : CurrentUser(u)
    BY <1>2 DEF OnCurrent
  <2>2. u \in DOMAIN hist' /\ hist'[u] = hist[u]
    BY <1>1, <1>2, AppendIs DEF Adds
  <2>3. \A p \in DOMAIN hist' : p > u => hist'[p].kind # "user" /\ hist'[p].of = cur
    BY <1>1, <1>2, <2>1, AppendIs DEF Adds, CurrentUser
  <2> QED  BY <1>2, <2>1, <2>2, <2>3 DEF OnCurrent, CurrentUser
<1>3. CASE Aside
  BY <1>3, AsideIs DEF OnCurrent, CurrentUser
<1>4. CASE Cuts \/ MarkDelivered \/ Crash
  BY <1>4, CutsIs DEF MarkDelivered, Crash, OnCurrent
<1>5. CASE Ask
  <2>1. hist' = Compacted(hist) /\ pc = "ask" /\ UNCHANGED cur
    BY <1>5 DEF Ask
  <2>2. PICK e : Shrinks(e, hist')
    BY <1>1, <2>1, CompactedShrinks
  <2>3. PICK u \in DOMAIN hist : CurrentUser(u)
    BY <2>1 DEF OnCurrent
  <2>4. u \in Surviving
    BY <1>1, <2>3, CompactedShrinks DEF CurrentUser
  <2>5. PICK k \in DOMAIN hist' : e[k] = u /\ hist'[k] = hist[u]
    BY <2>2, <2>4, ShrunkPlaces
  <2>6. ASSUME NEW p \in DOMAIN hist', p > k
        PROVE  hist'[p].kind # "user" /\ hist'[p].of = cur
    <3>1. e[p] > u /\ e[p] \in DOMAIN hist /\ hist'[p] = hist[e[p]]
      BY <2>2, <2>5, <2>6 DEF Shrinks, Lists
    <3> QED  BY <2>3, <3>1 DEF CurrentUser
  <2>7. CurrentUser(k)'
    BY <2>1, <2>3, <2>5, <2>6 DEF CurrentUser
  <2> QED  BY <2>5, <2>7 DEF OnCurrent
<1>6. CASE RunTool
  <2>1. PICK x : Adds(x) /\ x.kind = "tool" /\ x.of = cur
    BY <1>6 DEF RunTool, Adds
  <2> QED  BY <1>2, <1>6, <2>1 DEF RunTool
<1>7. ASSUME NEW r \in Replies, Reply(r)
      PROVE  OnCurrent'
  <2> DEFINE x == [kind |-> IF r.calls = 0 THEN "prose" ELSE "calls",
                   of |-> cur, ids |-> Told(r)]
  <2>1. Adds(x) /\ x.kind # "user" /\ x.of = cur /\ pc = "model" /\ UNCHANGED cur
    BY <1>7, ReplyIs DEF Adds
  <2> HIDE DEF x
  <2> QED  BY <1>2, <2>1
<1>8. ASSUME NEW m \in Inbound, Begin(m)
      PROVE  OnCurrent'
  <2> DEFINE x == [kind |-> "user", of |-> m, ids |-> {}]
  <2>1. hist' = Append(History, x) /\ History \in Seq(Message) /\ cur' = m
    BY <1>8, HistoryType DEF Begin
  <2>2. x.kind = "user" /\ x.of = m
    OBVIOUS
  <2> HIDE DEF x
  <2>3. PICK n \in DOMAIN hist' : hist'[n] = x /\ \A p \in DOMAIN hist' : ~(n < p)
    BY <2>1, AppendIs
  <2>4. DOMAIN hist' \subseteq Nat
    BY <2>1, AppendIs
  <2>5. CurrentUser(n)'
    BY <2>1, <2>2, <2>3, <2>4 DEF CurrentUser
  <2> QED  BY <2>3, <2>5 DEF OnCurrent
<1> QED  BY <1>3, <1>4, <1>5, <1>6, <1>7, <1>8, Steps

(* A result keeps the latest calls open; the step that adds it runs the    *)
(* first call that is left.                                                *)
LEMMA RunToolIs ==
  ASSUME TypeOK, Stages, RunTool
  PROVE  LET c == todo[1]
             x == [kind |-> "tool", of |-> cur, ids |-> {c.result}]
         IN  /\ Adds(x) /\ 1 \in DOMAIN todo /\ todo' = Tail(todo)
             /\ pc = "tools" /\ UNCHANGED <<cur, cut, fresh>>
             /\ \A k \in DOMAIN todo : k = 1 \/ (k - 1 \in DOMAIN todo' /\ todo'[k - 1] = todo[k])
             /\ \A k \in DOMAIN todo' : k + 1 \in DOMAIN todo /\ todo'[k] = todo[k + 1]
             /\ Len(todo') = Len(todo) - 1 /\ Len(todo) \in Nat
             /\ \A q \in DOMAIN hist : Open(q) => Open(q)' /\ hist'[q] = hist[q]
<1>1. /\ todo # <<>> /\ todo \in Seq(Call) /\ pc = "tools" /\ todo' = Tail(todo)
      /\ UNCHANGED <<cur, cut, fresh>>
  BY DEF RunTool, Stages, TypeOK
<1>2. /\ DOMAIN todo = 1..Len(todo) /\ Len(todo) \in Nat /\ Len(todo) # 0
      /\ Head(todo) = todo[1]
  BY <1>1
<1>3. /\ DOMAIN todo' = 1..Len(todo) - 1 /\ Len(todo') = Len(todo) - 1
      /\ \A k \in 1..Len(todo) - 1 : todo'[k] = todo[k + 1]
  BY <1>1, <1>2
<1>4. 1 \in DOMAIN todo
  BY <1>2
<1>5. \A k \in DOMAIN todo : k = 1 \/ (k - 1 \in DOMAIN todo' /\ todo'[k - 1] = todo[k])
  BY <1>2, <1>3
<1>6. \A k \in DOMAIN todo' : k + 1 \in DOMAIN todo /\ todo'[k] = todo[k + 1]
  BY <1>2, <1>3
<1> DEFINE x == [kind |-> "tool", of |-> cur, ids |-> {todo[1].result}]
<1>7. Adds(x) /\ x.kind = "tool"
  BY <1>2 DEF RunTool, Adds
<1>8. hist \in Seq(Message)
  BY Turns
<1> HIDE DEF x
<1>9. ASSUME NEW q \in DOMAIN hist, Open(q)
      PROVE  Open(q)' /\ hist'[q] = hist[q]
  BY <1>1, <1>7, <1>8, <1>9, AppendIs DEF Adds, Open
<1> USE DEF x
<1> QED  BY <1>1, <1>2, <1>3, <1>4, <1>5, <1>6, <1>7, <1>9

LEMMA StepKeepsCalling ==
  ASSUME TypeOK, Stages, Calling, [Next]_vars
  PROVE  Calling'
<1>1. hist \in Seq(Message)
  BY Turns
<1>2. CASE Aside
  BY <1>2, AsideIs DEF Calling, Open
<1>3. CASE Cuts \/ MarkDelivered \/ Crash \/ Ask \/ \E m \in Inbound : Begin(m)
  BY <1>3, CutsIs DEF MarkDelivered, Crash, Ask, Begin, Calling
<1>4. CASE RunTool
  <2>1. PICK q \in DOMAIN hist :
          Open(q) /\ \A k \in DOMAIN todo : todo[k].result \in hist[q].ids \cup MadeUpIds
    BY <1>4 DEF RunTool, Calling
  <2>2. Open(q)' /\ hist'[q] = hist[q]
    BY <1>4, <2>1, RunToolIs
  <2>3. q \in DOMAIN hist'
    BY <2>2 DEF Open
  <2>4. \A k \in DOMAIN todo' : \E j \in DOMAIN todo : todo'[k] = todo[j]
    BY <1>4, RunToolIs
  <2>5. \A k \in DOMAIN todo' : todo'[k].result \in hist'[q].ids \cup MadeUpIds
    BY <2>1, <2>2, <2>4
  <2> QED  BY <2>2, <2>3, <2>5 DEF Calling, MadeUpIds
<1>5. ASSUME NEW r \in Replies, Reply(r)
      PROVE  Calling'
  <2> SUFFICES ASSUME pc' = "tools" PROVE Calling'
    BY DEF Calling
  <2> DEFINE x == [kind |-> IF r.calls = 0 THEN "prose" ELSE "calls",
                   of |-> cur, ids |-> Told(r)]
  <2>1. /\ Adds(x) /\ pc = "model" /\ UNCHANGED cur /\ todo' = CallsOf(r)
        /\ x.kind = "calls" /\ x.of = cur /\ x.ids = Told(r)
    BY <1>5, ReplyIs DEF Adds
  <2> HIDE DEF x
  <2>2. PICK n \in DOMAIN hist' : hist'[n] = x /\ \A p \in DOMAIN hist' : ~(n < p)
    BY <1>1, <2>1, AppendIs DEF Adds
  <2>3. DOMAIN hist' \subseteq Nat
    BY <1>1, <2>1, AppendIs DEF Adds
  <2>4. Open(n)'
    BY <2>1, <2>2, <2>3 DEF Open
  <2>5. ASSUME NEW k \in DOMAIN todo'
        PROVE  todo'[k].result \in Told(r) \cup MadeUpIds
    <3>1. k \in 1..r.calls /\ todo'[k] = CallsOf(r)[k]
      BY <2>1, ReplyIds
    <3>2. todo'[k].summary \in Told(r)
      BY <2>1 DEF Told
    <3>3. todo'[k].result = todo'[k].summary \/ todo'[k].result \in MadeUpIds
      BY <2>1, <3>1, CallsAre
    <3> QED  BY <3>2, <3>3
  <2>6. \A k \in DOMAIN todo' : todo'[k].result \in hist'[n].ids \cup MadeUpIds
    BY <2>1, <2>2, <2>5
  <2> QED  BY <2>2, <2>4, <2>6 DEF Calling, MadeUpIds
<1> QED  BY <1>2, <1>3, <1>4, <1>5, Steps

LEMMA StepKeepsResults ==
  ASSUME TypeOK, Stages, Calling, ResultsAnswerCalls, [Next]_vars
  PROVE  ResultsAnswerCalls'
<1> DEFINE Right(h, p) == \E q \in DOMAIN h : /\ Answers(h, p, q)
                                              /\ h[p].ids \subseteq h[q].ids \cup MadeUpIds
<1>1. hist \in Seq(Message)
  BY Turns
<1>2. /\ ResultsAnswerCalls <=> \A p \in DOMAIN hist : hist[p].kind = "tool" => Right(hist, p)
      /\ ResultsAnswerCalls' <=> \A p \in DOMAIN hist' : hist'[p].kind = "tool" => Right(hist', p)
  BY DEF ResultsAnswerCalls, Answers, MadeUpIds
<1>3. ASSUME NEW x, Adds(x), NEW p \in DOMAIN hist, Right(hist, p)
      PROVE  Right(hist', p)
  BY <1>1, <1>3, AppendIs DEF Adds
<1>4. ASSUME NEW x, Adds(x), x.kind # "tool"
      PROVE  ResultsAnswerCalls'
  <2>1. \A p \in DOMAIN hist' : hist'[p].kind = "tool" => p \in DOMAIN hist /\ hist'[p] = hist[p]
    BY <1>1, <1>4, AppendIs DEF Adds
  <2> HIDE DEF Right
  <2> QED  BY <1>2, <1>3, <1>4, <2>1
<1>5. ASSUME UNCHANGED hist
      PROVE  ResultsAnswerCalls'
  <2> HIDE DEF Right
  <2> QED  BY <1>2, <1>5
<1>6. CASE Aside \/ Cuts
  BY <1>5, <1>6, AsideIs, CutsIs
<1>7. CASE MarkDelivered
  BY <1>5, <1>7 DEF MarkDelivered
<1>8. CASE Crash
  <2>1. DOMAIN hist' = {}
    BY <1>8 DEF Crash
  <2> QED  BY <1>2, <2>1
<1>9. CASE Ask
  <2>1. hist' = Compacted(hist)
    BY <1>9 DEF Ask
  <2>2. PICK e : Shrinks(e, hist')
    BY <1>1, <2>1, CompactedShrinks
  <2>3. ASSUME NEW j \in DOMAIN hist', hist'[j].kind = "tool"
        PROVE  Right(hist', j)
    <3>1. e[j] \in DOMAIN hist /\ e[j] \in Surviving /\ hist'[j] = hist[e[j]]
      BY <2>2 DEF Shrinks, Lists
    <3>2. PICK q \in DOMAIN hist :
            Answers(hist, e[j], q) /\ hist[e[j]].ids \subseteq hist[q].ids \cup MadeUpIds
      BY <1>2, <2>3, <3>1
    <3>3. q \in Surviving
      BY <1>1, <3>1, <3>2, CompactedShrinks
    <3>4. PICK k \in DOMAIN hist' : e[k] = q /\ hist'[k] = hist[q]
      BY <2>2, <3>3, ShrunkPlaces
    <3>5. Answers(hist', j, k)
      BY <1>1, <2>2, <3>2, <3>4, ShrunkAnswers
    <3> QED  BY <3>1, <3>2, <3>4, <3>5
  <2> QED  BY <1>2, <2>3
<1>10. CASE RunTool
  <2> DEFINE x == [kind |-> "tool", of |-> cur, ids |-> {todo[1].result}]
             n == Len(hist) + 1
  <2>1. Adds(x) /\ 1 \in DOMAIN todo /\ x.kind = "tool" /\ x.ids = {todo[1].result}
    BY <1>10, RunToolIs
  <2> HIDE DEF x
  <2>2. PICK q \in DOMAIN hist :
          Open(q) /\ \A k \in DOMAIN todo : todo[k].result \in hist[q].ids \cup MadeUpIds
    BY <1>10 DEF RunTool, Calling
  <2>3. Answers(hist', n, q) /\ hist'[n] = x /\ hist'[q] = hist[q] /\ q \in DOMAIN hist'
    BY <1>1, <2>1, <2>2, AppendIs DEF Adds, Open
  <2>4. Right(hist', n)
    BY <2>1, <2>2, <2>3
  <2>5. \A p \in DOMAIN hist' : p = n \/ (p \in DOMAIN hist /\ hist'[p] = hist[p])
    BY <1>1, <2>1, AppendIs DEF Adds
  <2> HIDE DEF n, Right
  <2> QED  BY <1>2, <1>3, <2>1, <2>4, <2>5
<1>11. ASSUME NEW r \in Replies, Reply(r)
       PROVE  ResultsAnswerCalls'
  <2> DEFINE x == [kind |-> IF r.calls = 0 THEN "prose" ELSE "calls",
                   of |-> cur, ids |-> Told(r)]
  <2>1. Adds(x) /\ x.kind # "tool"
    BY <1>11, ReplyIs DEF Adds
  <2> QED  BY <1>4, <2>1
<1>12. ASSUME NEW m \in Inbound, Begin(m)
       PROVE  ResultsAnswerCalls'
  <2> DEFINE x == [kind |-> "user", of |-> m, ids |-> {}]
  <2>1. hist' = Append(History, x) /\ History \in Seq(Message) /\ x.kind # "tool"
    BY <1>12, HistoryType DEF Begin
  <2>2. CASE History = hist
    BY <1>4, <2>1, <2>2 DEF Adds
  <2>3. CASE History = Hydrated
    <3>1. \A p \in DOMAIN hist' : hist'[p].kind # "tool"
      BY <2>1, <2>3, AppendIs, HydratedType
    <3> QED  BY <1>2, <3>1
  <2> QED  BY <2>2, <2>3 DEF History
<1> QED  BY <1>6, <1>7, <1>8, <1>9, <1>10, <1>11, <1>12, Steps

LEMMA StepKeepsAnswered ==
  ASSUME TypeOK, Stages, Waits, Answered, [Next]_vars
  PROVE  Answered'
<1> DEFINE Done(h, q, id) == \E p \in DOMAIN h :
             Answers(h, p, q) /\ (h[p].ids = {id} \/ id \in MadeUpIds)
           Asked(h, c) == {q \in DOMAIN h : h[q].kind = "calls" /\ h[q].of \notin c}
<1>1. hist \in Seq(Message)
  BY Turns
<1>2. /\ Answered <=> \A q \in Asked(hist, cut) : \A id \in hist[q].ids :
                        Done(hist, q, id) \/ Owed(q, id)
      /\ Answered' <=> \A q \in Asked(hist', cut') : \A id \in hist'[q].ids :
                         Done(hist', q, id) \/ Owed(q, id)'
  BY DEF Answered, Result, Answers, MadeUpIds
<1>3. ASSUME NEW x, Adds(x), NEW q \in DOMAIN hist, NEW id, Done(hist, q, id)
      PROVE  Done(hist', q, id)
  BY <1>1, <1>3, AppendIs DEF Adds
<1>4. \A q \in Asked(hist, cut) : q \in DOMAIN hist /\ hist[q].kind = "calls"
  OBVIOUS
<1> HIDE DEF Done
<1>5. ASSUME pc # "tools"
      PROVE  \A q \in Asked(hist, cut) : \A id \in hist[q].ids : Done(hist, q, id)
  BY <1>2, <1>5, Turns
<1>6. ASSUME NEW x, Adds(x), x.kind # "calls", pc # "tools", UNCHANGED cut
      PROVE  Answered'
  <2>1. \A q \in Asked(hist', cut') : q \in Asked(hist, cut) /\ hist'[q] = hist[q]
    BY <1>1, <1>6, AppendIs DEF Adds
  <2> HIDE DEF Asked
  <2> QED  BY <1>2, <1>3, <1>4, <1>5, <1>6, <2>1
<1>7. CASE Aside
  <2>1. UNCHANGED <<hist, cur, todo, cut>>
    BY <1>7, AsideIs
  <2>2. \A q, id : Owed(q, id) => Owed(q, id)'
    BY <2>1 DEF Owed, Open
  <2> HIDE DEF Asked
  <2> QED  BY <1>2, <2>1, <2>2
<1>8. CASE Cuts
  <2>1. UNCHANGED hist /\ cut' = cut \cup {cur}
    BY <1>8, CutsIs
  <2>2. \A q, id : Owed(q, id) => hist[q].of = cur
    BY DEF Owed, Open
  <2>3. \A q \in Asked(hist', cut') : q \in Asked(hist, cut) /\ hist[q].of # cur
    BY <2>1
  <2> HIDE DEF Asked
  <2> QED  BY <1>2, <2>1, <2>2, <2>3
<1>9. CASE MarkDelivered
  <2>1. UNCHANGED <<hist, cut>> /\ pc # "tools"
    BY <1>9 DEF MarkDelivered
  <2> HIDE DEF Asked
  <2> QED  BY <1>2, <1>5, <2>1
<1>10. CASE Crash
  <2>1. DOMAIN hist' = {}
    BY <1>10 DEF Crash
  <2> QED  BY <1>2, <2>1
<1>11. CASE Ask
  <2>1. hist' = Compacted(hist) /\ UNCHANGED cut /\ pc # "tools"
    BY <1>11 DEF Ask
  <2>2. PICK e : Shrinks(e, hist')
    BY <1>1, <2>1, CompactedShrinks
  <2>3. ASSUME NEW j \in Asked(hist', cut'), NEW id \in hist'[j].ids
        PROVE  Done(hist', j, id)
    <3>1. e[j] \in DOMAIN hist /\ e[j] \in Surviving /\ hist'[j] = hist[e[j]]
      BY <2>2 DEF Shrinks, Lists
    <3>2. e[j] \in Asked(hist, cut) /\ id \in hist[e[j]].ids
      BY <2>1, <2>3, <3>1
    <3>3. Done(hist, e[j], id)
      BY <1>5, <2>1, <3>2
    <3>4. PICK p \in DOMAIN hist :
            Answers(hist, p, e[j]) /\ (hist[p].ids = {id} \/ id \in MadeUpIds)
      BY <3>3 DEF Done
    <3>5. p \in Surviving
      BY <1>1, <3>1, <3>4, CompactedShrinks
    <3>6. PICK k \in DOMAIN hist' : e[k] = p /\ hist'[k] = hist[p]
      BY <2>2, <3>5, ShrunkPlaces
    <3>7. Answers(hist', k, j)
      BY <1>1, <2>2, <3>4, <3>6, ShrunkAnswers
    <3> QED  BY <3>4, <3>6, <3>7 DEF Done
  <2> QED  BY <1>2, <2>3
<1>12. CASE RunTool
  <2> DEFINE c == todo[1]
             x == [kind |-> "tool", of |-> cur, ids |-> {c.result}]
             n == Len(hist) + 1
  <2>1. Adds(x) /\ 1 \in DOMAIN todo /\ UNCHANGED <<cur, cut>> /\ x.kind = "tool"
        /\ x.ids = {c.result}
    BY <1>12, RunToolIs
  <2> HIDE DEF x
  <2>2. \A q \in Asked(hist', cut') : q \in Asked(hist, cut) /\ hist'[q] = hist[q]
    BY <1>1, <2>1, AppendIs DEF Adds
  <2>3. c.summary = c.result \/ c.summary \in MadeUpIds
    BY <2>1 DEF Waits, Waiting
  <2> HIDE DEF c
  <2>4. ASSUME NEW q \in Asked(hist, cut), NEW id, Owed(q, id)
        PROVE  Done(hist', q, id) \/ Owed(q, id)'
    <3>1. Open(q) /\ Open(q)'
      BY <1>12, <2>4, RunToolIs DEF Owed
    <3>2. PICK k \in DOMAIN todo : todo[k].summary = id
      BY <2>4 DEF Owed
    <3>3. CASE k = 1
      <4>1. Answers(hist', n, q) /\ hist'[n] = x /\ n \in DOMAIN hist'
        BY <1>1, <2>1, <3>1, AppendIs DEF Adds, Open
      <4>2. x.ids = {id} \/ id \in MadeUpIds
        BY <2>1, <2>3, <3>2, <3>3 DEF c
      <4> QED  BY <4>1, <4>2 DEF Done
    <3>4. CASE k # 1
      <4>1. k - 1 \in DOMAIN todo' /\ todo'[k - 1] = todo[k]
        BY <1>12, <3>4, RunToolIs
      <4> QED  BY <3>1, <3>2, <4>1 DEF Owed
    <3> QED  BY <3>3, <3>4
  <2> HIDE DEF Asked
  <2> QED  BY <1>2, <1>3, <1>4, <2>1, <2>2, <2>4
<1>13. ASSUME NEW r \in Replies, Reply(r)
       PROVE  Answered'
  <2> DEFINE x == [kind |-> IF r.calls = 0 THEN "prose" ELSE "calls",
                   of |-> cur, ids |-> Told(r)]
  <2>1. /\ Adds(x) /\ pc = "model" /\ UNCHANGED <<cur, cut>> /\ todo' = CallsOf(r)
        /\ x.of = cur /\ x.ids = Told(r)
    BY <1>13, ReplyIs DEF Adds
  <2> HIDE DEF x
  <2>2. PICK n \in DOMAIN hist' :
          /\ n = Len(hist) + 1 /\ hist'[n] = x
          /\ n \in Nat /\ DOMAIN hist' \subseteq Nat
          /\ \A p \in DOMAIN hist' : ~(n < p)
    BY <1>1, <2>1, AppendIs DEF Adds
  <2>3. \A q \in Asked(hist', cut') : \/ q = n /\ x.kind = "calls"
                                      \/ q \in Asked(hist, cut) /\ hist'[q] = hist[q]
    BY <1>1, <2>1, <2>2, AppendIs DEF Adds
  <2>4. x.kind = "calls" => Open(n)'
    BY <2>1, <2>2 DEF Open
  <2>5. \A id \in Told(r) : \E k \in DOMAIN todo' : todo'[k].summary = id
    BY <2>1 DEF Told
  <2>6. hist'[n].ids = Told(r)
    BY <2>1, <2>2
  <2>7. ASSUME NEW id \in hist'[n].ids, x.kind = "calls"
        PROVE  Owed(n, id)'
    <3>1. PICK k \in DOMAIN todo' : todo'[k].summary = id
      BY <2>5, <2>6
    <3> QED  BY <2>4, <2>7, <3>1 DEF Owed
  <2> HIDE DEF Asked
  <2>8. ASSUME NEW q \in Asked(hist, cut), NEW id \in hist[q].ids
        PROVE  Done(hist', q, id)
    <3>1. Done(hist, q, id)
      BY <1>5, <2>1
    <3> QED  BY <1>3, <1>4, <2>1, <3>1
  <2> QED  BY <1>2, <2>3, <2>7, <2>8
<1>14. ASSUME NEW m \in Inbound, Begin(m)
       PROVE  Answered'
  <2> DEFINE x == [kind |-> "user", of |-> m, ids |-> {}]
  <2>1. /\ hist' = Append(History, x) /\ History \in Seq(Message)
        /\ x.kind = "user" /\ UNCHANGED cut /\ pc = "idle"
    BY <1>14, HistoryType DEF Begin
  <2> HIDE DEF x
  <2>2. CASE History = hist
    BY <1>6, <2>1, <2>2 DEF Adds
  <2>3. CASE History = Hydrated
    <3>1. \A p \in DOMAIN hist' : hist'[p].kind # "calls"
      BY <2>1, <2>3, AppendIs, HydratedType
    <3> QED  BY <1>2, <3>1
  <2> QED  BY <2>2, <2>3 DEF History
<1> QED  BY <1>7, <1>8, <1>9, <1>10, <1>11, <1>12, <1>13, <1>14, Steps

-----------------------------------------------------------------------------
(* The latest results.                                                     *)

Users(h) == {u \in DOMAIN h : h[u].kind = "user"}

LEMMA UsersStay ==
  ASSUME hist \in Seq(Message), NEW new, NEW e, Shrinks(e, new)
  PROVE  /\ IsFiniteSet(Users(hist)) /\ Cardinality(Users(hist)) \in Nat
         /\ Cardinality(Users(new)) \in Nat
         /\ Cardinality(Users(hist)) <= Cardinality(Users(new))
<1>1. IsFiniteSet(Users(hist))
  <2>1. Users(hist) \subseteq 1..Len(hist)
    BY DEF Users
  <2> QED  BY <2>1, FS_Interval, FS_Subset
<1>2. IsFiniteSet(Users(new))
  <2> DEFINE n == Len(new)
  <2>1. new \in Seq(Message)
    BY DEF Shrinks
  <2>2. n \in Nat /\ DOMAIN new = 1..n
    BY <2>1
  <2> HIDE DEF n
  <2>3. Users(new) \subseteq 1..n
    BY <2>2 DEF Users
  <2> QED  BY <2>2, <2>3, FS_Interval, FS_Subset
<1> DEFINE f == [u \in Users(hist) |-> CHOOSE k \in DOMAIN new : e[k] = u]
<1>3. ASSUME NEW u \in Users(hist)
      PROVE  f[u] \in Users(new) /\ e[f[u]] = u
  <2>1. u \in DOMAIN hist /\ hist[u].kind = "user"
    BY DEF Users
  <2>2. \E k \in DOMAIN new : e[k] = u
    BY <2>1, CompactedShrinks, ShrunkPlaces
  <2>3. f[u] \in DOMAIN new /\ e[f[u]] = u
    BY <2>2
  <2> HIDE DEF f
  <2> QED  BY <2>1, <2>3 DEF Shrinks, Users
<1>4. f \in [Users(hist) -> Users(new)]
  BY <1>3
<1> HIDE DEF f
<1>5. f \in Injection(Users(hist), Users(new))
  BY <1>3, <1>4 DEF Injection, IsInjective
<1> QED  BY <1>1, <1>2, <1>5, FS_Injection, FS_CardinalityType

(* A reply tells of as many calls as it has, when the provider numbers them. *)
LEMMA ToldCount ==
  ASSUME TypeOK, Stages, pc = "model", NEW r \in Replies
  PROVE  /\ IsFiniteSet(Told(r))
         /\ r.given # "never" => Cardinality(Told(r)) = r.calls
<1> DEFINE f == [k \in 1..r.calls |-> CallsOf(r)[k].summary]
<1>1. r.calls \in Nat
  BY CallsAre
<1>2. IsFiniteSet(1..r.calls) /\ Cardinality(1..r.calls) = r.calls
  <2> DEFINE n == r.calls
  <2>1. n \in Nat
    BY <1>1
  <2> HIDE DEF n
  <2>2. IsFiniteSet(1..n) /\ Cardinality(1..n) = n
    BY <2>1, FS_Interval
  <2> QED  BY <2>2 DEF n
<1>3. f \in Surjection(1..r.calls, Told(r))
  <2>1. \A k \in 1..r.calls : f[k] \in Told(r)
    BY ReplyIds DEF Told
  <2>2. \A id \in Told(r) : \E k \in 1..r.calls : f[k] = id
    BY ReplyIds DEF Told
  <2>3. f \in [1..r.calls -> Told(r)]
    BY <2>1
  <2> HIDE DEF f
  <2> QED  BY <2>2, <2>3 DEF Surjection
<1>4. ASSUME r.given # "never"
      PROVE  f \in Injection(1..r.calls, Told(r))
  <2>1. \A k \in 1..r.calls : f[k] = <<r.given, cur, life, steps, k - 1>>
    BY <1>4, CallsAre
  <2>2. ASSUME NEW j \in 1..r.calls, NEW k \in 1..r.calls, f[j] = f[k]
        PROVE  j = k
    <3> HIDE DEF f
    <3>1. /\ f[j] = <<r.given, cur, life, steps, j - 1>>
          /\ f[k] = <<r.given, cur, life, steps, k - 1>>
      BY <2>1
    <3>2. <<r.given, cur, life, steps, j - 1>> = <<r.given, cur, life, steps, k - 1>>
      BY <2>2, <3>1
    <3>3. j - 1 = k - 1
      BY <3>2
    <3> QED  BY <1>1, <3>3
  <2>3. f \in [1..r.calls -> Told(r)]
    BY <1>3 DEF Surjection
  <2> HIDE DEF f
  <2> QED  BY <2>2, <2>3 DEF Injection, IsInjective
<1> HIDE DEF f
<1> QED  BY <1>2, <1>3, <1>4, FS_Surjection

LEMMA StepKeepsFreshBlock ==
  ASSUME TypeOK, Stages, Waits, FreshBlock, [Next]_vars
  PROVE  FreshBlock'
<1>0. /\ Numbered <=> fresh # {} /\ fresh \subseteq GivenIds
      /\ Numbered' <=> fresh' # {} /\ fresh' \subseteq GivenIds
  BY DEF Numbered, GivenIds, FirstIds, LaterIds, Named, Inbound
<1>1. hist \in Seq(Message) /\ IsFiniteSet(fresh)
  BY Turns DEF FreshBlock
<1>2. CASE Aside
  <2>1. UNCHANGED <<hist, cur, todo, fresh>> /\ (pc' = pc \/ pc' \in {"end", "closing", "idle"})
    BY <1>2, AsideIs
  <2>2. \A q : FreshAt(q) => FreshAt(q)'
    BY <2>1 DEF FreshAt, Open
  <2>3. pc' \in {"ask", "tools"} => pc \in {"ask", "tools"}
    BY <2>1
  <2> HIDE DEF Aside
  <2> QED  BY <1>0, <1>1, <2>1, <2>2, <2>3 DEF FreshBlock
<1>3. CASE Cuts \/ MarkDelivered \/ Ask
  <2>1. UNCHANGED fresh /\ pc' \notin {"ask", "tools"}
    BY <1>3, CutsIs DEF MarkDelivered, Ask
  <2> QED  BY <1>1, <2>1 DEF FreshBlock
<1>4. CASE Crash \/ \E m \in Inbound : Begin(m)
  <2>1. fresh' = {}
    BY <1>4 DEF Crash, Begin
  <2> QED  BY <1>0, <2>1, FS_EmptySet DEF FreshBlock
<1>5. CASE RunTool
  <2> DEFINE c == todo[1]
             x == [kind |-> "tool", of |-> cur, ids |-> {c.result}]
  <2>1. /\ Adds(x) /\ 1 \in DOMAIN todo /\ pc = "tools" /\ UNCHANGED fresh
        /\ x.ids = {c.result}
        /\ Len(todo') = Len(todo) - 1 /\ Len(todo) \in Nat
        /\ \A k \in DOMAIN todo : k = 1 \/ (k - 1 \in DOMAIN todo' /\ todo'[k - 1] = todo[k])
    BY <1>5, RunToolIs
  <2> HIDE DEF x
  <2>2. SUFFICES ASSUME Numbered PROVE FreshBlock'
    BY <1>0, <1>1, <2>1 DEF FreshBlock
  <2>3. PICK q \in DOMAIN hist :
          /\ Open(q) /\ hist[q].ids = fresh
          /\ Len(hist) + Len(todo) = q + Cardinality(fresh)
          /\ \A id \in fresh :
               \/ \E p \in DOMAIN hist : p > q /\ hist[p].ids = {id}
               \/ \E k \in DOMAIN todo : todo[k].result = id
    BY <2>1, <2>2 DEF FreshBlock, FreshAt
  <2>4. Open(q)' /\ q \in DOMAIN hist' /\ hist'[q].ids = fresh
    BY <1>1, <1>5, <2>1, <2>3, RunToolIs, AppendIs DEF Adds
  <2>5. Len(hist') + Len(todo') = q + Cardinality(fresh)
    <3>1. Len(hist') = Len(hist) + 1 /\ Len(hist) \in Nat
      BY <1>1, <2>1 DEF Adds
    <3> QED  BY <2>1, <2>3, <3>1
  <2>6. ASSUME NEW id \in fresh
        PROVE  \/ \E p \in DOMAIN hist' : p > q /\ hist'[p].ids = {id}
               \/ \E k \in DOMAIN todo' : todo'[k].result = id
    <3>1. CASE \E p \in DOMAIN hist : p > q /\ hist[p].ids = {id}
      <4>1. PICK p \in DOMAIN hist : p > q /\ hist[p].ids = {id}
        BY <3>1
      <4>2. p \in DOMAIN hist' /\ hist'[p] = hist[p]
        BY <1>1, <2>1, AppendIs DEF Adds
      <4> QED  BY <4>1, <4>2
    <3>2. CASE \E k \in DOMAIN todo : todo[k].result = id
      <4>1. PICK k \in DOMAIN todo : todo[k].result = id
        BY <3>2
      <4>2. CASE k = 1
        <5>1. PICK n \in DOMAIN hist' : n > q /\ hist'[n] = x
          BY <1>1, <2>1, <2>3, AppendIs DEF Adds
        <5>2. hist'[n].ids = {id}
          BY <2>1, <4>1, <4>2, <5>1
        <5> QED  BY <5>1, <5>2
      <4>3. CASE k # 1
        BY <2>1, <4>1, <4>3
      <4> QED  BY <4>2, <4>3
    <3> QED  BY <2>3, <3>1, <3>2
  <2>7. FreshAt(q)'
    BY <2>1, <2>4, <2>5, <2>6 DEF FreshAt
  <2> QED  BY <1>1, <2>1, <2>4, <2>7 DEF FreshBlock
<1>6. ASSUME NEW r \in Replies, Reply(r)
      PROVE  FreshBlock'
  <2> DEFINE x == [kind |-> IF r.calls = 0 THEN "prose" ELSE "calls",
                   of |-> cur, ids |-> Told(r)]
  <2>1. /\ Adds(x) /\ pc = "model" /\ UNCHANGED cur /\ todo' = CallsOf(r)
        /\ x.of = cur /\ x.ids = Told(r) /\ fresh' = Told(r)
        /\ r.calls # 0 => x.kind = "calls"
        /\ pc' = IF r.calls = 0 THEN "end" ELSE "tools"
    BY <1>6, ReplyIs DEF Adds
  <2> HIDE DEF x
  <2>2. IsFiniteSet(fresh')
    BY <2>1, ToldCount
  <2>3. SUFFICES ASSUME pc' = "tools", fresh' # {}, fresh' \subseteq GivenIds
                 PROVE  FreshBlock'
    <3>1. pc' \in {"ask", "tools"} => pc' = "tools"
      BY <2>1
    <3> QED  BY <1>0, <2>2, <3>1 DEF FreshBlock
  <2>4. r.given # "never" /\ r.calls # 0 /\ r.calls \in Nat
    <3>1. r.given = "never" => fresh' \subseteq MadeUpIds
      BY <2>1, ReplyIds
    <3>2. r.given # "never"
      BY <2>3, <3>1, IdFacts
    <3> QED  BY <2>1, <2>3, <3>2, CallsAre
  <2>5. PICK n \in DOMAIN hist' :
          /\ n = Len(hist) + 1 /\ hist'[n] = x
          /\ n \in Nat /\ DOMAIN hist' \subseteq Nat /\ Len(hist') = n
          /\ \A p \in DOMAIN hist' : ~(n < p)
    BY <1>1, <2>1, AppendIs DEF Adds
  <2>6. Open(n)' /\ hist'[n].ids = fresh'
    BY <2>1, <2>4, <2>5 DEF Open
  <2>7. Len(hist') + Len(todo') = n + Cardinality(fresh')
    <3>1. Len(todo') = r.calls /\ Cardinality(fresh') = r.calls
      BY <2>1, <2>4, CallsAre, ToldCount
    <3> QED  BY <2>5, <3>1
  <2>8. ASSUME NEW id \in fresh'
        PROVE  \E k \in DOMAIN todo' : todo'[k].result = id
    <3>1. PICK k \in DOMAIN todo' : todo'[k].summary = id
      BY <2>1, <2>8 DEF Told
    <3>2. k \in 1..r.calls /\ todo'[k] = CallsOf(r)[k]
      BY <2>1, <3>1, ReplyIds
    <3>3. todo'[k].summary = todo'[k].result
      BY <2>1, <2>4, <3>2, CallsAre
    <3> QED  BY <3>1, <3>3
  <2>9. FreshAt(n)'
    BY <2>6, <2>7, <2>8 DEF FreshAt
  <2> QED  BY <2>2, <2>5, <2>9 DEF FreshBlock
<1> QED  BY <1>2, <1>3, <1>4, <1>5, <1>6, Steps

(* When the model is asked, the latest calls and results stay.             *)
LEMMA AskShowsFresh ==
  ASSUME TypeOK, Stages, ResultsAnswerCalls, FreshBlock, Ask
  PROVE  FreshResultsSeen'
<1>1. /\ hist \in Seq(Message) /\ hist' = Compacted(hist) /\ pc = "ask"
      /\ UNCHANGED fresh /\ MaxMessages \in Nat /\ todo = <<>>
  BY Numbers DEF Ask, TypeOK, Stages
<1>2. PICK e : Shrinks(e, hist')
  BY <1>1, CompactedShrinks
<1>3. SUFFICES ASSUME fresh # {}, fresh \subseteq GivenIds,
                      Cardinality(Users(hist')) + Cardinality(fresh) + 1 <= MaxMessages
               PROVE  /\ \E q \in DOMAIN hist' : hist'[q].kind = "calls" /\ hist'[q].ids = fresh
                      /\ \A id \in fresh :
                           \E p \in DOMAIN hist' : hist'[p].kind = "tool" /\ hist'[p].ids = {id}
  <2>1. fresh' = fresh /\ GivenIds' = GivenIds
    BY <1>1 DEF GivenIds, FirstIds, LaterIds, Named, Inbound
  <2> QED  BY <2>1 DEF FreshResultsSeen, Users
<1>4. PICK q \in DOMAIN hist :
        /\ Open(q) /\ hist[q].ids = fresh
        /\ Len(hist) + Len(todo) = q + Cardinality(fresh)
        /\ \A id \in fresh :
             \/ \E p \in DOMAIN hist : p > q /\ hist[p].ids = {id}
             \/ \E k \in DOMAIN todo : todo[k].result = id
  BY <1>1, <1>3 DEF FreshBlock, FreshAt, Numbered
<1>5. /\ DOMAIN todo = {} /\ Len(todo) = 0
      /\ Cardinality(fresh) \in Nat /\ q \in Nat /\ Len(hist) \in Nat
  BY <1>1, <1>4, FS_CardinalityType DEF FreshBlock
<1>6. q \in Surviving
  <2> DEFINE h == [a \in DOMAIN hist |-> hist[a].kind]
  <2>1. \A a \in DOMAIN hist : hist[a].kind \in Kinds
    <3>1. \A a \in DOMAIN hist : hist[a] \in Message
      BY <1>1
    <3>2. \A x \in Message : x.kind \in Kinds
      BY DEF Message
    <3> QED  BY <3>1, <3>2
  <2>2. h \in Seq(Kinds) /\ DOMAIN h = DOMAIN hist /\ Len(h) = Len(hist)
    <3>1. DOMAIN hist = 1..Len(hist)
      BY <1>1
    <3> QED  BY <1>5, <2>1, <3>1
  <2>3. \A a \in DOMAIN hist : h[a] = hist[a].kind
    OBVIOUS
  <2>4. Surviving = Kept(h, MaxMessages)
    BY DEF Surviving
  <2> HIDE DEF h
  <2>5. Positions(h, "user") = Users(hist)
    BY <2>2, <2>3 DEF Positions, Users
  <2>6. Cardinality(Positions(h, "user")) + (Len(h) - q + 1) <= MaxMessages
    <3>1. Len(h) - q + 1 = Cardinality(fresh) + 1
      BY <1>4, <1>5, <2>2
    <3>2. /\ Cardinality(Users(hist)) \in Nat /\ Cardinality(Users(hist')) \in Nat
          /\ Cardinality(Users(hist)) <= Cardinality(Users(hist'))
      BY <1>1, <1>2, UsersStay
    <3> QED
      <4> DEFINE a == Cardinality(Users(hist))
                 b == Cardinality(Users(hist'))
                 c == Cardinality(fresh)
      <4>1. /\ a \in Nat /\ b \in Nat /\ c \in Nat /\ a <= b
            /\ b + c + 1 <= MaxMessages
        BY <1>3, <1>5, <3>2
      <4> HIDE DEF a, b, c
      <4>2. a + (c + 1) <= MaxMessages
        BY <1>1, <4>1
      <4> QED  BY <2>5, <3>1, <4>2 DEF a, c
  <2>7. \A x \in DOMAIN h : h[x] # "system"
    BY <2>2, <2>3 DEF Stages
  <2>8. ASSUME NEW x \in DOMAIN h, h[x] = "tool"
        PROVE  \E c \in DOMAIN h : /\ h[c] = "calls" /\ c < x
                                   /\ \A k \in c + 1..x : h[k] = "tool"
    <3>1. PICK c \in DOMAIN hist : Answers(hist, x, c)
      BY <2>2, <2>3, <2>8 DEF ResultsAnswerCalls
    <3>2. \A k \in c + 1..x : k \in DOMAIN hist
      BY <1>1, <2>2
    <3> QED  BY <2>2, <2>3, <3>1, <3>2 DEF Answers
  <2>9. h[q] = "calls" /\ q \in DOMAIN h
    BY <1>4, <2>2, <2>3 DEF Open
  <2> QED  BY <1>1, <2>2, <2>4, <2>6, <2>7, <2>8, <2>9, LatestStays
<1>7. \E k \in DOMAIN hist' : hist'[k].kind = "calls" /\ hist'[k].ids = fresh
  <2>1. PICK k \in DOMAIN hist' : hist'[k] = hist[q]
    BY <1>2, <1>6, ShrunkPlaces
  <2> QED  BY <1>4, <2>1 DEF Open
<1>8. ASSUME NEW id \in fresh
      PROVE  \E k \in DOMAIN hist' : hist'[k].kind = "tool" /\ hist'[k].ids = {id}
  <2>1. PICK p \in DOMAIN hist : p > q /\ hist[p].ids = {id}
    BY <1>4, <1>5
  <2>2. \A k \in q + 1..p : k \in DOMAIN hist /\ k > q
    BY <1>1, <1>5
  <2>3. Answers(hist, p, q) /\ hist[p].kind = "tool"
    BY <1>4, <1>5, <2>1, <2>2 DEF Answers, Open
  <2>4. p \in Surviving
    BY <1>1, <1>6, <2>3, CompactedShrinks
  <2>5. PICK k \in DOMAIN hist' : hist'[k] = hist[p]
    BY <1>2, <2>4, ShrunkPlaces
  <2> QED  BY <2>1, <2>3, <2>5
<1> QED  BY <1>7, <1>8

LEMMA StepKeepsFreshSeen ==
  ASSUME TypeOK, Stages, ResultsAnswerCalls, FreshBlock, FreshResultsSeen, [Next]_vars
  PROVE  FreshResultsSeen'
<1>1. CASE Ask
  BY <1>1, AskShowsFresh
<1>2. CASE Aside
  <2>1. UNCHANGED <<hist, fresh>> /\ (pc' = "model" => pc = "model")
    BY <1>2, AsideIs
  <2> QED  BY <2>1 DEF FreshResultsSeen, GivenIds, FirstIds, LaterIds, Named, Inbound
<1>3. ASSUME pc' # "model"
      PROVE  FreshResultsSeen'
  BY <1>3 DEF FreshResultsSeen
<1>4. CASE Cuts \/ MarkDelivered \/ Crash \/ RunTool \/ \E m \in Inbound : Begin(m)
  BY <1>3, <1>4, CutsIs DEF MarkDelivered, Crash, RunTool, Begin
<1>5. CASE \E r \in Replies : Reply(r)
  BY <1>3, <1>5, ReplyIs
<1> QED  BY <1>1, <1>2, <1>4, <1>5, Steps

-----------------------------------------------------------------------------
(* The theorems.                                                           *)

LEMMA InitIsGood ==
  Init => IInv
<1> SUFFICES ASSUME Init PROVE IInv
  OBVIOUS
<1>1. TypeOK /\ Stages
  BY InitIsTyped
<1>2. DOMAIN log = {} /\ DOMAIN hist = {} /\ DOMAIN todo = {} /\ pc = "down" /\ fresh = {}
  BY DEF Init
<1>3. LogAgrees /\ PendingIsTodo /\ Waits
  BY <1>2 DEF LogAgrees, ResultsAreLogged, PendingIsOurs, OthersShareARow,
              PendingIsTodo, Waits
<1>4. OnCurrent /\ Calling /\ ResultsAnswerCalls /\ Answered
  BY <1>2 DEF OnCurrent, Calling, ResultsAnswerCalls, Answered
<1>5. FreshBlock /\ FreshResultsSeen
  BY <1>2, FS_EmptySet DEF FreshBlock, FreshResultsSeen
<1> QED  BY <1>1, <1>3, <1>4, <1>5 DEF IInv

LEMMA StepIsGood ==
  IInv /\ [Next]_vars => IInv'
<1> SUFFICES ASSUME IInv, [Next]_vars PROVE IInv'
  OBVIOUS
<1>1. /\ TypeOK /\ Stages /\ LogAgrees /\ PendingIsTodo /\ Waits /\ OnCurrent /\ Calling
      /\ ResultsAnswerCalls /\ Answered /\ FreshBlock /\ FreshResultsSeen
  BY DEF IInv
<1>2. TypeOK' /\ Stages'
  BY <1>1, StepIsTyped
<1>3. LogAgrees' /\ PendingIsTodo' /\ Waits'
  BY <1>1, StepKeepsResultsLogged, StepKeepsPending, StepKeepsOthers,
     StepKeepsWaits DEF LogAgrees
<1>4. OnCurrent' /\ Calling'
  BY <1>1, StepKeepsOnCurrent, StepKeepsCalling
<1>5. ResultsAnswerCalls' /\ Answered'
  BY <1>1, StepKeepsResults, StepKeepsAnswered
<1>6. FreshBlock' /\ FreshResultsSeen'
  BY <1>1, StepKeepsFreshBlock, StepKeepsFreshSeen
<1> QED  BY <1>2, <1>3, <1>4, <1>5, <1>6 DEF IInv

(* IInv is inductive, whatever the model answers, whatever is compacted,   *)
(* and wherever a turn or the process breaks.                              *)
THEOREM AgentInvariant == Spec => []IInv
<1>1. Init => IInv
  BY InitIsGood
<1>2. IInv /\ [Next]_vars => IInv'
  BY StepIsGood
<1> QED  BY <1>1, <1>2, PTL DEF Spec

(* The variables of the loop stay in their types: what compact() returns   *)
(* is again a history (compaction.py:24-70).                               *)
THEOREM TypeCorrect == Spec => []TypeOK
<1>1. IInv => TypeOK
  BY DEF IInv
<1> QED  BY <1>1, AgentInvariant, PTL

(* The model is sent no result without its call, and no call without its   *)
(* result but of turns that broke (agent.py:125-320 with compaction.py).   *)
THEOREM ConversationsAreWellFormed == Spec => []CallsAndResultsPair
<1>1. IInv => CallsAndResultsPair
  <2> SUFFICES ASSUME IInv PROVE CallsAndResultsPair
    OBVIOUS
  <2>1. TypeOK /\ Stages /\ ResultsAnswerCalls /\ Answered
    BY DEF IInv
  <2>2. pc = "model" => \A q, id : ~Owed(q, id)
    BY <2>1, Turns
  <2>3. CallsHaveResults
    BY <2>1, <2>2 DEF Answered, CallsHaveResults, Result
  <2> QED  BY <2>1, <2>3 DEF CallsAndResultsPair
<1> QED  BY <1>1, AgentInvariant, PTL

(* Every model call is about the message of its turn (agent.py:121-139),   *)
(* whatever was hydrated, compacted or left by turns that broke.           *)
THEOREM ModelCallsAreAboutTheMessage == Spec => []AsksCurrent
<1>1. IInv => AsksCurrent
  BY DEF IInv, OnCurrent, CurrentUser, AsksCurrent
<1> QED  BY <1>1, AgentInvariant, PTL

(* The results a model waits for are in its next prompt whenever they fit  *)
(* beside the messages of the user (compaction.py:35-68).                  *)
THEOREM FreshResultsStay == Spec => []FreshResultsSeen
<1>1. IInv => FreshResultsSeen
  BY DEF IInv
<1> QED  BY <1>1, AgentInvariant, PTL

(* tool_calls tells the truth about every call whose id came in its first  *)
(* delta, through crashes, broken turns and the sweep of the start.  The   *)
(* calls named later or never share one row that no result completes, also *)
(* when they ran (agent.py:73,193).                                        *)
THEOREM LogTellsTheTruth == Spec => []LogAgrees
<1>1. IInv => LogAgrees
  BY DEF IInv
<1> QED  BY <1>1, AgentInvariant, PTL

-----------------------------------------------------------------------------
(* compact() as it runs (module Compaction): the invariant of its loops.   *)

(* What is left of the input, and what is not.                             *)
Left == {out[k] : k \in DOMAIN out}
Removed == DOMAIN input \ Left

CompactTypes ==
  /\ input \in Seq(Kinds) /\ max \in Nat
  /\ pass \in {"start", "prose", "blocks", "done"}
  /\ out \in Seq(DOMAIN input)
  /\ i \in Nat \ {0} /\ keep \in Nat

Ordered == \A k, m \in DOMAIN out : k < m => out[k] < out[m]

(* keep_last_user is None or the index of a message of the user.           *)
KeepIsUser == keep # 0 => keep \in DOMAIN out /\ Kind(keep) = "user"

(* The first loop has removed the oldest prose, as long as there was too   *)
(* much; nothing that is left from i on is older than what it removed.     *)
OlderProse(p) == {q \in Positions(input, "prose") : q < p}

ProseGone ==
  /\ \A p \in Removed :
       /\ input[p] = "prose"
       /\ Cardinality(OlderProse(p)) + max < Len(input)
       /\ \A k \in DOMAIN out : k >= i => p < out[k]
  /\ \A k \in DOMAIN out : k < i => Kind(k) # "prose"

(* The second has removed the oldest calls, with their blocks.             *)
Fitting == AfterProse(input, max)
AllCalls == Positions(input, "calls") \cap Fitting
BlocksOf(C) == UNION {Block(input, Fitting, q) : q \in C}
Before(p)   == BlocksOf({q \in AllCalls : q < p})

BlocksGone ==
  /\ Left \subseteq Fitting
  /\ Fitting \ Left = BlocksOf(AllCalls \ Left)
  /\ \A q \in AllCalls \ Left : Cardinality(Fitting) > max + Cardinality(Before(q))
  /\ \A p \in Fitting \ Left, k \in DOMAIN out : k >= i => p < out[k]
  /\ \A k \in DOMAIN out : k < i => Kind(k) # "calls"

CompactInv ==
  /\ CompactTypes /\ Ordered /\ KeepIsUser
  /\ pass = "start"            => i = 1 /\ Left = DOMAIN input
  /\ pass \in {"start", "prose"} => ProseGone
  /\ pass = "blocks"           => BlocksGone
  /\ pass = "done"             => Left = Kept(input, max)

-----------------------------------------------------------------------------
(* Its loops compute the closed form.                                      *)

(* A set of positions that is not empty has a first and a last.            *)
LEMMA Extremes ==
  ASSUME NEW n \in Nat, NEW P \in SUBSET (1..n), P # {}
  PROVE  /\ \E p \in P : \A q \in P : p <= q
         /\ \E p \in P : \A q \in P : q <= p
<1> DEFINE s == [k \in 1..n |-> k]
           c == Cardinality(P)
<1>1. s \in Seq(Nat) /\ DOMAIN s = 1..n
  OBVIOUS
<1> HIDE DEF s
<1>2. PICK e : Lists(e, P)
  BY <1>1, PickLists
<1>3. IsFiniteSet(P) /\ c \in Nat /\ c # 0
  <2>1. IsFiniteSet(P)
    BY <1>1, PickLists
  <2> QED  BY <2>1, FS_CardinalityType, FS_EmptySet
<1>4. e[1] \in P /\ e[c] \in P
  BY <1>2, <1>3 DEF Lists
<1>5. ASSUME NEW q \in P
      PROVE  e[1] <= q /\ q <= e[c]
  <2>1. PICK k \in 1..c : e[k] = q
    BY <1>2 DEF Lists
  <2>2. ~(e[k] < e[1]) /\ ~(e[c] < e[k])
    BY <1>2, <1>3 DEF Lists
  <2>3. \A p \in P : p \in Nat
    OBVIOUS
  <2>4. e[1] \in Nat /\ e[c] \in Nat /\ q \in Nat
    BY <1>4, <2>3
  <2> HIDE DEF c
  <2> QED  BY <2>1, <2>2, <2>4
<1> QED  BY <1>4, <1>5

(* The list is as long as what it lists.                                   *)
LEMMA LeftSize ==
  ASSUME CompactTypes, Ordered
  PROVE  /\ DOMAIN input = 1..Len(input) /\ Len(input) \in Nat
         /\ IsFiniteSet(DOMAIN input) /\ Cardinality(DOMAIN input) = Len(input)
         /\ DOMAIN out = 1..Len(out) /\ Len(out) \in Nat
         /\ Left \subseteq DOMAIN input
         /\ IsFiniteSet(Left) /\ Cardinality(Left) = Len(out)
<1>1. /\ DOMAIN input = 1..Len(input) /\ Len(input) \in Nat
      /\ DOMAIN out = 1..Len(out) /\ Len(out) \in Nat
  BY DEF CompactTypes
<1>2. Left \subseteq DOMAIN input /\ \A k \in DOMAIN out : out[k] \in DOMAIN input
  BY DEF CompactTypes, Left
<1>3. IsFiniteSet(DOMAIN input) /\ Cardinality(DOMAIN input) = Len(input)
  <2> DEFINE n == Len(input)
  <2>1. n \in Nat /\ DOMAIN input = 1..n
    BY <1>1
  <2> HIDE DEF n
  <2>2. IsFiniteSet(1..n) /\ Cardinality(1..n) = n
    BY <2>1, FS_Interval
  <2> QED  BY <2>1, <2>2 DEF n
<1>4. IsFiniteSet(Left) /\ Cardinality(Left) = Len(out)
  <2> DEFINE n == Len(out)
             f == [k \in 1..n |-> out[k]]
  <2>1. n \in Nat /\ DOMAIN out = 1..n
    BY <1>1
  <2>2. f \in [1..n -> Left]
    BY <2>1 DEF Left
  <2>3. \A k, m \in 1..n : f[k] = f[m] => k = m
    <3> TAKE k, m \in 1..n
    <3>1. out[k] \in Nat /\ out[m] \in Nat
      BY <1>1, <1>2, <2>1
    <3>2. (k < m => out[k] < out[m]) /\ (m < k => out[m] < out[k])
      BY <2>1 DEF Ordered
    <3> QED  BY <2>1, <3>1, <3>2
  <2>4. \A p \in Left : \E k \in 1..n : f[k] = p
    BY <2>1 DEF Left
  <2> HIDE DEF f, n
  <2>5. f \in Injection(1..n, Left) /\ f \in Surjection(1..n, Left)
    BY <2>2, <2>3, <2>4 DEF Injection, IsInjective, Surjection
  <2>6. IsFiniteSet(1..n) /\ Cardinality(1..n) = n
    BY <2>1, FS_Interval
  <2>7. IsFiniteSet(Left)
    BY <1>2, <1>3, FS_Subset
  <2>8. Cardinality(Left) = n
    BY <2>5, <2>6, <2>7, FS_Injection, FS_Surjection
  <2> QED  BY <2>7, <2>8 DEF n
<1> QED  BY <1>1, <1>2, <1>3, <1>4

(* Places in the list are ordered as what stands there.                    *)
LEMMA PlacesOrdered ==
  ASSUME CompactTypes, Ordered, NEW k \in DOMAIN out, NEW m \in DOMAIN out
  PROVE  /\ k \in Nat /\ out[k] \in Nat /\ out[k] \in DOMAIN input /\ out[k] \in Left
         /\ out[k] < out[m] <=> k < m
         /\ out[k] <= out[m] <=> k <= m
<1>1. /\ k \in Nat /\ m \in Nat /\ out[k] \in Nat /\ out[m] \in Nat
      /\ out[k] \in DOMAIN input /\ out[k] \in Left
  BY LeftSize DEF CompactTypes, Left
<1>2. (k < m => out[k] < out[m]) /\ (m < k => out[m] < out[k])
  BY DEF Ordered
<1> QED  BY <1>1, <1>2

(* What is missing from a part of a set.                                   *)
LEMMA RestSize ==
  ASSUME NEW A, IsFiniteSet(A), NEW B \in SUBSET A
  PROVE  /\ IsFiniteSet(A \ B) /\ Cardinality(A \ B) = Cardinality(A) - Cardinality(B)
         /\ Cardinality(A) \in Nat /\ Cardinality(B) \in Nat
         /\ Cardinality(A \ B) \in Nat
<1>1. A \cap B = B
  OBVIOUS
<1>2. IsFiniteSet(B) /\ IsFiniteSet(A \ B)
  BY FS_Subset
<1> QED  BY <1>1, <1>2, FS_Difference, FS_CardinalityType

(* Where the last message of the user is, if there is one.                 *)
LEMMA LastUserIs ==
  ASSUME CompactTypes, Ordered
  PROVE  /\ LastUser \in Nat
         /\ LastUser # 0 => LastUser \in DOMAIN out /\ Kind(LastUser) = "user"
<1> DEFINE U == {k \in DOMAIN out : Kind(k) = "user"}
<1>1. CASE U = {}
  BY <1>1 DEF LastUser
<1>2. CASE U # {}
  <2>1. DOMAIN out = 1..Len(out) /\ Len(out) \in Nat
    BY LeftSize
  <2>2. U \in SUBSET (1..Len(out))
    BY <2>1
  <2> HIDE DEF U
  <2>3. \E p \in U : \A q \in U : q <= p
    BY <1>2, <2>1, <2>2, Extremes
  <2>4. LastUser = CHOOSE k \in U : \A m \in U : m <= k
    BY <1>2 DEF LastUser, U
  <2>5. LastUser \in U
    BY <2>3, <2>4
  <2> QED  BY <2>1, <2>2, <2>5 DEF U
<1> QED  BY <1>1, <1>2

(* The block at i ends somewhere, and nothing but results stands in it.    *)
LEMMA BlockEndIs ==
  ASSUME CompactTypes, Ordered, i \in DOMAIN out
  PROVE  /\ BlockEnd \in (i + 1)..(Len(out) + 1)
         /\ \A k \in (i + 1)..(BlockEnd - 1) : k \in DOMAIN out /\ Kind(k) = "tool"
         /\ BlockEnd <= Len(out) => Kind(BlockEnd) # "tool"
<1>1. DOMAIN out = 1..Len(out) /\ Len(out) \in Nat /\ i \in Nat /\ i \in 1..Len(out)
  BY LeftSize
<1> DEFINE n == Len(out) + 1
           E == {j \in (i + 1)..n : j <= Len(out) => Kind(j) # "tool"}
<1>2. n \in Nat /\ n \in E /\ E \in SUBSET (1..n)
  BY <1>1
<1> HIDE DEF E
<1>3. PICK j \in E : \A m \in E : j <= m
  BY <1>2, Extremes
<1>4. j \in (i + 1)..n /\ (j <= Len(out) => Kind(j) # "tool")
  BY <1>3 DEF E
<1>5. ASSUME NEW k \in (i + 1)..(j - 1)
      PROVE  Kind(k) = "tool"
  <2>1. k \notin E
    BY <1>1, <1>3, <1>4
  <2> QED  BY <1>1, <1>4, <2>1 DEF E
<1>6. \E b \in (i + 1)..(Len(out) + 1) :
        /\ \A k \in (i + 1)..(b - 1) : Kind(k) = "tool"
        /\ b <= Len(out) => Kind(b) # "tool"
  BY <1>4, <1>5
<1>7. /\ BlockEnd \in (i + 1)..(Len(out) + 1)
      /\ \A k \in (i + 1)..(BlockEnd - 1) : Kind(k) = "tool"
      /\ BlockEnd <= Len(out) => Kind(BlockEnd) # "tool"
  BY <1>6 DEF BlockEnd
<1>8. \A k \in (i + 1)..(BlockEnd - 1) : k \in DOMAIN out
  BY <1>1, <1>7
<1> QED  BY <1>7, <1>8

(* f leads from the places of a list of n without its a..b-1 to where they *)
(* were.                                                                   *)
Without(f, n, a, b) ==
  /\ f \in [1..(n - (b - a)) -> 1..n]
  /\ \A k, m \in 1..(n - (b - a)) : k < m => f[k] < f[m]
  /\ \A k \in 1..(n - (b - a)) :
       f[k] = IF k < a THEN k ELSE k + (b - a)
  /\ \A k \in 1..(n - (b - a)) : f[k] \notin a..(b - 1) /\ (k >= a => f[k] >= b)
  /\ \A m \in 1..n : m \notin a..(b - 1) =>
       \E k \in 1..(n - (b - a)) : f[k] = m /\ k = IF m < a THEN m ELSE m - (b - a)

LEMMA WithoutExists ==
  ASSUME NEW n \in Nat, NEW a \in 1..n, NEW b \in (a + 1)..(n + 1)
  PROVE  \E f : Without(f, n, a, b)
<1> DEFINE r == n - (b - a)
           f == [k \in 1..r |-> IF k < a THEN k ELSE k + (b - a)]
<1>1. a \in Nat /\ b \in Nat /\ 1 <= a /\ a < b /\ b <= n + 1 /\ r \in Nat
  OBVIOUS
<1>2. \A k \in 1..r : f[k] = IF k < a THEN k ELSE k + (b - a)
  OBVIOUS
<1>3. f \in [1..r -> 1..n]
  BY <1>1
<1> HIDE DEF f
<1>4. \A k \in 1..r : f[k] \notin a..(b - 1) /\ (k >= a => f[k] >= b)
  BY <1>1, <1>2
<1>5. \A k, m \in 1..r : k < m => f[k] < f[m]
  BY <1>1, <1>2
<1>6. ASSUME NEW m \in 1..n, m \notin a..(b - 1)
      PROVE  \E k \in 1..r : f[k] = m /\ k = IF m < a THEN m ELSE m - (b - a)
  <2>1. CASE m < a
    BY <1>1, <1>2, <2>1
  <2>2. CASE ~(m < a)
    <3>1. m - (b - a) \in 1..r /\ ~(m - (b - a) < a) /\ m - (b - a) + (b - a) = m
      BY <1>1, <1>6, <2>2
    <3> HIDE DEF r
    <3> QED  BY <1>2, <2>2, <3>1
  <2> QED  BY <2>1, <2>2
<1> QED  BY <1>2, <1>3, <1>4, <1>5, <1>6 DEF Without

(* A sequence without its places a..b-1.                                   *)
LEMMA DeletionIs ==
  ASSUME NEW S, NEW s \in Seq(S), NEW a \in 1..Len(s), NEW b \in (a + 1)..(Len(s) + 1)
  PROVE  LET t == SubSeq(s, 1, a - 1) \o SubSeq(s, b, Len(s))
         IN  /\ t \in Seq(S) /\ Len(t) = Len(s) - (b - a)
             /\ \E f : /\ Without(f, Len(s), a, b)
                       /\ \A k \in 1..(Len(s) - (b - a)) : t[k] = s[f[k]]
<1> DEFINE n == Len(s)
           A == SubSeq(s, 1, a - 1)
           B == SubSeq(s, b, n)
<1>1. /\ n \in Nat /\ a \in Nat /\ b \in Nat /\ a < b /\ b <= n + 1 /\ 1 <= a
      /\ \A x \in 1..n : s[x] \in S
  OBVIOUS
<1> HIDE DEF n
<1>2. /\ A \in Seq(S) /\ Len(A) = a - 1
      /\ \A k \in 1..(a - 1) : A[k] = s[k]
  <2>1. \A x \in 1..(a - 1) : s[x] \in S
    BY <1>1
  <2>2. /\ A \in Seq(S) /\ Len(A) = IF 1 <= a - 1 THEN a - 1 - 1 + 1 ELSE 0
        /\ \A k \in 1..(a - 1 - 1 + 1) : A[k] = s[1 + k - 1]
    BY <1>1, <2>1, SubSeqProperties
  <2> HIDE DEF A
  <2> QED  BY <1>1, <2>2
<1>3. /\ B \in Seq(S) /\ Len(B) = n - b + 1
      /\ \A k \in 1..(n - b + 1) : B[k] = s[b + k - 1]
  <2>1. \A x \in b..n : s[x] \in S
    BY <1>1
  <2>2. /\ B \in Seq(S) /\ Len(B) = IF b <= n THEN n - b + 1 ELSE 0
        /\ \A k \in 1..(n - b + 1) : B[k] = s[b + k - 1]
    BY <1>1, <2>1, SubSeqProperties
  <2> HIDE DEF B
  <2> QED  BY <1>1, <2>2
<1> HIDE DEF A, B
<1>4. /\ A \o B \in Seq(S) /\ Len(A \o B) = Len(A) + Len(B)
      /\ \A k \in 1..(Len(A) + Len(B)) :
           (A \o B)[k] = IF k <= Len(A) THEN A[k] ELSE B[k - Len(A)]
  BY <1>2, <1>3, ConcatProperties
<1>5. Len(A) + Len(B) = n - (b - a)
  BY <1>1, <1>2, <1>3
<1>6. PICK f : Without(f, n, a, b)
  <2>1. a \in 1..n /\ b \in (a + 1)..(n + 1)
    BY DEF n
  <2> QED  BY <1>1, <2>1, WithoutExists
<1>7. ASSUME NEW k \in 1..(n - (b - a))
      PROVE  (A \o B)[k] = s[f[k]]
  <2>1. /\ k \in Nat /\ 1 <= k /\ k <= n - (b - a)
        /\ f[k] = IF k < a THEN k ELSE k + (b - a)
    BY <1>1, <1>6 DEF Without
  <2>2. (A \o B)[k] = IF k <= a - 1 THEN A[k] ELSE B[k - (a - 1)]
    BY <1>2, <1>4, <1>5
  <2>3. CASE k < a
    <3>1. k \in 1..(a - 1) /\ k <= a - 1
      BY <1>1, <2>1, <2>3
    <3> QED  BY <1>2, <2>1, <2>2, <2>3, <3>1
  <2>4. CASE ~(k < a)
    <3>1. /\ k - (a - 1) \in 1..(n - b + 1) /\ ~(k <= a - 1)
          /\ b + (k - (a - 1)) - 1 = k + (b - a)
      BY <1>1, <2>1, <2>4
    <3>2. B[k - (a - 1)] = s[k + (b - a)]
      BY <1>3, <3>1
    <3> QED  BY <2>1, <2>2, <2>4, <3>1, <3>2
  <2> QED  BY <2>3, <2>4
<1>8. /\ A \o B \in Seq(S) /\ Len(A \o B) = n - (b - a)
      /\ \E g : /\ Without(g, n, a, b)
                /\ \A k \in 1..(n - (b - a)) : (A \o B)[k] = s[g[k]]
  BY <1>4, <1>5, <1>6, <1>7
<1> QED  BY <1>8 DEF A, B, n

(* Deleting i..j-1 leaves what stood before and behind it, in order.       *)
LEMMA DropIs ==
  ASSUME CompactTypes, Ordered, KeepIsUser, UNCHANGED <<input, max, i>>,
         i \in DOMAIN out, NEW j \in (i + 1)..(Len(out) + 1), Drop(j),
         \A k \in i..(j - 1) : Kind(k) # "user"
  PROVE  /\ out' \in Seq(DOMAIN input) /\ Len(out') = Len(out) - (j - i)
         /\ keep' \in Nat /\ Ordered' /\ KeepIsUser'
         /\ Left' = Left \ {out[k] : k \in i..(j - 1)}
         /\ {out[k] : k \in i..(j - 1)} \subseteq Left
         /\ \A k \in DOMAIN out' :
              \E m \in DOMAIN out : /\ out'[k] = out[m]
                                    /\ k < i => m = k
                                    /\ k >= i => m >= j
<1> DEFINE n == Len(out)
           w == j - i
           gone == {out[k] : k \in i..(j - 1)}
<1>1. /\ DOMAIN out = 1..n /\ n \in Nat /\ i \in 1..n /\ i \in Nat
      /\ j \in Nat /\ w \in Nat /\ j > i /\ j \in (i + 1)..(n + 1)
      /\ DOMAIN input = 1..Len(input) /\ Len(input) \in Nat
      /\ out \in Seq(DOMAIN input)
  BY LeftSize DEF CompactTypes
<1>2. out' = SubSeq(out, 1, i - 1) \o SubSeq(out, j, n)
  BY DEF Drop
<1>3. /\ out' \in Seq(DOMAIN input) /\ Len(out') = n - w
      /\ \E f : /\ Without(f, n, i, j)
                /\ \A k \in 1..(n - w) : out'[k] = out[f[k]]
  <2> DEFINE t == SubSeq(out, 1, i - 1) \o SubSeq(out, j, n)
  <2>1. /\ t \in Seq(DOMAIN input) /\ Len(t) = n - w
        /\ \E f : /\ Without(f, n, i, j)
                  /\ \A k \in 1..(n - w) : t[k] = out[f[k]]
    BY <1>1, DeletionIs
  <2> HIDE DEF t
  <2>2. out' = t
    BY <1>2 DEF t
  <2> QED  BY <2>1, <2>2
<1>4. PICK f : /\ Without(f, n, i, j)
               /\ \A k \in 1..(n - w) : out'[k] = out[f[k]]
  BY <1>3
<1>5. DOMAIN out' = 1..(n - w)
  BY <1>3
<1>6. /\ \A k \in DOMAIN out' : /\ f[k] \in DOMAIN out /\ out'[k] = out[f[k]]
                                /\ f[k] \notin i..(j - 1)
                                /\ k < i => f[k] = k
                                /\ k >= i => f[k] >= j
      /\ \A k, m \in DOMAIN out' : k < m => f[k] < f[m]
      /\ \A m \in DOMAIN out : m \notin i..(j - 1) =>
           \E k \in DOMAIN out' : f[k] = m /\ k = IF m < i THEN m ELSE m - w
  BY <1>1, <1>4, <1>5 DEF Without
<1> HIDE DEF n, w
<1>9. Ordered'
  BY <1>6 DEF Ordered
<1>10. gone \subseteq Left
  <2>1. i..(j - 1) \subseteq DOMAIN out
    BY <1>1
  <2> QED  BY <2>1 DEF Left
<1>11. Left' = Left \ gone
  <2>1. ASSUME NEW k \in DOMAIN out'
        PROVE  out'[k] \in Left \ gone
    <3>2. ASSUME NEW m \in i..(j - 1), out[m] = out[f[k]]
          PROVE  FALSE
      <4>1. m \in DOMAIN out /\ f[k] \in DOMAIN out /\ f[k] # m
        BY <1>1, <1>6
      <4>2. m \in Nat /\ f[k] \in Nat
        BY <1>1, <4>1
      <4>3. ~(m < f[k]) /\ ~(f[k] < m)
        BY <3>2, <4>1, PlacesOrdered
      <4> QED  BY <4>1, <4>2, <4>3
    <3> QED  BY <1>6, <3>2 DEF Left
  <2>2. ASSUME NEW m \in DOMAIN out, out[m] \notin gone
        PROVE  \E k \in DOMAIN out' : out'[k] = out[m]
    <3>1. m \notin i..(j - 1)
      BY <2>2
    <3> HIDE DEF gone
    <3> QED  BY <1>6, <3>1
  <2> HIDE DEF gone
  <2> QED  BY <2>1, <2>2 DEF Left
<1>12. keep' \in Nat /\ KeepIsUser'
  <2>1. keep \in Nat
    BY DEF CompactTypes
  <2>2. keep' = IF keep # 0 /\ i < keep THEN keep - w ELSE keep
    BY DEF Drop, w
  <2>3. CASE keep = 0
    BY <2>1, <2>2, <2>3 DEF KeepIsUser
  <2>4. CASE keep # 0
    <3>1. keep \in DOMAIN out /\ Kind(keep) = "user"
      BY <2>4 DEF KeepIsUser
    <3>2. keep \notin i..(j - 1)
      BY <3>1
    <3>3. PICK k \in DOMAIN out' : f[k] = keep /\ k = IF keep < i THEN keep ELSE keep - w
      BY <1>6, <3>1, <3>2
    <3>4. keep # i
      BY <1>1, <3>2
    <3>5. keep' = k
      BY <1>1, <2>1, <2>2, <2>4, <3>3, <3>4
    <3>6. out'[k] = out[keep] /\ k \in Nat
      BY <1>5, <1>6, <3>3
    <3> QED  BY <3>1, <3>3, <3>5, <3>6 DEF KeepIsUser, Kind
  <2> QED  BY <2>3, <2>4
<1>13. \A k \in DOMAIN out' :
         \E m \in DOMAIN out : /\ out'[k] = out[m]
                               /\ k < i => m = k
                               /\ k >= i => m >= j
  BY <1>6
<1> QED  BY <1>3, <1>9, <1>10, <1>11, <1>12, <1>13 DEF n, w

(* The loops leave alone what they must not delete.                        *)
LEMMA UnprotectedIs ==
  ASSUME CompactTypes, KeepIsUser, i \in DOMAIN out
  PROVE  Protected => Kind(i) \in {"system", "user"}
BY DEF CompactTypes, KeepIsUser, Protected

(* A round of the first loop that deletes.                                 *)
LEMMA ProseDropKeeps ==
  ASSUME CompactTypes, Ordered, KeepIsUser, ProseGone,
         UNCHANGED <<input, max, pass, i>>, pass = "prose",
         Looping, Kind(i) = "prose", Drop(i + 1)
  PROVE  CompactTypes' /\ Ordered' /\ KeepIsUser' /\ ProseGone'
<1> DEFINE p == out[i]
<1>1. /\ DOMAIN out = 1..Len(out) /\ Len(out) \in Nat /\ i \in DOMAIN out /\ i \in Nat
      /\ max \in Nat /\ Len(out) > max
      /\ Left \subseteq DOMAIN input /\ Cardinality(Left) = Len(out)
      /\ IsFiniteSet(Left) /\ IsFiniteSet(DOMAIN input)
      /\ Cardinality(DOMAIN input) = Len(input)
      /\ DOMAIN input = 1..Len(input) /\ Len(input) \in Nat
  BY LeftSize DEF Looping, CompactTypes
<1>2. /\ i + 1 \in (i + 1)..(Len(out) + 1) /\ i..((i + 1) - 1) = {i}
  BY <1>1
<1>3. \A k \in i..((i + 1) - 1) : Kind(k) # "user"
  BY <1>2
<1>4. /\ out' \in Seq(DOMAIN input) /\ keep' \in Nat /\ Ordered' /\ KeepIsUser'
      /\ Left' = Left \ {out[k] : k \in i..((i + 1) - 1)}
      /\ \A k \in DOMAIN out' :
              \E m \in DOMAIN out : /\ out'[k] = out[m]
                                    /\ k < i => m = k
                                    /\ k >= i => m >= i + 1
  BY <1>1, <1>2, <1>3, DropIs
<1>5. Left' = Left \ {p} /\ Removed' = Removed \cup {p} /\ p \in Left
  <2>1. p \in Left
    BY <1>1 DEF Left
  <2>2. {out[k] : k \in i..((i + 1) - 1)} = {p}
    BY <1>2
  <2>3. Left' = Left \ {p}
    BY <1>4, <2>2
  <2> QED  BY <1>1, <2>1, <2>3 DEF Removed
<1>6. CompactTypes'
  BY <1>4 DEF CompactTypes
<1>7. Cardinality(OlderProse(p)) + max < Len(input)
  <2>1. OlderProse(p) \subseteq Removed
    <3>1. ASSUME NEW q \in OlderProse(p), q \in Left
          PROVE  FALSE
      <4>1. PICK k \in DOMAIN out : q = out[k]
        BY <3>1 DEF Left
      <4>2. k < i
        BY <1>1, <4>1, PlacesOrdered DEF OlderProse
      <4>3. Kind(k) # "prose"
        BY <4>2 DEF ProseGone
      <4> QED  BY <4>1, <4>3 DEF OlderProse, Positions, Kind
    <3> QED  BY <3>1 DEF Removed, OlderProse, Positions
  <2>2. /\ IsFiniteSet(Removed)
        /\ Cardinality(Removed) = Len(input) - Len(out)
    BY <1>1, RestSize DEF Removed
  <2>3. /\ Cardinality(OlderProse(p)) \in Nat
        /\ Cardinality(OlderProse(p)) <= Cardinality(Removed)
    BY <2>1, <2>2, FS_Subset, FS_CardinalityType
  <2> QED  BY <1>1, <2>2, <2>3
<1>8. input[p] = "prose"
  BY DEF Kind
<1>9. ASSUME NEW k \in DOMAIN out', NEW q \in Removed \cup {p}, k >= i
      PROVE  q < out'[k]
  <2>1. PICK m \in DOMAIN out : out'[k] = out[m] /\ m >= i + 1
    BY <1>4, <1>9
  <2>2. out[i] < out[m] /\ m >= i
    BY <1>1, <2>1, PlacesOrdered
  <2>3. CASE q = p
    BY <2>1, <2>2, <2>3
  <2>4. CASE q \in Removed
    BY <2>1, <2>2, <2>4 DEF ProseGone
  <2> QED  BY <2>3, <2>4
<1>10. ASSUME NEW k \in DOMAIN out', k < i
       PROVE  Kind(k)' # "prose"
  BY <1>4, <1>10 DEF Kind, ProseGone
<1>11. \A q : OlderProse(q)' = OlderProse(q)
  BY DEF OlderProse
<1>12. ProseGone'
  <2> HIDE DEF p
  <2>1. \A q \in Removed \cup {p} : input[q] = "prose" /\ Cardinality(OlderProse(q)) + max < Len(input)
    BY <1>7, <1>8 DEF ProseGone
  <2> QED  BY <1>5, <1>9, <1>10, <1>11, <2>1 DEF ProseGone
<1> QED  BY <1>4, <1>6, <1>12

(* When the first loop is over, the list is what AfterProse says.          *)
LEMMA ProseOver ==
  ASSUME CompactTypes, Ordered, ProseGone, Len(out) <= max \/ i > Len(out)
  PROVE  Left = Fitting
<1>1. /\ DOMAIN out = 1..Len(out) /\ Len(out) \in Nat /\ i \in Nat
      /\ max \in Nat
      /\ Left \subseteq DOMAIN input /\ Cardinality(Left) = Len(out)
      /\ IsFiniteSet(Left) /\ IsFiniteSet(DOMAIN input)
      /\ Cardinality(DOMAIN input) = Len(input)
      /\ DOMAIN input = 1..Len(input) /\ Len(input) \in Nat
  BY LeftSize DEF CompactTypes
<1>2. Fitting = DOMAIN input \ {p \in Positions(input, "prose") :
                                  Cardinality(OlderProse(p)) + max < Len(input)}
  BY DEF Fitting, AfterProse, OlderProse
<1>3. \A p \in Removed : /\ p \in Positions(input, "prose")
                         /\ Cardinality(OlderProse(p)) + max < Len(input)
  BY DEF ProseGone, Positions, Removed
<1>4. ASSUME NEW p \in Left, p \in Positions(input, "prose"),
             Cardinality(OlderProse(p)) + max < Len(input)
      PROVE  FALSE
  <2>1. PICK k \in DOMAIN out : p = out[k]
    BY DEF Left
  <2>2. k >= i /\ k \in Nat
    BY <1>1, <1>4, <2>1 DEF ProseGone, Positions, Kind
  <2>3. Len(out) <= max
    BY <1>1, <2>2
  <2>4. Removed \subseteq OlderProse(p)
    BY <1>3, <2>1, <2>2 DEF ProseGone, OlderProse
  <2>5. IsFiniteSet(OlderProse(p))
    <3>1. OlderProse(p) \subseteq DOMAIN input
      BY DEF OlderProse, Positions
    <3> QED  BY <1>1, <3>1, FS_Subset
  <2>6. Cardinality(Removed) = Len(input) - Len(out)
    BY <1>1, RestSize DEF Removed
  <2>7. Cardinality(Removed) <= Cardinality(OlderProse(p)) /\ Cardinality(OlderProse(p)) \in Nat
    BY <2>4, <2>5, FS_Subset, FS_CardinalityType
  <2> QED  BY <1>1, <1>4, <2>3, <2>6, <2>7
<1> QED  BY <1>1, <1>2, <1>3, <1>4 DEF Removed

(* Where everything fits after the first pass, the second drops nothing.   *)
LEMMA KeptAll ==
  ASSUME input \in Seq(Kinds), max \in Nat, Cardinality(Fitting) <= max
  PROVE  Kept(input, max) = Fitting
<1>1. Kept(input, max) =
        Fitting \ BlocksOf({p \in AllCalls : Cardinality(Fitting) > max + Cardinality(Before(p))})
  BY DEF Kept, BlocksOf, AllCalls, Before, Fitting
<1>2. IsFiniteSet(Fitting) /\ Cardinality(Fitting) \in Nat
  <2>1. Fitting \subseteq DOMAIN input /\ DOMAIN input = 1..Len(input) /\ Len(input) \in Nat
    BY AfterProseKeeps DEF Fitting
  <2>2. IsFiniteSet(1..Len(input))
    BY <2>1, FS_Interval
  <2> QED  BY <2>1, <2>2, FS_Subset, FS_CardinalityType
<1>3. ASSUME NEW p \in AllCalls
      PROVE  ~(Cardinality(Fitting) > max + Cardinality(Before(p)))
  <2>1. Before(p) \subseteq Fitting
    BY DEF Before, BlocksOf, Block
  <2>2. Cardinality(Before(p)) \in Nat
    BY <1>2, <2>1, FS_Subset, FS_CardinalityType
  <2> QED  BY <1>2, <2>2
<1>4. {p \in AllCalls : Cardinality(Fitting) > max + Cardinality(Before(p))} = {}
  BY <1>3
<1> QED  BY <1>1, <1>4 DEF BlocksOf

(* What the second loop deletes at i is the block of the call there.       *)
LEMMA BlockIs ==
  ASSUME CompactTypes, Ordered, BlocksGone, i \in DOMAIN out, Kind(i) = "calls"
  PROVE  {out[k] : k \in i..(BlockEnd - 1)} = Block(input, Fitting, out[i])
<1> DEFINE j == BlockEnd
           p == out[i]
<1>1. /\ j \in (i + 1)..(Len(out) + 1)
      /\ \A k \in (i + 1)..(j - 1) : k \in DOMAIN out /\ Kind(k) = "tool"
      /\ j <= Len(out) => Kind(j) # "tool"
  BY BlockEndIs
<1>2. /\ DOMAIN out = 1..Len(out) /\ Len(out) \in Nat /\ i \in Nat
      /\ DOMAIN input = 1..Len(input) /\ Len(input) \in Nat
      /\ Fitting \subseteq DOMAIN input
  BY LeftSize, AfterProseKeeps DEF CompactTypes, Fitting
<1> HIDE DEF j
<1>3. ASSUME NEW q \in Fitting, p <= q
      PROVE  \E k \in DOMAIN out : q = out[k] /\ k >= i
  <2>1. p \in Nat /\ q \in Nat
    BY <1>2, PlacesOrdered
  <2>2. q \in Left
    BY <1>2, <1>3, <2>1 DEF BlocksGone
  <2>3. PICK k \in DOMAIN out : q = out[k]
    BY <2>2 DEF Left
  <2>4. k >= i
    BY <1>2, <1>3, <2>3, PlacesOrdered
  <2> QED  BY <2>3, <2>4
<1>4. ASSUME NEW k \in i..(j - 1)
      PROVE  out[k] \in Block(input, Fitting, p)
  <2>1. k \in DOMAIN out /\ i <= k
    BY <1>1, <1>2
  <2>2. out[k] \in Fitting /\ p <= out[k]
    BY <2>1, PlacesOrdered DEF BlocksGone
  <2>3. ASSUME NEW r \in Fitting, p < r, r <= out[k]
        PROVE  input[r] = "tool"
    <3>1. p \in Nat /\ r \in Nat /\ p <= r
      BY <1>2, <2>3, PlacesOrdered
    <3>2. PICK m \in DOMAIN out : r = out[m] /\ m >= i
      BY <1>3, <3>1
    <3>3. i < m /\ m <= k
      BY <2>1, <2>3, <3>2, PlacesOrdered
    <3>4. m \in (i + 1)..(j - 1)
      BY <1>1, <1>2, <3>2, <3>3
    <3> QED  BY <1>1, <3>2, <3>4 DEF Kind
  <2> QED  BY <2>2, <2>3 DEF Block
<1>5. ASSUME NEW q \in Block(input, Fitting, p)
      PROVE  \E k \in i..(j - 1) : q = out[k]
  <2>1. q \in Fitting /\ p <= q
    BY DEF Block
  <2>2. PICK k \in DOMAIN out : q = out[k] /\ k >= i
    BY <1>3, <2>1
  <2>3. ASSUME k >= j
        PROVE  FALSE
    <3>1. j \in DOMAIN out /\ Kind(j) # "tool" /\ i < j /\ j <= k
      BY <1>1, <1>2, <2>2, <2>3
    <3>2. out[j] \in Fitting /\ p < out[j] /\ out[j] <= q
      BY <2>2, <3>1, PlacesOrdered DEF BlocksGone
    <3>3. input[out[j]] = "tool"
      BY <3>2 DEF Block
    <3> QED  BY <3>1, <3>3 DEF Kind
  <2> QED  BY <1>1, <1>2, <2>2, <2>3
<1> QED  BY <1>4, <1>5 DEF j

(* A round of the second loop that deletes.                                *)
LEMMA BlockDropKeeps ==
  ASSUME CompactTypes, Ordered, KeepIsUser, BlocksGone,
         UNCHANGED <<input, max, pass, i>>, pass = "blocks",
         Looping, Kind(i) = "calls", Drop(BlockEnd)
  PROVE  CompactTypes' /\ Ordered' /\ KeepIsUser' /\ BlocksGone'
<1> DEFINE p == out[i]
           B == Block(input, Fitting, p)
           j == BlockEnd
           gone == {out[k] : k \in i..(j - 1)}
<1>1. /\ DOMAIN out = 1..Len(out) /\ Len(out) \in Nat /\ i \in DOMAIN out /\ i \in Nat
      /\ max \in Nat /\ Len(out) > max
      /\ Left \subseteq DOMAIN input /\ Cardinality(Left) = Len(out)
      /\ IsFiniteSet(DOMAIN input)
      /\ DOMAIN input = 1..Len(input) /\ Len(input) \in Nat
  BY LeftSize DEF Looping, CompactTypes
<1>2. /\ j \in (i + 1)..(Len(out) + 1)
      /\ \A k \in (i + 1)..(j - 1) : k \in DOMAIN out /\ Kind(k) = "tool"
  BY <1>1, BlockEndIs
<1>3. gone = B
  BY <1>1, BlockIs
<1> HIDE DEF j
<1>4. \A k \in i..(j - 1) : Kind(k) # "user"
  <2>1. \A k \in i..(j - 1) : k = i \/ k \in (i + 1)..(j - 1)
    BY <1>1, <1>2
  <2> QED  BY <1>2, <2>1
<1>5. /\ out' \in Seq(DOMAIN input) /\ keep' \in Nat /\ Ordered' /\ KeepIsUser'
      /\ Left' = Left \ gone /\ gone \subseteq Left
      /\ \A k \in DOMAIN out' :
              \E m \in DOMAIN out : /\ out'[k] = out[m]
                                    /\ k < i => m = k
                                    /\ k >= i => m >= j
  <2>1. Drop(j)
    BY DEF j
  <2> QED  BY <1>1, <1>2, <1>4, <2>1, DropIs
<1> HIDE DEF gone
<1>6. /\ Left' = Left \ B /\ B \subseteq Left /\ p \in Left /\ p \in Fitting
      /\ p \in AllCalls
  <2>1. p \in Left
    BY <1>1 DEF Left
  <2>2. p \in AllCalls
    BY <1>1, <2>1 DEF AllCalls, Positions, Kind, BlocksGone
  <2> QED  BY <1>3, <1>5, <2>1, <2>2 DEF AllCalls
<1>7. /\ UNCHANGED <<Fitting, AllCalls>>
      /\ \A C : BlocksOf(C)' = BlocksOf(C)
      /\ \A q : Before(q)' = Before(q)
  BY DEF Fitting, AllCalls, BlocksOf, Before
<1>8. CompactTypes'
  BY <1>5 DEF CompactTypes
<1>9. (AllCalls \ Left)' = (AllCalls \ Left) \cup {p}
  <2>1. ASSUME NEW q \in AllCalls \cap B
        PROVE  q = p
    <3>1. p \in Nat /\ q \in Nat /\ input[q] = "calls"
      BY <1>1, <1>6 DEF AllCalls, Positions
    <3>2. p <= q /\ (p < q => input[q] = "tool")
      BY <2>1, <3>1 DEF AllCalls, Block
    <3> QED  BY <3>1, <3>2
  <2>2. p \in B
    <3>1. p \in Nat /\ \A r \in Fitting : r \in Nat
      BY <1>1, <1>6, AfterProseKeeps DEF Fitting
    <3> QED  BY <1>6, <3>1 DEF Block
  <2> HIDE DEF p, B
  <2> QED  BY <1>6, <1>7, <2>1, <2>2
<1>10. (Fitting \ Left)' = BlocksOf((AllCalls \ Left)')
  <2>1. (Fitting \ Left)' = (Fitting \ Left) \cup B
    BY <1>6, <1>7 DEF Block
  <2>2. Fitting \ Left = BlocksOf(AllCalls \ Left)
    BY DEF BlocksGone
  <2>3. BlocksOf((AllCalls \ Left) \cup {p}) = BlocksOf(AllCalls \ Left) \cup B
    BY DEF BlocksOf
  <2> QED  BY <1>9, <2>1, <2>2, <2>3
<1>11. Cardinality(Fitting) > max + Cardinality(Before(p))
  <2>1. {q \in AllCalls : q < p} \subseteq AllCalls \ Left
    <3>1. ASSUME NEW q \in AllCalls, q < p, q \in Left
          PROVE  FALSE
      <4>1. PICK k \in DOMAIN out : q = out[k]
        BY <3>1 DEF Left
      <4>2. k < i
        BY <1>1, <3>1, <4>1, PlacesOrdered
      <4>3. Kind(k) # "calls"
        BY <4>2 DEF BlocksGone
      <4> QED  BY <4>1, <4>3 DEF AllCalls, Positions, Kind
    <3> QED  BY <3>1
  <2>2. Before(p) \subseteq Fitting \ Left
    <3>1. Fitting \ Left = BlocksOf(AllCalls \ Left)
      BY DEF BlocksGone
    <3> QED  BY <2>1, <3>1 DEF Before, BlocksOf
  <2>3. IsFiniteSet(Fitting) /\ Left \subseteq Fitting
    BY <1>1, AfterProseKeeps, FS_Subset DEF Fitting, BlocksGone
  <2>4. /\ IsFiniteSet(Fitting \ Left) /\ Cardinality(Fitting) \in Nat
        /\ Cardinality(Fitting \ Left) = Cardinality(Fitting) - Len(out)
    BY <1>1, <2>3, RestSize
  <2>5. /\ Cardinality(Before(p)) \in Nat
        /\ Cardinality(Before(p)) <= Cardinality(Fitting \ Left)
    BY <2>2, <2>4, FS_Subset, FS_CardinalityType
  <2> QED  BY <1>1, <2>4, <2>5
<1>12. ASSUME NEW k \in DOMAIN out', NEW q \in (Fitting \ Left)', k >= i
       PROVE  q < out'[k]
  <2>1. PICK m \in DOMAIN out : out'[k] = out[m] /\ m >= j
    BY <1>5, <1>12
  <2>2. m >= i /\ m \in Nat
    BY <1>1, <1>2, <2>1
  <2>3. CASE q \in Left
    <3>1. q \in gone
      BY <1>3, <1>6, <1>7, <1>12, <2>3
    <3>2. PICK n \in i..(j - 1) : q = out[n]
      BY <3>1 DEF gone
    <3>3. n \in DOMAIN out /\ n < m
      BY <1>1, <1>2, <2>1, <3>2
    <3> QED  BY <2>1, <3>2, <3>3, PlacesOrdered
  <2>4. CASE q \notin Left
    <3>1. q \in Fitting \ Left
      BY <1>7, <1>12, <2>4
    <3> QED  BY <2>1, <2>2, <3>1 DEF BlocksGone
  <2> QED  BY <2>3, <2>4
<1>13. ASSUME NEW k \in DOMAIN out', k < i
       PROVE  Kind(k)' # "calls"
  BY <1>5, <1>13 DEF Kind, BlocksGone
<1>14. BlocksGone'
  <2>1. Left' \subseteq Fitting'
    BY <1>6, <1>7 DEF BlocksGone
  <2>2. \A q \in (AllCalls \ Left)' : Cardinality(Fitting) > max + Cardinality(Before(q))
    BY <1>9, <1>11 DEF BlocksGone
  <2> QED  BY <1>7, <1>10, <1>12, <1>13, <2>1, <2>2 DEF BlocksGone
<1> QED  BY <1>5, <1>8, <1>14

(* When the second loop is over, the list is what Kept says.               *)
LEMMA BlocksOver ==
  ASSUME CompactTypes, Ordered, BlocksGone, Len(out) <= max \/ i > Len(out)
  PROVE  Left = Kept(input, max)
<1> DEFINE Dropped == {p \in AllCalls : Cardinality(Fitting) > max + Cardinality(Before(p))}
<1>1. Kept(input, max) = Fitting \ BlocksOf(Dropped)
  BY DEF Kept, BlocksOf, AllCalls, Before, Fitting
<1>2. /\ DOMAIN out = 1..Len(out) /\ Len(out) \in Nat /\ i \in Nat /\ max \in Nat
      /\ Cardinality(Left) = Len(out) /\ IsFiniteSet(DOMAIN input)
      /\ DOMAIN input = 1..Len(input) /\ Len(input) \in Nat
  BY LeftSize DEF CompactTypes
<1>3. IsFiniteSet(Fitting) /\ Left \subseteq Fitting /\ Fitting \subseteq DOMAIN input
  BY <1>2, AfterProseKeeps, FS_Subset DEF Fitting, BlocksGone
<1>4. /\ Cardinality(Fitting) \in Nat
      /\ Cardinality(Fitting \ Left) = Cardinality(Fitting) - Len(out)
  BY <1>2, <1>3, RestSize
<1>5. AllCalls \ Left \subseteq Dropped
  BY DEF BlocksGone
<1>6. ASSUME NEW p \in Dropped, p \in Left
      PROVE  FALSE
  <2>1. PICK k \in DOMAIN out : p = out[k]
    BY <1>6 DEF Left
  <2>2. k >= i /\ k \in Nat
    BY <1>2, <2>1 DEF BlocksGone, AllCalls, Positions, Kind
  <2>3. Len(out) <= max
    BY <1>2, <2>2
  <2>4. ASSUME NEW q \in AllCalls \ Left
        PROVE  q < p
    <3>1. q \in Fitting \ Left
      BY DEF AllCalls
    <3> QED  BY <2>1, <2>2, <3>1 DEF BlocksGone
  <2>5. Fitting \ Left \subseteq Before(p)
    <3>1. Fitting \ Left = BlocksOf(AllCalls \ Left)
      BY DEF BlocksGone
    <3> QED  BY <2>4, <3>1 DEF Before, BlocksOf
  <2>6. IsFiniteSet(Before(p))
    <3>1. Before(p) \subseteq Fitting
      BY DEF Before, BlocksOf, Block
    <3> QED  BY <1>3, <3>1, FS_Subset
  <2>7. Cardinality(Fitting \ Left) <= Cardinality(Before(p)) /\ Cardinality(Before(p)) \in Nat
    BY <2>5, <2>6, FS_Subset, FS_CardinalityType
  <2>8. Cardinality(Fitting) > max + Cardinality(Before(p))
    OBVIOUS
  <2> QED  BY <1>2, <1>4, <2>3, <2>7, <2>8
<1>7. Dropped = AllCalls \ Left
  <2>1. Dropped \subseteq AllCalls
    OBVIOUS
  <2> HIDE DEF Dropped
  <2> QED  BY <1>5, <1>6, <2>1
<1>8. Fitting \ Left = BlocksOf(Dropped)
  BY <1>7 DEF BlocksGone
<1> QED  BY <1>1, <1>3, <1>8

(* A round of either loop that goes on to the next message.                *)
LEMMA SkipKeeps ==
  ASSUME CompactTypes, Ordered, KeepIsUser, UNCHANGED <<input, max, pass>>,
         Looping, Skip
  PROVE  /\ CompactTypes' /\ Ordered' /\ KeepIsUser'
         /\ ProseGone /\ Kind(i) # "prose" => ProseGone'
         /\ BlocksGone /\ Kind(i) # "calls" => BlocksGone'
<1>1. i' = i + 1 /\ UNCHANGED <<out, keep>> /\ i \in Nat /\ i # 0
  BY DEF Skip, CompactTypes
<1>2. \A k \in DOMAIN out : k \in Nat
  BY LeftSize
<1>3. CompactTypes' /\ Ordered' /\ KeepIsUser'
  BY <1>1 DEF CompactTypes, Ordered, KeepIsUser, Kind
<1>4. Left' = Left /\ Removed' = Removed /\ Fitting' = Fitting /\ AllCalls' = AllCalls
  BY <1>1 DEF Left, Removed, Fitting, AllCalls
<1>5. \A k \in DOMAIN out : (k < i' <=> k < i \/ k = i) /\ (k >= i' => k >= i)
  BY <1>1, <1>2
<1>6. ASSUME ProseGone, Kind(i) # "prose"
      PROVE  ProseGone'
  BY <1>1, <1>4, <1>5, <1>6 DEF ProseGone, Kind, OlderProse
<1>7. ASSUME BlocksGone, Kind(i) # "calls"
      PROVE  BlocksGone'
  BY <1>1, <1>4, <1>5, <1>7 DEF BlocksGone, Kind, BlocksOf, Before
<1> QED  BY <1>3, <1>6, <1>7

LEMMA CompactInitIsGood ==
  ASSUME CompactInit
  PROVE  CompactInv
<1>1. PICK n \in 0..MaxLen : input \in [1..n -> Kinds]
  BY DEF CompactInit
<1>2. n \in Nat /\ input \in Seq(Kinds) /\ DOMAIN input = 1..n /\ max \in Nat
  BY <1>1, CompactionAssumption DEF CompactInit
<1>3. /\ out = [k \in 1..n |-> k] /\ i = 1 /\ keep = 0 /\ pass = "start"
  BY <1>2 DEF CompactInit
<1>4. out \in Seq(DOMAIN input) /\ DOMAIN out = 1..n /\ \A k \in 1..n : out[k] = k
  BY <1>2, <1>3
<1>5. Left = DOMAIN input /\ Removed = {}
  BY <1>2, <1>4 DEF Left, Removed
<1>6. CompactTypes /\ Ordered /\ KeepIsUser
  BY <1>2, <1>3, <1>4 DEF CompactTypes, Ordered, KeepIsUser
<1>7. ProseGone
  <2>1. \A k \in DOMAIN out : ~(k < i)
    BY <1>2, <1>3, <1>4
  <2> QED  BY <1>5, <2>1 DEF ProseGone
<1> QED  BY <1>3, <1>5, <1>6, <1>7 DEF CompactInv

LEMMA CompactStepIsGood ==
  ASSUME CompactInv, [CompactNext]_compactVars
  PROVE  CompactInv'
<1> USE DEF CompactInv
<1>1. CASE Start
  <2>1. /\ UNCHANGED <<input, max, out, i>> /\ i = 1 /\ pass = "start"
        /\ Left = DOMAIN input /\ ProseGone
    BY <1>1 DEF Start
  <2>2. UNCHANGED <<Left, Removed>> /\ Ordered' /\ (ProseGone <=> ProseGone')
    BY <2>1 DEF Left, Removed, Ordered, ProseGone, OlderProse, Kind
  <2>3. CASE Len(out) <= max
    <3>1. pass' = "done" /\ keep' = keep
      BY <1>1, <2>3 DEF Start
    <3>2. CompactTypes' /\ KeepIsUser'
      BY <2>1, <3>1 DEF CompactTypes, KeepIsUser, Kind
    <3>3. Left = Fitting
      BY <2>1, <2>3, ProseOver
    <3>4. Cardinality(Fitting) <= max
      BY <2>3, <3>3, LeftSize
    <3>5. Left = Kept(input, max)
      BY <3>3, <3>4, KeptAll DEF CompactTypes
    <3> QED  BY <2>1, <2>2, <3>1, <3>2, <3>5
  <2>4. CASE ~(Len(out) <= max)
    <3>1. pass' = "prose" /\ keep' = LastUser
      BY <1>1, <2>4 DEF Start
    <3>2. CompactTypes' /\ KeepIsUser'
      BY <2>1, <3>1, LastUserIs DEF CompactTypes, KeepIsUser, Kind
    <3> QED  BY <2>1, <2>2, <3>1, <3>2
  <2> QED  BY <2>3, <2>4
<1>2. CASE ProseRound
  <2>1. /\ pass = "prose" /\ UNCHANGED <<input, max, pass>> /\ Looping /\ ProseGone
    BY <1>2 DEF ProseRound
  <2>2. i \in DOMAIN out
    BY <2>1, LeftSize DEF Looping, CompactTypes
  <2>3. CASE ~Protected /\ Kind(i) = "prose"
    <3>1. Drop(i + 1) /\ i' = i
      BY <1>2, <2>3 DEF ProseRound
    <3> QED  BY <2>1, <2>3, <3>1, ProseDropKeeps
  <2>4. CASE ~(~Protected /\ Kind(i) = "prose")
    <3>1. Skip
      BY <1>2, <2>4 DEF ProseRound
    <3>2. Kind(i) # "prose"
      BY <2>2, <2>4, UnprotectedIs
    <3> QED  BY <2>1, <3>1, <3>2, SkipKeeps
  <2> QED  BY <2>3, <2>4
<1>3. CASE ProseDone
  <2>1. /\ pass = "prose" /\ UNCHANGED <<input, max, out, keep>> /\ i' = 1
        /\ ProseGone /\ ~Looping
        /\ pass' = IF Len(out) <= max THEN "done" ELSE "blocks"
    BY <1>3 DEF ProseDone
  <2>2. Left = Fitting
    <3>1. Len(out) \in Nat /\ max \in Nat /\ i \in Nat
      BY LeftSize DEF CompactTypes
    <3>2. Len(out) <= max \/ i > Len(out)
      BY <2>1, <3>1 DEF Looping
    <3> QED  BY <2>1, <3>2, ProseOver
  <2>3. /\ CompactTypes' /\ Ordered' /\ KeepIsUser'
        /\ UNCHANGED <<Left, Fitting, AllCalls>>
    BY <2>1 DEF CompactTypes, Ordered, KeepIsUser, Kind, Left, Fitting, AllCalls
  <2>4. CASE Len(out) <= max
    <3>1. Cardinality(Fitting) <= max
      BY <2>2, <2>4, LeftSize
    <3>2. Left = Kept(input, max)
      BY <2>2, <3>1, KeptAll DEF CompactTypes
    <3> QED  BY <2>1, <2>3, <2>4, <3>2
  <2>5. CASE ~(Len(out) <= max)
    <3>1. AllCalls \ Left = {} /\ Fitting \ Left = {}
      BY <2>2 DEF AllCalls
    <3>2. \A k \in DOMAIN out : ~(k < i')
      BY <2>1, LeftSize
    <3>3. BlocksGone'
      BY <2>1, <2>2, <2>3, <3>1, <3>2 DEF BlocksGone, BlocksOf
    <3> QED  BY <2>1, <2>3, <2>5, <3>3
  <2> QED  BY <2>4, <2>5
<1>4. CASE BlockRound
  <2>1. /\ pass = "blocks" /\ UNCHANGED <<input, max, pass>> /\ Looping /\ BlocksGone
    BY <1>4 DEF BlockRound
  <2>2. i \in DOMAIN out
    BY <2>1, LeftSize DEF Looping, CompactTypes
  <2>3. CASE ~Protected /\ Kind(i) = "calls"
    <3>1. Drop(BlockEnd) /\ i' = i
      BY <1>4, <2>3 DEF BlockRound
    <3> QED  BY <2>1, <2>3, <3>1, BlockDropKeeps
  <2>4. CASE ~(~Protected /\ Kind(i) = "calls")
    <3>1. Skip
      BY <1>4, <2>4 DEF BlockRound
    <3>2. Kind(i) # "calls"
      BY <2>2, <2>4, UnprotectedIs
    <3> QED  BY <2>1, <3>1, <3>2, SkipKeeps
  <2> QED  BY <2>3, <2>4
<1>5. CASE BlocksDone
  <2>1. /\ pass = "blocks" /\ pass' = "done" /\ UNCHANGED <<input, max, out, i, keep>>
        /\ BlocksGone /\ ~Looping
    BY <1>5 DEF BlocksDone
  <2>2. Left = Kept(input, max)
    <3>1. Len(out) \in Nat /\ max \in Nat /\ i \in Nat
      BY LeftSize DEF CompactTypes
    <3>2. Len(out) <= max \/ i > Len(out)
      BY <2>1, <3>1 DEF Looping
    <3> QED  BY <2>1, <3>2, BlocksOver
  <2>3. CompactTypes' /\ Ordered' /\ KeepIsUser' /\ Left' = Left
    BY <2>1 DEF CompactTypes, Ordered, KeepIsUser, Kind, Left
  <2> QED  BY <2>1, <2>2, <2>3
<1>6. CASE UNCHANGED compactVars
  <2>1. UNCHANGED <<input, max, pass, out, i, keep>>
    BY <1>6 DEF compactVars
  <2>2. /\ CompactTypes' /\ Ordered' /\ KeepIsUser'
        /\ UNCHANGED <<Left, Removed, Fitting, AllCalls>>
    BY <2>1 DEF CompactTypes, Ordered, KeepIsUser, Kind, Left, Removed, Fitting, AllCalls
  <2>3. ProseGone <=> ProseGone'
    BY <2>1, <2>2 DEF ProseGone, OlderProse, Kind
  <2>4. BlocksGone <=> BlocksGone'
    BY <2>1, <2>2 DEF BlocksGone, BlocksOf, Before, Kind
  <2>5. Kept(input, max)' = Kept(input, max)
    BY <2>1
  <2> QED  BY <2>1, <2>2, <2>3, <2>4, <2>5
<1> QED  BY <1>1, <1>2, <1>3, <1>4, <1>5, <1>6 DEF CompactNext, Returned

(* A result without its call does not come from a conversation without     *)
(* any: the call that a result follows is kept with it.                    *)
LEMMA NoneOrphaned ==
  ASSUME CompactTypes, Ordered, Left = Kept(input, max)
  PROVE  NoNewOrphans
<1>1. /\ DOMAIN out = 1..Len(out) /\ Len(out) \in Nat
      /\ DOMAIN input = 1..Len(input) /\ Len(input) \in Nat
      /\ input \in Seq(Kinds)
  BY LeftSize DEF CompactTypes
<1> SUFFICES ASSUME \A p \in DOMAIN input : ~Orphan(input, p),
                    NEW k \in DOMAIN out, Kind(k) = "tool"
             PROVE  k # 1 /\ Kind(k - 1) \in {"calls", "tool"}
  <2>1. \A k \in DOMAIN out : k # 1 => k - 1 \in DOMAIN out
    BY <1>1
  <2> QED  BY <1>1, <2>1 DEF NoNewOrphans, Orphan
<1> DEFINE p == out[k]
           T == {y \in 1..p : input[y] # "tool"}
<1>2. p \in DOMAIN input /\ p \in Nat /\ p \in 1..Len(input) /\ input[p] = "tool" /\ p \in Left
  BY <1>1, PlacesOrdered DEF Kind
<1>3. 1 \in T
  <2>1. 1 \in DOMAIN input /\ ~Orphan(input, 1)
    BY <1>1, <1>2
  <2>2. input[1] # "tool"
    BY <2>1 DEF Orphan
  <2> QED  BY <1>2, <2>2
<1>4. PICK c \in T : \A y \in T : y <= c
  <2>1. T \in SUBSET (1..p) /\ T # {}
    BY <1>3
  <2> HIDE DEF T
  <2> QED  BY <1>2, <2>1, Extremes
<1>5. /\ c \in Nat /\ 1 <= c /\ c < p /\ c \in DOMAIN input
      /\ input[c] # "tool"
  BY <1>1, <1>2, <1>4
<1>6. \A x \in (c + 1)..p : x \in DOMAIN input /\ input[x] = "tool"
  <2>1. ASSUME NEW x \in (c + 1)..p
        PROVE  x \in DOMAIN input /\ x \in 1..p /\ ~(x <= c)
    BY <1>1, <1>2, <1>5
  <2> QED  BY <1>4, <2>1
<1>7. input[c] = "calls"
  <2>1. c + 1 \in (c + 1)..p /\ (c + 1) - 1 = c /\ c + 1 # 1
    BY <1>2, <1>5
  <2>2. input[c + 1] = "tool" /\ ~Orphan(input, c + 1)
    BY <1>6, <2>1
  <2>3. input[(c + 1) - 1] \in {"calls", "tool"}
    BY <2>1, <2>2 DEF Orphan
  <2> QED  BY <1>5, <2>1, <2>3
<1> HIDE DEF p, T
<1>8. c \in Left
  BY <1>1, <1>2, <1>5, <1>6, <1>7, KeptPairs
<1>9. PICK m \in DOMAIN out : c = out[m]
  BY <1>8 DEF Left
<1>10. m < k
  BY <1>5, <1>9, PlacesOrdered DEF p
<1>11. k - 1 \in DOMAIN out /\ m <= k - 1 /\ k - 1 < k /\ k # 1
  BY <1>1, <1>10
<1>12. c <= out[k - 1] /\ out[k - 1] < p /\ out[k - 1] \in Nat
  BY <1>9, <1>11, PlacesOrdered DEF p
<1>13. out[k - 1] = c \/ out[k - 1] \in (c + 1)..p
  BY <1>2, <1>5, <1>12
<1> QED  BY <1>6, <1>7, <1>11, <1>13 DEF Kind

(* The loops of compact() keep to the order of the messages, and what they *)
(* have removed so far is the oldest of its kind (compaction.py:35-68).    *)
THEOREM CompactInvariant == CompactSpec => []CompactInv
<1>1. CompactInit => CompactInv
  BY CompactInitIsGood
<1>2. CompactInv /\ [CompactNext]_compactVars => CompactInv'
  BY CompactStepIsGood
<1> QED  BY <1>1, <1>2, PTL DEF CompactSpec

(* compact() returns what the closed form says, in order, and no result    *)
(* without its call (compaction.py:6-8 and 24-70).                         *)
THEOREM CompactReturnsKept == CompactSpec => []ReturnsKept
<1>1. CompactInv => ReturnsKept
  BY NoneOrphaned DEF CompactInv, ReturnsKept, ResultIsKept, Left, Ordered
<1> QED  BY <1>1, CompactInvariant, PTL
==============================================================================
