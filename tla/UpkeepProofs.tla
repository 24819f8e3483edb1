---------------------------- MODULE UpkeepProofs ----------------------------
(***************************************************************************)
(* Theorems about Upkeep, for any sessions, batch size, limit and rhythm   *)
(* of reflection, and any number of turns, rewrites and lives.             *)
(***************************************************************************)
EXTENDS Upkeep, FiniteSetTheorems, TLAPS

-----------------------------------------------------------------------------
(* The inductive invariant.                                                *)

Active  == {s \in Sessions : turn[s] # "idle"}
Running == {s \in Sessions : turn[s] = "running"}

(* A turn has one hook of each kind and two rows at most.                  *)
Counted ==
  /\ IsFiniteSet(Active)
  /\ Len(rows) + Cardinality(Active) <= 2 * turns
  /\ indexHooks + Cardinality(Running) <= turns
  /\ \A s \in Sessions : hooks[s] + (IF s \in Running THEN 1 ELSE 0) <= turns

(* The scan works on rows that exist.  The vectors at hand are those of    *)
(* the earliest texts of the batch.                                        *)
Walk ==
  /\ index.fetched \cup index.todo \cup index.batch \subseteq DOMAIN rows
  /\ index.got \subseteq Texts(index.batch)
  /\ \A i \in Texts(index.batch) \ index.got : \A v \in index.got : v < i
  /\ index.pc = "embedding" => index.batch = {}

(* What is on disk is there, and a fetched row without a mark has its turn *)
(* yet to come.                                                            *)
Covering ==
  /\ \A i \in RowIds : saved[i] # Null => vector[i] = saved[i]
  /\ \A i \in index.fetched :
       vector[i] = Null => i \in index.todo \cup index.batch

(* A writer has every fact of the file or has cut it off, unless another   *)
(* one came between; only one is in the middle of its write.               *)
Ledger ==
  /\ \A w \in Writers \ stale :
       writer[w].pc \in {"asking", "temp"} => file \subseteq writer[w].doc \cup writer[w].off
  /\ \A w \in Writers : writer[w].pc = "asking" => writer[w].off = {}
  /\ \A v, w \in Writers : writer[v].pc = "temp" /\ writer[w].pc = "temp" => v = w

IInv == /\ TypeOK /\ Counted
        /\ Walk /\ VectorsMatch
        /\ Covering /\ ScanCovers
        /\ Ledger /\ LedgerKeeps

-----------------------------------------------------------------------------
(* Types, and the counting they rest on.                                   *)

LEMMA Numbers ==
  /\ EveryN \in Nat /\ EveryN >= 1
  /\ MaxTurns \in Nat /\ MaxEdits \in Nat /\ MaxLives \in Nat /\ MaxLives >= 1
BY UpkeepAssumption

(* What TypeOK says of the counters.                                       *)
LEMMA Counters ==
  ASSUME TypeOK
  PROVE  /\ turns \in Nat /\ turns <= MaxTurns
         /\ indexHooks \in Nat
         /\ \A s \in Sessions : hooks[s] \in Nat
         /\ Len(rows) \in Nat /\ Len(rows) <= 2 * MaxTurns
         /\ DOMAIN rows = 1..Len(rows)
BY Numbers DEF TypeOK

LEMMA InitIsTyped ==
  Init => TypeOK /\ Counted
<1> SUFFICES ASSUME Init PROVE TypeOK /\ Counted
  OBVIOUS
<1>1. TypeOK
  <2>1. rows \in Seq([session : Sessions, blank : BOOLEAN]) /\ Len(rows) = 0
    BY DEF Init
  <2>2. {vector, saved} \subseteq [RowIds -> RowIds \cup {Null, Skipped}]
    BY DEF Init
  <2>3. index \in [pc : {"idle", "embedding", "storing"}, fetched : SUBSET RowIds,
                   todo : SUBSET RowIds, batch : SUBSET RowIds, got : SUBSET RowIds]
    BY DEF Init, NoScan
  <2>4. writer \in [Writers -> [pc : {"idle", "history", "asking", "temp"},
                                doc : SUBSET Facts, off : SUBSET Facts]]
    BY DEF Init, NoWriter
  <2>5. counts \in [Sessions -> 0..EveryN - 1] /\ hooks \in [Sessions -> 0..MaxTurns]
    BY Numbers DEF Init
  <2>6. /\ turns \in 0..MaxTurns /\ indexHooks \in 0..MaxTurns
        /\ edits \in 0..MaxEdits /\ lives \in 1..MaxLives /\ 0 <= 2 * MaxTurns
    BY Numbers DEF Init
  <2>7. /\ turn \in [Sessions -> {"idle", "running", "ended"}]
        /\ scanned \subseteq RowIds /\ {file, written, cut} \subseteq SUBSET Facts
        /\ stale \subseteq Writers /\ overlapped \in BOOLEAN
    BY DEF Init
  <2> QED  BY <2>1, <2>2, <2>3, <2>4, <2>5, <2>6, <2>7 DEF TypeOK
<1>2. Active = {} /\ Running = {}
  BY DEF Init, Active, Running
<1>3. IsFiniteSet(Active) /\ Cardinality(Active) = 0 /\ Cardinality(Running) = 0
  BY <1>2, FS_EmptySet
<1>4. Counted
  BY <1>2, <1>3 DEF Init, Counted
<1> QED  BY <1>1, <1>4

(* What Counted says of the sizes of the tables.                           *)
LEMMA Sizes ==
  ASSUME TypeOK, Counted
  PROVE  /\ IsFiniteSet(Active) /\ IsFiniteSet(Running)
         /\ Cardinality(Active) \in Nat /\ Cardinality(Running) \in Nat
         /\ DOMAIN rows = 1..Len(rows) /\ DOMAIN rows \subseteq RowIds
<1>1. Running \subseteq Active
  BY DEF Running, Active
<1>2. IsFiniteSet(Active) /\ IsFiniteSet(Running)
  BY <1>1, FS_Subset DEF Counted
<1>3. Cardinality(Active) \in Nat /\ Cardinality(Running) \in Nat
  BY <1>2, FS_CardinalityType
<1> QED  BY <1>2, <1>3, Counters, Numbers DEF RowIds

LEMMA BeginIsTyped ==
  ASSUME TypeOK, Counted, NEW s \in Sessions, NEW blank \in BOOLEAN, Begin(s, blank)
  PROVE  TypeOK' /\ Counted'
<1>1. Active' = Active \cup {s} /\ s \notin Active
  BY DEF Begin, TypeOK, Active
<1>2. Running' = Running \cup {s} /\ s \notin Running
  BY DEF Begin, TypeOK, Running
<1>3. /\ IsFiniteSet(Active') /\ Cardinality(Active') = Cardinality(Active) + 1
      /\ Cardinality(Running') = Cardinality(Running) + 1
  BY <1>1, <1>2, Sizes, FS_AddElement
<1>4. rows' \in Seq([session : Sessions, blank : BOOLEAN]) /\ Len(rows') = Len(rows) + 1
  BY DEF Begin, TypeOK
<1>5. turns' = turns + 1 /\ turns \in Nat /\ turns' <= MaxTurns /\ turns' \in Nat
  BY Numbers DEF Begin, TypeOK
<1>6. Counted'
  <2>1. Len(rows') + Cardinality(Active') <= 2 * turns'
    BY <1>3, <1>4, <1>5, Sizes, Counters DEF Counted
  <2>2. indexHooks' + Cardinality(Running') <= turns'
    BY <1>3, <1>5, Sizes, Counters DEF Counted, Begin
  <2>3. \A t \in Sessions : hooks'[t] + (IF t \in Running' THEN 1 ELSE 0) <= turns'
    BY <1>2, <1>5, Counters DEF Counted, Begin
  <2> QED  BY <1>3, <2>1, <2>2, <2>3 DEF Counted
<1>7. Len(rows') <= 2 * MaxTurns
  BY <1>3, <1>4, <1>5, <1>6, Sizes, Numbers DEF Counted
<1>8. TypeOK'
  BY <1>4, <1>5, <1>7, Numbers DEF TypeOK, Begin, indexVars, fileVars
<1> QED  BY <1>6, <1>8

LEMMA CompleteIsTyped ==
  ASSUME TypeOK, Counted, NEW s \in Sessions, NEW reason, Complete(s, reason)
  PROVE  TypeOK' /\ Counted'
<1>1. Active' = Active
  BY DEF Complete, TypeOK, Active
<1>2. Running' = Running \ {s} /\ s \in Running
  BY DEF Complete, TypeOK, Running
<1>3. Cardinality(Running') = Cardinality(Running) - 1
  BY <1>2, Sizes, FS_RemoveElement
<1>4. indexHooks' = indexHooks + 1 /\ indexHooks \in Nat /\ turns' = turns /\ turns \in Nat
  BY DEF Complete, TypeOK
<1>5. hooks' \in [Sessions -> Int]
      /\ \A t \in Sessions : hooks'[t] = hooks[t] \/ (t = s /\ hooks'[t] = hooks[t] + 1)
  BY Numbers DEF Complete, TypeOK
<1>6. Counted'
  <2>1. indexHooks' + Cardinality(Running') <= turns'
    BY <1>3, <1>4, Sizes DEF Counted
  <2>2. \A t \in Sessions : hooks'[t] + (IF t \in Running' THEN 1 ELSE 0) <= turns'
    BY <1>2, <1>4, <1>5, Counters DEF Counted
  <2> QED  BY <1>1, <2>1, <2>2 DEF Counted, Complete
<1>7. \A t \in Sessions : hooks'[t] \in 0..MaxTurns
  BY <1>4, <1>5, <1>6, Counters, Numbers DEF Counted
<1>8. indexHooks' \in 0..MaxTurns
  <2>1. Cardinality(Running') \in Nat
    BY <1>2, Sizes, FS_RemoveElement, FS_CardinalityType
  <2> QED  BY <1>4, <1>6, <2>1, Numbers DEF Counted, TypeOK
<1>9. hooks' \in [Sessions -> 0..MaxTurns]
  BY <1>5, <1>7
<1>10. turn' \in [Sessions -> {"idle", "running", "ended"}]
  BY DEF Complete, TypeOK
<1>11. TypeOK'
  BY <1>8, <1>9, <1>10 DEF TypeOK, Complete, indexVars, fileVars
<1> QED  BY <1>6, <1>11

LEMMA ReplyIsTyped ==
  ASSUME TypeOK, Counted, NEW s \in Sessions, Reply(s)
  PROVE  TypeOK' /\ Counted'
<1>1. Active' = Active \ {s} /\ s \in Active
  BY DEF Reply, TypeOK, Active
<1>2. Running' = Running
  BY DEF Reply, TypeOK, Running
<1>3. IsFiniteSet(Active') /\ Cardinality(Active') = Cardinality(Active) - 1
  BY <1>1, Sizes, FS_RemoveElement
<1>4. /\ rows' \in Seq([session : Sessions, blank : BOOLEAN])
      /\ Len(rows') \in Nat /\ Len(rows') <= Len(rows) + 1
  <2>1. rows' = rows \/ rows' = Append(rows, [session |-> s, blank |-> FALSE])
    BY DEF Reply
  <2>2. [session |-> s, blank |-> FALSE] \in [session : Sessions, blank : BOOLEAN]
    OBVIOUS
  <2>3. rows \in Seq([session : Sessions, blank : BOOLEAN])
    BY DEF TypeOK
  <2>4. CASE rows' = rows
    BY <2>3, <2>4, Counters
  <2>5. CASE rows' = Append(rows, [session |-> s, blank |-> FALSE])
    <3> DEFINE Row == [session : Sessions, blank : BOOLEAN]
    <3> HIDE DEF Row
    <3>1. rows \in Seq(Row) /\ [session |-> s, blank |-> FALSE] \in Row
      BY <2>2, <2>3 DEF Row
    <3>2. rows' \in Seq(Row) /\ Len(rows') = Len(rows) + 1
      BY <2>5, <3>1
    <3> QED  BY <3>2, Counters DEF Row
  <2> QED  BY <2>1, <2>4, <2>5
<1>5. turns' = turns /\ turns \in Nat /\ turns <= MaxTurns /\ Len(rows) \in Nat
  BY Numbers DEF Reply, TypeOK
<1>6. Counted'
  <2>1. Len(rows') + Cardinality(Active') <= 2 * turns'
    BY <1>3, <1>4, <1>5, Sizes DEF Counted
  <2> QED  BY <1>2, <1>3, <2>1 DEF Counted, Reply
<1>7. Len(rows') <= 2 * MaxTurns
  <2>1. Cardinality(Active') \in Nat
    BY <1>3, FS_CardinalityType
  <2> QED  BY <1>4, <1>5, <1>6, <2>1, Numbers DEF Counted
<1>8. turn' \in [Sessions -> {"idle", "running", "ended"}]
  BY DEF Reply, TypeOK
<1>9. TypeOK'
  BY <1>4, <1>5, <1>7, <1>8 DEF TypeOK, Reply, indexVars, fileVars
<1> QED  BY <1>6, <1>9

(* Whatever leaves the turns alone and adds no hook keeps the counts.      *)
LEMMA CountsStay ==
  ASSUME TypeOK, Counted, UNCHANGED turnVars,
         indexHooks' \in Nat, indexHooks' <= indexHooks,
         \A s \in Sessions : hooks'[s] \in Nat /\ hooks'[s] <= hooks[s]
  PROVE  Counted'
<1>1. Active' = Active /\ Running' = Running
  BY DEF turnVars, Active, Running
<1>2. rows' = rows /\ turns' = turns
  BY DEF turnVars
<1>3. indexHooks' + Cardinality(Running') <= turns'
  BY <1>1, <1>2, Sizes, Counters DEF Counted
<1>4. \A s \in Sessions : hooks'[s] + (IF s \in Running' THEN 1 ELSE 0) <= turns'
  BY <1>1, <1>2, Counters DEF Counted
<1> QED  BY <1>1, <1>2, <1>3, <1>4 DEF Counted

(* The indexer.                                                            *)

Index == [pc : {"idle", "embedding", "storing"}, fetched : SUBSET RowIds,
          todo : SUBSET RowIds, batch : SUBSET RowIds, got : SUBSET RowIds]

IndexTyped ==
  /\ index \in Index
  /\ scanned \subseteq RowIds
  /\ vector \in [RowIds -> RowIds \cup {Null, Skipped}]
  /\ saved \in [RowIds -> RowIds \cup {Null, Skipped}]

LEMMA PartsOfIndex ==
  ASSUME TypeOK
  PROVE  /\ IndexTyped
         /\ index.fetched \subseteq RowIds /\ index.todo \subseteq RowIds
         /\ index.batch \subseteq RowIds /\ index.got \subseteq RowIds
         /\ NoScan \in Index
BY DEF TypeOK, IndexTyped, Index, NoScan

LEMMA TakeIsPart ==
  ASSUME NEW set, NEW n
  PROVE  Take(set, n) \subseteq set
BY DEF Take

LEMMA IndexingIsTyped ==
  ASSUME TypeOK, Counted, Indexing
  PROVE  TypeOK' /\ Counted'
<1>1. UNCHANGED <<turnVars, hooks, counts, fileVars, lives>>
  BY DEF Indexing, Scan, Embed, StoreVector, CommitBatch, ScanFails, CommitOfAnother,
         RollbackOfAnother
<1>2. indexHooks' \in 0..MaxTurns /\ indexHooks' <= indexHooks
  <2>1. indexHooks' = indexHooks \/ (indexHooks > 0 /\ indexHooks' = indexHooks - 1)
    BY DEF Indexing, Scan, Embed, StoreVector, CommitBatch, ScanFails, CommitOfAnother,
           RollbackOfAnother
  <2>2. indexHooks \in 0..MaxTurns
    BY DEF TypeOK
  <2> QED  BY <2>1, <2>2, Numbers
<1>3. Counted'
  BY <1>1, <1>2, Counters, CountsStay
<1>4. IndexTyped'
  <2>1. CASE Scan
    <3>1. Take(Pending, Limit) \subseteq RowIds
      BY TakeIsPart, Sizes DEF Pending
    <3>2. index' \in Index
      BY <2>1, <3>1, PartsOfIndex DEF Scan, NoScan, Index, IndexTyped
    <3> QED  BY <2>1, <3>2, PartsOfIndex DEF Scan, IndexTyped
  <2>2. CASE Embed
    <3>1. PICK n \in 0..Cardinality(Texts(Take(index.todo, Batch))) :
            index' = [index EXCEPT !.pc = "storing", !.batch = Take(index.todo, Batch),
                        !.todo = @ \ Take(index.todo, Batch),
                        !.got = Take(Texts(Take(index.todo, Batch)), n)]
      BY <2>2 DEF Embed
    <3>2. Take(index.todo, Batch) \subseteq RowIds
      BY TakeIsPart, PartsOfIndex
    <3>3. Take(Texts(Take(index.todo, Batch)), n) \subseteq RowIds
      BY <3>2, TakeIsPart DEF Texts
    <3>4. index' \in Index
      BY <3>1, <3>2, <3>3, PartsOfIndex DEF Index, IndexTyped
    <3> QED  BY <2>2, <3>4, PartsOfIndex DEF Embed, IndexTyped
  <2>3. ASSUME NEW i \in RowIds, StoreVector(i)
        PROVE  IndexTyped'
    <3>1. CASE HasText(i)
      <4>1. PICK v \in index.got :
              /\ vector' = [vector EXCEPT ![i] = v]
              /\ index' = [index EXCEPT !.batch = @ \ {i}, !.got = @ \ {v}]
        BY <2>3, <3>1 DEF StoreVector
      <4> QED  BY <2>3, <4>1, PartsOfIndex DEF StoreVector, Index, IndexTyped
    <3>2. CASE ~HasText(i)
      <4>1. /\ vector' = [vector EXCEPT ![i] = Skipped]
            /\ index' = [index EXCEPT !.batch = @ \ {i}]
            /\ UNCHANGED <<saved, scanned>>
        BY <2>3, <3>2 DEF StoreVector, Mark
      <4>2. index' \in Index
        BY <4>1, PartsOfIndex DEF Index, IndexTyped
      <4> QED  BY <4>1, <4>2, PartsOfIndex DEF IndexTyped
    <3> QED  BY <3>1, <3>2
  <2>4. CASE CommitBatch
    <3>1. CASE index.todo # {}
      <4>1. /\ index' = [index EXCEPT !.pc = "embedding", !.got = {}]
            /\ UNCHANGED <<scanned, vector>> /\ saved' = vector
        BY <2>4, <3>1 DEF CommitBatch
      <4>2. index' \in Index
        BY <4>1, PartsOfIndex DEF Index, IndexTyped
      <4> QED  BY <4>1, <4>2, PartsOfIndex DEF IndexTyped
    <3>2. CASE index.todo = {}
      BY <2>4, <3>2, PartsOfIndex DEF CommitBatch, IndexTyped
    <3> QED  BY <3>1, <3>2
  <2>5. CASE ScanFails
    BY <2>5, PartsOfIndex DEF ScanFails, IndexTyped
  <2>6. CASE CommitOfAnother
    BY <2>6, PartsOfIndex DEF CommitOfAnother, IndexTyped
  <2>7. CASE RollbackOfAnother
    BY <2>7, PartsOfIndex DEF RollbackOfAnother, Index, IndexTyped
  <2> QED  BY <2>1, <2>2, <2>3, <2>4, <2>5, <2>6, <2>7 DEF Indexing
<1>5. TypeOK'
  BY <1>1, <1>2, <1>4 DEF TypeOK, IndexTyped, Index, turnVars, fileVars
<1> QED  BY <1>3, <1>5

(* The writers.                                                            *)

Writer ==
  [pc : {"idle", "history", "asking", "temp"}, doc : SUBSET Facts, off : SUBSET Facts]

FileTyped ==
  /\ writer \in [Writers -> Writer]
  /\ file \subseteq Facts /\ written \subseteq Facts /\ cut \subseteq Facts
  /\ stale \subseteq Writers
  /\ edits \in 0..MaxEdits
  /\ overlapped \in BOOLEAN

LEMMA WritersAreTyped ==
  ASSUME TypeOK
  PROVE  FileTyped /\ NoWriter \in Writer /\ Sessions \subseteq Writers
         /\ Agent \in Writers
BY DEF TypeOK, FileTyped, Writer, NoWriter, Writers

Rewriting ==
  \/ \E s \in Sessions : Count(s) \/ Reflect(s)
  \/ AgentReads
  \/ \E w \in Writers : GiveUp(w) \/ WriteTemp(w) \/ Replace(w)

LEMMA RewritingIsTyped ==
  ASSUME TypeOK, Counted, Rewriting
  PROVE  TypeOK' /\ Counted'
<1>1. UNCHANGED <<turnVars, indexHooks, indexVars, lives>>
  BY DEF Rewriting, Count, Reflect, AgentReads, GiveUp, WriteTemp, Replace
<1>2. CASE \E s \in Sessions : Count(s)
  <2>1. PICK s \in Sessions : Count(s)
    BY <1>2
  <2>2. hooks' = [hooks EXCEPT ![s] = hooks[s] - 1] /\ hooks[s] > 0
    BY <2>1 DEF Count
  <2>3. hooks' \in [Sessions -> 0..MaxTurns] /\ \A t \in Sessions : hooks'[t] <= hooks[t]
    BY <2>2, Numbers DEF TypeOK
  <2>4. counts' \in [Sessions -> 0..EveryN - 1]
    <3>1. counts \in [Sessions -> 0..EveryN - 1] /\ 0 \in 0..EveryN - 1
      BY Numbers DEF TypeOK
    <3>2. counts[s] + 1 >= EveryN \/ counts[s] + 1 \in 0..EveryN - 1
      BY <3>1, Numbers
    <3>3. \/ counts' = counts \/ counts' = [counts EXCEPT ![s] = 0]
          \/ counts[s] + 1 \in 0..EveryN - 1 /\ counts' = [counts EXCEPT ![s] = @ + 1]
      BY <2>1, <3>2 DEF Count, Due
    <3> QED  BY <3>1, <3>3
  <2>5. writer' \in [Writers -> Writer]
    BY <2>1, WritersAreTyped DEF Count, Writer, FileTyped
  <2>6. Counted'
    BY <1>1, <2>3, Numbers, Counters, CountsStay
  <2> QED  BY <1>1, <2>1, <2>3, <2>4, <2>5, <2>6
           DEF Count, TypeOK, Writer, turnVars, indexVars
<1>3. CASE ~\E s \in Sessions : Count(s)
  <2>1. UNCHANGED <<hooks, counts>>
    BY <1>3 DEF Rewriting, Reflect, AgentReads, GiveUp, WriteTemp, Replace
  <2>2. Counted'
    BY <1>1, <2>1, Counters, CountsStay
  <2>3. FileTyped'
    <3>1. ASSUME NEW s \in Sessions, Reflect(s)
          PROVE  FileTyped'
      <4>1. {i \in DOMAIN rows : rows[i].session = s /\ ~rows[i].blank} \subseteq Facts
        BY Sizes DEF Facts
      <4>2. writer' \in [Writers -> Writer]
        BY <3>1, <4>1, WritersAreTyped DEF Reflect, Load, Writer, FileTyped
      <4> QED  BY <3>1, <4>2, WritersAreTyped DEF Reflect, Load, FileTyped
    <3>2. CASE AgentReads
      <4>1. edits + 1 \in 1..MaxEdits
        BY <3>2, Numbers DEF AgentReads, TypeOK
      <4>2. {-(edits + 1)} \subseteq Facts
        BY <4>1 DEF Facts
      <4>3. writer' \in [Writers -> Writer]
        BY <3>2, <4>2, WritersAreTyped DEF AgentReads, Load, NoWriter, Writer, FileTyped
      <4> QED  BY <3>2, <4>1, <4>3, Numbers, WritersAreTyped DEF AgentReads, Load, FileTyped
    <3>3. ASSUME NEW w \in Writers, GiveUp(w)
          PROVE  FileTyped'
      BY <3>3, WritersAreTyped DEF GiveUp, FileTyped
    <3>4. ASSUME NEW w \in Writers, WriteTemp(w)
          PROVE  FileTyped'
      BY <3>4, WritersAreTyped DEF WriteTemp, Cuts, Untouched, FileTyped, Writer
    <3>5. ASSUME NEW w \in Writers, Replace(w)
          PROVE  FileTyped'
      BY <3>5, WritersAreTyped DEF Replace, FileTyped, Writer
    <3> QED  BY <1>3, <3>1, <3>2, <3>3, <3>4, <3>5 DEF Rewriting
  <2> QED  BY <1>1, <2>1, <2>2, <2>3 DEF TypeOK, FileTyped, Writer, turnVars, indexVars
<1> QED  BY <1>2, <1>3

LEMMA CrashIsTyped ==
  ASSUME TypeOK, Counted, Crash
  PROVE  TypeOK' /\ Counted'
<1>1. Active' = {} /\ Running' = {}
  BY DEF Crash, Active, Running
<1>2. IsFiniteSet(Active') /\ Cardinality(Active') = 0 /\ Cardinality(Running') = 0
  BY <1>1, FS_EmptySet
<1>3. Len(rows) <= 2 * turns
  BY Sizes, Counters DEF Counted
<1>4. Counted'
  BY <1>1, <1>2, <1>3, Counters DEF Counted, Crash
<1>5. IndexTyped'
  BY PartsOfIndex DEF IndexTyped, Crash
<1>6. writer' \in [Writers -> Writer]
  BY WritersAreTyped DEF Crash, FileTyped
<1>7. /\ counts' \in [Sessions -> 0..EveryN - 1] /\ hooks' \in [Sessions -> 0..MaxTurns]
      /\ indexHooks' \in 0..MaxTurns /\ lives' \in 1..MaxLives
  BY Numbers DEF Crash, TypeOK
<1> QED  BY <1>4, <1>5, <1>6, <1>7 DEF TypeOK, Crash, IndexTyped, Index, Writer

(* The steps of the system, by what they are about.                        *)
LEMMA Steps ==
  ASSUME Next
  PROVE  \/ \E s \in Sessions, blank \in BOOLEAN : Begin(s, blank)
         \/ \E s \in Sessions, reason \in {"end_turn", "max_turns"} : Complete(s, reason)
         \/ \E s \in Sessions : Reply(s)
         \/ Indexing
         \/ Rewriting
         \/ Crash
BY DEF Next, Turns, Rewriting

LEMMA TypesAreKept ==
  ASSUME TypeOK, Counted, [Next]_vars
  PROVE  TypeOK' /\ Counted'
<1>1. CASE UNCHANGED vars
  BY <1>1 DEF vars, turnVars, indexVars, fileVars, TypeOK, Counted, Active, Running
<1>2. CASE Next
  BY <1>2, Steps, BeginIsTyped, CompleteIsTyped, ReplyIsTyped, IndexingIsTyped,
     RewritingIsTyped, CrashIsTyped
<1> QED  BY <1>1, <1>2

-----------------------------------------------------------------------------
(* Vectors.                                                                *)

LEMMA TakeIsEarliest ==
  ASSUME NEW set \in SUBSET RowIds, NEW n \in Nat,
         NEW i \in set \ Take(set, n), NEW v \in Take(set, n)
  PROVE  v < i
<1> DEFINE before(k) == {j \in set : j < k}
<1>1. i \in Nat /\ v \in Nat /\ v \in set
  BY Numbers DEF RowIds, Take
<1>2. IsFiniteSet(set)
  <2>1. IsFiniteSet(1..(2 * MaxTurns))
    BY FS_Interval, Numbers
  <2> QED  BY <2>1, FS_Subset DEF RowIds
<1>3. IsFiniteSet(before(v)) /\ IsFiniteSet(before(i))
  BY <1>2, FS_Subset
<1>4. Cardinality(before(v)) \in Nat /\ Cardinality(before(i)) \in Nat
  BY <1>3, FS_CardinalityType
<1>5. Cardinality(before(v)) < n /\ ~(Cardinality(before(i)) < n)
  BY DEF Take
<1>6. ASSUME i <= v PROVE FALSE
  <2>1. \A j \in set : j < i => j < v
    BY <1>1, <1>6, Numbers DEF RowIds
  <2>2. Cardinality(before(i)) <= Cardinality(before(v))
    BY <1>3, <2>1, FS_Subset
  <2> QED  BY <1>4, <1>5, <2>2
<1> QED  BY <1>1, <1>6

(* A row that comes changes nothing for those that are there.              *)
LEMMA RowsOnlyGrow ==
  ASSUME TypeOK, NEW row \in [session : Sessions, blank : BOOLEAN],
         rows' = Append(rows, row)
  PROVE  /\ DOMAIN rows \subseteq DOMAIN rows'
         /\ \A i \in DOMAIN rows : rows'[i] = rows[i]
<1> DEFINE Row == [session : Sessions, blank : BOOLEAN]
<1>1. rows \in Seq(Row)
  BY DEF TypeOK
<1> HIDE DEF Row
<1>2. row \in Row
  BY DEF Row
<1> QED  BY <1>1, <1>2

LEMMA VectorsWithRows ==
  ASSUME TypeOK, Walk, VectorsMatch, Covering, ScanCovers, UNCHANGED indexVars,
         DOMAIN rows \subseteq DOMAIN rows',
         \A i \in DOMAIN rows : rows'[i] = rows[i]
  PROVE  Walk' /\ VectorsMatch' /\ Covering' /\ ScanCovers'
<1>1. UNCHANGED <<index, vector, saved, scanned>>
  BY DEF indexVars
<1>2. Texts(index.batch)' = Texts(index.batch)
  BY <1>1 DEF Texts, Walk
<1>3. Walk'
  BY <1>1, <1>2 DEF Walk
<1>4. VectorsMatch'
  BY <1>1 DEF VectorsMatch
<1>5. Covering' /\ ScanCovers'
  BY <1>1 DEF Covering, ScanCovers
<1> QED  BY <1>3, <1>4, <1>5

LEMMA ScanKeeps ==
  ASSUME TypeOK, Walk, Covering, Scan
  PROVE  Walk' /\ Covering'
<1>1. Take(Pending, Limit) \subseteq DOMAIN rows
  BY TakeIsPart DEF Pending
<1>2. \/ index' = index
      \/ /\ index'.pc = "embedding" /\ index'.batch = {} /\ index'.got = {}
         /\ index'.todo = Take(Pending, Limit) /\ index'.fetched = Take(Pending, Limit)
  BY DEF Scan, NoScan
<1>3. UNCHANGED <<rows, vector, saved>>
  BY DEF Scan, turnVars
<1>4. Walk'
  BY <1>1, <1>2, <1>3 DEF Walk, Texts
<1>5. Covering'
  BY <1>2, <1>3 DEF Covering
<1> QED  BY <1>4, <1>5

(* What the embedder returns belongs to the earliest texts.                *)
LEMMA EmbedKeeps ==
  ASSUME TypeOK, Walk, Covering, Embed
  PROVE  Walk' /\ Covering'
<1> DEFINE batch == Take(index.todo, Batch)
<1>1. PICK n \in 0..Cardinality(Texts(batch)) :
        index' = [index EXCEPT !.pc = "storing", !.batch = batch,
                               !.todo = @ \ batch, !.got = Take(Texts(batch), n)]
  BY DEF Embed
<1>2. /\ index'.pc = "storing" /\ index'.batch = batch /\ index'.got = Take(Texts(batch), n)
      /\ index'.todo = index.todo \ batch /\ index'.fetched = index.fetched
  BY <1>1, PartsOfIndex DEF IndexTyped, Index
<1>3. UNCHANGED <<rows, vector, saved>>
  BY DEF Embed, turnVars
<1>4. batch \subseteq index.todo
  BY TakeIsPart
<1> HIDE DEF batch
<1>5. Texts(batch) \in SUBSET RowIds /\ n \in Nat
  BY <1>4, PartsOfIndex DEF Texts
<1>6. \A i \in Texts(batch) \ Take(Texts(batch), n) :
        \A v \in Take(Texts(batch), n) : v < i
  BY <1>5, TakeIsEarliest
<1>7. Texts(index.batch)' = Texts(batch)
  BY <1>2, <1>3 DEF Texts
<1>8. Walk'
  BY <1>2, <1>3, <1>4, <1>6, <1>7, TakeIsPart DEF Walk
<1>9. Covering'
  BY <1>2, <1>3, <1>4, PartsOfIndex DEF Covering, Walk, Embed
<1> QED  BY <1>8, <1>9

(* The vector that a row takes is its own.                                 *)
LEMMA StoreVectorKeeps ==
  ASSUME TypeOK, Walk, VectorsMatch, Covering, NEW i \in RowIds, StoreVector(i)
  PROVE  Walk' /\ VectorsMatch' /\ Covering'
<1>1. UNCHANGED <<rows, saved>>
  BY DEF StoreVector, turnVars
<1>2. i \in index.batch /\ \A j \in index.batch : i <= j
  BY DEF StoreVector, Earliest
<1>3. i \in DOMAIN rows
  BY <1>2 DEF Walk
<1>4. CASE HasText(i)
  <2>1. PICK v \in index.got :
          /\ Earliest(v, index.got)
          /\ vector' = [vector EXCEPT ![i] = v]
          /\ index' = [index EXCEPT !.batch = @ \ {i}, !.got = @ \ {v}]
    BY <1>4 DEF StoreVector
  <2>2. i \in Texts(index.batch)
    BY <1>2, <1>4 DEF Texts, HasText
  <2>3. v \in index.batch /\ i \in Nat /\ v \in Nat /\ i <= v
    BY <1>2, PartsOfIndex, Numbers DEF Walk, Texts, RowIds
  <2>4. i \in index.got
    BY <2>2, <2>3 DEF Walk
  <2>5. v = i
    BY <2>1, <2>3, <2>4 DEF Earliest
  <2>6. /\ index'.batch = index.batch \ {i} /\ index'.got = index.got \ {i}
        /\ index'.pc = index.pc /\ index'.todo = index.todo
        /\ index'.fetched = index.fetched
    BY <2>1, <2>5, PartsOfIndex DEF IndexTyped, Index
  <2>7. /\ vector'[i] = i /\ i # Null /\ ~rows[i].blank
        /\ \A j \in RowIds : j # i => vector'[j] = vector[j]
    BY <1>4, <2>1, <2>3, <2>5, PartsOfIndex DEF IndexTyped, HasText, Null, RowIds
  <2>8. Walk'
    BY <1>1, <2>6 DEF Walk, Texts, StoreVector
  <2>9. VectorsMatch'
    BY <1>1, <1>3, <2>7 DEF VectorsMatch
  <2>10. Covering'
    <3>1. saved[i] # Null => saved[i] = i
      BY <2>7 DEF VectorsMatch
    <3>2. \A j \in RowIds : saved'[j] # Null => vector'[j] = saved'[j]
      BY <1>1, <2>7, <3>1 DEF Covering
    <3>3. \A j \in index'.fetched :
            vector'[j] = Null => j \in index'.todo \cup index'.batch
      BY <2>6, <2>7, PartsOfIndex DEF Covering
    <3> QED  BY <3>2, <3>3 DEF Covering
  <2> QED  BY <2>8, <2>9, <2>10
<1>5. CASE ~HasText(i)
  <2>1. /\ vector' = [vector EXCEPT ![i] = Skipped]
        /\ index' = [index EXCEPT !.batch = @ \ {i}]
    BY <1>5 DEF StoreVector, Mark
  <2>2. i \notin Texts(index.batch) /\ rows[i].blank
    BY <1>2, <1>5 DEF Texts, HasText
  <2>3. /\ index'.batch = index.batch \ {i} /\ index'.got = index.got
        /\ index'.pc = index.pc /\ index'.todo = index.todo
        /\ index'.fetched = index.fetched
    BY <2>1, PartsOfIndex DEF IndexTyped, Index
  <2>4. /\ vector'[i] = Skipped /\ Skipped # Null
        /\ \A j \in RowIds : j # i => vector'[j] = vector[j]
    BY <2>1, PartsOfIndex DEF IndexTyped, Null, Skipped
  <2>5. Walk'
    BY <1>1, <2>2, <2>3 DEF Walk, Texts, StoreVector
  <2>6. VectorsMatch'
    BY <1>1, <1>3, <2>2, <2>4 DEF VectorsMatch
  <2>7. Covering'
    <3>1. saved[i] # Null => saved[i] = Skipped
      BY <2>2 DEF VectorsMatch
    <3>2. \A j \in RowIds : saved'[j] # Null => vector'[j] = saved'[j]
      BY <1>1, <2>4, <3>1 DEF Covering
    <3>3. \A j \in index'.fetched :
            vector'[j] = Null => j \in index'.todo \cup index'.batch
      BY <2>3, <2>4, PartsOfIndex DEF Covering
    <3> QED  BY <3>2, <3>3 DEF Covering
  <2> QED  BY <2>5, <2>6, <2>7
<1> QED  BY <1>4, <1>5

LEMMA CommitBatchKeeps ==
  ASSUME TypeOK, Walk, VectorsMatch, Covering, ScanCovers, CommitBatch
  PROVE  Walk' /\ VectorsMatch' /\ Covering' /\ ScanCovers'
<1>1. UNCHANGED <<rows, vector>> /\ saved' = vector /\ index.batch = {}
  BY DEF CommitBatch, turnVars
<1>2. VectorsMatch'
  BY <1>1 DEF VectorsMatch
<1>3. ScanCovers' /\ Walk' /\ Covering'
  <2>1. CASE index.todo # {}
    <3>1. /\ index'.pc = "embedding" /\ index'.got = {} /\ index'.batch = {}
          /\ index'.todo = index.todo /\ index'.fetched = index.fetched
          /\ scanned' = scanned
      BY <1>1, <2>1, PartsOfIndex DEF CommitBatch, IndexTyped, Index
    <3>2. ScanCovers'
      BY <1>1, <3>1, PartsOfIndex DEF ScanCovers, Covering, IndexTyped
    <3> QED  BY <1>1, <3>1, <3>2 DEF Walk, Covering, Texts
  <2>2. CASE index.todo = {}
    <3>1. index' = NoScan /\ scanned' = index.fetched
      BY <2>2 DEF CommitBatch
    <3>2. ScanCovers'
      BY <1>1, <2>2, <3>1 DEF ScanCovers, Covering
    <3> QED  BY <1>1, <3>1, <3>2 DEF Walk, Covering, Texts, NoScan
  <2> QED  BY <2>1, <2>2
<1> QED  BY <1>2, <1>3

(* Another operation ends the transaction, one way or the other.           *)
LEMMA OthersKeep ==
  ASSUME TypeOK, Walk, VectorsMatch, Covering, ScanCovers,
         CommitOfAnother \/ RollbackOfAnother
  PROVE  Walk' /\ VectorsMatch' /\ Covering' /\ ScanCovers'
<1>1. UNCHANGED <<rows, scanned>>
  BY DEF CommitOfAnother, RollbackOfAnother, turnVars
<1>2. CASE CommitOfAnother
  <2>1. saved' = vector /\ UNCHANGED <<index, vector>>
    BY <1>2 DEF CommitOfAnother
  <2>2. ScanCovers'
    BY <1>1, <2>1, PartsOfIndex DEF ScanCovers, Covering, IndexTyped
  <2> QED  BY <1>1, <2>1, <2>2 DEF Walk, VectorsMatch, Covering, Texts
<1>3. CASE RollbackOfAnother
  <2>1. /\ vector' = saved /\ saved' = saved
        /\ index'.fetched = index.fetched \ {i \in RowIds : vector[i] # saved[i]}
        /\ index'.todo = index.todo /\ index'.batch = index.batch
        /\ index'.got = index.got /\ index'.pc = index.pc
    BY <1>3, PartsOfIndex DEF RollbackOfAnother, IndexTyped, Index
  <2>2. Walk'
    BY <1>1, <2>1 DEF Walk, Texts
  <2>3. VectorsMatch' /\ ScanCovers'
    BY <1>1, <2>1 DEF VectorsMatch, ScanCovers
  <2>4. Covering'
    BY <2>1, PartsOfIndex DEF Covering
  <2> QED  BY <2>2, <2>3, <2>4
<1> QED  BY <1>2, <1>3

(* A scan that ends with an error, or with the process.                    *)
LEMMA EndOfScanKeeps ==
  ASSUME VectorsMatch, Covering, ScanFails \/ Crash
  PROVE  Walk' /\ VectorsMatch' /\ Covering' /\ ScanCovers'
<1>1. rows' = rows /\ saved' = saved /\ index' = NoScan /\ scanned' = {}
      /\ vector' \in {vector, saved}
  BY DEF ScanFails, Crash, turnVars
<1>2. Walk' /\ ScanCovers'
  BY <1>1 DEF Walk, ScanCovers, NoScan, Texts
<1>3. VectorsMatch' /\ Covering'
  BY <1>1 DEF VectorsMatch, Covering, NoScan
<1> QED  BY <1>2, <1>3

LEMMA VectorsAreKept ==
  ASSUME TypeOK, Walk, VectorsMatch, Covering, ScanCovers, [Next]_vars
  PROVE  Walk' /\ VectorsMatch' /\ Covering' /\ ScanCovers'
<1>1. CASE rows' = rows /\ UNCHANGED indexVars
  BY <1>1, VectorsWithRows
<1>2. ASSUME NEW s \in Sessions, NEW blank \in BOOLEAN, Begin(s, blank)
      PROVE  Walk' /\ VectorsMatch' /\ Covering' /\ ScanCovers'
  <2>1. UNCHANGED indexVars /\ rows' = Append(rows, [session |-> s, blank |-> blank])
    BY <1>2 DEF Begin
  <2>2. [session |-> s, blank |-> blank] \in [session : Sessions, blank : BOOLEAN]
    OBVIOUS
  <2> QED  BY <2>1, <2>2, RowsOnlyGrow, VectorsWithRows
<1>3. ASSUME NEW s \in Sessions, Reply(s)
      PROVE  Walk' /\ VectorsMatch' /\ Covering' /\ ScanCovers'
  <2>1. /\ UNCHANGED indexVars
        /\ rows' = rows \/ rows' = Append(rows, [session |-> s, blank |-> FALSE])
    BY <1>3 DEF Reply
  <2>2. [session |-> s, blank |-> FALSE] \in [session : Sessions, blank : BOOLEAN]
    OBVIOUS
  <2> QED  BY <1>1, <2>1, <2>2, RowsOnlyGrow, VectorsWithRows
<1>4. CASE Indexing
  <2>1. CASE Scan
    <3>1. VectorsMatch' /\ ScanCovers'
      BY <2>1 DEF Scan, turnVars, VectorsMatch, ScanCovers
    <3> QED  BY <2>1, <3>1, ScanKeeps
  <2>2. CASE Embed
    <3>1. VectorsMatch' /\ ScanCovers'
      BY <2>2 DEF Embed, turnVars, VectorsMatch, ScanCovers
    <3> QED  BY <2>2, <3>1, EmbedKeeps
  <2>3. ASSUME NEW i \in RowIds, StoreVector(i)
        PROVE  Walk' /\ VectorsMatch' /\ Covering' /\ ScanCovers'
    <3>1. ScanCovers'
      BY <2>3 DEF StoreVector, ScanCovers
    <3> QED  BY <2>3, <3>1, StoreVectorKeeps
  <2> QED  BY <1>4, <2>1, <2>2, <2>3, CommitBatchKeeps, OthersKeep, EndOfScanKeeps
           DEF Indexing
<1>5. CASE UNCHANGED vars
  BY <1>1, <1>5 DEF vars, turnVars
<1>6. ASSUME NEW s \in Sessions, NEW reason, Complete(s, reason)
      PROVE  rows' = rows /\ UNCHANGED indexVars
  BY <1>6 DEF Complete
<1>7. CASE Rewriting
  <2>1. rows' = rows /\ UNCHANGED indexVars
    BY <1>7 DEF Rewriting, Count, Reflect, AgentReads, GiveUp, WriteTemp, Replace, turnVars
  <2> QED  BY <1>1, <2>1
<1> QED  BY <1>1, <1>2, <1>3, <1>4, <1>5, <1>6, <1>7, Steps, EndOfScanKeeps

-----------------------------------------------------------------------------
(* MEMORY.md.                                                              *)

(* The read of a writer gives it the whole file.                           *)
LEMMA LoadKeeps ==
  ASSUME TypeOK, Ledger, LedgerKeeps, NEW u \in Writers, NEW facts, Load(u, facts),
         UNCHANGED <<file, written, cut, overlapped>>, writer[u].pc # "temp"
  PROVE  Ledger' /\ LedgerKeeps'
<1>1. /\ writer'[u].pc = "asking" /\ writer'[u].doc = file \cup facts /\ writer'[u].off = {}
      /\ \A w \in Writers : w # u => writer'[w] = writer[w]
      /\ stale' = stale \ {u}
  BY WritersAreTyped DEF Load, NoWriter, FileTyped
<1>2. \A w \in Writers \ stale' :
        writer'[w].pc \in {"asking", "temp"} => file' \subseteq writer'[w].doc \cup writer'[w].off
  BY <1>1 DEF Ledger
<1>3. \A v, w \in Writers : writer'[v].pc = "temp" /\ writer'[w].pc = "temp" => v = w
  BY <1>1 DEF Ledger
<1>4. \A w \in Writers : writer'[w].pc = "asking" => writer'[w].off = {}
  BY <1>1 DEF Ledger
<1> QED  BY <1>2, <1>3, <1>4 DEF Ledger, LedgerKeeps

(* The file becomes the document of the one who writes.                    *)
LEMMA ReplaceKeeps ==
  ASSUME TypeOK, Ledger, LedgerKeeps, NEW u \in Writers, Replace(u)
  PROVE  Ledger' /\ LedgerKeeps'
<1>1. /\ writer[u].pc = "temp" /\ writer'[u].pc = "idle"
      /\ \A w \in Writers : w # u => writer'[w] = writer[w]
      /\ file' = writer[u].doc /\ written' = written \cup writer[u].doc
      /\ cut' = (cut \cup writer[u].off) \ writer[u].doc
      /\ overlapped' = (overlapped \/ u \in stale)
      /\ stale' = {v \in Writers \ {u} : writer[v].pc = "asking"}
  BY WritersAreTyped DEF Replace, FileTyped, NoWriter
<1>2. \A w \in Writers : w # u => writer[w].pc # "temp"
  BY <1>1 DEF Ledger
<1>3. Ledger'
  BY <1>1, <1>2 DEF Ledger
<1>4. CASE u \in stale
  BY <1>1, <1>3, <1>4 DEF LedgerKeeps
<1>5. CASE u \notin stale
  <2>1. file \subseteq writer[u].doc \cup writer[u].off
    BY <1>1, <1>5 DEF Ledger
  <2> QED  BY <1>1, <1>3, <1>5, <2>1 DEF LedgerKeeps
<1> QED  BY <1>4, <1>5

(* The steps that do not touch MEMORY.md or its writers.                   *)
LEMMA FileStays ==
  ASSUME Ledger, LedgerKeeps, UNCHANGED fileVars
  PROVE  Ledger' /\ LedgerKeeps'
BY DEF Ledger, LedgerKeeps, fileVars

LEMMA LedgerIsKept ==
  ASSUME TypeOK, Ledger, LedgerKeeps, [Next]_vars
  PROVE  Ledger' /\ LedgerKeeps'
<1>1. ASSUME NEW s \in Sessions, Count(s)
      PROVE  Ledger' /\ LedgerKeeps'
  <2>1. \A w \in Writers :
          \/ writer'[w] = writer[w]
          \/ writer'[w].pc = "history"
    BY <1>1, WritersAreTyped DEF Count, FileTyped, Writer
  <2>2. UNCHANGED <<file, stale, written, cut, overlapped>>
    BY <1>1 DEF Count
  <2> QED  BY <2>1, <2>2 DEF Ledger, LedgerKeeps
<1>2. ASSUME NEW s \in Sessions, Reflect(s)
      PROVE  Ledger' /\ LedgerKeeps'
  <2>1. PICK facts : Load(s, facts)
    BY <1>2 DEF Reflect
  <2> QED  BY <1>2, <2>1, WritersAreTyped, LoadKeeps DEF Reflect
<1>3. CASE AgentReads
  <2>1. PICK facts : Load(Agent, facts)
    BY <1>3 DEF AgentReads
  <2> QED  BY <1>3, <2>1, WritersAreTyped, LoadKeeps DEF AgentReads
<1>4. ASSUME NEW u \in Writers, GiveUp(u)
      PROVE  Ledger' /\ LedgerKeeps'
  <2>1. \A w \in Writers : writer'[w] = writer[w] \/ writer'[w].pc = "idle"
    BY <1>4, WritersAreTyped DEF GiveUp, FileTyped, NoWriter
  <2>2. UNCHANGED <<file, stale, written, cut, overlapped>>
    BY <1>4 DEF GiveUp
  <2> QED  BY <2>1, <2>2 DEF Ledger, LedgerKeeps
<1>5. ASSUME NEW u \in Writers, WriteTemp(u), ~Blocked
      PROVE  Ledger' /\ LedgerKeeps'
  <2>1. /\ writer[u].pc = "asking" /\ writer'[u].pc = "temp"
        /\ writer[u].doc \subseteq writer'[u].doc \cup writer'[u].off
        /\ \A w \in Writers : w # u => writer'[w] = writer[w]
    BY <1>5, WritersAreTyped DEF WriteTemp, Cuts, FileTyped, Writer
  <2>2. UNCHANGED <<file, stale, written, cut, overlapped>>
    BY <1>5 DEF WriteTemp, Untouched
  <2>3. \A w \in Writers : writer[w].pc # "temp"
    BY <1>5 DEF Blocked
  <2>4. \A w \in Writers \ stale' :
          writer'[w].pc \in {"asking", "temp"} =>
            file' \subseteq writer'[w].doc \cup writer'[w].off
    <3>1. file' = file /\ writer[u].off = {} /\ stale' = stale  BY <2>1, <2>2 DEF Ledger
    <3>2. QED  BY <2>1, <3>1 DEF Ledger
  <2>6. \A w \in Writers : writer'[w].pc = "asking" => writer'[w].off = {}
    BY <2>1 DEF Ledger
  <2>5. \A v, w \in Writers : writer'[v].pc = "temp" /\ writer'[w].pc = "temp" => v = w
    BY <2>1, <2>3
  <2> QED  BY <2>2, <2>4, <2>5, <2>6 DEF Ledger, LedgerKeeps
<1>6. ASSUME NEW u \in Writers, Replace(u)
      PROVE  Ledger' /\ LedgerKeeps'
  BY <1>6, ReplaceKeeps
<1>7. CASE Crash
  BY <1>7 DEF Crash, Ledger, LedgerKeeps, NoWriter
<1>8. CASE Indexing
  <2>1. UNCHANGED fileVars
    BY <1>8 DEF Indexing, Scan, Embed, StoreVector, CommitBatch, ScanFails,
                CommitOfAnother, RollbackOfAnother
  <2> QED  BY <2>1, FileStays
<1>9. ASSUME NEW s \in Sessions, Turns(s)
      PROVE  Ledger' /\ LedgerKeeps'
  <2>1. UNCHANGED fileVars
    BY <1>9 DEF Turns, Begin, Complete, Reply
  <2> QED  BY <2>1, FileStays
<1>10. CASE UNCHANGED vars
  BY <1>10, FileStays DEF vars
<1> QED  BY <1>1, <1>2, <1>3, <1>4, <1>5, <1>6, <1>7, <1>8, <1>9, <1>10 DEF Next

-----------------------------------------------------------------------------
(* The theorems.                                                           *)

LEMMA InitSatisfiesIInv ==
  Init => IInv
<1> SUFFICES ASSUME Init PROVE IInv
  OBVIOUS
<1>1. Walk
  BY DEF Init, Walk, NoScan, Texts
<1>2. VectorsMatch /\ Covering /\ ScanCovers
  BY DEF Init, VectorsMatch, Covering, ScanCovers, NoScan, Null
<1>3. Ledger /\ LedgerKeeps
  BY DEF Init, Ledger, LedgerKeeps, NoWriter
<1> QED  BY <1>1, <1>2, <1>3, InitIsTyped DEF IInv

LEMMA StepsKeepIInv ==
  IInv /\ [Next]_vars => IInv'
BY TypesAreKept, VectorsAreKept, LedgerIsKept DEF IInv

(* IInv is inductive: whatever fails, restarts or is committed by others.  *)
THEOREM UpkeepInvariant == Spec => []IInv
<1>1. Init => IInv
  BY InitSatisfiesIInv
<1>2. IInv /\ [Next]_vars => IInv'
  BY StepsKeepIInv
<1> QED  BY <1>1, <1>2, PTL DEF Spec

(* The counters of hooks, turns and rows stay in their bounds, and a       *)
(* session is never counted past the turn it reflects on.                  *)
THEOREM TypeCorrect == Spec => []TypeOK
<1>1. IInv => TypeOK
  BY DEF IInv
<1> QED  BY <1>1, UpkeepInvariant, PTL

(* memory.py 151-164: no vector ever lands in the row of another text, for *)
(* any batch size, embedder that answers short, and foreign transaction.   *)
THEOREM VectorsAreOfTheirRows == Spec => []VectorsMatch
<1>1. IInv => VectorsMatch
  BY DEF IInv
<1> QED  BY <1>1, UpkeepInvariant, PTL

(* memory.py 156-164: a scan that came to its end has marked every row it  *)
(* fetched, on disk, so that the next one takes up others.                 *)
THEOREM ScansSkipNothing == Spec => []ScanCovers
<1>1. IInv => ScanCovers
  BY DEF IInv
<1> QED  BY <1>1, UpkeepInvariant, PTL

(* atomic_io.py 7-24, reflector.py 103-132: MEMORY.md holds every fact     *)
(* ever written to it, in any crash, but for what a reflection cut off at  *)
(* its limit, for any limit, unless two rewrites overlapped.               *)
THEOREM FactsAreKept == Spec => []LedgerKeeps
<1>1. IInv => LedgerKeeps
  BY DEF IInv
<1> QED  BY <1>1, UpkeepInvariant, PTL
=============================================================================
