------------------------------- MODULE Upkeep -------------------------------
(***************************************************************************)
(* What runs behind completed turns of one user: the indexer that gives    *)
(* every message its vector (workspace/memory.py) and the rewriting of     *)
(* MEMORY.md, by the reflector (observability/reflector.py) and by the     *)
(* agent's own tools, over atomic file writes (workspace/atomic_io.py).    *)
(* A message carries the fact that its number names; a document is the set *)
(* of its facts; a model keeps the facts that it is given.  A list of rows *)
(* that the indexer walks is always in the order of their numbers, so it   *)
(* is their set, taken from the least one on.                              *)
(***************************************************************************)
EXTENDS Integers, Sequences, FiniteSets

CONSTANTS
  Sessions,   \* of the user
  Agent,      \* the agent, as a writer of MEMORY.md with its file tools
  EveryN,     \* every_n_turns
  Batch,      \* batch_size
  Limit,      \* limit of index_pending
  MaxFacts,   \* of a document of the reflector: its 32,000 characters
  MaxTurns,   \* bound on turns, of at most two messages each
  MaxEdits,   \* bound on rewrites by the agent
  MaxLives    \* bound on lives of the process

ASSUME UpkeepAssumption ==
  /\ Agent \notin Sessions
  /\ {EveryN, Batch, Limit} \subseteq Nat \ {0}
  /\ {MaxFacts, MaxTurns, MaxEdits} \subseteq Nat
  /\ MaxLives \in Nat \ {0}

VARIABLES
  rows,        \* the messages table, in the order of timestamps
  turns,       \* history: turns begun
  turn,        \* where the turn of each session is
  indexHooks,  \* on_turn_complete tasks of the indexer that have not begun
  hooks,       \* those of the reflector, by session
  vector,      \* the embedding column, as the connection sees it
  saved,       \* the same, as it is on disk
  index,       \* the index_pending under way
  scanned,     \* history: rows that the last finished scan fetched, and
               \* that no rollback took back
  counts,      \* Reflector._counts
  writer,      \* rewrites of MEMORY.md under way
  file,        \* MEMORY.md
  edits,       \* history: rewrites of the agent
  stale,       \* history: writers whose document another one has replaced
  written,     \* history: every fact put into MEMORY.md
  cut,         \* history: facts that a reflection cut off, and not written since
  overlapped,  \* history: a stale writer wrote
  lives

indexVars == <<vector, saved, index, scanned>>
fileVars == <<writer, file, edits, stale, written, cut, overlapped>>
turnVars == <<rows, turns, turn>>
vars == <<turnVars, indexHooks, hooks, indexVars, counts, fileVars, lives>>

Writers == Sessions \cup {Agent}
RowIds == 1..(2 * MaxTurns)
Facts == RowIds \cup {-e : e \in 1..MaxEdits}

Null == 0
Skipped == -1       \* the empty blob

NoScan == [pc |-> "idle", fetched |-> {}, todo |-> {}, batch |-> {}, got |-> {}]
NoWriter == [pc |-> "idle", doc |-> {}, off |-> {}]

TypeOK ==
  /\ rows \in Seq([session : Sessions, blank : BOOLEAN])
  /\ Len(rows) <= 2 * MaxTurns
  /\ turns \in 0..MaxTurns
  /\ turn \in [Sessions -> {"idle", "running", "ended"}]
  /\ indexHooks \in 0..MaxTurns
  /\ hooks \in [Sessions -> 0..MaxTurns]
  /\ {vector, saved} \subseteq [RowIds -> RowIds \cup {Null, Skipped}]
  /\ index \in [pc : {"idle", "embedding", "storing"}, fetched : SUBSET RowIds,
                todo : SUBSET RowIds, batch : SUBSET RowIds, got : SUBSET RowIds]
  /\ scanned \subseteq RowIds
  /\ counts \in [Sessions -> 0..EveryN - 1]
  /\ writer \in [Writers -> [pc : {"idle", "history", "asking", "temp"},
                             doc : SUBSET Facts, off : SUBSET Facts]]
  /\ {file, written, cut} \subseteq SUBSET Facts
  /\ edits \in 0..MaxEdits
  /\ stale \subseteq Writers
  /\ overlapped \in BOOLEAN
  /\ lives \in 1..MaxLives

Init ==
  /\ rows = <<>> /\ turns = 0
  /\ turn = [s \in Sessions |-> "idle"]
  /\ indexHooks = 0 /\ hooks = [s \in Sessions |-> 0]
  /\ vector = [i \in RowIds |-> Null] /\ saved = vector
  /\ index = NoScan /\ scanned = {}
  /\ counts = [s \in Sessions |-> 0]
  /\ writer = [w \in Writers |-> NoWriter]
  /\ file = {} /\ edits = 0 /\ stale = {} /\ written = {} /\ cut = {}
  /\ overlapped = FALSE
  /\ lives = 1

-----------------------------------------------------------------------------
(* Turns.                                                                  *)

(* A message is stored, and its turn begins.                               *)
Begin(s, blank) ==
  /\ turn[s] = "idle" /\ turns < MaxTurns
  /\ turns' = turns + 1
  /\ turn' = [turn EXCEPT ![s] = "running"]
  /\ rows' = Append(rows, [session |-> s, blank |-> blank])
  /\ UNCHANGED <<indexHooks, hooks, indexVars, counts, fileVars, lives>>

(* run_turn emits ON_TURN_COMPLETE before its TurnEnd, with the reason.    *)
Complete(s, reason) ==
  /\ turn[s] = "running"
  /\ turn' = [turn EXCEPT ![s] = "ended"]
  /\ indexHooks' = indexHooks + 1
  /\ hooks' = IF reason = "end_turn" THEN [hooks EXCEPT ![s] = @ + 1] ELSE hooks
  /\ UNCHANGED <<rows, turns, indexVars, counts, fileVars, lives>>

(* The reply is stored when TurnEnd passes the handler's wrapper, if it    *)
(* has text and the write does not fail.                                   *)
Reply(s) ==
  /\ turn[s] = "ended"
  /\ turn' = [turn EXCEPT ![s] = "idle"]
  /\ rows' \in {rows, Append(rows, [session |-> s, blank |-> FALSE])}
  /\ UNCHANGED <<turns, indexHooks, hooks, indexVars, counts, fileVars, lives>>

-----------------------------------------------------------------------------
(* The indexer.                                                            *)

(* The n earliest of some rows.                                            *)
Take(set, n) == {i \in set : Cardinality({j \in set : j < i}) < n}

Earliest(i, set) == i \in set /\ \A j \in set : i <= j

Pending == {i \in DOMAIN rows : vector[i] = Null}

(* The hook's task begins: nothing if a scan is under way.                 *)
Scan ==
  /\ indexHooks > 0
  /\ indexHooks' = indexHooks - 1
  /\ LET found == Take(Pending, Limit)
     IN IF index.pc # "idle" \/ found = {} THEN UNCHANGED index
        ELSE index' = [NoScan EXCEPT !.pc = "embedding", !.todo = found,
                                     !.fetched = found]
  /\ UNCHANGED <<turnVars, hooks, vector, saved, scanned, counts, fileVars, lives>>

Texts(batch) == {i \in batch : ~rows[i].blank}

(* The embedder answers with a vector for each text, or with too few.      *)
Embed ==
  /\ index.pc = "embedding"
  /\ LET batch == Take(index.todo, Batch)
     IN \E n \in 0..Cardinality(Texts(batch)) :
          index' = [index EXCEPT !.pc = "storing", !.batch = batch,
                      !.todo = @ \ batch, !.got = Take(Texts(batch), n)]
  /\ UNCHANGED <<turnVars, indexHooks, hooks, vector, saved, scanned, counts, fileVars,
                 lives>>

(* Fault: every row takes the next vector.                                 *)
TakesNext(i) == index.got # {}

HasText(i) == ~rows[i].blank

(* Fault: a blank row is left as it is.                                    *)
LeftNull == Null

Mark == Skipped

(* UPDATE of the next row, in the connection's open transaction.           *)
StoreVector(i) ==
  /\ index.pc = "storing" /\ Earliest(i, index.batch)
  /\ \/ /\ HasText(i)
        /\ \E v \in index.got :
             /\ Earliest(v, index.got)
             /\ vector' = [vector EXCEPT ![i] = v]
             /\ index' = [index EXCEPT !.batch = @ \ {i}, !.got = @ \ {v}]
     \/ /\ ~HasText(i)
        /\ vector' = [vector EXCEPT ![i] = Mark]
        /\ index' = [index EXCEPT !.batch = @ \ {i}]
  /\ UNCHANGED <<turnVars, indexHooks, hooks, saved, scanned, counts, fileVars, lives>>

CommitBatch ==
  /\ index.pc = "storing" /\ index.batch = {}
  /\ saved' = vector
  /\ IF index.todo # {}
     THEN index' = [index EXCEPT !.pc = "embedding", !.got = {}] /\ UNCHANGED scanned
     ELSE index' = NoScan /\ scanned' = index.fetched
  /\ UNCHANGED <<turnVars, indexHooks, hooks, vector, counts, fileVars, lives>>

(* The embedder or the database fails, or the vectors run out: what is     *)
(* updated and not committed stays in the shared connection's transaction. *)
ScanFails ==
  /\ index.pc # "idle"
  /\ index' = NoScan
  /\ scanned' = {}
  /\ UNCHANGED <<turnVars, indexHooks, hooks, vector, saved, counts, fileVars, lives>>

(* Any other operation may commit that transaction.                        *)
CommitOfAnother ==
  /\ saved # vector
  /\ saved' = vector
  /\ UNCHANGED <<turnVars, indexHooks, hooks, vector, index, scanned, counts, fileVars,
                 lives>>

(* Or roll it back (complete_tool_call): the rows stay without a vector.   *)
RollbackOfAnother ==
  /\ saved # vector
  /\ vector' = saved
  /\ index' = [index EXCEPT !.fetched = @ \ {i \in RowIds : vector[i] # saved[i]}]
  /\ UNCHANGED <<turnVars, indexHooks, hooks, saved, scanned, counts, fileVars, lives>>

-----------------------------------------------------------------------------
(* MEMORY.md.                                                              *)

(* Fault: one turn too late.                                               *)
DueAfter(n) == n > EveryN

Due(n) == n >= EveryN

(* The reflector's task begins: a turn that completes while its session    *)
(* reflects is not counted.                                                *)
Count(s) ==
  /\ hooks[s] > 0
  /\ hooks' = [hooks EXCEPT ![s] = @ - 1]
  /\ IF writer[s].pc # "idle" THEN UNCHANGED <<counts, writer>>
     ELSE IF ~Due(counts[s] + 1)
     THEN counts' = [counts EXCEPT ![s] = @ + 1] /\ UNCHANGED writer
     ELSE /\ counts' = [counts EXCEPT ![s] = 0]
          /\ writer' = [writer EXCEPT ![s].pc = "history"]
  /\ UNCHANGED <<turnVars, indexHooks, indexVars, file, edits, stale, written, cut,
                 overlapped, lives>>

(* A writer has read MEMORY.md and asks its model for the next version.    *)
Load(w, facts) ==
  /\ writer' = [writer EXCEPT ![w] = [NoWriter EXCEPT !.pc = "asking",
                                                     !.doc = file \cup facts]]
  /\ stale' = stale \ {w}

(* The history of the session is there, and MEMORY.md is loaded.           *)
Reflect(s) ==
  /\ writer[s].pc = "history"
  /\ Load(s, {i \in DOMAIN rows : rows[i].session = s /\ ~rows[i].blank})
  /\ UNCHANGED <<turnVars, indexHooks, hooks, indexVars, counts, file, edits, written,
                 cut, overlapped, lives>>

(* The agent finds MEMORY.md in its system prompt, or reads it.            *)
AgentReads ==
  /\ writer[Agent].pc = "idle" /\ edits < MaxEdits
  /\ edits' = edits + 1
  /\ Load(Agent, {-(edits + 1)})
  /\ UNCHANGED <<turnVars, indexHooks, hooks, indexVars, counts, file, written,
                 cut, overlapped, lives>>

(* A call that fails, or an empty answer, leaves the file alone.           *)
GiveUp(w) ==
  /\ writer[w].pc \in {"history", "asking"}
  /\ writer' = [writer EXCEPT ![w] = NoWriter]
  /\ UNCHANGED <<turnVars, indexHooks, hooks, indexVars, counts, file, edits, stale,
                 written, cut, overlapped, lives>>

(* Fault: the file itself is opened for writing.                           *)
Truncated == {}

Untouched == file

(* The reflector cuts an answer that is too long; which facts come first   *)
(* in it is up to the model.  Nothing cuts what the agent writes.          *)
Cuts(w) ==
  {off \in SUBSET writer[w].doc :
     IF w = Agent \/ Cardinality(writer[w].doc) <= MaxFacts THEN off = {}
     ELSE Cardinality(writer[w].doc \ off) = MaxFacts}

(* atomic_write_text blocks the event loop: between the temporary file and *)
(* the os.replace only a crash can come.                                   *)
WriteTemp(w) ==
  /\ writer[w].pc = "asking"
  /\ \E off \in Cuts(w) :
       writer' = [writer EXCEPT ![w] = [pc |-> "temp", doc |-> @.doc \ off, off |-> off]]
  /\ file' = Untouched
  /\ UNCHANGED <<turnVars, indexHooks, hooks, indexVars, counts, edits, stale, written,
                 cut, overlapped, lives>>

Replace(w) ==
  /\ writer[w].pc = "temp"
  /\ file' = writer[w].doc
  /\ writer' = [writer EXCEPT ![w] = NoWriter]
  /\ written' = written \cup writer[w].doc
  /\ cut' = (cut \cup writer[w].off) \ writer[w].doc
  /\ overlapped' = (overlapped \/ w \in stale)
  /\ stale' = {v \in Writers \ {w} : writer[v].pc = "asking"}
  /\ UNCHANGED <<turnVars, indexHooks, hooks, indexVars, counts, edits, lives>>

Blocked == \E w \in Writers : writer[w].pc = "temp"

-----------------------------------------------------------------------------
Crash ==
  /\ lives < MaxLives
  /\ lives' = lives + 1
  /\ turn' = [s \in Sessions |-> "idle"]
  /\ indexHooks' = 0 /\ hooks' = [s \in Sessions |-> 0]
  /\ vector' = saved
  /\ index' = NoScan /\ scanned' = {}
  /\ counts' = [s \in Sessions |-> 0]
  /\ writer' = [w \in Writers |-> NoWriter] /\ stale' = {}
  /\ UNCHANGED <<rows, turns, saved, file, edits, written, cut, overlapped>>

Turns(s) ==
  \/ \E blank \in BOOLEAN : Begin(s, blank)
  \/ \E reason \in {"end_turn", "max_turns"} : Complete(s, reason)
  \/ Reply(s)

Indexing ==
  \/ Scan \/ Embed \/ CommitBatch \/ ScanFails
  \/ \E i \in RowIds : StoreVector(i)
  \/ CommitOfAnother \/ RollbackOfAnother

Next ==
  \/ /\ ~Blocked
     /\ \/ \E s \in Sessions : Turns(s) \/ Count(s) \/ Reflect(s)
        \/ Indexing
        \/ AgentReads
        \/ \E w \in Writers : GiveUp(w) \/ WriteTemp(w)
  \/ \E w \in Writers : Replace(w)
  \/ Crash

Spec == Init /\ [][Next]_vars

-----------------------------------------------------------------------------
(* A vector is that of its own row's text, on disk and off, whatever is    *)
(* blank, fails half way or is committed by another operation, and none is *)
(* there before its row.                                                   *)
VectorsMatch ==
  \A i \in RowIds :
    \A v \in {vector[i], saved[i]} :
      v # Null => i \in DOMAIN rows /\ v = IF rows[i].blank THEN Skipped ELSE i

(* A scan that did not fail leaves no row that it fetched without a mark,  *)
(* so that old rows never keep others from their turn, but for what the    *)
(* rollback of another operation took back.                                *)
ScanCovers == \A i \in scanned : saved[i] # Null

(* "A crash mid-write leaves the original file intact" (atomic_io.py:11):  *)
(* MEMORY.md has every fact ever written to it, also after a crash, but    *)
(* for the facts cut off since by a reflection that grew too long, and     *)
(* unless a rewrite of another session or of the agent came between the    *)
(* reading and the writing of one.                                         *)
LedgerKeeps == ~overlapped => file = written \ cut
=============================================================================
