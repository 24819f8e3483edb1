-------------------------------- MODULE Store --------------------------------
(***************************************************************************)
(* The statements of concurrent SessionStore operations (store.py) on the  *)
(* one connection all tasks share.  The connection's thread runs one       *)
(* statement at a time, in the order asked for; between two statements of  *)
(* an operation other tasks run theirs.  Python's sqlite3 opens a          *)
(* transaction before the first INSERT or UPDATE, and it belongs to the    *)
(* connection, not to the operation.                                       *)
(* The names Store gives its specification leave room for those of Boot.   *)
(***************************************************************************)
EXTENDS FiniteSets

CONSTANT Tasks   \* each runs one operation

VARIABLES
  disk,      \* what is committed
  buf,       \* what the open transaction would add
  open,      \* connection.in_transaction
  up,        \* the process: running, crashed, recovered
  kind,      \* the operation of each task
  pc,        \* where it is
  disturbed, \* history: two operations overlapped, or a write broke off
  undone     \* history: the rows completions have rolled back

storeVars == <<disk, buf, open, up, kind, pc, disturbed, undone>>

(* A "write" is one statement and a commit: enqueue_inbound, start_turn,   *)
(* append_event, ...  A "complete" is complete_tool_call, whose call is in *)
(* tool_calls, pending, from the start.                                    *)
Needs == [write |-> {"row"}, complete |-> {"result", "status"}]

Facts(t) == {<<t, what>> : what \in Needs[kind[t]]}
AllFacts == Tasks \X {"row", "result", "status", "interrupted"}

Over == {"returned", "raised", "gone"}
Busy == {t \in Tasks : pc[t] \notin {"new"} \cup Over}

StoreTypeOK ==
  /\ disk \subseteq AllFacts
  /\ buf \subseteq AllFacts
  /\ open \in BOOLEAN
  /\ buf # {} => open
  /\ up \in {"running", "crashed", "recovered"}
  /\ kind \in [Tasks -> DOMAIN Needs]
  /\ pc \in [Tasks -> {"new", "written", "begun", "inserted", "updated",
                       "failing"} \cup Over]
  /\ disturbed \in BOOLEAN
  /\ undone \subseteq AllFacts

StoreInit ==
  /\ disk = {}
  /\ buf = {}
  /\ open = FALSE
  /\ up = "running"
  /\ kind \in [Tasks -> DOMAIN Needs]
  /\ pc = [t \in Tasks |-> "new"]
  /\ disturbed = FALSE
  /\ undone = {}

Goto(t, l) == pc' = [pc EXCEPT ![t] = l]

(* The first statement of an operation.                                    *)
Starts(t, k) == /\ up = "running"
                /\ kind[t] = k
                /\ pc[t] = "new"
                /\ disturbed' = (disturbed \/ Busy # {})

Continues(t, l) == /\ up = "running"
                   /\ pc[t] = l

-----------------------------------------------------------------------------
(* The connection.                                                         *)

(* INSERT or UPDATE: joins the transaction, or opens one.                  *)
Put(fact) == /\ buf' = buf \cup {fact}
             /\ open' = TRUE
             /\ UNCHANGED disk

(* commit(): whatever the transaction holds.                               *)
CommitAll == /\ disk' = disk \cup buf
             /\ buf' = {}
             /\ open' = FALSE

(* rollback(): whatever the transaction holds.                             *)
RollbackAll == /\ buf' = {}
               /\ open' = FALSE
               /\ UNCHANGED disk

-----------------------------------------------------------------------------
(* A simple write: execute, commit.                                        *)

Execute(t) ==
  /\ Starts(t, "write")
  /\ Put(<<t, "row">>)
  /\ Goto(t, "written")
  /\ UNCHANGED <<up, kind, undone>>

(* Fault: a write that fails rolls back.                                   *)
ExecuteRollsBack(t) ==
  /\ up = "running"
  /\ kind[t] = "write"
  /\ pc[t] = "new"
  /\ disturbed' = TRUE
  /\ RollbackAll
  /\ Goto(t, "raised")
  /\ UNCHANGED <<up, kind, undone>>

(* The statement fails, on a constraint for one.  The transaction opened   *)
(* for it stays open.                                                      *)
ExecuteFails(t) ==
  /\ up = "running"
  /\ kind[t] = "write"
  /\ pc[t] = "new"
  /\ disturbed' = TRUE
  /\ open' = TRUE
  /\ Goto(t, "raised")
  /\ UNCHANGED <<disk, buf, up, kind, undone>>

(* The thread commits also when the task that asked was cancelled.         *)
Commit(t) ==
  /\ Continues(t, "written")
  /\ CommitAll
  /\ \E l \in {"returned", "raised"} : Goto(t, l)
  /\ UNCHANGED <<up, kind, disturbed, undone>>

(* The task is cancelled while its statement runs, or the commit fails.    *)
CancelWrite(t) ==
  /\ Continues(t, "written")
  /\ Goto(t, "raised")
  /\ disturbed' = TRUE
  /\ UNCHANGED <<disk, buf, open, up, kind, undone>>

-----------------------------------------------------------------------------
(* complete_tool_call: BEGIN, INSERT, UPDATE, commit; rollback on whatever *)
(* is raised.                                                              *)

(* BEGIN fails inside a transaction, whoever opened it.                    *)
Begin(t) ==
  /\ Starts(t, "complete")
  /\ open' = TRUE
  /\ Goto(t, IF open THEN "failing" ELSE "begun")
  /\ UNCHANGED <<disk, buf, up, kind, undone>>

(* Fault: the statement commits by itself.                                 *)
InsertCommits(t) ==
  /\ Continues(t, "begun")
  /\ disk' = disk \cup buf \cup {<<t, "result">>}
  /\ buf' = {}
  /\ open' = FALSE
  /\ Goto(t, "inserted")
  /\ UNCHANGED <<up, kind, disturbed, undone>>

InsertResult(t) ==
  /\ Continues(t, "begun")
  /\ Put(<<t, "result">>)
  /\ Goto(t, "inserted")
  /\ UNCHANGED <<up, kind, disturbed, undone>>

UpdateStatus(t) ==
  /\ Continues(t, "inserted")
  /\ Put(<<t, "status">>)
  /\ Goto(t, "updated")
  /\ UNCHANGED <<up, kind, disturbed, undone>>

CommitPair(t) ==
  /\ Continues(t, "updated")
  /\ CommitAll
  /\ \E l \in {"returned", "failing"} : Goto(t, l)
  /\ UNCHANGED <<up, kind, disturbed, undone>>

(* Fault: `except Exception`, which a cancellation passes by.              *)
BreaksOpen(t) ==
  /\ \E l \in {"begun", "inserted", "updated"} : Continues(t, l)
  /\ Goto(t, "raised")
  /\ UNCHANGED <<disk, buf, open, up, kind, disturbed, undone>>

(* A statement fails or the task is cancelled.                             *)
Breaks(t) ==
  /\ \E l \in {"begun", "inserted", "updated"} : Continues(t, l)
  /\ Goto(t, "failing")
  /\ UNCHANGED <<disk, buf, open, up, kind, disturbed, undone>>

Rollback(t) ==
  /\ Continues(t, "failing")
  /\ RollbackAll
  /\ undone' = undone \cup buf
  /\ Goto(t, "raised")
  /\ UNCHANGED <<up, kind, disturbed>>

-----------------------------------------------------------------------------
(* A crash, and the start after it.                                        *)

Crash ==
  /\ up = "running"
  /\ up' = "crashed"
  /\ RollbackAll
  /\ pc' = [t \in Tasks |-> IF t \in Busy THEN "gone" ELSE pc[t]]
  /\ UNCHANGED <<kind, disturbed, undone>>

(* The rows mark_orphan_tool_calls_interrupted updates.                    *)
Orphans == {t \in Tasks : /\ kind[t] = "complete"
                          /\ <<t, "status">> \notin disk
                          /\ <<t, "result">> \notin disk}

Recover ==
  /\ up = "crashed"
  /\ up' = "recovered"
  /\ disk' = disk \cup {<<t, "interrupted">> : t \in Orphans}
  /\ UNCHANGED <<buf, open, kind, pc, disturbed, undone>>

Step(t) == \/ Execute(t) \/ ExecuteFails(t) \/ Commit(t) \/ CancelWrite(t)
           \/ Begin(t) \/ InsertResult(t) \/ UpdateStatus(t) \/ CommitPair(t)
           \/ Breaks(t) \/ Rollback(t)

StoreNext == (\E t \in Tasks : Step(t)) \/ Crash \/ Recover
StoreSpec == StoreInit /\ [][StoreNext]_storeVars

-----------------------------------------------------------------------------
(* Properties.                                                             *)

Whole(t) == Facts(t) \subseteq disk
Torn(t)  == ~Whole(t) /\ Facts(t) \cap disk # {}

(* As long as no two operations overlap and no write breaks off, an        *)
(* operation that returned is durable, no crash, failure or cancellation   *)
(* tears a result from its status (store.py:397), and after a restart      *)
(* every call is either completed with a result or interrupted.            *)
AtomicWhileAlone ==
  ~disturbed => \A t \in Tasks :
    /\ pc[t] = "returned" => Whole(t)
    /\ ~Torn(t)
    /\ up = "recovered" /\ kind[t] = "complete"
         => (Whole(t) <=> <<t, "interrupted">> \notin disk)

(* However operations overlap, what an operation that returned misses on   *)
(* disk is what the rollback of a failed complete_tool_call took from it.  *)
LossNeedsRollback ==
  \A t \in Tasks : pc[t] = "returned" => Facts(t) \subseteq disk \cup undone

BrokeOff(t) == kind[t] = "write" /\ pc[t] = "raised"

(* A transaction that outlives every operation was left by a simple write  *)
(* that failed or was cancelled, the one case without a rollback           *)
(* (store.py:379), and holds rows of such writes only: the next operation  *)
(* commits or drops nothing that anybody was told is done.  A              *)
(* complete_tool_call leaves none, however it ends (store.py:412).         *)
LeftByWrites ==
  Busy = {} => /\ open => \E t \in Tasks : BrokeOff(t)
               /\ \A fact \in buf : BrokeOff(fact[1])
=============================================================================
