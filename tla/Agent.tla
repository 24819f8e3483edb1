-------------------------------- MODULE Agent --------------------------------
(***************************************************************************)
(* The agent loop of one session: run_turn (core/agent.py) with its model  *)
(* calls, tool calls and compaction, the history build_handler keeps for   *)
(* the session (runtime.py), and what the sink and the handler wrapper     *)
(* write about it to tool_calls, tool_results and messages.  Turns of a    *)
(* session are serial (module Gateway); a store operation is one step.     *)
(***************************************************************************)
EXTENDS Compact

CONSTANTS
  NumMessages, \* bound: inbound messages of the session, numbered from 1
  MaxTurns,    \* max_turns: model calls of a turn
  MaxMessages, \* max_messages of compact()
  MaxCalls,    \* bound: tool calls of a reply
  Replies,     \* what the model may answer
  MaxLives     \* bound: how many times the process is started

ASSUME AgentAssumption ==
  /\ NumMessages \in Nat
  /\ MaxTurns \in Nat
  /\ MaxMessages \in Nat
  /\ MaxCalls \in Nat
  /\ Replies \subseteq [calls : 0..MaxCalls, text : BOOLEAN,
                        given : {"first", "later", "never"}]
  /\ MaxLives \in Nat

VARIABLES
  \* Durable.
  rows,      \* `messages` of the session, by timestamp
  delivered, \* the inbound messages with delivered_at
  log,       \* `tool_calls`: the status of each row, by tool_call_id
  \* Volatile.
  life,      \* which start of the process this is; it is up unless `down`
  hist,      \* histories[session_id], or <<>> before it is loaded
  loaded,    \* whether it is
  pc,        \* where run_turn is suspended
  cur,       \* the message of the turn
  steps,     \* model calls of the turn so far
  todo,      \* the tool calls of the reply still to run
  said,      \* whether text_buf holds any text
  \* History, read by properties only.
  cut,       \* messages whose turn of this life ended in an error or a loop
  fresh      \* the tool calls of the turn's latest reply

store == <<rows, delivered, log>>
vars  == <<store, life, hist, loaded, pc, cur, steps, todo, said, cut, fresh>>

Inbound == 1..NumMessages

(* Ids of tool calls: one the provider gave, unique, in the first delta of *)
(* the call or in a later one; one made up here from an index; or the      *)
(* empty string.                                                           *)
Named(delta) == {<<delta, m, l, n, k>> : m \in Inbound, l \in 1..MaxLives,
                                         n \in 1..MaxTurns, k \in 0..MaxCalls - 1}
FirstIds  == Named("first")
LaterIds  == Named("later")
GivenIds  == FirstIds \cup LaterIds
MadeUpIds == {<<"call", k>> : k \in 0..MaxCalls}
NoId      == <<"">>
Ids       == GivenIds \cup MadeUpIds \cup {NoId}

(* Messages of the history: `of` is the message whose turn they are from.  *)
Message == [kind : Kinds, of : Inbound, ids : SUBSET Ids]
Call    == [logged : Ids, summary : Ids, result : Ids]

TypeOK ==
  /\ rows \in Seq([dir : {"inbound", "outbound"}, of : Inbound])
  /\ delivered \subseteq Inbound
  /\ DOMAIN log \subseteq Ids
  /\ \A id \in DOMAIN log : log[id] \in {"pending", "completed", "interrupted"}
  /\ life \in 0..MaxLives
  /\ hist \in Seq(Message)
  /\ loaded \in BOOLEAN
  /\ pc \in {"down", "idle", "ask", "model", "tools", "end", "closing"}
  /\ cur \in 0..NumMessages
  /\ steps \in 0..MaxTurns
  /\ todo \in Seq(Call)
  /\ said \in BOOLEAN
  /\ cut \subseteq Inbound
  /\ fresh \subseteq Ids

Init ==
  /\ rows = <<>>
  /\ delivered = {}
  /\ log = [id \in {} |-> "pending"]
  /\ life = 0
  /\ hist = <<>>
  /\ loaded = FALSE
  /\ pc = "down"
  /\ cur = 0
  /\ steps = 0
  /\ todo = <<>>
  /\ said = FALSE
  /\ cut = {}
  /\ fresh = {}

Submitted == {rows[i].of : i \in {j \in DOMAIN rows : rows[j].dir = "inbound"}}

(* The gateway accepts the next message.                                   *)
Submit ==
  /\ pc # "down"
  /\ Cardinality(Submitted) < NumMessages
  /\ rows' = Append(rows, [dir |-> "inbound",
                           of |-> Cardinality(Submitted) + 1])
  /\ UNCHANGED <<delivered, log, life, hist, loaded, pc,
                 cur, steps, todo, said, cut, fresh>>

-----------------------------------------------------------------------------
(* The turn.                                                               *)

(* _hydrate: every row of the session, in either direction.                *)
Hydrated ==
  [i \in DOMAIN rows |->
     [kind |-> IF rows[i].dir = "inbound" THEN "user" ELSE "prose",
      of |-> rows[i].of, ids |-> {}]]

(* _ensure_history.                                                        *)
History == IF loaded THEN hist ELSE Hydrated

(* Fault: a history just loaded is taken to end with the message.          *)
BeginHydrated(m) ==
  /\ pc = "idle"
  /\ m \in Submitted \ delivered
  /\ \A n \in Submitted \ delivered : m <= n
  /\ hist' = IF loaded THEN Append(hist, [kind |-> "user", of |-> m, ids |-> {}])
             ELSE Hydrated
  /\ loaded' = TRUE
  /\ pc' = "ask"
  /\ cur' = m
  /\ steps' = 0
  /\ said' = FALSE
  /\ fresh' = {}
  /\ UNCHANGED <<rows, delivered, log, life, todo, cut>>

(* The next message of the session is dispatched: run_turn appends it.     *)
Begin(m) ==
  /\ pc = "idle"
  /\ m \in Submitted \ delivered
  /\ \A n \in Submitted \ delivered : m <= n
  /\ hist' = Append(History, [kind |-> "user", of |-> m, ids |-> {}])
  /\ loaded' = TRUE
  /\ pc' = "ask"
  /\ cur' = m
  /\ steps' = 0
  /\ said' = FALSE
  /\ fresh' = {}
  /\ UNCHANGED <<store, life, todo, cut>>

(* compact(history), of messages instead of kinds.                         *)
Compacted(h) == Pick(h, Kept([i \in DOMAIN h |-> h[i].kind], MaxMessages))

(* Fault: the loop has no bound.                                           *)
AskForever ==
  /\ pc = "ask"
  /\ hist' = Compacted(hist)
  /\ pc' = "model"
  /\ UNCHANGED <<store, life, loaded, cur, steps, todo, said, cut, fresh>>

(* Fault: one round too many.                                              *)
AskOnceMore ==
  /\ pc = "ask"
  /\ steps <= MaxTurns
  /\ hist' = Compacted(hist)
  /\ steps' = steps + 1
  /\ pc' = "model"
  /\ UNCHANGED <<store, life, loaded, cur, todo, said, cut, fresh>>

(* One round of the loop begins: compact, then call the model.             *)
Ask ==
  /\ pc = "ask"
  /\ steps < MaxTurns
  /\ hist' = Compacted(hist)
  /\ steps' = steps + 1
  /\ pc' = "model"
  /\ UNCHANGED <<store, life, loaded, cur, todo, said, cut, fresh>>

(* The loop is exhausted.                                                  *)
OutOfTurns ==
  /\ pc = "ask"
  /\ steps = MaxTurns
  /\ pc' = "end"
  /\ UNCHANGED <<store, life, hist, loaded, cur,
                 steps, todo, said, cut, fresh>>

(* The k-th call of a reply.  The content block that is logged opens at    *)
(* its first delta and has the id of that one, or none.  If no delta has   *)
(* one the summary numbers the calls, and the result numbers the blocks,   *)
(* among which there may be one of text.                                   *)
CallOf(r, k) ==
  LET given == <<r.given, cur, life, steps, k>>
      block == IF r.text THEN k + 1 ELSE k
  IN  [logged  |-> IF r.given = "first" THEN given ELSE NoId,
       summary |-> IF r.given = "never" THEN <<"call", k>> ELSE given,
       result  |-> IF r.given = "never" THEN <<"call", block>> ELSE given]

CallsOf(r) == [k \in 1..r.calls |-> CallOf(r, k - 1)]

(* record_tool_call of some new calls; a row that exists stays as it is.   *)
Recorded(ids) ==
  [id \in DOMAIN log \cup ids |->
     IF id \in DOMAIN log THEN log[id] ELSE "pending"]

(* The reply is complete: its calls are in the log and in the history.     *)
Reply(r) ==
  LET calls == CallsOf(r)
      ids   == {calls[k].summary : k \in DOMAIN calls}
  IN  /\ pc = "model"
      /\ log' = Recorded({calls[k].logged : k \in DOMAIN calls})
      /\ hist' = Append(hist, [kind |-> IF r.calls = 0 THEN "prose" ELSE "calls",
                               of |-> cur, ids |-> ids])
      /\ said' = (said \/ r.text)
      /\ todo' = calls
      /\ fresh' = ids
      /\ pc' = IF r.calls = 0 THEN "end" ELSE "tools"
      /\ UNCHANGED <<rows, delivered, life, loaded, cur, steps, cut>>

(* An exception leaves run_turn: the wrapper reports the error, and the    *)
(* text said so far is not recorded.                                       *)
Broken == /\ pc' = "closing"
          /\ cut' = cut \cup {cur}
          /\ todo' = <<>>
          /\ said' = FALSE

(* The model's stream breaks after some of its blocks were logged.         *)
ModelFails(r) ==
  LET calls == CallsOf(r)
  IN  /\ pc = "model"
      /\ log' = Recorded({calls[k].logged : k \in DOMAIN calls})
      /\ Broken
      /\ UNCHANGED <<rows, delivered, life, hist, loaded, cur, steps, fresh>>

(* complete_tool_call: a result needs a row of tool_calls, and a row has   *)
(* one result; else the IntegrityError is passed over.                     *)
Completed(id) ==
  [i \in DOMAIN log |-> IF i = id THEN "completed" ELSE log[i]]

(* The first of the calls has run, its result is logged and appended.      *)
RunTool ==
  LET c == Head(todo)
  IN  /\ pc = "tools"
      /\ log' = Completed(c.result)
      /\ hist' = Append(hist, [kind |-> "tool", of |-> cur, ids |-> {c.result}])
      /\ todo' = Tail(todo)
      /\ pc' = IF Len(todo) = 1 THEN "ask" ELSE "tools"
      /\ UNCHANGED <<rows, delivered, life, loaded, cur,
                     steps, said, cut, fresh>>

(* The runner raises (the approval prompt meets a dead socket, or its      *)
(* decision cannot be recorded), or the write of the result does.          *)
ToolFails ==
  /\ pc = "tools"
  /\ Broken
  /\ UNCHANGED <<store, life, hist, loaded, cur, steps, fresh>>

(* The loop guard trips: the turn ends without running the rest.           *)
LoopDetected ==
  /\ pc = "tools"
  /\ pc' = "end"
  /\ todo' = <<>>
  /\ cut' = cut \cup {cur}
  /\ UNCHANGED <<store, life, hist, loaded, cur, steps, said, fresh>>

(* TurnEnd: what was said becomes an outbound row, unless that fails.      *)
EndTurn ==
  /\ pc = "end"
  /\ pc' = "closing"
  /\ rows' \in {rows} \cup
       (IF said THEN {Append(rows, [dir |-> "outbound", of |-> cur])} ELSE {})
  /\ UNCHANGED <<delivered, log, life, hist, loaded, cur,
                 steps, todo, said, cut, fresh>>

(* The gateway marks the message delivered.                                *)
MarkDelivered ==
  /\ pc = "closing"
  /\ delivered' = delivered \cup {cur}
  /\ pc' = "idle"
  /\ cur' = 0
  /\ UNCHANGED <<rows, log, life, hist, loaded,
                 steps, todo, said, cut, fresh>>

-----------------------------------------------------------------------------
(* The process.                                                            *)

Crash ==
  /\ pc # "down"
  /\ life < MaxLives
  /\ pc' = "down"
  /\ hist' = <<>>
  /\ loaded' = FALSE
  /\ cur' = 0
  /\ steps' = 0
  /\ todo' = <<>>
  /\ said' = FALSE
  /\ cut' = {}
  /\ fresh' = {}
  /\ UNCHANGED <<store, life>>

(* Fault: the start leaves the log alone.                                  *)
Unswept == log

(* mark_orphan_tool_calls_interrupted.                                     *)
Swept == [id \in DOMAIN log |->
            IF log[id] = "pending" THEN "interrupted" ELSE log[id]]

Boot ==
  /\ pc = "down"
  /\ life < MaxLives
  /\ life' = life + 1
  /\ log' = Swept
  /\ pc' = "idle"
  /\ UNCHANGED <<rows, delivered, hist, loaded, cur,
                 steps, todo, said, cut, fresh>>

TurnStep == \/ Ask \/ OutOfTurns \/ RunTool \/ ToolFails \/ LoopDetected
            \/ EndTurn \/ MarkDelivered
            \/ \E r \in Replies : Reply(r) \/ ModelFails(r)

Next == \/ Submit \/ Crash \/ Boot \/ TurnStep
        \/ \E m \in Inbound : Begin(m)

(* The model's answer and every tool call come to an end; nobody has to    *)
(* submit or crash.                                                        *)
Spec     == Init /\ [][Next]_vars
FairSpec == Spec /\ WF_vars(TurnStep)

-----------------------------------------------------------------------------
(* Properties.                                                             *)

(* The result at position p stands in the block of the calls at q.         *)
Answers(h, p, q) ==
  /\ h[q].kind = "calls"
  /\ q < p
  /\ \A k \in q + 1..p : h[k].kind = "tool"

(* What the model is sent never holds a result without the call it         *)
(* answers, whatever was compacted (compaction.py:6-8); an id that was made *)
(* up here may not be the call's, as it numbers the blocks and not the     *)
(* calls (agent.py:237 and 306).                                           *)
ResultsAnswerCalls ==
  \A p \in DOMAIN hist :
    hist[p].kind = "tool" =>
      \E q \in DOMAIN hist :
        /\ Answers(hist, p, q)
        /\ hist[p].ids \subseteq hist[q].ids \cup MadeUpIds

(* When the model is asked, every call it made before has its results,     *)
(* except in turns that an error or the loop guard ended half way.         *)
CallsHaveResults ==
  pc = "model" =>
    \A q \in DOMAIN hist : hist[q].kind = "calls" /\ hist[q].of \notin cut =>
      \A id \in hist[q].ids :
        \E p \in DOMAIN hist : /\ Answers(hist, p, q)
                               /\ hist[p].ids = {id} \/ id \in MadeUpIds

(* What the provider's protocol asks of a conversation, both ways.         *)
CallsAndResultsPair == ResultsAnswerCalls /\ CallsHaveResults

(* The model is asked about the current message: no other message follows  *)
(* it in the history but what this turn produced, whatever was hydrated,   *)
(* compacted or left behind by a turn that broke.                          *)
AsksCurrent ==
  pc = "model" =>
    \E u \in DOMAIN hist :
      /\ hist[u].kind = "user" /\ hist[u].of = cur
      /\ \A p \in DOMAIN hist : p > u => hist[p].kind # "user" /\ hist[p].of = cur

(* A model that called tools is told their results: compaction drops older *)
(* things first, so the latest calls and results stay as long as they fit  *)
(* beside the messages of the user, which are never dropped.               *)
FreshResultsSeen ==
  LET users == {u \in DOMAIN hist : hist[u].kind = "user"}
  IN  pc = "model" /\ fresh # {} /\ fresh \subseteq GivenIds
        /\ Cardinality(users) + Cardinality(fresh) + 1 <= MaxMessages
      => /\ \E q \in DOMAIN hist : hist[q].kind = "calls" /\ hist[q].ids = fresh
         /\ \A id \in fresh :
              \E p \in DOMAIN hist : hist[p].kind = "tool" /\ hist[p].ids = {id}

(* A call named in its first delta, whose result the model is told, is     *)
(* completed in the log, never pending or interrupted, also after a crash  *)
(* and a restart.                                                          *)
ResultsAreLogged ==
  \A p \in DOMAIN hist :
    hist[p].kind = "tool" =>
      \A id \in hist[p].ids \cap FirstIds :
        id \in DOMAIN log /\ log[id] = "completed"

(* Such a call, while the log shows it as pending, is about to run or      *)
(* belongs to a turn of this life that broke: none survives a restart.     *)
PendingIsOurs ==
  \A id \in DOMAIN log \cap FirstIds :
    log[id] = "pending" /\ pc # "down" =>
      /\ id[3] = life
      /\ id[2] = cur \/ id[2] \in cut

(* All the other calls share the row of the empty id, which tells nothing  *)
(* of them: no result ever completes it, whatever became of the calls.     *)
OthersShareARow ==
  /\ DOMAIN log \subseteq FirstIds \cup {NoId}
  /\ NoId \in DOMAIN log => log[NoId] \in {"pending", "interrupted"}

(* The tool log says of a call that its provider named in the first delta  *)
(* what became of it: what the model was told of is completed, and what is *)
(* pending may still run.  Of calls named later or not at all it says that *)
(* one is pending, until a start makes it interrupted, also if they ran.   *)
LogAgrees == ResultsAreLogged /\ PendingIsOurs /\ OthersShareARow

(* Every turn ends, however the model and the tools go on.                 *)
TurnsEnd == pc \notin {"idle", "down"} ~> pc \in {"idle", "down"}
=============================================================================
