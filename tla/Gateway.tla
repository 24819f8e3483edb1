------------------------------- MODULE Gateway -------------------------------
(***************************************************************************)
(* The delivery pipeline of pishkar: Gateway (gateway/gateway.py), the     *)
(* rows of `messages` and `turns` it relies on (workspace/store.py,        *)
(* observability/sqlite_sink.py), the handler wrapper of server.py, the    *)
(* recovery notice of runtime.py, and the life cycle around them: boot,    *)
(* recovery sweep, re-enqueue, graceful stop, crash.                       *)
(*                                                                         *)
(* One action per stretch of code between two awaits that matter.  A       *)
(* store operation (statement and commit) is one step here.                *)
(***************************************************************************)
EXTENDS Naturals, Sequences, FiniteSets

CONSTANTS
  Messages,   \* inbound messages, one per message_id
  Sessions,   \* session ids
  SessionOf,  \* the session_id of each message
  Shutdown,   \* gateway._SHUTDOWN, the sentinel stop() puts on every queue
  NoMsg,      \* "the worker holds no message"
  MaxLives,   \* bound: how many times the process is started
  DbFaults    \* whether a write to the store may raise

ASSUME GatewayAssumption ==
  /\ SessionOf \in [Messages -> Sessions]
  /\ IsFiniteSet(Messages)
  /\ Shutdown \notin Messages
  /\ NoMsg \notin Messages
  /\ MaxLives \in Nat
  /\ DbFaults \in BOOLEAN

VARIABLES
  \* Durable: the SQLite file.
  row,      \* messages.delivered_at of each inbound message, or no row yet
  stamp,    \* messages.timestamp
  turns,    \* the `turns` table, in insertion order
  \* Volatile: the process.
  phase,    \* where the lifespan of the server is; between two lives "down"
            \* after a crash, "stopped" when the process was told to stop
  queue,    \* Gateway._session_queues
  putting,  \* submit() calls between their commit and their q.put
  worker,   \* Gateway._session_workers: where each worker task is suspended
  cur,      \* the message each worker is dispatching
  turn,     \* the row of `turns` each worker's run_turn is writing, or 0
  flagged,  \* the interrupted-session set recover_on_startup hands over
  gathered, \* the workers a running stop() waits for
  \* History, read by properties only.
  life,     \* which start of the process this is
  outcome   \* what became of the latest dispatch of each message

durable  == <<row, stamp, turns>>
volatile == <<phase, queue, putting, worker, cur, turn, flagged, gathered>>
history  == <<life, outcome>>
vars     == <<durable, volatile, history>>

Idle       == {"none", "idle", "dead"}
Dispatching == {"taken", "prepared", "running", "closing", "cut"}
TurnRow    == [msg : Messages, life : Nat,
               state : {"open", "ended", "interrupted"},
               seen : {"nothing", "end", "error"}]
Outcomes   == {"none", "answered", "errored", "skipped", "cut", "unmarked"}
SeqRange(q) == {q[i] : i \in DOMAIN q}

TypeOK ==
  /\ row \in [Messages -> {"none", "undelivered", "delivered"}]
  /\ stamp \in [Messages -> Nat]
  /\ turns \in Seq(TurnRow)
  /\ phase \in {"stopped", "down", "recovering", "up", "stopping"}
  /\ queue \in [Sessions -> Seq(Messages \cup {Shutdown})]
  /\ putting \in Seq(Messages)
  /\ worker \in [Sessions -> Idle \cup Dispatching]
  /\ cur \in [Sessions -> Messages \cup {NoMsg}]
  /\ turn \in [Sessions -> Nat]
  /\ flagged \in SUBSET Sessions
  /\ gathered \in SUBSET Sessions
  /\ life \in Nat
  /\ outcome \in [Messages -> Outcomes]

Init ==
  /\ row = [m \in Messages |-> "none"]
  /\ stamp = [m \in Messages |-> 0]
  /\ turns = <<>>
  /\ phase = "stopped"
  /\ queue = [s \in Sessions |-> <<>>]
  /\ putting = <<>>
  /\ worker = [s \in Sessions |-> "none"]
  /\ cur = [s \in Sessions |-> NoMsg]
  /\ turn = [s \in Sessions |-> 0]
  /\ flagged = {}
  /\ gathered = {}
  /\ life = 0
  /\ outcome = [m \in Messages |-> "none"]

Note(m, what) == outcome' = [outcome EXCEPT ![m] = what]

-----------------------------------------------------------------------------
(* Submitting: Gateway.submit and Gateway._pump.                           *)

(* store.enqueue_inbound commits the row.  A channel stamps a message when *)
(* it builds it; here that is the order of the commits.                    *)
EnqueueInbound(m) ==
  /\ phase \in {"up", "stopping"}
  /\ row[m] = "none"
  /\ row' = [row EXCEPT ![m] = "undelivered"]
  /\ stamp' = [stamp EXCEPT ![m] =
                 1 + Cardinality({n \in Messages : row[n] # "none"})]
  /\ putting' = Append(putting, m)
  /\ UNCHANGED <<turns, phase, queue, worker, cur, turn, flagged, gathered>>
  /\ UNCHANGED history

(* Fault: the message is queued for a session without a worker.            *)
EnsureWorkerNot(s) == UNCHANGED worker

(* _ensure_session_worker: the queue and the task are made together.       *)
EnsureWorker(s) ==
  worker' = [worker EXCEPT ![s] = IF @ = "none" THEN "idle" ELSE @]

(* _enqueue, reached when the commit's await returns.  Commits go through  *)
(* one database thread, so the puts come in the order of the commits.      *)
Enqueue ==
  /\ putting # <<>>
  /\ LET m == Head(putting)
         s == SessionOf[m]
     IN  /\ EnsureWorker(s)
         /\ queue' = [queue EXCEPT ![s] = Append(@, m)]
  /\ putting' = Tail(putting)
  /\ UNCHANGED <<durable, phase, cur, turn, flagged, gathered, history>>

(* register_channel: a channel that attaches starts the session's worker.  *)
RegisterChannel(s) ==
  /\ phase = "up"
  /\ worker[s] = "none"
  /\ EnsureWorker(s)
  /\ UNCHANGED <<durable, phase, queue, putting, cur, turn, flagged, gathered>>
  /\ UNCHANGED history

-----------------------------------------------------------------------------
(* The worker of a session: _worker, _dispatch and the wrapped handler.    *)

(* q.get() returns.  The sentinel ends the worker; a message opens a       *)
(* dispatch.                                                               *)
Take(s) ==
  /\ worker[s] = "idle"
  /\ queue[s] # <<>>
  /\ queue' = [queue EXCEPT ![s] = Tail(@)]
  /\ IF Head(queue[s]) = Shutdown
     THEN /\ worker' = [worker EXCEPT ![s] = "dead"]
          /\ UNCHANGED <<cur, outcome>>
     ELSE /\ worker' = [worker EXCEPT ![s] = "taken"]
          /\ cur' = [cur EXCEPT ![s] = Head(queue[s])]
          /\ Note(Head(queue[s]), "none")
  /\ UNCHANGED <<durable, phase, putting, turn, flagged, gathered, life>>

(* The user-message event is logged and the handler assembles the turn:    *)
(* a flagged session gets the recovery notice, once.                       *)
Prepare(s) ==
  /\ worker[s] = "taken"
  /\ worker' = [worker EXCEPT ![s] = "prepared"]
  /\ flagged' = flagged \ {s}
  /\ UNCHANGED <<durable, phase, queue, putting, cur, turn, gathered>>
  /\ UNCHANGED <<life, outcome>>

(* Logging the user-message event raises: no turn runs, and the dispatch   *)
(* still reaches its `finally`.                                            *)
UserEventFails(s) ==
  /\ DbFaults
  /\ worker[s] = "taken"
  /\ worker' = [worker EXCEPT ![s] = "closing"]
  /\ Note(cur[s], "skipped")
  /\ UNCHANGED <<durable, phase, queue, putting, cur, turn, flagged, gathered>>
  /\ UNCHANGED life

(* TurnStart reaches the sink, which inserts the turn row.                 *)
StartTurn(s) ==
  /\ worker[s] = "prepared"
  /\ worker' = [worker EXCEPT ![s] = "running"]
  /\ turns' = Append(turns, [msg |-> cur[s], life |-> life,
                             state |-> "open", seen |-> "nothing"])
  /\ turn' = [turn EXCEPT ![s] = Len(turns) + 1]
  /\ UNCHANGED <<row, stamp, phase, queue, putting, cur, flagged, gathered>>
  /\ UNCHANGED history

(* TurnEnd reaches the sink, which closes the turn row, before the event   *)
(* is yielded to the channels.                                             *)
EndTurn(s) ==
  /\ worker[s] = "running"
  /\ worker' = [worker EXCEPT ![s] = "closing"]
  /\ turns' = [turns EXCEPT ![turn[s]] =
                              [@ EXCEPT !.state = "ended", !.seen = "end"]]
  /\ turn' = [turn EXCEPT ![s] = 0]
  /\ Note(cur[s], "answered")
  /\ UNCHANGED <<row, stamp, phase, queue, putting, cur, flagged, gathered>>
  /\ UNCHANGED life

(* The handler raises: the wrapper emits TurnEnd with an empty turn_id, so *)
(* end_turn updates no row and the turn keeps ended_at NULL.               *)
ErrorTurn(s) ==
  /\ worker[s] \in {"taken", "prepared", "running"}
  /\ worker' = [worker EXCEPT ![s] = "closing"]
  /\ turns' = IF worker[s] = "running"
              THEN [turns EXCEPT ![turn[s]] = [@ EXCEPT !.seen = "error"]]
              ELSE turns
  /\ turn' = [turn EXCEPT ![s] = 0]
  /\ Note(cur[s], "errored")
  /\ UNCHANGED <<row, stamp, phase, queue, putting, cur, flagged, gathered>>
  /\ UNCHANGED life

(* Fault: the UPDATE selects by session instead of by message_id.          *)
DeliveredBySession(m) ==
  row' = [n \in Messages |-> IF SessionOf[n] = SessionOf[m] /\ row[n] # "none"
                             THEN "delivered" ELSE row[n]]

(* The row update of store.mark_delivered.                                 *)
Delivered(m) == row' = [row EXCEPT ![m] = "delivered"]

(* `finally: mark_delivered`, then back to q.get().                        *)
MarkDelivered(s) ==
  /\ worker[s] = "closing"
  /\ Delivered(cur[s])
  /\ worker' = [worker EXCEPT ![s] = "idle"]
  /\ cur' = [cur EXCEPT ![s] = NoMsg]
  /\ UNCHANGED <<stamp, turns, phase, queue, putting, turn, flagged, gathered>>
  /\ UNCHANGED history

(* The dispatch is over and its row is not marked.                         *)
Unmarked(s) ==
  /\ DbFaults
  /\ worker[s] \in {"closing", "cut"}
  /\ Note(cur[s], "unmarked")
  /\ cur' = [cur EXCEPT ![s] = NoMsg]
  /\ turn' = [turn EXCEPT ![s] = 0]
  /\ UNCHANGED <<durable, phase, queue, putting, flagged, gathered>>
  /\ UNCHANGED life

(* Fault: without `except Exception` the failure ends the worker.          *)
MarkFailsKills(s) == /\ Unmarked(s)
                     /\ worker' = [worker EXCEPT ![s] = "dead"]

(* mark_delivered raises: _worker logs it and goes on with the next one,   *)
(* also when the error displaces the CancelledError of stop().             *)
MarkFails(s) == /\ Unmarked(s)
                /\ worker' = [worker EXCEPT ![s] = "idle"]

-----------------------------------------------------------------------------
(* Graceful shutdown: Gateway.stop.                                        *)

(* Fault: stop() relies on cancellation alone.                             *)
NoSentinel(s) == queue[s]

(* await q.put(_SHUTDOWN), for the sessions that have a queue.             *)
WithSentinel(s) == IF worker[s] = "none" THEN queue[s]
                   ELSE Append(queue[s], Shutdown)

(* Every queue gets the sentinel and every worker is cancelled.  A worker  *)
(* in q.get() dies.  In a dispatch the outcome depends on the await it is  *)
(* in: the CancelledError leaves the handler ("cut"), or is swallowed by   *)
(* suppress(BaseException) around send_event or by the approval router     *)
(* (no change), or breaks mark_delivered before its commit (dead).         *)
Stop ==
  /\ phase = "up"
  /\ life < MaxLives
  /\ phase' = "stopping"
  /\ gathered' = {s \in Sessions : worker[s] # "none"}
  /\ queue' = [s \in Sessions |-> WithSentinel(s)]
  /\ \E cut \in SUBSET {s \in Sessions : worker[s] \in Dispatching} :
     \E lost \in SUBSET ({s \in Sessions : worker[s] = "closing"} \ cut) :
       /\ worker' = [s \in Sessions |->
                       IF s \in cut THEN "cut"
                       ELSE IF s \in lost \/ worker[s] = "idle" THEN "dead"
                       ELSE worker[s]]
       /\ cur' = [s \in Sessions |-> IF s \in lost THEN NoMsg ELSE cur[s]]
       /\ outcome' = [m \in Messages |->
                        IF \E s \in cut : cur[s] = m /\ worker[s] # "closing"
                        THEN "cut" ELSE outcome[m]]
  /\ UNCHANGED <<durable, putting, turn, flagged, life>>

(* A cancelled dispatch still runs its `finally`; then the worker dies.    *)
CutMark(s) ==
  /\ worker[s] = "cut"
  /\ Delivered(cur[s])
  /\ worker' = [worker EXCEPT ![s] = "dead"]
  /\ cur' = [cur EXCEPT ![s] = NoMsg]
  /\ turn' = [turn EXCEPT ![s] = 0]
  /\ UNCHANGED <<stamp, turns, phase, queue, putting, flagged, gathered>>
  /\ UNCHANGED history

-----------------------------------------------------------------------------
(* The life of the process: main, the lifespan of create_app, a kill.      *)

(* Everything in memory is gone.                                           *)
ProcessGone(p) ==
  /\ phase' = p
  /\ queue' = [s \in Sessions |-> <<>>]
  /\ putting' = <<>>
  /\ worker' = [s \in Sessions |-> "none"]
  /\ cur' = [s \in Sessions |-> NoMsg]
  /\ turn' = [s \in Sessions |-> 0]
  /\ flagged' = {}
  /\ gathered' = {}

(* stop() has gathered its workers; the store closes, the process exits.   *)
Exit ==
  /\ phase = "stopping"
  /\ \A s \in gathered : worker[s] = "dead"
  /\ ProcessGone("stopped")
  /\ UNCHANGED <<durable, history>>

(* A crash, a kill or a power cut, at any point.  A service manager that   *)
(* kills what it was told to stop takes it for stopped.                    *)
Crash ==
  /\ phase \notin {"down", "stopped"}
  /\ life < MaxLives
  /\ ProcessGone(IF phase = "stopping" THEN "stopped" ELSE "down")
  /\ UNCHANGED <<durable, history>>

Boot ==
  /\ phase \in {"down", "stopped"}
  /\ phase' = "recovering"
  /\ life' = life + 1
  /\ outcome' = [m \in Messages |->
                   IF row[m] = "delivered" THEN outcome[m] ELSE "none"]
  /\ UNCHANGED <<durable, queue, putting, worker, cur, turn, flagged, gathered>>

(* One round of the loop of recover_on_startup over the turns with         *)
(* ended_at NULL: note the session, stamp the turn.                        *)
RecoverTurn(i) ==
  /\ phase = "recovering"
  /\ i \in DOMAIN turns
  /\ turns[i].state = "open"
  /\ turns' = [turns EXCEPT ![i] = [@ EXCEPT !.state = "interrupted"]]
  /\ flagged' = flagged \cup {SessionOf[turns[i].msg]}
  /\ UNCHANGED <<row, stamp, phase, queue, putting, worker, cur, turn, gathered>>
  /\ UNCHANGED <<life, outcome>>

(* Fault: the sweep looks at the latest turn only.                         *)
LatestSwept == IF turns = <<>> THEN TRUE ELSE turns[Len(turns)].state # "open"

(* The loop of recover_on_startup is done: no turn has ended_at NULL.      *)
Swept == \A i \in DOMAIN turns : turns[i].state # "open"

(* Fault: the SELECT forgets `delivered_at IS NULL`.                       *)
EveryRow(s) == {m \in Messages : row[m] # "none" /\ SessionOf[m] = s}

(* fetch_undelivered_inbound: the rows of s still to deliver.              *)
Backlog(s) == {m \in Messages : row[m] = "undelivered" /\ SessionOf[m] = s}

(* Fault: no ORDER BY.                                                     *)
AnyOrder(q, S) == SeqRange(q) = S /\ Len(q) = Cardinality(S)

(* q holds exactly the messages of S, ORDER BY timestamp.                  *)
InOrder(q, S) ==
  /\ SeqRange(q) = S
  /\ \A i, j \in DOMAIN q : i < j => stamp[q[i]] < stamp[q[j]]

(* After the sweep, Gateway.start fetches the backlog and fills the queues *)
(* without giving the workers a chance to run.                             *)
StartGateway ==
  /\ phase = "recovering"
  /\ Swept
  /\ phase' = "up"
  /\ queue' \in [Sessions -> UNION {[1..n -> Messages] :
                                      n \in 0..Cardinality(Messages)}]
  /\ \A s \in Sessions : InOrder(queue'[s], Backlog(s))
  /\ worker' = [s \in Sessions |-> IF Backlog(s) = {} THEN "none" ELSE "idle"]
  /\ UNCHANGED <<durable, putting, cur, turn, flagged, gathered, history>>

(* Restart=on-failure (KeepAlive SuccessfulExit=False): the service        *)
(* manager starts a process that crashed, and only that one.               *)
Restart == phase = "down" /\ Boot

-----------------------------------------------------------------------------
WorkerStep(s) == \/ Take(s) \/ Prepare(s) \/ UserEventFails(s) \/ StartTurn(s)
                 \/ EndTurn(s) \/ ErrorTurn(s) \/ MarkDelivered(s)
                 \/ MarkFails(s) \/ CutMark(s)

Recover == \E i \in DOMAIN turns : RecoverTurn(i)

Next == \/ \E m \in Messages : EnqueueInbound(m)
        \/ Enqueue
        \/ \E s \in Sessions : RegisterChannel(s) \/ WorkerStep(s)
        \/ Stop \/ Exit \/ Crash \/ Boot \/ Recover \/ StartGateway

(* The event loop runs every task that is ready, a turn ends or fails      *)
(* (tool calls and approvals have timeouts, the provider's client has its  *)
(* own), and the service manager restarts a process that crashed.  Nobody  *)
(* has to submit, stop, crash, or start what was stopped.                  *)
Fairness == /\ \A s \in Sessions : WF_vars(WorkerStep(s))
            /\ WF_vars(Enqueue) /\ WF_vars(Exit)
            /\ WF_vars(Restart) /\ WF_vars(Recover) /\ WF_vars(StartGateway)

Spec     == Init /\ [][Next]_vars
FairSpec == Spec /\ Fairness

-----------------------------------------------------------------------------
(* Properties.                                                             *)

(* While the server is up, no accepted message is forgotten: an            *)
(* undelivered row is on its way to a queue, in the queue of a session     *)
(* whose worker is alive, or being dispatched; only a failed               *)
(* mark_delivered leaves one for the next start.                           *)
AcceptedIsHeld ==
  phase = "up" =>
    \A m \in Messages : row[m] = "undelivered" =>
      \/ m \in SeqRange(putting)
      \/ /\ worker[SessionOf[m]] \in {"idle"} \cup Dispatching
         /\ m \in SeqRange(queue[SessionOf[m]]) \/ m = cur[SessionOf[m]]
      \/ outcome[m] = "unmarked"

(* A row is marked delivered only for a message that was dispatched: its   *)
(* turn ended or failed, the dispatch failed before the turn, or stop()    *)
(* cut it.  A crash at any point leaves it undelivered.                    *)
DeliveredWasDispatched ==
  \A m \in Messages : row[m] = "delivered"
                      => outcome[m] \in {"answered", "errored", "skipped", "cut"}

(* The turn rows that some run_turn of this process may still be writing.  *)
Live(i) == turns[i].state = "open" /\ turns[i].seen = "nothing"

(* "Within a session we never run two turns in parallel"                   *)
(* (gateway.py:17), told from the turns table, which also holds the turns  *)
(* of earlier lives: the sweep has closed those before a worker starts.    *)
SerialTurns ==
  phase = "up" =>
    \A i, j \in DOMAIN turns :
      Live(i) /\ Live(j) /\ SessionOf[turns[i].msg] = SessionOf[turns[j].msg]
        => i = j

(* Between two starts of the process the turns of a session run in the     *)
(* order of the messages' timestamps, and no message gets two turns,       *)
(* whether it came through submit() or through the re-enqueue of start().  *)
TurnsInOrder ==
  \A i, j \in DOMAIN turns :
    /\ i < j
    /\ turns[i].life = turns[j].life
    /\ SessionOf[turns[i].msg] = SessionOf[turns[j].msg]
    => stamp[turns[i].msg] < stamp[turns[j].msg]

(* No turn is started for a message that is already marked delivered: a    *)
(* restart repeats work only for rows left undelivered.                    *)
NoTurnAfterDelivery ==
  [][Len(turns') > Len(turns)
       => row[turns'[Len(turns')].msg] = "undelivered"]_vars

(* The gateway implements the abstract inbox: rows are the promise,        *)
(* queues, tasks and restarts only move a message through it.              *)
Abstract == INSTANCE Inbox
  WITH pending <- {m \in Messages : row[m] = "undelivered"},
       settled <- {m \in Messages : row[m] = "delivered"},
       serving <- cur
ImplementsInbox == Abstract!Spec

(* Every accepted message is settled in the end, across crashes and        *)
(* restarts, unless the mark itself fails and no restart follows, or       *)
(* somebody stops the server: then the row waits until somebody starts it, *)
(* and from there the same holds of it again.                              *)
AcceptedIsSettled ==
  \A m \in Messages :
    row[m] = "undelivered" ~> \/ row[m] = "delivered"
                              \/ outcome[m] = "unmarked"
                              \/ phase = "stopped"

(* stop() returns: every worker it waits for dies, also one that swallowed *)
(* its cancellation, and the process exits.                                *)
StopCompletes == phase = "stopping" ~> phase = "stopped"

(* architecture.md:536, "survives crashes and downtime without losing      *)
(* in-flight work": a delivered message has had its turn to the end.       *)
DeliveredWasAnswered ==
  \A m \in Messages :
    row[m] = "delivered" => outcome[m] \in {"answered", "errored"}
=============================================================================
