# A TLA+ model of pishkar

pishkar is a personal AI agent that runs as one Python asyncio process: users
talk to it over WebSockets and Telegram, a gateway serialises their messages
per session, an agent loop calls a language model and runs tools with the
user's consent, and one SQLite file holds what has to survive a restart.

This directory holds TLA+ modules that model its concurrent and durable core,
TLC configurations that check them on small instances, and proofs checked by
TLAPS. Paths below are relative to `src/`; `PROJECT.json` maps every definition
to the lines it models.

## Inventory

| Part (source) | State | Operations | What is hard | What makes it correct |
|---|---|---|---|---|
| Gateway (`pishkar/gateway/gateway.py`) | queue, worker and channels per session | submit, register/detach channel, worker loop, start, stop | crash and graceful stop at every await, swallowed cancellations, failing writes | accepted messages are held and settled, turns are serial and in order |
| Server lifespan, handler wrapper (`server.py`) | phase of the process | boot, recovery, start, stop; echo, tee to the log, error turn | order of recovery and start, errors half way | sweep before workers; one dispatch ends one way |
| Startup recovery (`runtime.py` 197-218) | set of flagged sessions | sweep of open turns and pending tool calls, notice | a second crash | every interrupted turn gets its notice |
| Session store (`workspace/store.py`) | messages, turns, tool_calls, tool_results, events, governance_decisions, token_spend, user_prefs | one method per write or query | one connection shared by all tasks, implicit transactions | an operation is atomic and durable when it returns |
| Approval router and gate (`gateway/approval_router.py`, `tools/approval_gate.py`, `tools/trust.py`) | channels and pending futures per session, tools allowed per session | check, request, resolve, bind, unbind | timeout against answer against disconnect | a gated tool runs by consent only; no request hangs |
| WebSocket channel and endpoint (`channels/ws.py`, `server.py` 231-285) | socket, closed flag | connect, replay, inbound, send, disconnect | reconnect before the old socket is noticed dead; gap between replay and live | events are applied in the log's order, once; a miss has one of three reasons |
| Telegram (`channels/telegram.py`) | session and channel per chat, text buffer per channel | messages, commands, buttons, rotation | buttons of an earlier session; rotation while a turn runs; chats that share a session | a post is one turn's text; tables name open channels |
| Agent loop (`core/agent.py`, `loop_guard.py`, `compaction.py`) | history of the session | run_turn | exceptions between a tool call and its result, missing ids | history stays well formed for the provider |
| Event sink and log (`observability/sqlite_sink.py`) | events, turns, tool_calls | write_event, fold | repeated and missing ids | the log tells what became of a call that is named in time |
| Budget (`providers/budgeted.py`) | fired alerts, token_spend | check, stream, alert | check-then-act of concurrent turns | the overspend is bounded by what is in flight; alerts rise |
| Fallback chain (`runtime.py` 287-375) | model selection | dispatch with fallback | failure after the first chunk | the answer comes from one model |
| User registry (`gateway/user_registry.py`) | channels per user | register, unregister, broadcast | identity of bound methods | a new session is told to a chat once at most |
| Memory, loader, atomic files (`workspace/`) | embeddings, files | scan in batches, replace | busy-drop, half a batch in the shared transaction, crash in a write | a vector is its row's; a scan skips nothing; files are whole |
| Reflector (`observability/reflector.py`) | turn counts, busy flag, MEMORY.md | read, ask, write | the agent or another session writes meanwhile | no fact is lost but to an overlapping rewrite or the cut at 32,000 characters |
| Heartbeat, webhook (`triggers/`) | cron file | tick, submit, save | crash between submit and save | a job fires once per interval |
| MCP (`tools/mcp_bridge.py`, `mcp_config.py`) | clients, registry | connect, register, call, close | failure half way, a server that hangs, names that collide | kept servers are complete; no connect holds up the startup |
| Web client state (`ui/src/state/store.ts`, `api/socket.ts`) | turns, approvals, last event id | applyEvent, reconnect | replayed and live events mixed | what is applied is the log, in order |

How they interact: channels call `Gateway.submit`, which commits a row and puts
the message on the queue of its session; the session's worker task calls the
wrapped handler (`server.py`), which runs `run_turn`, tees every event to the
sink, and hands it back to the worker for the channels. A tool call goes
through runner, gate and router, out over a channel as an `ApprovalRequest` and
back through the WebSocket's receive loop or a Telegram callback, which resolve
a future. All of them share one event loop and one database connection.
Everything but the SQLite file is lost in a crash.

## Modules

| Module | What it is |
|---|---|
| `Inbox` | Abstract specification of the gateway: pending, settled, serving. |
| `Gateway` | The delivery pipeline with crash, restart, graceful stop and failing writes, and its properties. |
| `MCGateway` | Its instances for TLC. |
| `GatewayProofs` | Its inductive invariant, the theorems, the refinement of `Inbox`, and the theorems on the turns of a session. |
| `Approvals` | Consent for tool calls across channels that come and go, and its properties. |
| `MCApprovals` | Its instances for TLC. |
| `ApprovalsProofs` | Its inductive invariant and theorems. |
| `Compact` | What `compact()` keeps, in closed form. |
| `Compaction` | `compact()` as it runs, checked against `Compact`. |
| `Agent` | The agent loop of a session: history, tool log, compaction, restarts. Extends `Compact`. |
| `MCAgent` | The replies of the model in the instances of `Agent`. |
| `AgentProofs` | The inductive invariants and theorems of `Agent` and of `Compaction`. |
| `Store` | The statements of concurrent store operations on the one database connection. |
| `MCStore` | Its instances for TLC. |
| `Stream` | The events of a session on their way to web clients: log, replay, live fan-out, reconnecting client. |
| `MCStream` | Its instance for TLC. |
| `StreamProofs` | Its inductive invariant and theorems. |
| `Spend` | The daily budget over concurrent model calls, the fallback chain, alerts, the second booking. |
| `MCSpend` | Its instance for TLC. |
| `SpendProofs` | Its inductive invariant and theorems. |
| `Telegram` | Sessions, channel objects and routing tables of the chats, and the buffer of a turn. |
| `MCTelegram` | Its instance for TLC. |
| `TelegramProofs` | Its inductive invariant and theorems. |
| `Upkeep` | What runs behind completed turns: the indexer and the rewriting of MEMORY.md. |
| `MCUpkeep` | Its instance for TLC. |
| `UpkeepProofs` | Its inductive invariant and theorems. |
| `Boot` | The life of the server: startup, MCP servers and their tools, runners, shutdown. |
| `MCBoot` | Its instance for TLC. |
| `ServerProofs` | The inductive invariants and theorems of `Store` and `Boot`, two parts of the server that share no state. |

A definition whose comment begins with *Fault* is not part of the
specification: it is a mistaken form of the definition next to it. Putting it in
that definition's place must break a named property, which shows that the property
depends on that line of the code (`mutants` in `PROJECT.json`).

### Gateway

State. `row` is `messages.delivered_at`, `stamp` the timestamp, `turns` the
table of that name: these survive a crash. `queue`, `worker`, `cur` and `turn`
are a session's queue, where its task is suspended, the message it dispatches
and the turn row it writes; `putting` holds the `submit()` calls between their
commit and their `q.put`; `flagged` is the interrupted set of `build_handler`.
`phase` tells a process that crashed ("down") from one that was told to stop
("stopped"), because the service files restart the first only.
`life` and `outcome` are history for the properties.

Actions. One action per stretch between two awaits that matter: `EnqueueInbound`
and `Enqueue` (submit), `RegisterChannel`, `Take`, `Prepare`, `StartTurn`,
`EndTurn`, `ErrorTurn`, `UserEventFails`, `MarkDelivered`, `MarkFails` (the
worker and the wrapped handler), `Stop`, `CutMark`, `Exit` (graceful
shutdown), `Crash`, `Boot`, `RecoverTurn`, `StartGateway`. `Stop` leaves each
dispatching worker one of the outcomes the code allows, depending on the await
it is in: the cancellation leaves the handler ("cut"), is swallowed
(`suppress(BaseException)`, gateway.py:139, or the `except` of
approval_router.py:129), or breaks `mark_delivered` before its commit.

Abstractions. A store operation is one step. The content of a turn is one step
per end it can have. The channels and the fan-out are in `Stream` and `Telegram`.

### Approvals

State. `call` says where each tool call is suspended, for which session, tool
and trust level; `fut` and `pending` are the router's futures, `chans` its
channels per session and name, `remembered` the gate's session allowances,
`audit` the table governance_decisions; `sock` and `chat` the WebSockets and
the Telegram chat's session; `seen` the prompts a user can still answer;
`answer` is history.

Actions. `Begin` is the dispatch up to its first await; `Sent`, `SendRaises`
the end of the channel's send; `Resume`, `GiveUp` the end of the wait; `Record`,
`RecordFails` the audit and the run; `WsAnswers`, `TelegramAnswers` the two ways
to `resolve`; `Connect`, `PeerGone`, `Disconnect`, `ChatJoins`, `ChatLeaves` the
channels. A prompt may be lost on the way; a timer may win against an answer
that is already set.

### Compact and Compaction

`Compaction` runs the two loops of `compact()` one round per step, with the index
into the list that shrinks under it and `keep_last_user`. `out` holds positions
of the input list, so that equal messages are told apart. `Compact` says which
positions survive without a loop: the first excess prose messages go, then whole
blocks (a call and the results next to it) while there is excess. `ReturnsKept`
says that the two agree, in the order of the messages (`ResultIsKept`), and that no
result loses its call (`NoNewOrphans`); `Compacts` says that the loops end. `Agent`
uses the closed form. The names of `Compaction` (`compactVars`, `CompactNext`, `pass`
where other modules have `pc`) leave room for those of `Agent`, since one module of
proofs extends both.

### Agent

State. `rows`, `delivered` and `log` are the `messages` and `tool_calls` tables;
`hist`, `loaded` the history `build_handler` keeps; `pc`, `cur`, `steps`,
`todo`, `said` where `run_turn` is and what it holds; `cut` and `fresh` are history.

Actions. `Submit`; `Begin` (hydrate on first use, append the message); `Ask`
(compact, call the model), `Reply`, `ModelFails`; `RunTool`, `ToolFails`,
`LoopDetected`, `OutOfTurns`; `EndTurn` and `MarkDelivered` of the wrapper and the
gateway; `Crash`, `Boot` (orphaned calls become interrupted).

Abstractions. A message is its kind, the message whose turn it belongs to and the ids
it carries. A reply is its number of calls (`MaxCalls` bounds it), whether there is
text before them, and whether the provider gave its ids in the first delta of a call,
in a later one, or never (`given`); the instance has prose, two calls with ids, a call
named late, and text with one call that has no id. The log takes the id of the first
delta or the empty string (agent.py:193), the history and the result the id whenever
it came (agent.py:73). So all calls named late or never share the row of the empty id,
which no result completes (`OthersShareARow`). An id made up here numbers the calls in
one place and the blocks in another (agent.py:237, 306), so the properties accept any
made-up id as an answer to a call that needs one, and excuse the calls of a turn that
broke. A tool's error or time limit is a result like any other. The loop guard may
trip at any call, because its window of hashes is not modelled; the server passes none
(runtime.py:173-190). A graceful stop is not told apart from a crash here.

### Store

State. `disk` is what is committed, `buf` what the open transaction would add,
`open` is `in_transaction` of the connection; `kind` and `pc` say what each task
does and between which of its statements it is. `disturbed` and `undone` are
history: whether two operations overlapped or a simple write broke off, and the rows
that completions rolled back.

Actions. `Execute`, `Commit` (a simple write such as `enqueue_inbound`),
`ExecuteFails`, `CancelWrite`; `Begin`, `InsertResult`, `UpdateStatus`,
`CommitPair`, `Breaks`, `Rollback` (`complete_tool_call`); `Crash`, `Recover`
(the sweep of orphaned tool calls).

The connection (`Put`, `CommitAll`, `RollbackAll`) is external: aiosqlite runs the
statements one at a time, in the order asked for, on a thread of its own, also when
the task that asked was cancelled; sqlite3 under its default isolation level opens
a transaction before an INSERT or UPDATE, and commit and rollback are the
connection's. Every task does one operation; the call a completion is for is in
`tool_calls`, pending, from the start. A row is the operation it belongs to and the
table it is in. The other modules take a store operation for one step; this
one says how far that is right: as long as operations do not overlap
(`AtomicWhileAlone`), and otherwise up to what a failed completion rolls back
(`LossNeedsRollback`) and what a simple write that broke off leaves in an open transaction
(`LeftByWrites`).

### Stream

State. `log` is the events table of a session, `log[n]` the turn that wrote event `n`;
it survives a crash. `worker`, `turns`, `audience` and `due` are the worker's dispatch
with the list of channels it took at its start: a turn runs, has failed and owes the
error TurnEnd, or is over; `chans` is `Gateway._channels`. `unsent` is history: the
events logged and never yielded. `stage`, `next`, `asked`, `seen` and `joined` say
where the endpoint of each socket is and what its replay read. `wire` holds what is
sent and not received; `link`, `lastEventId` and `applied` are the client's.

Actions. `StartTurn`, `Emit` (the row is committed before the event is
yielded), `FoldFails` (the row is committed and `_fold_lifecycle` raises, so nothing
is yielded), `HandlerFails`, `Send`, `EndTurn`; `SendUnlogged` for approval requests and
`SessionChanged`, which go to a channel directly and are never logged; `Query`,
`ReplayRow`, `ReplayBreaks`, `Attach`, `Leave` of the endpoint; `Dial`,
`Receive`, `Drop` of the client; `Crash`.

Abstractions. The number of an event in the log stands for the event, and one
value for all ids that the log does not hold. What the views make of an event is
left out. A peer that is gone loses what is sent to it, silently or with an error that
the fan-out suppresses; the endpoint notices at any later time.

### Spend

State. `booked` and `mirrored` are today's rows of token_spend by who wrote
them, `mirrors` the hook's tasks under way; `alerted`, `alertedDay` the provider's
marks, `alertTasks` the alerts not yet submitted; `selected` the model selector;
`turn` what each session's turn and its model call hold; `inbox` the messages
left. `fired` and `messages` are history.

Actions. `StartTurn` reads the model; `ReadSpent` is the query, `Admit` and
`Refuse` what follows its await, alerts included; `FirstChunk`, `NextCandidate`,
`CallFails`, `Book`, `Finish` the stream over the chain of models; `Mirror` the
AFTER_LLM hook; `SendAlert`, `Submit`, `SetModel`, `Midnight`, `Crash`.

Abstractions. The cost of a call is a small number. The hook books every call a
second time (sqlite_sink.py:94); the check reads the sum, so this stops a user
early and never late, and `SpendBounded` bounds what the provider booked. The
reflector's calls go past the budget and are not in the model.

### Telegram

State. `session`, `current` are the runner's tables per chat, `objs` the channel
objects with their buffers, `attached`, `bound`, `speaker`, `listed` the tables of
gateway, router, voice and user registry; `known` the sessions with rows,
`queue` and `turn` the workers. `messages`, `turns`, `broken`, `post`,
`minted`, `told` are history.

Actions. `OnNew`, `OnSwitch`, `OnMessage`, `Stop` of the bot; `WebMessage`,
`WebNew` of the other clients; `Start`, `EmitPiece`, `EmitEnd`, `Break`,
`Finish`, `Send` of the dispatch, whose audience is fixed at its start.

Abstractions. The bot library handles one update at a time, and no handler here reads
the tables before an await and relies on them after it, so a handler is one
step. Text is a sequence of pieces, each with its turn. The length limit
of a message and the buttons (these are in `Approvals`) are left out.

### Upkeep

State. `rows` is the messages table; `turn`, `indexHooks`, `hooks` the turns and
the tasks of ON_TURN_COMPLETE; `vector` the embedding column as the shared
connection sees it, `saved` as the disk does; `index` the scan under way; `counts`
and `writer` the reflector's and the agent's rewriting; `file` is MEMORY.md.
`scanned`, `stale`, `written`, `cut`, `overlapped` are history.

Actions. `Begin`, `Complete`, `Reply`; `Scan`, `Embed`, `StoreVector`,
`CommitBatch`, `ScanFails` of the indexer, `CommitOfAnother` and
`RollbackOfAnother` of whoever shares its connection; `Count`, `Reflect`,
`AgentReads`, `GiveUp`, `WriteTemp`, `Replace`; `Crash`.

Abstractions. A message carries one fact and a document is a set of facts; a model
keeps the facts it is given. The reflector writes `MaxFacts` facts at most, any of
those in the answer: its 32,000 characters (`Cuts`); what the agent writes is not cut.
The lists of the scan are sets of row numbers, taken from the lowest up: the query
orders by timestamp, the batches follow the list, and the k-th vector belongs to the
k-th text. The agent finds the whole file in its system prompt (loader.py:159); that
`read_file` shows it cut off beyond the cap of a tool's result (tools/runner.py:164)
is left out. Between `WriteTemp` and `Replace` nothing but a crash happens, because
the write blocks the event loop.

### Boot

State. `stage` and `next` say where `lifespan` is; `client` the transport of each
MCP server, `returned` and `clients` the lists of connected ones, `owner` the
registry of tool names; `store`, `workers`, `running` what is up; `calling` the
client a turn's tool call is at.

Actions. `Prepare`, `StartupFails`; `Ignore`, `Connect`, `ConnectHangs`,
`ConnectFails`, `Register`, `RegisterFails`, `ListHangs`, `CloseHangs`, `Connected`
for the servers one after the other; `StartGateway`, `StartRunner`, `Yield`; `Call`,
`Return` of turns; `Shutdown`, `StopRunner`, `StopGateway`, `Disconnect`,
`CloseStore`.

Abstractions. Registering the tools of a server contains no await, so it is one
step, which may stop at a name that is taken. The code bounds the connect, but neither
the listing of tools nor the close after a failure: `ListHangs` and `CloseHangs`
are the ends of such a startup. At shutdown a close that hangs is a `Disconnect` that
never happens, which no fairness rules out.

## Runs

| Run | What it shows |
|---|---|
| `gateway` | With 3 messages of 2 sessions, 2 lives and failing writes: `AcceptedIsHeld`, `DeliveredWasDispatched`, `SerialTurns`, `TurnsInOrder`, `NoTurnAfterDelivery` and the refinement `ImplementsInbox`. |
| `gateway_live` | With 2 messages, up to 3 lives: `AcceptedIsSettled`, as long as nobody stops the server for good, and `StopCompletes`. |
| `gateway_stop_loses` | Violation of architecture.md:536: a graceful stop in the middle of a turn marks its message delivered. |
| `approvals` | With 2 calls, 2 sockets, 2 sessions: `RunsWereConsented`, `RunsWereAudited`, `PendingIsAwaited`, `PendingHasChannel`, `BoundIsOpen`; `CallsFinish`. |
| `store` | With 3 concurrent operations of any kind, failures, cancellations and a crash: operations that do not overlap are atomic and durable (`AtomicWhileAlone`), only a failed completion's rollback takes a returned write back (`LossNeedsRollback`), and what is left in an open transaction is of simple writes that broke off (`LeftByWrites`). |
| `compaction` | All conversations of up to 5 messages of 5 kinds, limits 0 to 4: what is returned is the closed form and orphans no result (`ReturnsKept`); the loops end (`Compacts`). |
| `agent` | With 2 messages, 2 model calls per turn, a limit of 6 messages and 2 lives: the history sent to the model is well formed (`CallsAndResultsPair`), about the current message (`AsksCurrent`) and includes the results it waits for (`FreshResultsSeen`); the tool log agrees as far as calls are named in their first delta (`LogAgrees`); `TurnsEnd`. |
| `stream` | With 1 client, 2 sockets, 2 turns, 4 logged events, 1 unlogged, 2 lives: what the client applies is in the order of the log and without repetition (`AppliedInOrder`), and it misses events for three named reasons only (`LostOnlyInGap`). |
| `spend` | With 2 sessions, a budget of 2 calls with an alert at each, a chain of 2 models, 2 days, 2 lives: `SpendBounded`, `OneModelAnswers`, `AlertsRise`. |
| `telegram` | With 2 chats, 2 sessions, 3 channel objects, 2 messages of 2 pieces: `PostsAreTurns`, `RoutesAreOpen`, `ToldOnce`. |
| `upkeep` | With 2 sessions, 2 turns, batches of 2 in scans of 3, reflection at every second turn, 1 fact before the cut, 1 edit of the agent, 2 lives: `TypeOK`, `VectorsMatch`, `ScanCovers`, `LedgerKeeps`. |
| `boot` | With 3 MCP servers, one of which lists a name of another, and a runner: `KeptIsComplete`, `InUseIsOpen`; every startup ends but for a server that hangs in `list_tools` or `close` (`ConnectsEnd`). |

Bounds. Three operations are a writer, the completion that rolls its row back
and one more that commits or reopens the transaction in between. Two messages of
one session are needed for order, parallel turns and the race of two submits; a
third, of another session, for what sessions share (the handler set, the turns table,
`putting`, stop). Two lives give every crash point followed by a recovery; three (in
`gateway_live`) a crash during the recovery of a crash. Two calls suffice for "allow
for this session" followed by a call that relies on it; two sockets of one session
for a reconnect that overtakes its disconnect; two sessions for the chat's move.
`MaxLives` bounds `Stop` and `Crash`, so the last life runs undisturbed. The safety
run of `Gateway` swaps `m1` and `m2` by symmetry: same session, told apart by no
definition; the runs with liveness use no symmetry.

In `stream` four events let a replay and two turns have two each, so that a socket can
join in the middle of a turn and another one after it. In `spend` two sessions both
pass the check before either books; two levels are needed for an order, two days for a
check that straddles midnight, two models for a chain that moves on; with two
calls a turn the third call of the day already meets the budget. In `telegram`
two chats share a session and one leaves it; three channel objects are the two
and a rotation; two pieces tell a whole text from a half. In `upkeep` three rows
fill a scan of two batches, and a fourth is left for the next scan; two sessions
and the agent rewrite at the same time; with room for one fact the second
reflection cuts the first's. In `boot` the collision comes after a name
that is free, so that a failing registration leaves one tool behind.

Deadlock is not checked where the system may rightly stop: a server whose
messages are all settled idles, and a finished set of calls with closed sockets
does too; the comment in each cfg says which. Conversations of five messages hold a
call with two results between two other messages, which is what the index arithmetic of
`compact()` is about; a history limit of six is reached within a turn of the
`agent` run, before and after a restart.

## Fairness

`GatewayLive`: weak fairness of the worker's steps, `Enqueue`, `Exit`, `Restart`,
`Recover` and `StartGateway`. The event loop runs every ready task; a turn
ends because model calls, tool calls (tools/runner.py:146) and approvals
(approval_router.py:128) have timeouts; `Restart`, a `Boot` after a crash, because
the service files restart a process that failed (daemon.py:43, 59). They respect a
clean exit, so starting what was stopped is nobody's duty: it may happen, and
`AcceptedIsSettled` excuses a server that stays stopped. Submitting, stopping and crashing
have no fairness. `Approvals`: weak fairness of the steps of a call (a timer fires,
a send returns or raises); nobody has to answer, connect or leave.
`Agent`: weak fairness of the turn's steps taken together, because the model's
stream and each tool call end (with an answer or an exception). `Compaction`:
weak fairness of the loop, which contains no await. `Boot`: weak fairness of the
startup's steps taken together, because a connect that hangs is cut off by
`wait_for` (mcp_config.py:112), and a listing or close either ends or hangs for good,
which is a step of its own without fairness; nothing has to shut down.

## Proofs

`GatewayProofs` proves, for any finite set of messages, any sessions and any
number of lives, under `GatewayAssumption`:

- `TypeCorrect`: `Spec => []TypeOK`
- `NoMessageForgotten`: `Spec => []AcceptedIsHeld`
- `DeliveredDispatched`: `Spec => []DeliveredWasDispatched`
- `TurnsOnlyUndelivered`: `Spec => NoTurnAfterDelivery`
- `RefinesInbox`: `Spec => ImplementsInbox`
- `SerialSessions`: `Spec => []SerialTurns`
- `OrderedTurns`: `Spec => []TurnsInOrder`

None of the properties is inductive alone. That an undelivered row is held
depends on where each message is: the inductive invariant `IInv` says that a
session's worker holds a message exactly when it is dispatching, that the held
message and the queued ones belong to the session, that a queued message
is held in one place only, is undelivered and has no outcome yet, that a message being put
has a row, and that nothing volatile exists while the process is down. There is
one lemma per action (`...Inv`), the theorem `Invariance` combines them, and
the first five theorems follow from it; the refinement maps `EnqueueInbound` to
`Accept`, `Take` to `Serve`, the two marks to `Settle`, and every step that
drops a dispatch without a mark to `Release`.

The last two properties only compare rows of `turns`. What keeps the first is
`LiveIsRunning`: while the server is up, a row that may still be written is the
one its session's worker is writing. `StartTurn` needs it, because its worker was
not running and so had no live row; `StartGateway` establishes it, because the sweep
has closed every row of an earlier life. What keeps the second is `OrderInv`: per
session, the turns of this life are earlier than the message in hand, that one
earlier than the queue, the queue in order and earlier than what is being put
(`LineInOrder`, `TurnsGoFirst`). A new row is later than all of these since its stamp
exceeds the number of rows before it (`StampsAreLow`), and after a restart
the re-enqueued backlog meets no turn of the new life (`TurnsAreOld`). Most steps
take something from the line and add nothing, which `OrderShrinks` settles once.

`ApprovalsProofs` proves, for any calls, sessions, tools, trust levels and sockets,
under `ApprovalsAssumption`, every safety property of the `approvals` run:

- `TypeCorrect`: `Spec => []TypeOK`
- `ConsentRequired`: `Spec => []RunsWereConsented`
- `RunsAreAudited`: `Spec => []RunsWereAudited`
- `NoAbandonedRequest`: `Spec => []PendingIsAwaited`
- `NoRequestWithoutChannel`: `Spec => []PendingHasChannel`
- `NoStaleBinding`: `Spec => []BoundIsOpen`

The inductive invariant adds what the properties leave unsaid about the middle of
a call: `Entitled` says that a call's trust was tested when it began, that a
future holds nothing but an answer or a denial, and that a decision to allow is
the user's own or the configuration's; `Remembrance` says that a gate remembers
only what was allowed and recorded; `WsIsSocket` types the bindings. What a
step does to a call, a request or a binding is stated once per operation
(`...Cases`), and the lemmas for the parts of the invariant rest on those.

`ServerProofs` proves of `Store`, for any set of operations and without an
assumption:

- `StoreTypeCorrect`: `StoreSpec => []StoreTypeOK`
- `AtomicAlone`: `StoreSpec => []AtomicWhileAlone`
- `OnlyRollbackLoses`: `StoreSpec => []LossNeedsRollback`
- `OnlyWritesLinger`: `StoreSpec => []LeftByWrites`

Again none is inductive alone. `Alone` says what an undisturbed operation relies on:
at most one is busy, the transaction holds exactly what that one has written so far,
none of it is committed before the end, and without a busy one there is no
transaction. `Survives` says that what any operation has written is committed, in the
transaction, or rolled back by a completion. `Lingers` says that the transaction and
each of its rows are of an operation that is not over or of a simple write that broke
off. `SweepIsLast` says that nothing is interrupted before the sweep. There is one
lemma per conjunct, with one step per action.

`SpendProofs` proves, for any finite set of sessions, any budget, alert levels,
chain and costs, under `SpendAssumption`:

- `TypeCorrect`: `Spec => []TypeOK`
- `OverspendBounded`: `Spec => []SpendBounded`
- `AnswerOfOneModel`: `Spec => []OneModelAnswers`
- `AlertsOnlyRise`: `Spec => []AlertsRise`

The bound needs what is in flight: `InFlight` says that what is booked plus the
largest cost of a call for every admitted session (one whose reading lets it
through, or whose call is not booked yet) stays below the bound. A booking moves
one call from the second part to the first, and a session joins the second part
only by reading a spend below the budget. For the alerts, `Marked` says that every level
up to one fired today is marked, so that a later alert is higher; a
nonempty finite set of levels has a highest (`HighestIsMax`).

`StreamProofs` proves, for any clients and sockets, under `StreamAssumption`:

- `TypeCorrect`: `Spec => []TypeOK`
- `InOrderAndOnce`: `Spec => []AppliedInOrder`
- `MissesAreExcused`: `Spec => []LostOnlyInGap`

`Places` says where a socket can stand in its life, `OfATurn` that the log is
written turn by turn. `Line` orders everything between log and client: what is on the
wire of a connected socket continues what its client was handed, and what the server
may yet send (the replay's next row, the event that is due) continues the
wire. `Covered` says, at each stage, which events a client has or will have, or
misses for a reason: those up to the last id it saw, then those up to the replay's next
row, then all of the log once the channel is open.

`ServerProofs` proves of `Boot`, for any servers, names and runners, under
`BootAssumption`:

- `TypeCorrect`: `Spec => []TypeOK`
- `KeptServersComplete`: `Spec => []KeptIsComplete`
- `TurnsMeetOpenClients`: `Spec => []InUseIsOpen`

`Stages` ties the stage to what is open; `InOrder` says that the servers beyond
the one at hand own nothing and have no client; `Owners` says
that a name's owner was kept, or failed with only a first part of its names
registered (`HalfRegistered`).

`TelegramProofs` proves, for any chats and sessions, under `TelegramAssumption`:

- `TypeCorrect`: `Spec => []TypeOK`
- `TablesNameOpenChannels`: `Spec => []RoutesAreOpen`
- `PostsAreWholeTurns`: `Spec => []PostsAreTurns`
- `ChatsAreToldOnce`: `Spec => []ToldOnce`

`Owned` ties the open channels to the chats; `TurnsFit` numbers the running turns
apart from each other and from the broken ones. `Buffers` is the heart of
`PostsAreTurns`: the buffer of an open channel ends with exactly what the channel has
been sent of the turn that runs in its session, after what broken turns have left
there. `ToldOfKnown` says that nobody was told of a session that does not exist yet,
which makes the one telling the first.

`AgentProofs` proves, for any number of messages, lives and model calls of a
turn, any replies and any limit on the history, under `AgentAssumption`:

- `TypeCorrect`: `Spec => []TypeOK`
- `ConversationsAreWellFormed`: `Spec => []CallsAndResultsPair`
- `ModelCallsAreAboutTheMessage`: `Spec => []AsksCurrent`
- `FreshResultsStay`: `Spec => []FreshResultsSeen`
- `LogTellsTheTruth`: `Spec => []LogAgrees`

The properties speak of the moment of the model call; the invariant says what holds
between two of them. `Calling` and `Answered` follow a call from the reply to its
result: a call has its result, or is still to run for the calls at the end of the
history (`Owed`), or its turn broke. `OnCurrent` keeps the message of the turn the
last of the user's from `Begin` on. `PendingIsTodo` and `Waits` tie the log to `todo`:
what is pending of the current turn is about to run, under an id the log knows. No
call waits under the empty id, so that no result completes its row
(`StepKeepsOthers`). `FreshBlock` counts: the latest calls with the results so far and
to come are exactly what follows them in the history, which is what decides whether
they fit.

Every one of these must survive `Ask`, which compacts. For that the closed form is
enough. `PickLists` shows that `Pick` lists the positions kept, each once and in
order; it counts how many lie below each and needs no induction. `KeptPairs`
says that calls and the results behind them stay or go together, `KeptKeeps`
that messages of the user stay, `ProseFits` that prose stays only if everything the
first pass leaves fits, and `LatestStays` that a call stays if it, all that follows it and
the messages of the user fit: what is dropped before it makes the room.

It proves of `Compaction`, for conversations of any length and any limit, under
`CompactionAssumption`:

- `CompactReturnsKept`: `CompactSpec => []ReturnsKept`

So the closed form is no assumption about `compact()`. The invariant `CompactInv` of
the loops says that the list stays in order, that `keep_last_user` stays on a
message of the user, that what a loop has removed is what the closed form removes as
far as the index has come (`ProseGone`, `BlocksGone`), and that nothing older is left
behind it. A round removes only when the list is too long, and all that is older of
its kind is already gone: the number of messages gone then is the number the closed
form counts. `Extremes` (a set of positions has a first and a last) gives the end
of a block, and the call to which a run of results belongs.

`UpkeepProofs` proves, for any sessions, batch size, limit and rhythm of
reflection, under `UpkeepAssumption`:

- `TypeCorrect`: `Spec => []TypeOK`
- `VectorsAreOfTheirRows`: `Spec => []VectorsMatch`
- `ScansSkipNothing`: `Spec => []ScanCovers`
- `FactsAreKept`: `Spec => []LedgerKeeps`

That the counters stay in their bounds rests on `Counted`, which charges every hook
and row to a turn. `Walk` says that the vectors at hand are those of the earliest
texts of the batch, so that the next vector meets the next text; `Covering` that a
fetched row without a mark has its turn yet to come, and that what is on disk is in
the connection's view. `Ledger` says that a writer that is not stale has every fact of
the file in its document or among those it cut off, and that only one is in the middle
of its write.

`TypeOK` of every module is proved; for `Gateway`, `Approvals`, `Store`, `Stream`,
`Spend`, `Telegram` and `Boot` it is no longer part of a run. Every safety invariant and
action property that a run checks is a theorem. Left to TLC is liveness
(`AcceptedIsSettled`, `StopCompletes`, `CallsFinish`, `TurnsEnd`, `ConnectsEnd`,
`Compacts`), as fairness and ENABLED are out of the prover's reach, and the
violation that `gateway_stop_loses` shows.

## Plan

In this order; each step names its module, its abstract specification where
one is worth stating, and what there is to prove.

1. `Gateway`, `Inbox`, `GatewayProofs`: done.
2. `Approvals`, `ApprovalsProofs`: done.
3. `Compact`, `Compaction`, `Agent`, `AgentProofs`: done. Left: an abstract
   specification of a conversation that `Agent` implements, and its proof.
4. `Store`, proved in `ServerProofs`: done. Left: the sequences of operations of one task
   (record, then complete), so that what a rollback drops is followed through to the
   turn.
5. `Stream`, `StreamProofs`: done. Left: the client's `applyEvent` as a fold over
   what arrives, with the splitting of an item by a message typed meanwhile.
6. `Spend`, `SpendProofs`: done.
7. `Telegram`, `TelegramProofs`, with the user registry: done. Left: voice replies.
8. `Upkeep`, `UpkeepProofs`: done.
9. `Boot`, proved in `ServerProofs`: done.

## Known divergences without a run

What the code does differently from what a document, a comment or a name
promises, met while modelling. The models follow the code; where a property would
otherwise fail, its statement names the exception.

- A reported error leaves `ended_at` of the turn NULL (server.py:337), so the next
  start takes the turn for interrupted, against store.py:12.
- A second crash before the next message loses the recovery notice (runtime.py:212,
  architecture.md:508).
- An old socket's `unbind` denies the pending requests although the socket that
  replaced it is connected (server.py:259, approval_router.py:61).
- Ids made up for tool calls differ between call and result (agent.py:237, 306), so a
  result answers no call, against compaction.py:6.
- An exception or the loop guard between the calls of a reply and their results leaves
  calls without results in the history of the turns that follow (agent.py:289-307),
  against the same line.
- A call whose id comes after its first delta, or never, is recorded under the empty
  id (agent.py:193), where its result does not find it: the row stays pending, stands
  for all such calls, and the next start marks it interrupted though the tools ran,
  against architecture.md:507, by which each call has an id of its own and its row is
  written with its result.
- A failed `complete_tool_call` rolls back whatever other operation is in the shared
  transaction (store.py:413), also a message whose `enqueue_inbound` then returns,
  against gateway.py:4.
- The events of a turn that is under way when a socket registers reach neither its
  replay, if they are logged after the query, nor its channel, since the dispatch
  keeps the list it began with (gateway.py:135, server.py:239): they are lost to the
  client until it reconnects, and if a later event arrives, for good. server.py:8-12,
  architecture.md:510 and `ui/src/api/socket.ts:12` say that nothing is.
- An event whose fold raises is logged and never sent to a connected client
  (sqlite_sink.py:48, server.py:335-343), where sqlite_sink.py:53 swallows only
  IntegrityErrors; only a later replay shows it.
- After an event id that is not logged (an approval request, a `SessionChanged`) the
  replay is empty (store.py:533), against the comment at `ui/src/api/socket.ts:12`.
- Every call's spend is booked by the provider and again by the hook
  (sqlite_sink.py:94).
- An MCP server whose tool names collide with another one's is closed, but the tools
  registered before the collision stay and call the closed client, in spite of the
  prefix that is to keep names apart (mcp_config.py:22).
- A server that accepts the connect and hangs in `list_tools`, or in the close after a
  failed registration, stalls the startup for ever (mcp_config.py:117, 123), against
  "so a hung server can't stall the runtime" of mcp_config.py:105; and one that hangs
  in its close blocks the shutdown of the rest (mcp_config.py:138), against
  mcp_config.py:134.
- Alerts are remembered in memory only: after a restart the alert of the same day and
  level is sent again, against the "once" of budgeted.py:10-14.
- The reflector cuts its answer to 32,000 characters before it overwrites MEMORY.md
  (reflector.py:130), and what is beyond is gone, against the "append-only ledger" of
  loader.py:133.
- A rewrite of MEMORY.md by the reflector drops what the agent or another session's
  reflection wrote since it was read (reflector.py:108).
- In the web client, a message typed while a turn runs splits the turn's item, and
  results after it are dropped (`ui/src/state/store.ts:70`); the TurnEnd of an error
  has no turn id, so it opens a new item and leaves the failed one open; a spoken
  message is shown twice when its echo precedes the answer to the POST
  (ChatPage.tsx:91); a message sent on a closed socket is shown and never sent; the
  results of calls without ids are not shown.
- A reply by voice is spoken for whichever turn of the session ends next
  (telegram.py:121).

## Not modelled

- The tools, the CLI channel, speech synthesis and transcription, exporters to
  tracing services, the views of the web client and the service installer: pure I/O
  or wording, with no state the rest of the system depends on. The provider adapters
  translate one wire format into another.
- `HeartbeatTrigger`: the server never starts it (server.py mounts the webhook router
  only), and a webhook is one more `submit`.
- `applyEvent` of the web client, and voice replies: see the plan.
- `_main` of the server and its helpers, which read the environment and assemble the
  parts; the schema migration and the listing queries of the store; the pickers
  and reports of the Telegram bot (`/sessions`, `/usage`, providers), which show
  state and change none, except for the choice of the model, which `Spend` has.
- The search over memory: a query. Reading skills and seeding starter files: plain
  file access.
