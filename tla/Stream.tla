------------------------------- MODULE Stream -------------------------------
(***************************************************************************)
(* The events of one session on their way to web clients: the log, the     *)
(* replay to a socket that connects, the live fan-out of Gateway._dispatch *)
(* and the client that reconnects with the last event id it saw.  The      *)
(* seq of an event in the log stands for the event.                        *)
(***************************************************************************)
EXTENDS Naturals, Sequences, Functions

CONSTANTS
  Clients,
  Sockets,       \* connections; a client opens several, one after the other
  OwnerOf,       \* the client of a socket
  MaxTurns,      \* bound on turns
  MaxEvents,     \* bound on logged events
  MaxUnlogged,   \* bound on events that bypass the log
  MaxLives,      \* bound on lives of the server
  NoSocket

ASSUME StreamAssumption ==
  /\ OwnerOf \in [Sockets -> Clients]
  /\ NoSocket \notin Sockets
  /\ {MaxTurns, MaxEvents, MaxUnlogged} \subseteq Nat
  /\ MaxLives \in Nat \ {0}

VARIABLES
  log,          \* table events: log[n] is the turn whose dispatch wrote event n
  turns,        \* turns dispatched so far
  worker,       \* of the session: idle, in a turn, after an exception in one, at its end
  audience,     \* the channels it took at its start
  due,          \* those that still get the event written last
  chans,        \* Gateway._channels of the session
  stage,        \* where the endpoint of each socket is
  next,         \* the row its replay sends next; the last one is seen[c]
  wire,         \* events sent to the client and not yet received
  link,         \* the socket a client believes in
  lastEventId,  \* of the client: 0 for none
  applied,      \* the logged events the client was handed, in that order
  asked,        \* last_event_id of a connection
  seen,         \* length of the log when its replay read it
  joined,       \* history: turns begun when its channel was registered
  unsent,       \* history: channels of a turn and events logged and not sent to them
  unlogged,     \* history: events sent outside the log
  lives

serverVars == <<turns, worker, audience, due, chans, unsent>>
socketVars == <<stage, next, asked, seen, joined>>
clientVars == <<link, lastEventId, applied>>
vars == <<log, serverVars, socketVars, clientVars, wire, unlogged, lives>>

(* The id of an event that is not in the events table: an ApprovalRequest  *)
(* or a SessionChanged.                                                    *)
Unlogged == MaxEvents + 1

Seqs == 1..Len(log)
Connected(c) == link[OwnerOf[c]] = c
busy == worker # "idle"

TypeOK ==
  /\ log \in Seq(1..MaxTurns)
  /\ Len(log) <= MaxEvents
  /\ turns \in 0..MaxTurns
  /\ worker \in {"idle", "turn", "failed", "over"}
  /\ {audience, due, chans} \subseteq SUBSET Sockets
  /\ stage \in [Sockets -> {"new", "accepted", "replaying", "open", "gone"}]
  /\ next \in [Sockets -> 1..(Len(log) + 1)]
  /\ wire \in [Sockets -> Seq(Seqs \cup {Unlogged})]
  /\ link \in [Clients -> Sockets \cup {NoSocket}]
  /\ lastEventId \in [Clients -> {0, Unlogged} \cup Seqs]
  /\ applied \in [Clients -> Seq(Seqs)]
  /\ asked \in [Sockets -> {0, Unlogged} \cup Seqs]
  /\ seen \in [Sockets -> {0} \cup Seqs]
  /\ joined \in [Sockets -> 0..turns]
  /\ unsent \subseteq Sockets \X Seqs
  /\ unlogged \in 0..MaxUnlogged
  /\ lives \in 1..MaxLives

Init ==
  /\ log = <<>>
  /\ turns = 0
  /\ worker = "idle"
  /\ audience = {}
  /\ due = {}
  /\ chans = {}
  /\ stage = [c \in Sockets |-> "new"]
  /\ next = [c \in Sockets |-> 1]
  /\ wire = [c \in Sockets |-> <<>>]
  /\ link = [k \in Clients |-> NoSocket]
  /\ lastEventId = [k \in Clients |-> 0]
  /\ applied = [k \in Clients |-> <<>>]
  /\ asked = [c \in Sockets |-> 0]
  /\ seen = [c \in Sockets |-> 0]
  /\ joined = [c \in Sockets |-> 0]
  /\ unsent = {}
  /\ unlogged = 0
  /\ lives = 1

(* send_text: what is sent to a peer that is gone is lost without an error *)
(* or raises one that the fan-out suppresses.                              *)
Put(c, e) ==
  wire' = IF Connected(c) THEN [wire EXCEPT ![c] = Append(@, e)] ELSE wire

(* send_event does nothing once the channel is closed.                     *)
SendEvent(c, e) ==
  IF stage[c] = "gone" THEN UNCHANGED wire ELSE Put(c, e)

-----------------------------------------------------------------------------
(* The worker: Gateway._dispatch over the wrapped handler, which echoes    *)
(* the user's message as the first event of a turn.                        *)

Echoed == turns \in Range(log)

StartTurn ==
  /\ ~busy /\ turns < MaxTurns
  /\ worker' = "turn"
  /\ turns' = turns + 1
  /\ audience' = chans
  /\ UNCHANGED <<log, due, chans, unsent, socketVars, clientVars, wire, unlogged, lives>>

(* append_event: the row is committed before the event is folded.          *)
Write ==
  /\ worker \in {"turn", "failed"} /\ due = {}
  /\ Len(log) < MaxEvents
  /\ log' = Append(log, turns)

(* write_event returns and the event is yielded to the fan-out; after an   *)
(* exception it is the error TurnEnd, the last one.                        *)
Emit ==
  /\ Write
  /\ due' = audience
  /\ worker' = IF worker = "failed" THEN "over" ELSE "turn"
  /\ UNCHANGED <<turns, audience, chans, unsent, socketVars, clientVars, wire,
                 unlogged, lives>>

(* An exception of the handler gives way to the error TurnEnd; one in      *)
(* writing that, or the user's message, ends the generator.                *)
Raise == worker' = IF worker = "turn" /\ Echoed THEN "failed" ELSE "over"

(* _fold_lifecycle raises after the row is committed: the event is in the  *)
(* log and is yielded to nobody.  The user's message has nothing to fold.  *)
FoldFails ==
  /\ Write /\ Echoed
  /\ Raise
  /\ unsent' = unsent \cup (audience \X {Len(log) + 1})
  /\ UNCHANGED <<turns, audience, due, chans, socketVars, clientVars, wire,
                 unlogged, lives>>

(* The handler raises, or append_event does.                               *)
HandlerFails ==
  /\ worker \in {"turn", "failed"} /\ due = {}
  /\ Raise
  /\ UNCHANGED <<log, turns, audience, due, chans, unsent, socketVars, clientVars, wire,
                 unlogged, lives>>

Send(c) ==
  /\ c \in due
  /\ SendEvent(c, Len(log))
  /\ due' = due \ {c}
  /\ UNCHANGED <<log, turns, worker, audience, chans, unsent, socketVars, clientVars,
                 unlogged, lives>>

(* The generator is exhausted or raised, and the worker goes on.           *)
EndTurn ==
  /\ worker = "over" \/ (worker = "turn" /\ Echoed)
  /\ due = {}
  /\ worker' = "idle"
  /\ audience' = {}
  /\ UNCHANGED <<log, turns, due, chans, unsent, socketVars, clientVars, wire, unlogged,
                 lives>>

(* ApprovalRouter.request and UserChannelRegistry.broadcast send to a      *)
(* channel directly, whatever the worker is doing.                         *)
SendUnlogged(c) ==
  /\ stage[c] = "open"
  /\ unlogged < MaxUnlogged
  /\ unlogged' = unlogged + 1
  /\ Put(c, Unlogged)
  /\ UNCHANGED <<log, serverVars, socketVars, clientVars, lives>>

-----------------------------------------------------------------------------
(* The endpoint of a socket: _ws, _replay.                                 *)

(* Fault: seq >= instead of seq >, replaying the last event seen.          *)
FirstFrom(id) ==
  IF id = Unlogged THEN Len(log) + 1 ELSE IF id = 0 THEN 1 ELSE id

(* Fault: a client without a last event id gets no replay.                 *)
FirstIfSeen(id) == IF id \in {0, Unlogged} THEN Len(log) + 1 ELSE id + 1

(* The first row events_after returns, all later ones follow.  For an id   *)
(* the log does not hold, seq > (SELECT seq ...) compares with NULL: none. *)
FirstAfter(id) == IF id = Unlogged THEN Len(log) + 1 ELSE id + 1

Query(c) ==
  /\ stage[c] = "accepted"
  /\ next' = [next EXCEPT ![c] = FirstAfter(asked[c])]
  /\ seen' = [seen EXCEPT ![c] = Len(log)]
  /\ stage' = [stage EXCEPT ![c] = "replaying"]
  /\ UNCHANGED <<log, serverVars, asked, joined, clientVars, wire, unlogged, lives>>

ReplayRow(c) ==
  /\ stage[c] = "replaying" /\ next[c] <= seen[c]
  /\ Put(c, next[c])
  /\ next' = [next EXCEPT ![c] = @ + 1]
  /\ UNCHANGED <<log, serverVars, stage, asked, seen, joined, clientVars,
                 unlogged, lives>>

ReplayBreaks(c) ==
  /\ stage[c] = "replaying" /\ next[c] <= seen[c]
  /\ ~Connected(c)
  /\ stage' = [stage EXCEPT ![c] = "gone"]
  /\ UNCHANGED <<log, serverVars, next, asked, seen, joined, clientVars, wire,
                 unlogged, lives>>

(* register_channel: a turn already begun keeps the audience it took.      *)
Attach(c) ==
  /\ stage[c] = "replaying" /\ next[c] > seen[c]
  /\ stage' = [stage EXCEPT ![c] = "open"]
  /\ chans' = chans \cup {c}
  /\ joined' = [joined EXCEPT ![c] = turns]
  /\ UNCHANGED <<log, turns, worker, audience, due, unsent, next, asked, seen,
                 clientVars, wire, unlogged, lives>>

(* receive_text raises: the channel is detached and closed.                *)
Leave(c) ==
  /\ stage[c] = "open" /\ ~Connected(c)
  /\ stage' = [stage EXCEPT ![c] = "gone"]
  /\ chans' = chans \ {c}
  /\ UNCHANGED <<log, turns, worker, audience, due, unsent, next, asked, seen, joined,
                 clientVars, wire, unlogged, lives>>

-----------------------------------------------------------------------------
(* The client: PishkarSocket.                                              *)

Dial(c) ==
  LET k == OwnerOf[c] IN
  /\ link[k] = NoSocket /\ stage[c] = "new"
  /\ link' = [link EXCEPT ![k] = c]
  /\ stage' = [stage EXCEPT ![c] = "accepted"]
  /\ asked' = [asked EXCEPT ![c] = lastEventId[k]]
  /\ UNCHANGED <<log, serverVars, next, seen, joined, lastEventId, applied, wire,
                 unlogged, lives>>

(* What the log has of what is shown.                                      *)
Applied(k, e) ==
  IF e = Unlogged THEN applied ELSE [applied EXCEPT ![k] = Append(@, e)]

(* onmessage: any event with an id sets lastEventId, logged or not.        *)
Receive(c) ==
  LET k == OwnerOf[c] IN
  LET e == Head(wire[c]) IN
  /\ Connected(c) /\ wire[c] # <<>>
  /\ wire' = [wire EXCEPT ![c] = Tail(@)]
  /\ lastEventId' = [lastEventId EXCEPT ![k] = e]
  /\ applied' = Applied(k, e)
  /\ UNCHANGED <<log, serverVars, socketVars, link, unlogged, lives>>

(* A blip or a sleeping laptop; what was on its way is lost.               *)
Drop(c) ==
  /\ Connected(c)
  /\ link' = [link EXCEPT ![OwnerOf[c]] = NoSocket]
  /\ wire' = [wire EXCEPT ![c] = <<>>]
  /\ UNCHANGED <<log, serverVars, socketVars, lastEventId, applied, unlogged, lives>>

(* The server dies: only the log is left of it, and every socket is down.  *)
Crash ==
  /\ lives < MaxLives
  /\ lives' = lives + 1
  /\ worker' = "idle"
  /\ audience' = {}
  /\ due' = {}
  /\ chans' = {}
  /\ stage' = [c \in Sockets |-> IF stage[c] = "new" THEN "new" ELSE "gone"]
  /\ wire' = [c \in Sockets |-> <<>>]
  /\ link' = [k \in Clients |-> NoSocket]
  /\ UNCHANGED <<log, turns, next, asked, seen, joined, unsent, lastEventId, applied,
                 unlogged>>

Next ==
  \/ StartTurn \/ Emit \/ FoldFails \/ HandlerFails \/ EndTurn \/ Crash
  \/ \E c \in Sockets :
       \/ Send(c) \/ SendUnlogged(c)
       \/ Query(c) \/ ReplayRow(c) \/ ReplayBreaks(c) \/ Attach(c) \/ Leave(c)
       \/ Dial(c) \/ Receive(c) \/ Drop(c)

Spec == Init /\ [][Next]_vars

-----------------------------------------------------------------------------
(* However often a client reconnects, and whatever part of what it is      *)
(* shown comes from the replay or from the fan-out, it applies the events  *)
(* of the log in their order and none of them twice.                       *)
AppliedInOrder ==
  \A k \in Clients : \A i, j \in DOMAIN applied[k] :
    i < j => applied[k][i] < applied[k][j]

(* What client k has, or will have if its connection lasts.                *)
OnTheWay(k, n) ==
  \/ n \in Range(wire[link[k]])
  \/ n = Len(log) /\ link[k] \in due

(* The turn of event n had begun when the channel of c was registered, and *)
(* n was written after its replay was read: neither carries it.            *)
InGap(c, n) == n > seen[c] /\ log[n] <= joined[c]

(* c asked for the events after one the log does not hold.                 *)
Unanswered(c, n) == asked[c] = Unlogged /\ n <= seen[c]

(* Written while c was in the audience, and never yielded.                 *)
Unsent(c, n) == <<c, n>> \in unsent

(* A client with an open channel misses no logged event but for three      *)
(* reasons: the turn was under way when it connected, the last event it    *)
(* saw before it connected is not in the log, or folding the event raised  *)
(* after it was logged and before it was sent.                             *)
LostOnlyInGap ==
  \A k \in Clients :
    link[k] # NoSocket /\ stage[link[k]] = "open" =>
      \A n \in Seqs :
        \/ n \in Range(applied[k])
        \/ OnTheWay(k, n)
        \/ \E c \in Sockets : /\ OwnerOf[c] = k
                              /\ InGap(c, n) \/ Unanswered(c, n) \/ Unsent(c, n)
=============================================================================
