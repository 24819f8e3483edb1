------------------------------ MODULE Telegram ------------------------------
(***************************************************************************)
(* The Telegram bot (channels/telegram.py): the session and the channel    *)
(* object of each chat of the owner, rotated by /new and /switch while     *)
(* turns run; the tables that route events, approvals and speech to the    *)
(* channel; and the channel's buffer, which becomes one message when the   *)
(* turn ends.  PTB handles one update at a time, and no handler reads the  *)
(* tables before an await and uses them after it, so each is one step.     *)
(***************************************************************************)
EXTENDS Integers, Sequences, FiniteSets

CONSTANTS
  Chats,        \* chats of the owner with the bot
  Sessions,     \* of the user
  None,         \* no session, no channel
  MaxChannels,  \* bound on the channel objects made
  MaxMessages,  \* bound on messages, of the chats and of the web
  MaxPieces     \* bound on the text deltas of a turn

ASSUME TelegramAssumption ==
  /\ None \notin Chats \cup Sessions \cup Nat
  /\ {MaxChannels, MaxMessages, MaxPieces} \subseteq Nat

VARIABLES
  running,   \* the bot is started
  session,   \* TelegramBotRunner._sessions
  current,   \* TelegramBotRunner._channels
  objs,      \* every TelegramChannel made, in order
  attached,  \* Gateway._channels
  bound,     \* ApprovalRouter._channels[session]["telegram"]
  speaker,   \* voice.dispatcher._speakers
  listed,    \* UserChannelRegistry._channels
  known,     \* sessions with rows
  queue,     \* messages each session's worker has yet to take
  turn,      \* what each worker dispatches
  messages,  \* history: messages submitted; turns are numbered by it
  turns,     \* history: turns started
  broken,    \* history: turns whose dispatch died without an end
  post,      \* history: the last text posted
  minted,    \* history: the chat that made a session with /new
  told       \* history: how often a chat was told of a session

routes == <<session, current, attached, bound, speaker, listed>>
bot == <<running, routes, known>>
history == <<messages, turns, broken, post, minted, told>>
vars == <<bot, objs, queue, turn, history>>

Objs == 1..MaxChannels
Open(i) == i \in DOMAIN objs /\ ~objs[i].closed

Quiet == [id |-> 0, sent |-> 0, event |-> "none", audience |-> {}, due |-> {}]

Turn == [id : 0..MaxMessages, sent : 0..MaxPieces,
         event : {"none", "piece", "end", "error"},
         audience : SUBSET Objs, due : SUBSET Objs]

Piece == (1..MaxMessages) \X (1..MaxPieces)

Channel == [chat : Chats, session : Sessions, closed : BOOLEAN, buffer : Seq(Piece)]

TypeOK ==
  /\ running \in BOOLEAN
  /\ session \in [Chats -> Sessions \cup {None}]
  /\ current \in [Chats -> Objs \cup {None}]
  /\ objs \in Seq(Channel)
  /\ Len(objs) <= MaxChannels
  /\ attached \in [Sessions -> SUBSET Objs]
  /\ {bound, speaker} \subseteq [Sessions -> Objs \cup {None}]
  /\ listed \subseteq DOMAIN objs
  /\ known \subseteq Sessions
  /\ queue \in [Sessions -> 0..MaxMessages]
  /\ turn \in [Sessions -> Turn]
  /\ \A s \in Sessions : turn[s].due \subseteq turn[s].audience
  /\ {messages, turns} \subseteq 0..MaxMessages
  /\ broken \subseteq 1..turns
  /\ post \in [turn : 0..MaxMessages, sent : 0..MaxPieces, text : Seq(Piece)]
  /\ minted \in [Sessions -> Chats \cup {None}]
  /\ told \in [Chats \X Sessions -> Nat]

Init ==
  /\ running = TRUE
  /\ session = [c \in Chats |-> None] /\ current = [c \in Chats |-> None]
  /\ objs = <<>>
  /\ attached = [s \in Sessions |-> {}]
  /\ bound = [s \in Sessions |-> None] /\ speaker = [s \in Sessions |-> None]
  /\ listed = {}
  /\ known = {}
  /\ queue = [s \in Sessions |-> 0]
  /\ turn = [s \in Sessions |-> Quiet]
  /\ messages = 0 /\ turns = 0 /\ broken = {}
  /\ post = [turn |-> 0, sent |-> 0, text |-> <<>>]
  /\ minted = [s \in Sessions |-> None]
  /\ told = [x \in Chats \X Sessions |-> 0]

-----------------------------------------------------------------------------
(* Sessions and channels of a chat.                                        *)

Fresh(c, s) == [chat |-> c, session |-> s, closed |-> FALSE, buffer |-> <<>>]

(* close: the object says nothing any more, so what it buffers is gone.    *)
Close(i) == [objs EXCEPT ![i].closed = TRUE, ![i].buffer = <<>>]

Detached(i) == [s \in Sessions |-> attached[s] \ {i}]

(* Fault: only the gateway is told that a channel leaves.                  *)
KeptIn(table, c) == table

(* The entry of a session goes, whichever chat's channel it names.         *)
RemovedFrom(table, c) ==
  IF session[c] = None THEN table ELSE [table EXCEPT ![session[c]] = None]

(* unregister compares by identity, and each access of channel.send_event  *)
(* is a new bound method: the entry stays.                                 *)
Unregistered(i) == listed

(* _rotate_session, and _open_session for a chat without a session.        *)
Rotate(c, s) ==
  LET i == current[c]
      j == Len(objs) + 1
  IN /\ j <= MaxChannels
     /\ objs' = Append(IF i = None THEN objs ELSE Close(i), Fresh(c, s))
     /\ session' = [session EXCEPT ![c] = s]
     /\ current' = [current EXCEPT ![c] = j]
     /\ attached' = [Detached(i) EXCEPT ![s] = @ \cup {j}]
     /\ bound' = [RemovedFrom(bound, c) EXCEPT ![s] = j]
     /\ speaker' = [RemovedFrom(speaker, c) EXCEPT ![s] = j]
     /\ listed' = Unregistered(i) \cup {j}

(* Fault: a closed channel goes on talking.                                *)
NeverClosed(channel) == FALSE

(* _closed, which send_event asks first.                                   *)
IsClosed(channel) == channel.closed

(* broadcast of SessionChanged: a channel says so unless it is closed or   *)
(* at that session.  Channels are told one after the other, but which ones *)
(* is settled when the list is read.                                       *)
Tell(s, entries, channels) ==
  told' = [x \in DOMAIN told |->
             told[x] + Cardinality({i \in entries : /\ x = <<channels[i].chat, s>>
                                                    /\ ~IsClosed(channels[i])
                                                    /\ channels[i].session # s})]

(* /new.  The session is minted before anything is read.                   *)
OnNew(c, s) ==
  /\ running /\ s \notin known
  /\ known' = known \cup {s}
  /\ Rotate(c, s)
  /\ minted' = [minted EXCEPT ![s] = c]
  /\ Tell(s, listed', objs')
  /\ UNCHANGED <<running, queue, turn, messages, turns, broken, post>>

(* /switch to a session that the arguments name.                           *)
OnSwitch(c, s) ==
  /\ running /\ s \in known /\ s # session[c]
  /\ Rotate(c, s)
  /\ UNCHANGED <<running, known, queue, turn, history>>

Submit(s) ==
  /\ messages < MaxMessages
  /\ messages' = messages + 1
  /\ queue' = [queue EXCEPT ![s] = @ + 1]
  /\ known' = known \cup {s}

(* A chat without a session follows the latest one of the user, or opens   *)
(* one when there was none at the time it asked.                           *)
Ensure(c, s) ==
  IF session[c] # None
  THEN s = session[c] /\ UNCHANGED <<routes, objs>>
  ELSE Rotate(c, s)

(* _on_message; _on_voice, once there is a transcript.                     *)
OnMessage(c, s) ==
  /\ running /\ Ensure(c, s) /\ Submit(s)
  /\ UNCHANGED <<running, turn, turns, broken, post, minted, told>>

(* stop.                                                                   *)
Stop ==
  /\ running
  /\ running' = FALSE
  /\ LET ours == {current[c] : c \in Chats} \ {None}
         left == {session[c] : c \in Chats} \ {None}
     IN /\ objs' = [i \in DOMAIN objs |->
                      IF i \in ours THEN [objs[i] EXCEPT !.closed = TRUE, !.buffer = <<>>]
                      ELSE objs[i]]
        /\ attached' = [s \in Sessions |-> attached[s] \ ours]
        /\ bound' = [s \in Sessions |-> IF s \in left THEN None ELSE bound[s]]
        /\ speaker' = [s \in Sessions |-> IF s \in left THEN None ELSE speaker[s]]
  /\ session' = [c \in Chats |-> None] /\ current' = [c \in Chats |-> None]
  /\ UNCHANGED <<listed, known, queue, turn, history>>

(* The web client and the other users of the gateway.                      *)
WebMessage(s) ==
  /\ Submit(s)
  /\ UNCHANGED <<running, routes, objs, turn, turns, broken, post, minted, told>>

WebNew(s) ==
  /\ s \notin known
  /\ known' = known \cup {s}
  /\ Tell(s, listed, objs)
  /\ UNCHANGED <<running, routes, objs, queue, turn, messages, turns, broken, post,
                 minted>>

-----------------------------------------------------------------------------
(* Turns, as the gateway dispatches them.                                  *)

Ready(s) == turn[s].id = 0 /\ queue[s] > 0

Start(s) ==
  /\ Ready(s) /\ turns < MaxMessages
  /\ queue' = [queue EXCEPT ![s] = @ - 1]
  /\ turns' = turns + 1
  /\ turn' = [turn EXCEPT ![s] = [Quiet EXCEPT !.id = turns + 1, !.audience = attached[s]]]
  /\ UNCHANGED <<bot, objs, messages, broken, post, minted, told>>

Audience(s) == turn[s].audience

Emitting(s) == turn[s].id # 0 /\ turn[s].due = {} /\ turn[s].event \in {"none", "piece"}

EmitPiece(s) ==
  /\ Emitting(s) /\ turn[s].sent < MaxPieces
  /\ turn' = [turn EXCEPT ![s].sent = @ + 1, ![s].event = "piece", ![s].due = Audience(s)]
  /\ UNCHANGED <<bot, objs, queue, history>>

(* TurnEnd, or the one that the handler's wrapper makes of an exception.   *)
EmitEnd(s, event) ==
  /\ Emitting(s)
  /\ turn' = [turn EXCEPT ![s].event = event, ![s].due = Audience(s)]
  /\ UNCHANGED <<bot, objs, queue, history>>

(* The write of that event fails too, and the worker goes on.              *)
Break(s) ==
  /\ Emitting(s)
  /\ turn' = [turn EXCEPT ![s] = Quiet]
  /\ broken' = broken \cup {turn[s].id}
  /\ UNCHANGED <<bot, objs, queue, messages, turns, post, minted, told>>

Finish(s) ==
  /\ turn[s].event \in {"end", "error"} /\ turn[s].due = {}
  /\ turn' = [turn EXCEPT ![s] = Quiet]
  /\ UNCHANGED <<bot, objs, queue, history>>

(* Fault: an error leaves the text for later.                              *)
KeptAfter(buffer, event) == IF event = "end" THEN <<>> ELSE buffer

Cleared(buffer, event) == <<>>

(* TelegramChannel.send_event, up to the first await.                      *)
Hear(i, t) ==
  IF IsClosed(objs[i]) THEN UNCHANGED <<objs, post>>
  ELSE IF t.event = "piece"
  THEN /\ objs' = [objs EXCEPT ![i].buffer = Append(@, <<t.id, t.sent>>)]
       /\ UNCHANGED post
  ELSE /\ objs' = [objs EXCEPT ![i].buffer = Cleared(@, t.event)]
       /\ post' = IF t.event = "end" /\ objs[i].buffer # <<>>
                  THEN [turn |-> t.id, sent |-> t.sent, text |-> objs[i].buffer]
                  ELSE post

Send(s, i) ==
  /\ i \in turn[s].due
  /\ Hear(i, turn[s])
  /\ turn' = [turn EXCEPT ![s].due = @ \ {i}]
  /\ UNCHANGED <<bot, queue, messages, turns, broken, minted, told>>

Dispatch(s) ==
  \/ Start(s) \/ EmitPiece(s) \/ Break(s) \/ Finish(s)
  \/ \E event \in {"end", "error"} : EmitEnd(s, event)
  \/ \E i \in turn[s].due : Send(s, i)

Handle(c, s) == OnNew(c, s) \/ OnSwitch(c, s) \/ OnMessage(c, s)

Next ==
  \/ \E c \in Chats, s \in Sessions : Handle(c, s)
  \/ \E s \in Sessions : WebMessage(s) \/ WebNew(s) \/ Dispatch(s)
  \/ Stop

Spec == Init /\ [][Next]_vars

-----------------------------------------------------------------------------
(* What a chat reads as one message is one turn's whole text: all that the *)
(* turn said, although sessions rotate and channels join and leave while   *)
(* it runs.  Only a dispatch that died without an end leaves text behind,  *)
(* which the channel's next message starts with.                           *)
PostsAreTurns ==
  LET from == Len(post.text) - post.sent
  IN post.turn # 0 =>
       /\ from >= 0
       /\ \A n \in 1..post.sent : post.text[from + n] = <<post.turn, n>>
       /\ \A n \in 1..from : post.text[n][1] \in broken

(* Whatever chats share or rotate: what the tables name is an open channel *)
(* at that session, the gateway lists all of these, and a chat has one.    *)
RoutesAreOpen ==
  /\ \A s \in Sessions :
       /\ attached[s] = {i \in DOMAIN objs : Open(i) /\ objs[i].session = s}
       /\ {bound[s], speaker[s]} \subseteq attached[s] \cup {None}
  /\ \A i \in DOMAIN objs : Open(i) => current[objs[i].chat] = i

(* A new session is told to a chat once at most, although entries of old   *)
(* channels stay in the registry, and not to the chat that asked for it.   *)
ToldOnce ==
  \A x \in DOMAIN told : told[x] <= IF minted[x[2]] = x[1] THEN 0 ELSE 1
=============================================================================
