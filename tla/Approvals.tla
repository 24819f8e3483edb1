------------------------------ MODULE Approvals ------------------------------
(***************************************************************************)
(* How a gated tool call gets the user's consent: the dispatch of          *)
(* SubprocessToolRunner (tools/runner.py), the ApprovalGate of its session *)
(* (tools/approval_gate.py), the ApprovalRouter that carries the prompt to *)
(* a channel and the answer back (gateway/approval_router.py), and the     *)
(* channels that come and go meanwhile: WebSockets (server.py) and the     *)
(* Telegram chat, which moves between sessions (channels/telegram.py).     *)
(***************************************************************************)
EXTENDS Naturals, FiniteSets

CONSTANTS
  Calls,      \* tool calls; each has at most one request_id, itself
  Sessions,   \* session ids
  Tools,      \* registered tools
  Gated,      \* DEFAULT_GATED_TOOLS: the rest is always allowed
  Trusts,     \* the trust levels of messages, as ranks
  MinTrust,   \* TrustPolicy.required, as a rank
  Sockets,    \* WebSocket connections
  SocketOf,   \* the session in the path of each connection
  None,       \* no session, no endpoint, no decision
  DbFaults    \* whether recording a decision may raise

ASSUME ApprovalsAssumption ==
  /\ Gated \subseteq Tools
  /\ Trusts \subseteq 0..2
  /\ MinTrust \in [Tools -> 0..2]
  /\ SocketOf \in [Sockets -> Sessions]
  /\ None \notin Sessions \cup Sockets \cup Calls \cup {"telegram"}
  /\ DbFaults \in BOOLEAN

VARIABLES
  call,       \* where each tool call is, and what it asks for
  fut,        \* the result of the future of a pending request
  pending,    \* ApprovalRouter._pending
  chans,      \* ApprovalRouter._channels
  remembered, \* ApprovalGate._session_allow of each session
  audit,      \* governance_decisions
  sock,       \* the state of each WebSocket
  chat,       \* TelegramBotRunner._sessions of the owner's chat
  seen,       \* the requests each endpoint shows
  answer      \* history: the answer of the user the router took, per call

vars == <<call, fut, pending, chans, remembered, audit, sock, chat, seen, answer>>

Answers   == {"allow_once", "allow_session", "deny"}
Names     == {"ws", "telegram"}
Endpoints == Sockets \cup {"telegram"}
Asked     == {"asking", "waiting"}
Finished  == {"ran", "refused", "raised"}
Request   == [st : {"new", "deciding"} \cup Asked \cup Finished,
              sess : Sessions \cup {None}, tool : Tools \cup {None},
              trust : Trusts \cup {0}, to : Endpoints \cup {None},
              decision : Answers \cup {None},
              scope : {"config", "once", "session", None}]
NewCall   == [st |-> "new", sess |-> None, tool |-> None, trust |-> 0,
              to |-> None, decision |-> None, scope |-> None]

TypeOK ==
  /\ call \in [Calls -> Request]
  /\ fut \in [Calls -> Answers \cup {None}]
  /\ pending \subseteq Calls
  /\ chans \in [Sessions -> [Names -> Endpoints \cup {None}]]
  /\ remembered \in [Sessions -> SUBSET Gated]
  /\ audit \subseteq [sess : Sessions, tool : Tools, decision : Answers,
                      scope : {"config", "once", "session"}]
  /\ sock \in [Sockets -> {"away", "open", "gone", "closed"}]
  /\ chat \in Sessions \cup {None}
  /\ seen \in [Endpoints -> SUBSET Calls]
  /\ answer \in [Calls -> Answers \cup {None}]

Init ==
  /\ call = [c \in Calls |-> NewCall]
  /\ fut = [c \in Calls |-> None]
  /\ pending = {}
  /\ chans = [s \in Sessions |-> [n \in Names |-> None]]
  /\ remembered = [s \in Sessions |-> {}]
  /\ audit = {}
  /\ sock = [w \in Sockets |-> "away"]
  /\ chat = None
  /\ seen = [e \in Endpoints |-> {}]
  /\ answer = [c \in Calls |-> None]

-----------------------------------------------------------------------------
(* A tool call: SubprocessToolRunner._dispatch and ApprovalGate.check.     *)

(* The turns of a session are serial, and so are the calls of a turn.      *)
Busy(s) == \E c \in Calls : call[c].sess = s /\ call[c].st \notin Finished

(* Fault: one set of remembered tools for all sessions.                    *)
RememberedAnywhere(s, t) == \E z \in Sessions : t \in remembered[z]

(* tool_name in self._session_allow, of the gate of this session.          *)
Remembered(s, t) == t \in remembered[s]

(* _pick_channel: the preferred one if it is bound, else the first name.   *)
Pick(s, preferred) ==
  IF chans[s][preferred] # None THEN chans[s][preferred]
  ELSE IF chans[s]["telegram"] # None THEN chans[s]["telegram"]
  ELSE chans[s]["ws"]

(* A call that did not run leaves no trace here; one that did, what it ran.*)
Over(c, st) ==
  call' = [call EXCEPT ![c] =
             [NewCall EXCEPT !.st = st,
                             !.sess = IF st = "ran" THEN call[c].sess ELSE None,
                             !.tool = IF st = "ran" THEN call[c].tool ELSE None,
                             !.trust = IF st = "ran" THEN call[c].trust ELSE 0]]

(* The call c of tool t begins, up to the first await: refused for lack of *)
(* trust, decided by configuration, allowed by an earlier answer, denied   *)
(* because no channel is bound, or about to be sent as a prompt.           *)
Begin(c, s, t, trust, preferred) ==
  LET to == Pick(s, preferred)
      request(st, e, decision, scope) ==
        [st |-> st, sess |-> s, tool |-> t, trust |-> trust, to |-> e,
         decision |-> decision, scope |-> scope]
  IN  /\ call[c].st = "new"
      /\ ~Busy(s)
      /\ call' = [call EXCEPT ![c] =
           IF trust < MinTrust[t] THEN [NewCall EXCEPT !.st = "refused"]
           ELSE IF t \notin Gated
                THEN request("deciding", None, "allow_session", "config")
           ELSE IF Remembered(s, t) THEN request("ran", None, None, None)
           ELSE IF to = None THEN request("deciding", None, "deny", "once")
           ELSE request("asking", to, None, None)]
      /\ pending' = IF call'[c].st = "asking" THEN pending \cup {c} ELSE pending
      /\ UNCHANGED <<fut, chans, remembered, audit, sock, chat, seen, answer>>

(* `await send(ApprovalRequest)` returns: the user sees the prompt, or it  *)
(* is lost - in a socket whose peer is gone, or because _safe_send of the  *)
(* Telegram channel swallows its failure.                                  *)
Sent(c) ==
  LET e == call[c].to
  IN  /\ call[c].st = "asking"
      /\ \/ /\ e \in Sockets => sock[e] = "open"
            /\ seen' = [seen EXCEPT ![e] = @ \cup {c}]
         \/ /\ e \in Sockets => sock[e] # "open"
            /\ UNCHANGED seen
      /\ call' = [call EXCEPT ![c] = [@ EXCEPT !.st = "waiting", !.to = None]]
      /\ UNCHANGED <<fut, pending, chans, remembered, audit, sock, chat, answer>>

(* The socket's peer is gone and send_text raises: the exception leaves    *)
(* request(), check() and run(), and ends the turn.                        *)
SendRaises(c) ==
  /\ call[c].st = "asking"
  /\ call[c].to \in Sockets
  /\ sock[call[c].to] # "open"
  /\ Over(c, "raised")
  /\ pending' = pending \ {c}
  /\ UNCHANGED <<fut, chans, remembered, audit, sock, chat, seen, answer>>

(* The scope check() records for a decision of the user.                   *)
ScopeOf(d) == IF d = "allow_session" THEN "session" ELSE "once"

Decide(c, d) ==
  call' = [call EXCEPT ![c] = [@ EXCEPT !.st = "deciding", !.to = None,
                                        !.decision = d, !.scope = ScopeOf(d)]]

(* The future has its result and request() returns it.                     *)
Resume(c) ==
  /\ call[c].st = "waiting"
  /\ fut[c] # None
  /\ Decide(c, fut[c])
  /\ pending' = pending \ {c}
  /\ UNCHANGED <<fut, chans, remembered, audit, sock, chat, seen, answer>>

(* Fault: the request waits for as long as it takes.                       *)
GiveUpSending(c) ==
  /\ call[c].st = "asking"
  /\ Decide(c, "deny")
  /\ pending' = pending \ {c}
  /\ UNCHANGED <<fut, chans, remembered, audit, sock, chat, seen, answer>>

(* Fault: no `finally` drops the request.                                  *)
GiveUpKeeping(c) ==
  /\ call[c].st \in Asked
  /\ Decide(c, "deny")
  /\ UNCHANGED pending
  /\ UNCHANGED <<fut, chans, remembered, audit, sock, chat, seen, answer>>

(* The timeout of wait_for, or the CancelledError of Gateway.stop: deny.   *)
(* A timer that fires once the future is set but before the task runs      *)
(* again wins.                                                             *)
GiveUp(c) ==
  /\ call[c].st \in Asked
  /\ Decide(c, "deny")
  /\ pending' = pending \ {c}
  /\ UNCHANGED <<fut, chans, remembered, audit, sock, chat, seen, answer>>

(* _record commits; then the tool runs or is denied, and ALLOW_SESSION is  *)
(* remembered for this session.                                            *)
Record(c) ==
  /\ call[c].st = "deciding"
  /\ audit' = audit \cup {[sess |-> call[c].sess, tool |-> call[c].tool,
                           decision |-> call[c].decision,
                           scope |-> call[c].scope]}
  /\ Over(c, IF call[c].decision = "deny" THEN "refused" ELSE "ran")
  /\ remembered' = IF call[c].scope = "session"
                   THEN [remembered EXCEPT ![call[c].sess] = @ \cup {call[c].tool}]
                   ELSE remembered
  /\ UNCHANGED <<fut, pending, chans, sock, chat, seen, answer>>

(* Fault: a failure of the audit trail is ignored.                         *)
RecordIgnored(c) ==
  /\ DbFaults
  /\ call[c].st = "deciding"
  /\ Over(c, IF call[c].decision = "deny" THEN "refused" ELSE "ran")
  /\ UNCHANGED <<fut, pending, chans, remembered, audit, sock, chat, seen, answer>>

(* _record raises: the exception ends the turn, and nothing is remembered. *)
RecordFails(c) ==
  /\ DbFaults
  /\ call[c].st = "deciding"
  /\ Over(c, "raised")
  /\ UNCHANGED <<fut, pending, chans, remembered, audit, sock, chat, seen, answer>>

-----------------------------------------------------------------------------
(* Answers.                                                                *)

(* ApprovalRouter.resolve(s, c, d).                                        *)
Resolve(s, c, d) ==
  /\ IF c \in pending /\ call[c].sess = s
     THEN /\ pending' = pending \ {c}
          /\ fut' = [fut EXCEPT ![c] = d]
          /\ answer' = [answer EXCEPT ![c] = d]
     ELSE UNCHANGED <<pending, fut, answer>>
  /\ UNCHANGED <<call, chans, remembered, audit, sock>>

(* A control frame of an open socket reaches _make_control_handler.        *)
WsAnswers(w, c, d) ==
  /\ sock[w] = "open"
  /\ c \in seen[w]
  /\ Resolve(SocketOf[w], c, d)
  /\ seen' = [seen EXCEPT ![w] = @ \ {c}]
  /\ UNCHANGED chat

(* A button of a Telegram prompt, for the session the chat is in now.      *)
TelegramAnswers(c, d) ==
  /\ chat # None
  /\ c \in seen["telegram"]
  /\ Resolve(chat, c, d)
  /\ seen' = [seen EXCEPT !["telegram"] = @ \ {c}]
  /\ UNCHANGED chat

-----------------------------------------------------------------------------
(* Channels come and go.                                                   *)

Bind(s, n, e) == chans' = [chans EXCEPT ![s] = [@ EXCEPT ![n] = e]]

(* Fault: unbind only forgets the channel.                                 *)
UnbindOnly(s, n) == /\ Bind(s, n, None)
                    /\ UNCHANGED <<pending, fut>>

(* ApprovalRouter.unbind: the name goes, whoever is bound under it; the    *)
(* last one denies what is pending.                                        *)
Unbind(s, n) ==
  LET failed == IF \A m \in Names \ {n} : chans[s][m] = None
                THEN {c \in pending : call[c].sess = s} ELSE {}
  IN  /\ Bind(s, n, None)
      /\ pending' = pending \ failed
      /\ fut' = [c \in Calls |-> IF c \in failed THEN "deny" ELSE fut[c]]

(* _ws: accept, replay, register and bind.                                 *)
Connect(w) ==
  /\ sock[w] = "away"
  /\ sock' = [sock EXCEPT ![w] = "open"]
  /\ Bind(SocketOf[w], "ws", w)
  /\ UNCHANGED <<call, fut, pending, remembered, audit, chat, seen, answer>>

(* The peer vanishes; the server has not noticed.                          *)
PeerGone(w) ==
  /\ sock[w] = "open"
  /\ sock' = [sock EXCEPT ![w] = "gone"]
  /\ UNCHANGED <<call, fut, pending, chans, remembered, audit, chat, seen, answer>>

(* Fault: the handler of the socket ends without its `finally`.            *)
DisconnectDirty(w) ==
  /\ sock[w] \in {"open", "gone"}
  /\ sock' = [sock EXCEPT ![w] = "closed"]
  /\ UNCHANGED <<chans, pending, fut>>
  /\ UNCHANGED <<call, remembered, audit, chat, seen, answer>>

(* _ws leaves its loop, on a disconnect or on an exception of submit():    *)
(* unbind the session's "ws", close.                                       *)
Disconnect(w) ==
  /\ sock[w] \in {"open", "gone"}
  /\ sock' = [sock EXCEPT ![w] = "closed"]
  /\ Unbind(SocketOf[w], "ws")
  /\ UNCHANGED <<call, remembered, audit, chat, seen, answer>>

(* _open_session: the chat joins a session, its first or the next.         *)
ChatJoins(s) ==
  /\ chat = None
  /\ chat' = s
  /\ Bind(s, "telegram", "telegram")
  /\ UNCHANGED <<call, fut, pending, remembered, audit, sock, seen, answer>>

(* _rotate_session leaves the old session before it opens the new one, and *)
(* so does stop().                                                         *)
ChatLeaves ==
  /\ chat # None
  /\ chat' = None
  /\ Unbind(chat, "telegram")
  /\ UNCHANGED <<call, remembered, audit, sock, seen, answer>>

-----------------------------------------------------------------------------
CallStep(c) == \/ Sent(c) \/ SendRaises(c) \/ Resume(c) \/ GiveUp(c)
               \/ Record(c) \/ RecordFails(c)

Next ==
  \/ \E c \in Calls, s \in Sessions, t \in Tools, trust \in Trusts, n \in Names :
       Begin(c, s, t, trust, n)
  \/ \E c \in Calls : CallStep(c)
  \/ \E w \in Sockets, c \in Calls, d \in Answers : WsAnswers(w, c, d)
  \/ \E c \in Calls, d \in {"allow_once", "deny"} : TelegramAnswers(c, d)
  \/ \E w \in Sockets : Connect(w) \/ PeerGone(w) \/ Disconnect(w)
  \/ \E s \in Sessions : ChatJoins(s)
  \/ ChatLeaves

(* The loop runs every task that is ready and fires every timer.  Nobody   *)
(* has to answer, connect or leave.                                        *)
Spec     == Init /\ [][Next]_vars
FairSpec == Spec /\ \A c \in Calls : WF_vars(CallStep(c))

-----------------------------------------------------------------------------
(* Properties.                                                             *)

(* A tool runs only if the message's trust allows it and, when it is       *)
(* gated, the user said so: to this very call, or "for this session" to an *)
(* earlier call of the same tool in the same session.  No timeout,         *)
(* disconnect, reconnect or change of session stands in for an answer.     *)
RunsWereConsented ==
  \A c \in Calls : call[c].st = "ran" =>
    /\ call[c].trust >= MinTrust[call[c].tool]
    /\ \/ call[c].tool \notin Gated
       \/ answer[c] \in {"allow_once", "allow_session"}
       \/ \E d \in Calls : /\ answer[d] = "allow_session"
                           /\ call[d].st = "ran"
                           /\ call[d].sess = call[c].sess
                           /\ call[d].tool = call[c].tool

(* Nothing runs off the record: governance_decisions holds a decision of   *)
(* the session that lets the tool run, also when writing one may fail.     *)
RunsWereAudited ==
  \A c \in Calls : call[c].st = "ran" =>
    \E r \in audit : /\ r.sess = call[c].sess
                     /\ r.tool = call[c].tool
                     /\ r.decision # "deny"

(* The router keeps no request that nobody waits for.                      *)
PendingIsAwaited == \A c \in pending : call[c].st \in Asked /\ fut[c] = None

(* A request never waits for a user who is gone (approval_router.py:61):   *)
(* while it is pending its session has a channel, however many channels    *)
(* came and went since the prompt was sent.                                *)
PendingHasChannel ==
  \A c \in pending : \E n \in Names : chans[call[c].sess][n] # None

(* No binding outlives its connection, whichever order two sockets of a    *)
(* session connect and disconnect in.                                      *)
BoundIsOpen ==
  \A s \in Sessions : LET w == chans[s]["ws"]
                      IN  w # None => SocketOf[w] = s /\ sock[w] # "closed"

(* Every call gets its result, so the turn, and with it the session,       *)
(* always moves on (approval_router.py:12).                                *)
CallsFinish ==
  \A c \in Calls : call[c].st \in Asked \cup {"deciding"}
                   ~> call[c].st \in Finished
=============================================================================
