--------------------------- MODULE ApprovalsProofs ---------------------------
(***************************************************************************)
(* Theorems about Approvals, for any calls, sessions, tools and sockets.   *)
(***************************************************************************)
EXTENDS Approvals, TLAPS

USE ApprovalsAssumption

-----------------------------------------------------------------------------
(* The inductive invariant.                                                *)

(* What a call at its place is entitled to: its trust was tested, what the *)
(* future brings is an answer or a denial, and a decision to allow is an   *)
(* answer or the configuration's.                                          *)
Entitled(c) ==
  /\ call[c].st \in Asked \cup {"deciding", "ran"} =>
       /\ call[c].sess \in Sessions
       /\ call[c].tool \in Tools
       /\ call[c].trust >= MinTrust[call[c].tool]
  /\ call[c].st \in Asked => call[c].tool \in Gated
  /\ call[c].st \in Asked => fut[c] \in {None, "deny", answer[c]}
  /\ call[c].st = "new" => fut[c] = None
  /\ call[c].st = "deciding" =>
       /\ call[c].decision \in Answers
       /\ \/ /\ call[c].tool \notin Gated
             /\ call[c].scope = "config"
          \/ /\ call[c].tool \in Gated
             /\ call[c].scope = ScopeOf(call[c].decision)
             /\ call[c].decision \in {"deny", answer[c]}

(* The user allowed t in s for the whole session, to a call that ran.      *)
SessionConsent(s, t) ==
  \E d \in Calls : /\ answer[d] = "allow_session"
                   /\ call[d].st = "ran"
                   /\ call[d].sess = s
                   /\ call[d].tool = t

(* A decision that lets t run in s is on record.                           *)
OnRecord(s, t) ==
  \E r \in audit : r.sess = s /\ r.tool = t /\ r.decision # "deny"

(* A gate remembers only what was allowed and recorded.                    *)
Remembrance ==
  \A s \in Sessions : \A t \in remembered[s] :
    SessionConsent(s, t) /\ OnRecord(s, t)

(* Under "ws" a session has a socket or nothing.                           *)
WsIsSocket == \A s \in Sessions : chans[s]["ws"] \in Sockets \cup {None}

IInv == /\ TypeOK
        /\ \A c \in Calls : Entitled(c)
        /\ Remembrance
        /\ RunsWereConsented
        /\ RunsWereAudited
        /\ PendingIsAwaited
        /\ PendingHasChannel
        /\ WsIsSocket
        /\ BoundIsOpen

-----------------------------------------------------------------------------
(* What the steps do to a call.                                            *)

(* The ends of a call are three, and none of them is a wait.               *)
LEMMA FinishedIsOver ==
  \A st \in Finished : st \notin Asked \cup {"deciding", "new"}
BY DEF Finished, Asked

(* Begin moves one call, to one of five places.                            *)
LEMMA BeginCases ==
  ASSUME TypeOK, NEW c \in Calls, NEW s \in Sessions, NEW t \in Tools,
         NEW trust \in Trusts, NEW n \in Names, Begin(c, s, t, trust, n)
  PROVE  /\ call[c].st = "new"
         /\ call' \in [Calls -> Request]
         /\ \A u \in Calls \ {c} : call'[u] = call[u]
         /\ \/ call'[c].st = "refused" /\ pending' = pending
            \/ /\ call'[c].sess = s
               /\ call'[c].tool = t
               /\ call'[c].trust >= MinTrust[t]
               /\ \/ /\ call'[c].st = "deciding" /\ t \notin Gated
                     /\ call'[c].decision = "allow_session"
                     /\ call'[c].scope = "config"
                     /\ pending' = pending
                  \/ /\ call'[c].st = "ran" /\ t \in Gated
                     /\ t \in remembered[s]
                     /\ pending' = pending
                  \/ /\ call'[c].st = "deciding" /\ t \in Gated
                     /\ call'[c].decision = "deny"
                     /\ call'[c].scope = "once"
                     /\ pending' = pending
                  \/ /\ call'[c].st = "asking" /\ t \in Gated
                     /\ \E m \in Names : chans[s][m] # None
                     /\ pending' = pending \cup {c}
<1> DEFINE to == Pick(s, n)
           request(st, e, decision, scope) ==
             [st |-> st, sess |-> s, tool |-> t, trust |-> trust, to |-> e,
              decision |-> decision, scope |-> scope]
           moved(r) == call' = [call EXCEPT ![c] = r]
<1>1. \A r \in Request : moved(r) =>
        /\ call' \in [Calls -> Request]
        /\ call'[c] = r
        /\ \A u \in Calls \ {c} : call'[u] = call[u]
  BY DEF TypeOK
<1>2. to \in Endpoints \cup {None}
      /\ (to # None => \E m \in Names : chans[s][m] # None)
  BY DEF Pick, TypeOK, Names
<1>3. call[c].st = "new"  BY DEF Begin
<1>4. \A r : moved(r) => (pending' = IF call'[c].st = "asking"
                                     THEN pending \cup {c} ELSE pending)
  BY DEF Begin
<1>5. CASE trust < MinTrust[t]
  <2>1. moved([NewCall EXCEPT !.st = "refused"])  BY <1>5 DEF Begin
  <2>2. [NewCall EXCEPT !.st = "refused"] \in Request
        /\ [NewCall EXCEPT !.st = "refused"].st = "refused"
    BY DEF NewCall, Request, Finished
  <2>3. QED  BY <1>1, <1>3, <1>4, <2>1, <2>2
<1>6. CASE ~(trust < MinTrust[t])
  <2>0. trust >= MinTrust[t]  BY <1>6
  <2>1. CASE t \notin Gated
    <3>1. moved(request("deciding", None, "allow_session", "config"))
      BY <1>6, <2>1 DEF Begin
    <3>2. request("deciding", None, "allow_session", "config") \in Request
      BY DEF Request, Answers
    <3>3. QED  BY <1>1, <1>3, <1>4, <2>0, <2>1, <3>1, <3>2
  <2>2. CASE t \in Gated /\ t \in remembered[s]
    <3>1. moved(request("ran", None, None, None))
      BY <1>6, <2>2 DEF Begin, Remembered
    <3>2. request("ran", None, None, None) \in Request
      BY DEF Request, Finished
    <3>3. QED  BY <1>1, <1>3, <1>4, <2>0, <2>2, <3>1, <3>2
  <2>3. CASE t \in Gated /\ t \notin remembered[s] /\ to = None
    <3>1. moved(request("deciding", None, "deny", "once"))
      BY <1>6, <2>3 DEF Begin, Remembered
    <3>2. request("deciding", None, "deny", "once") \in Request
      BY DEF Request, Answers
    <3>3. QED  BY <1>1, <1>3, <1>4, <2>0, <2>3, <3>1, <3>2
  <2>4. CASE t \in Gated /\ t \notin remembered[s] /\ to # None
    <3>1. moved(request("asking", to, None, None))
      BY <1>6, <2>4 DEF Begin, Remembered
    <3>2. request("asking", to, None, None) \in Request
      BY <1>2 DEF Request, Asked
    <3>3. QED  BY <1>1, <1>2, <1>3, <1>4, <2>0, <2>4, <3>1, <3>2
  <2>5. QED  BY <2>1, <2>2, <2>3, <2>4
<1>7. QED  BY <1>5, <1>6

(* The end of a call keeps what it ran, if it did.                         *)
LEMMA OverCases ==
  ASSUME TypeOK, NEW c \in Calls, NEW st \in Finished, Over(c, st)
  PROVE  /\ call' \in [Calls -> Request]
         /\ \A u \in Calls \ {c} : call'[u] = call[u]
         /\ call'[c].st = st
         /\ st = "ran" => /\ call'[c].sess = call[c].sess
                          /\ call'[c].tool = call[c].tool
                          /\ call'[c].trust = call[c].trust
<1> DEFINE r == [NewCall EXCEPT
                   !.st = st,
                   !.sess = IF st = "ran" THEN call[c].sess ELSE None,
                   !.tool = IF st = "ran" THEN call[c].tool ELSE None,
                   !.trust = IF st = "ran" THEN call[c].trust ELSE 0]
<1>1. call' = [call EXCEPT ![c] = r]  BY DEF Over
<1>2. call[c] \in Request  BY DEF TypeOK
<1>3. /\ r.st = st
      /\ st = "ran" => /\ r.sess = call[c].sess
                       /\ r.tool = call[c].tool
                       /\ r.trust = call[c].trust
  BY DEF NewCall
<1>4. r \in Request
  <2>1. ASSUME NEW a \in Sessions \cup {None}, NEW b \in Tools \cup {None},
               NEW t \in Trusts \cup {0}
        PROVE  [NewCall EXCEPT !.st = st, !.sess = a, !.tool = b, !.trust = t]
                 \in Request
    BY DEF NewCall, Request
  <2>2. /\ call[c].sess \in Sessions \cup {None}
        /\ call[c].tool \in Tools \cup {None}
        /\ call[c].trust \in Trusts \cup {0}
    BY <1>2 DEF Request
  <2>3. CASE st = "ran"  BY <2>1, <2>2, <2>3
  <2>4. CASE st # "ran"  BY <2>1, <2>4
  <2>5. QED  BY <2>3, <2>4
<1> HIDE DEF r
<1>5. QED  BY <1>1, <1>3, <1>4 DEF TypeOK

(* A decision changes the place of the call, not what it asks for.         *)
LEMMA DecideCases ==
  ASSUME TypeOK, NEW c \in Calls, NEW d \in Answers, Decide(c, d)
  PROVE  /\ call' \in [Calls -> Request]
         /\ \A u \in Calls \ {c} : call'[u] = call[u]
         /\ call'[c].st = "deciding"
         /\ call'[c].sess = call[c].sess
         /\ call'[c].tool = call[c].tool
         /\ call'[c].trust = call[c].trust
         /\ call'[c].decision = d
         /\ call'[c].scope = ScopeOf(d)
<1> DEFINE r == [call[c] EXCEPT !.st = "deciding", !.to = None,
                                !.decision = d, !.scope = ScopeOf(d)]
<1>1. call' = [call EXCEPT ![c] = r]  BY DEF Decide
<1>2. call[c] \in Request  BY DEF TypeOK
<1>3. ScopeOf(d) \in {"session", "once"}  BY DEF ScopeOf
<1>4. /\ r \in Request
      /\ r.st = "deciding" /\ r.decision = d /\ r.scope = ScopeOf(d)
      /\ r.sess = call[c].sess /\ r.tool = call[c].tool
      /\ r.trust = call[c].trust
  BY <1>2, <1>3 DEF Request
<1> HIDE DEF r
<1>5. QED  BY <1>1, <1>4 DEF TypeOK

(* So does the return of the channel's send.                               *)
LEMMA SentCases ==
  ASSUME TypeOK, NEW c \in Calls, Sent(c)
  PROVE  /\ call' \in [Calls -> Request]
         /\ \A u \in Calls \ {c} : call'[u] = call[u]
         /\ call[c].st = "asking" /\ call'[c].st = "waiting"
         /\ call'[c].sess = call[c].sess
         /\ call'[c].tool = call[c].tool
         /\ call'[c].trust = call[c].trust
         /\ seen' \in [Endpoints -> SUBSET Calls]
<1> DEFINE r == [call[c] EXCEPT !.st = "waiting", !.to = None]
<1>1. call' = [call EXCEPT ![c] = r] /\ call[c].st = "asking"  BY DEF Sent
<1>2. call[c] \in Request  BY DEF TypeOK
<1>3. /\ r \in Request
      /\ r.st = "waiting"
      /\ r.sess = call[c].sess /\ r.tool = call[c].tool
      /\ r.trust = call[c].trust
  BY <1>2 DEF Request, Asked
<1>4. seen' \in [Endpoints -> SUBSET Calls]  BY DEF Sent, TypeOK
<1> HIDE DEF r
<1>5. QED  BY <1>1, <1>3, <1>4 DEF TypeOK

-----------------------------------------------------------------------------
(* What the steps do to requests, answers and channels.                    *)

(* The steps of a call touch no channel and no answer, and drop its        *)
(* request when it stops waiting.                                          *)
LEMMA CallFrame ==
  ASSUME NEW c \in Calls, CallStep(c)
  PROVE  /\ UNCHANGED <<fut, chans, sock, chat, answer>>
         /\ pending' \subseteq pending
         /\ ~Sent(c) => \/ pending' = pending \ {c}
                        \/ pending' = pending /\ call[c].st = "deciding"
         /\ audit \subseteq audit'
BY DEF CallStep, Sent, SendRaises, Resume, GiveUp, Record, RecordFails

(* An answer settles at most one pending request, and takes it away.       *)
LEMMA ResolveCases ==
  ASSUME TypeOK, NEW s, NEW c \in Calls, NEW d \in Answers, Resolve(s, c, d)
  PROVE  /\ UNCHANGED <<call, chans, remembered, audit, sock>>
         /\ pending' \subseteq pending
         /\ fut' \in [Calls -> Answers \cup {None}]
         /\ answer' \in [Calls -> Answers \cup {None}]
         /\ \A u \in Calls :
              \/ fut'[u] = fut[u] /\ answer'[u] = answer[u]
              \/ /\ u \in pending /\ u \notin pending'
                 /\ fut'[u] = answer'[u]
<1>1. UNCHANGED <<call, chans, remembered, audit, sock>>  BY DEF Resolve
<1>2. CASE c \in pending /\ call[c].sess = s
  <2>1. /\ pending' = pending \ {c}
        /\ fut' = [fut EXCEPT ![c] = d]
        /\ answer' = [answer EXCEPT ![c] = d]
    BY <1>2 DEF Resolve
  <2>2. QED  BY <1>1, <1>2, <2>1 DEF TypeOK
<1>3. CASE ~(c \in pending /\ call[c].sess = s)
  <2>1. UNCHANGED <<pending, fut, answer>>  BY <1>3 DEF Resolve
  <2>2. QED  BY <1>1, <2>1 DEF TypeOK
<1>4. QED  BY <1>2, <1>3

Answering == \/ \E w \in Sockets, c \in Calls, d \in Answers : WsAnswers(w, c, d)
             \/ \E c \in Calls, d \in {"allow_once", "deny"} :
                  TelegramAnswers(c, d)

(* However it arrives.                                                     *)
LEMMA AnsweringCases ==
  ASSUME TypeOK, Answering
  PROVE  /\ UNCHANGED <<call, chans, remembered, audit, sock, chat>>
         /\ pending' \subseteq pending
         /\ fut' \in [Calls -> Answers \cup {None}]
         /\ answer' \in [Calls -> Answers \cup {None}]
         /\ seen' \in [Endpoints -> SUBSET Calls]
         /\ \A u \in Calls :
              \/ fut'[u] = fut[u] /\ answer'[u] = answer[u]
              \/ /\ u \in pending /\ u \notin pending'
                 /\ fut'[u] = answer'[u]
<1>1. ASSUME NEW w \in Sockets, NEW c \in Calls, NEW d \in Answers,
             WsAnswers(w, c, d)
      PROVE  /\ Resolve(SocketOf[w], c, d) /\ UNCHANGED chat
             /\ seen' \in [Endpoints -> SUBSET Calls]
  BY <1>1 DEF WsAnswers, TypeOK
<1>2. ASSUME NEW c \in Calls, NEW d \in {"allow_once", "deny"},
             TelegramAnswers(c, d)
      PROVE  /\ Resolve(chat, c, d) /\ UNCHANGED chat /\ d \in Answers
             /\ seen' \in [Endpoints -> SUBSET Calls]
  BY <1>2 DEF TelegramAnswers, TypeOK, Answers
<1>3. PICK c \in Calls, d \in Answers :
        /\ \E s : Resolve(s, c, d)
        /\ UNCHANGED chat
        /\ seen' \in [Endpoints -> SUBSET Calls]
  BY <1>1, <1>2 DEF Answering
<1>4. QED  BY <1>3, ResolveCases

(* Binding fills one place.                                                *)
LEMMA BindCases ==
  ASSUME TypeOK, NEW s \in Sessions, NEW n \in Names,
         NEW e \in Endpoints \cup {None}, Bind(s, n, e)
  PROVE  /\ chans' \in [Sessions -> [Names -> Endpoints \cup {None}]]
         /\ chans'[s][n] = e
         /\ \A z \in Sessions, m \in Names :
              z # s \/ m # n => chans'[z][m] = chans[z][m]
BY DEF Bind, TypeOK

(* Unbinding empties one, and fails the requests of a session that has no  *)
(* other.                                                                  *)
LEMMA UnbindCases ==
  ASSUME TypeOK, NEW s \in Sessions, NEW n \in Names, Unbind(s, n)
  PROVE  /\ Bind(s, n, None)
         /\ pending' \subseteq pending
         /\ fut' \in [Calls -> Answers \cup {None}]
         /\ \A u \in Calls : fut'[u] = fut[u]
                             \/ (u \in pending /\ fut'[u] = "deny")
         /\ \A u \in pending' :
              /\ fut'[u] = fut[u]
              /\ call[u].sess = s => \E m \in Names \ {n} : chans[s][m] # None
<1> DEFINE failed == IF \A m \in Names \ {n} : chans[s][m] = None
                     THEN {u \in pending : call[u].sess = s} ELSE {}
<1>1. /\ Bind(s, n, None)
      /\ pending' = pending \ failed
      /\ fut' = [u \in Calls |-> IF u \in failed THEN "deny" ELSE fut[u]]
  BY DEF Unbind
<1>2. failed \subseteq pending /\ pending \subseteq Calls  BY DEF TypeOK
<1>3. \A u \in pending \ failed :
        call[u].sess = s => \E m \in Names \ {n} : chans[s][m] # None
  OBVIOUS
<1> HIDE DEF failed
<1>4. fut' \in [Calls -> Answers \cup {None}]
  BY <1>1 DEF TypeOK, Answers
<1>5. QED  BY <1>1, <1>2, <1>3, <1>4

Leaving == \/ \E w \in Sockets : Disconnect(w)
           \/ ChatLeaves

(* A socket's handler ends or the chat leaves its session.                 *)
LEMMA LeavingCases ==
  ASSUME TypeOK, Leaving
  PROVE  /\ UNCHANGED <<call, remembered, audit, seen, answer>>
         /\ chat' \in Sessions \cup {None}
         /\ sock' \in [Sockets -> {"away", "open", "gone", "closed"}]
         /\ \E s \in Sessions, n \in Names : Unbind(s, n)
<1>1. ASSUME NEW w \in Sockets, Disconnect(w)
      PROVE  /\ UNCHANGED <<call, remembered, audit, chat, seen, answer>>
             /\ sock' \in [Sockets -> {"away", "open", "gone", "closed"}]
             /\ SocketOf[w] \in Sessions /\ Unbind(SocketOf[w], "ws")
  BY <1>1 DEF Disconnect, TypeOK
<1>2. CASE ChatLeaves
  <2>1. chat \in Sessions /\ chat' = None /\ Unbind(chat, "telegram")
    BY <1>2 DEF ChatLeaves, TypeOK
  <2>2. UNCHANGED <<call, remembered, audit, sock, seen, answer>>
    BY <1>2 DEF ChatLeaves
  <2>3. QED  BY <2>1, <2>2 DEF TypeOK, Names
<1>3. QED  BY <1>1, <1>2 DEF Leaving, TypeOK, Names

Joining == \/ \E w \in Sockets : Connect(w) \/ PeerGone(w)
           \/ \E s \in Sessions : ChatJoins(s)

(* A socket connects or loses its peer, or the chat joins a session.       *)
LEMMA JoiningCases ==
  ASSUME TypeOK, Joining
  PROVE  /\ UNCHANGED <<call, fut, pending, remembered, audit, seen, answer>>
         /\ chat' \in Sessions \cup {None}
         /\ sock' \in [Sockets -> {"away", "open", "gone", "closed"}]
         /\ \/ UNCHANGED chans
            \/ \E s \in Sessions, n \in Names, e \in Endpoints : Bind(s, n, e)
<1>1. ASSUME NEW w \in Sockets, Connect(w)
      PROVE  /\ UNCHANGED <<call, fut, pending, remembered, audit, chat, seen,
                            answer>>
             /\ sock' \in [Sockets -> {"away", "open", "gone", "closed"}]
             /\ SocketOf[w] \in Sessions /\ w \in Endpoints /\ "ws" \in Names
             /\ Bind(SocketOf[w], "ws", w)
  BY <1>1 DEF Connect, TypeOK, Endpoints, Names
<1>2. ASSUME NEW w \in Sockets, PeerGone(w)
      PROVE  /\ UNCHANGED <<call, fut, pending, chans, remembered, audit, chat,
                            seen, answer>>
             /\ sock' \in [Sockets -> {"away", "open", "gone", "closed"}]
  BY <1>2 DEF PeerGone, TypeOK
<1>3. ASSUME NEW s \in Sessions, ChatJoins(s)
      PROVE  /\ UNCHANGED <<call, fut, pending, remembered, audit, sock, seen,
                            answer>>
             /\ chat' = s /\ "telegram" \in Endpoints /\ "telegram" \in Names
             /\ Bind(s, "telegram", "telegram")
  BY <1>3 DEF ChatJoins, Endpoints, Names
<1>4. QED  BY <1>1, <1>2, <1>3 DEF Joining, TypeOK

Beginning == \E c \in Calls, s \in Sessions, t \in Tools, trust \in Trusts,
               n \in Names : Begin(c, s, t, trust, n)

(* The next-state relation, by what a step is about.                       *)
LEMMA NextCases ==
  ASSUME [Next]_vars
  PROVE  \/ Beginning
         \/ \E c \in Calls : CallStep(c)
         \/ Answering
         \/ Joining
         \/ Leaving
         \/ UNCHANGED vars
BY DEF Next, Beginning, Answering, Joining, Leaving

-----------------------------------------------------------------------------
(* Each part of the invariant is kept.                                     *)

(* Init satisfies the invariant.                                           *)
LEMMA InitInv == Init => IInv
<1> SUFFICES ASSUME Init PROVE IInv
  OBVIOUS
<1>1. NewCall \in Request /\ NewCall.st = "new"
  BY DEF NewCall, Request
<1>2. \A c \in Calls : call[c] = NewCall  BY DEF Init
<1>3. TypeOK  BY <1>1 DEF Init, TypeOK
<1>4. \A c \in Calls : Entitled(c)
  BY <1>1, <1>2 DEF Init, Entitled, Asked
<1>5. RunsWereConsented /\ RunsWereAudited
  BY <1>1, <1>2 DEF RunsWereConsented, RunsWereAudited
<1>6. WsIsSocket /\ BoundIsOpen
  BY DEF Init, WsIsSocket, BoundIsOpen, Names
<1>7. Remembrance /\ PendingIsAwaited /\ PendingHasChannel
  BY DEF Init, Remembrance, PendingIsAwaited, PendingHasChannel
<1>8. QED  BY <1>3, <1>4, <1>5, <1>6, <1>7 DEF IInv

(* What a decision writes has its type.                                    *)
LEMMA RecordTyped ==
  ASSUME TypeOK, NEW c \in Calls, Entitled(c), Record(c)
  PROVE  /\ audit' \subseteq [sess : Sessions, tool : Tools, decision : Answers,
                              scope : {"config", "once", "session"}]
         /\ remembered' \in [Sessions -> SUBSET Gated]
<1>1. /\ call[c].st = "deciding"
      /\ call[c].sess \in Sessions /\ call[c].tool \in Tools
      /\ call[c].decision \in Answers
      /\ \/ call[c].tool \notin Gated /\ call[c].scope = "config"
         \/ call[c].tool \in Gated /\ call[c].scope \in {"once", "session"}
  BY DEF Record, Entitled, ScopeOf
<1>2. [sess |-> call[c].sess, tool |-> call[c].tool,
       decision |-> call[c].decision, scope |-> call[c].scope]
        \in [sess : Sessions, tool : Tools, decision : Answers,
             scope : {"config", "once", "session"}]
  BY <1>1
<1>3. audit' \subseteq [sess : Sessions, tool : Tools, decision : Answers,
                        scope : {"config", "once", "session"}]
  BY <1>2 DEF Record, TypeOK
<1>4. CASE call[c].scope = "session"
  <2>1. remembered' = [remembered EXCEPT ![call[c].sess]
                                          = @ \cup {call[c].tool}]
    BY <1>4 DEF Record
  <2>2. call[c].tool \in Gated  BY <1>1, <1>4
  <2>3. QED  BY <1>1, <1>3, <2>1, <2>2 DEF TypeOK
<1>5. CASE call[c].scope # "session"
  BY <1>3, <1>5 DEF Record, TypeOK
<1>6. QED  BY <1>4, <1>5

(* The calls keep their type.                                              *)
LEMMA CallStepCases ==
  ASSUME TypeOK, NEW c \in Calls, Entitled(c), CallStep(c)
  PROVE  /\ call' \in [Calls -> Request]
         /\ \A u \in Calls \ {c} : call'[u] = call[u]
         /\ call[c].st \in Asked \cup {"deciding"}
         /\ call'[c].st \in {"waiting", "deciding"} \cup Finished
<1>1. CASE Sent(c)  BY <1>1, SentCases DEF Asked
<1>2. CASE SendRaises(c) \/ RecordFails(c)
  <2>1. Over(c, "raised") /\ "raised" \in Finished
        /\ call[c].st \in Asked \cup {"deciding"}
    BY <1>2 DEF SendRaises, RecordFails, Finished, Asked
  <2>2. QED  BY <2>1, OverCases
<1>3. CASE Resume(c)
  <2>1. Decide(c, fut[c]) /\ fut[c] \in Answers /\ call[c].st \in Asked
    BY <1>3 DEF Resume, TypeOK, Asked
  <2>2. QED  BY <2>1, DecideCases
<1>4. CASE GiveUp(c)
  <2>1. Decide(c, "deny") /\ "deny" \in Answers /\ call[c].st \in Asked
    BY <1>4 DEF GiveUp, Answers
  <2>2. QED  BY <2>1, DecideCases
<1>5. CASE Record(c)
  <2>1. PICK st \in {"refused", "ran"} : Over(c, st)  BY <1>5 DEF Record
  <2>2. st \in Finished  BY DEF Finished
  <2>3. call[c].st = "deciding"  BY <1>5 DEF Record
  <2>4. QED  BY <2>1, <2>2, <2>3, OverCases
<1>6. QED  BY <1>1, <1>2, <1>3, <1>4, <1>5 DEF CallStep

(* Steps keep the types.                                                   *)
LEMMA TypeStep ==
  ASSUME TypeOK, \A c \in Calls : Entitled(c), [Next]_vars
  PROVE  TypeOK'
<1>1. CASE Beginning
  <2>1. PICK c \in Calls, s \in Sessions, t \in Tools, trust \in Trusts,
             n \in Names : Begin(c, s, t, trust, n)
    BY <1>1 DEF Beginning
  <2>2. call' \in [Calls -> Request] /\ pending' \subseteq pending \cup {c}
    BY <2>1, BeginCases
  <2>3. UNCHANGED <<fut, chans, remembered, audit, sock, chat, seen, answer>>
    BY <2>1 DEF Begin
  <2>4. QED  BY <2>2, <2>3 DEF TypeOK
<1>2. ASSUME NEW c \in Calls, CallStep(c) PROVE TypeOK'
  <2>1. call' \in [Calls -> Request] /\ pending' \subseteq pending
        /\ UNCHANGED <<fut, chans, sock, chat, answer>>
    BY <1>2, CallStepCases, CallFrame
  <2>2. CASE Record(c)
    BY <2>1, <2>2, RecordTyped DEF Record, TypeOK
  <2>3. CASE Sent(c)
    <3>1. seen' \in [Endpoints -> SUBSET Calls]  BY <2>3, SentCases
    <3>2. QED  BY <2>1, <2>3, <3>1 DEF Sent, TypeOK
  <2>4. CASE SendRaises(c) \/ Resume(c) \/ GiveUp(c) \/ RecordFails(c)
    BY <2>1, <2>4 DEF SendRaises, Resume, GiveUp, RecordFails, TypeOK
  <2>5. QED  BY <1>2, <2>2, <2>3, <2>4 DEF CallStep
<1>3. CASE Answering  BY <1>3, AnsweringCases DEF TypeOK
<1>4. CASE Joining  BY <1>4, JoiningCases, BindCases DEF TypeOK
<1>5. CASE Leaving
  <2>1. PICK s \in Sessions, n \in Names : Unbind(s, n)
    BY <1>5, LeavingCases
  <2>2. chans' \in [Sessions -> [Names -> Endpoints \cup {None}]]
    BY <2>1, UnbindCases, BindCases
  <2>3. pending' \subseteq pending /\ fut' \in [Calls -> Answers \cup {None}]
    BY <2>1, UnbindCases
  <2>4. QED  BY <1>5, <2>2, <2>3, LeavingCases DEF TypeOK
<1>6. CASE UNCHANGED vars  BY <1>6 DEF vars, TypeOK
<1>7. QED  BY <1>1, <1>2, <1>3, <1>4, <1>5, <1>6, NextCases

(* A call that is not moved, and whose request is answered or failed at    *)
(* most, stays entitled.                                                   *)
LEMMA EntitledStays ==
  ASSUME TypeOK, PendingIsAwaited, NEW u \in Calls, Entitled(u),
         call'[u] = call[u],
         \/ fut'[u] = fut[u] /\ answer'[u] = answer[u]
         \/ u \in pending /\ fut'[u] \in {"deny", answer'[u]}
  PROVE  Entitled(u)'
<1>1. CASE fut'[u] = fut[u] /\ answer'[u] = answer[u]
  BY <1>1 DEF Entitled
<1>2. CASE u \in pending /\ fut'[u] \in {"deny", answer'[u]}
  <2>1. call[u].st \in Asked  BY <1>2 DEF PendingIsAwaited
  <2>2. call[u].st \notin {"deciding", "new"}  BY <2>1 DEF Asked
  <2>3. QED  BY <1>2, <2>1, <2>2 DEF Entitled
<1>3. QED  BY <1>1, <1>2

(* The step of a call keeps the call entitled.                             *)
LEMMA EntitledOwn ==
  ASSUME TypeOK, NEW c \in Calls, Entitled(c), CallStep(c)
  PROVE  Entitled(c)'
<1> USE DEF Asked
<1>1. fut' = fut /\ answer' = answer  BY CallFrame
<1>2. CASE Sent(c)  BY <1>1, <1>2, SentCases DEF Entitled
<1>3. CASE SendRaises(c) \/ RecordFails(c)
  <2>1. Over(c, "raised") /\ "raised" \in Finished
    BY <1>3 DEF SendRaises, RecordFails, Finished
  <2>2. call'[c].st = "raised"  BY <2>1, OverCases
  <2>3. QED  BY <2>2 DEF Entitled
<1>4. CASE Resume(c) \/ GiveUp(c)
  <2>1. PICK d \in Answers : Decide(c, d) /\ d \in {"deny", answer[c]}
                             /\ call[c].st \in Asked
    BY <1>4 DEF Resume, GiveUp, Entitled, TypeOK, Answers
  <2>2. QED  BY <1>1, <2>1, DecideCases DEF Entitled
<1>5. CASE Record(c)
  <2>1. PICK st \in {"refused", "ran"} : Over(c, st)  BY <1>5 DEF Record
  <2>2. st \in Finished  BY DEF Finished
  <2>3. call[c].st = "deciding"  BY <1>5 DEF Record
  <2>4. QED  BY <2>1, <2>2, <2>3, OverCases DEF Entitled
<1>6. QED  BY <1>2, <1>3, <1>4, <1>5 DEF CallStep

(* Every step keeps every call entitled.                                   *)
LEMMA EntitledStep ==
  ASSUME TypeOK, PendingIsAwaited, \A c \in Calls : Entitled(c), [Next]_vars
  PROVE  \A c \in Calls : Entitled(c)'
<1>1. CASE Beginning
  <2>1. PICK c \in Calls, s \in Sessions, t \in Tools, trust \in Trusts,
             n \in Names : Begin(c, s, t, trust, n)
    BY <1>1 DEF Beginning
  <2>2. fut' = fut /\ answer' = answer  BY <2>1 DEF Begin
  <2>3. ASSUME NEW u \in Calls, u # c PROVE Entitled(u)'
    BY <2>1, <2>2, <2>3, BeginCases, EntitledStays
  <2>4. Entitled(c)'
    <3>1. fut'[c] \in {None, "deny", answer'[c]}
      BY <2>1, <2>2, BeginCases DEF Entitled
    <3>2. CASE call'[c].st = "refused"  BY <3>2 DEF Entitled, Asked
    <3>3. CASE call'[c].st = "deciding"
      <4>1. "once" = ScopeOf("deny")  BY DEF ScopeOf
      <4>2. {"deny", "allow_session"} \subseteq Answers  BY DEF Answers
      <4>3. QED  BY <2>1, <3>3, <4>1, <4>2, BeginCases DEF Entitled, Asked
    <3>4. CASE call'[c].st = "ran"
      BY <2>1, <3>4, BeginCases DEF Entitled, Asked
    <3>5. CASE call'[c].st = "asking"
      BY <2>1, <3>1, <3>5, BeginCases DEF Entitled, Asked
    <3>6. QED  BY <2>1, <3>2, <3>3, <3>4, <3>5, BeginCases
  <2>5. QED  BY <2>3, <2>4
<1>2. ASSUME NEW c \in Calls, CallStep(c)
      PROVE  \A u \in Calls : Entitled(u)'
  <2>1. fut' = fut /\ answer' = answer  BY <1>2, CallFrame
  <2>2. ASSUME NEW u \in Calls, u # c PROVE Entitled(u)'
    BY <1>2, <2>1, <2>2, CallStepCases, EntitledStays
  <2>3. Entitled(c)'  BY <1>2, EntitledOwn
  <2>4. QED  BY <2>2, <2>3
<1>3. CASE Answering  BY <1>3, AnsweringCases, EntitledStays
<1>4. CASE Joining  BY <1>4, JoiningCases, EntitledStays
<1>5. CASE Leaving
  <2>1. call' = call /\ answer' = answer  BY <1>5, LeavingCases
  <2>2. PICK s \in Sessions, n \in Names : Unbind(s, n)
    BY <1>5, LeavingCases
  <2>3. QED  BY <2>1, <2>2, UnbindCases, EntitledStays
<1>6. CASE UNCHANGED vars  BY <1>6, EntitledStays DEF vars
<1>7. QED  BY <1>1, <1>2, <1>3, <1>4, <1>5, <1>6, NextCases

(* A call that ran stays as it is, and so does the answer it had.          *)
LEMMA RanStays ==
  ASSUME TypeOK, PendingIsAwaited, \A c \in Calls : Entitled(c), [Next]_vars,
         NEW u \in Calls, call[u].st = "ran"
  PROVE  call'[u] = call[u] /\ answer'[u] = answer[u]
<1>1. u \notin pending  BY DEF PendingIsAwaited, Asked
<1>2. CASE Beginning
  <2>1. PICK c \in Calls, s \in Sessions, t \in Tools, trust \in Trusts,
             n \in Names : Begin(c, s, t, trust, n)
    BY <1>2 DEF Beginning
  <2>2. answer' = answer  BY <2>1 DEF Begin
  <2>3. QED  BY <2>1, <2>2, BeginCases
<1>3. ASSUME NEW c \in Calls, CallStep(c)
      PROVE  call'[u] = call[u] /\ answer'[u] = answer[u]
  BY <1>3, CallFrame, CallStepCases DEF Asked
<1>4. CASE Answering  BY <1>1, <1>4, AnsweringCases
<1>5. CASE Joining  BY <1>5, JoiningCases
<1>6. CASE Leaving  BY <1>6, LeavingCases
<1>7. CASE UNCHANGED vars  BY <1>7 DEF vars
<1>8. QED  BY <1>2, <1>3, <1>4, <1>5, <1>6, <1>7, NextCases

(* The audit trail only grows.                                             *)
LEMMA AuditGrows ==
  ASSUME TypeOK, [Next]_vars
  PROVE  audit \subseteq audit'
<1>1. CASE Beginning  BY <1>1 DEF Beginning, Begin
<1>2. CASE Answering  BY <1>2, AnsweringCases
<1>3. CASE Joining  BY <1>3, JoiningCases
<1>4. CASE Leaving  BY <1>4, LeavingCases
<1>5. CASE UNCHANGED vars  BY <1>5 DEF vars
<1>6. QED  BY <1>1, <1>2, <1>3, <1>4, <1>5, CallFrame, NextCases

(* So neither consent for a session nor a record is ever lost.             *)
LEMMA ConsentStays ==
  ASSUME TypeOK, PendingIsAwaited, \A c \in Calls : Entitled(c), [Next]_vars,
         NEW s, NEW t
  PROVE  /\ SessionConsent(s, t) => SessionConsent(s, t)'
         /\ OnRecord(s, t) => OnRecord(s, t)'
<1>1. SessionConsent(s, t) => SessionConsent(s, t)'
  BY RanStays DEF SessionConsent
<1>2. OnRecord(s, t) => OnRecord(s, t)'  BY AuditGrows DEF OnRecord
<1>3. QED  BY <1>1, <1>2

(* A decision that lets the tool run is on record, and when it is for the  *)
(* session, the session has consented.                                     *)
LEMMA RecordConsents ==
  ASSUME TypeOK, NEW c \in Calls, Entitled(c), Record(c),
         call[c].decision # "deny"
  PROVE  /\ call'[c].st = "ran"
         /\ call'[c].sess = call[c].sess
         /\ call'[c].tool = call[c].tool
         /\ call'[c].trust = call[c].trust
         /\ OnRecord(call[c].sess, call[c].tool)'
         /\ call[c].tool \notin Gated \/ answer'[c] = call[c].decision
         /\ call[c].scope = "session"
              => SessionConsent(call[c].sess, call[c].tool)'
<1>1. call[c].st = "deciding" /\ answer' = answer  BY DEF Record
<1>2. Over(c, "ran") /\ "ran" \in Finished  BY DEF Record, Finished
<1>3. /\ call'[c].st = "ran"
      /\ call'[c].sess = call[c].sess
      /\ call'[c].tool = call[c].tool
      /\ call'[c].trust = call[c].trust
  BY <1>2, OverCases
<1>4. OnRecord(call[c].sess, call[c].tool)'
  <2> DEFINE r == [sess |-> call[c].sess, tool |-> call[c].tool,
                   decision |-> call[c].decision, scope |-> call[c].scope]
  <2>1. r \in audit'  BY DEF Record
  <2>2. r.sess = call'[c].sess /\ r.tool = call'[c].tool /\ r.decision # "deny"
    BY <1>3
  <2> HIDE DEF r
  <2>3. QED  BY <1>3, <2>1, <2>2 DEF OnRecord
<1>5. call[c].tool \notin Gated \/ answer'[c] = call[c].decision
  BY <1>1 DEF Entitled
<1>6. ASSUME call[c].scope = "session"
      PROVE  SessionConsent(call[c].sess, call[c].tool)'
  <2>1. call[c].tool \in Gated /\ call[c].decision = "allow_session"
    BY <1>1, <1>6 DEF Entitled, ScopeOf
  <2>2. QED  BY <1>3, <1>5, <2>1 DEF SessionConsent
<1>7. QED  BY <1>3, <1>4, <1>5, <1>6

(* What a gate remembers has been allowed and recorded.                    *)
LEMMA RemembranceStep ==
  ASSUME TypeOK, PendingIsAwaited, \A c \in Calls : Entitled(c), Remembrance,
         [Next]_vars
  PROVE  Remembrance'
<1>1. ASSUME remembered' = remembered PROVE Remembrance'
  BY <1>1, ConsentStays DEF Remembrance
<1>2. ASSUME NEW c \in Calls, Record(c), call[c].scope = "session"
      PROVE  Remembrance'
  <2>1. call[c].decision = "allow_session" /\ call[c].sess \in Sessions
    BY <1>2 DEF Record, Entitled, ScopeOf
  <2>2. /\ SessionConsent(call[c].sess, call[c].tool)'
        /\ OnRecord(call[c].sess, call[c].tool)'
        /\ call'[c].sess = call[c].sess /\ call'[c].tool = call[c].tool
    BY <1>2, <2>1, RecordConsents
  <2>3. ASSUME NEW s \in Sessions, NEW t \in remembered'[s]
        PROVE  t \in remembered[s] \/ (s = call[c].sess /\ t = call[c].tool)
    BY <1>2, <2>3 DEF Record, TypeOK
  <2>4. ASSUME NEW s \in Sessions, NEW t \in remembered'[s]
        PROVE  SessionConsent(s, t)' /\ OnRecord(s, t)'
    <3>1. CASE t \in remembered[s]
      BY <3>1, ConsentStays DEF Remembrance
    <3>2. CASE s = call[c].sess /\ t = call[c].tool
      BY <2>2, <3>2 DEF SessionConsent, OnRecord
    <3>3. QED  BY <2>3, <2>4, <3>1, <3>2
  <2>5. QED  BY <2>4 DEF Remembrance
<1>3. ASSUME NEW c \in Calls, CallStep(c) PROVE Remembrance'
  <2>1. remembered' = remembered \/ (Record(c) /\ call[c].scope = "session")
    BY <1>3 DEF CallStep, Sent, SendRaises, Resume, GiveUp, Record, RecordFails
  <2>2. QED  BY <1>1, <1>2, <2>1
<1>4. CASE Beginning  BY <1>1, <1>4 DEF Beginning, Begin
<1>5. CASE Answering  BY <1>1, <1>5, AnsweringCases
<1>6. CASE Joining  BY <1>1, <1>6, JoiningCases
<1>7. CASE Leaving  BY <1>1, <1>7, LeavingCases
<1>8. CASE UNCHANGED vars  BY <1>1, <1>8 DEF vars
<1>9. QED  BY <1>3, <1>4, <1>5, <1>6, <1>7, <1>8, NextCases

(* What RunsWereConsented and RunsWereAudited ask of one call.             *)
Consented(c) ==
  /\ call[c].trust >= MinTrust[call[c].tool]
  /\ \/ call[c].tool \notin Gated
     \/ answer[c] \in {"allow_once", "allow_session"}
     \/ SessionConsent(call[c].sess, call[c].tool)

(* The properties in these words.                                          *)
LEMMA ConsentedIsProperty ==
  /\ RunsWereConsented <=> \A c \in Calls : call[c].st = "ran" => Consented(c)
  /\ RunsWereAudited <=> \A c \in Calls : call[c].st = "ran"
                           => OnRecord(call[c].sess, call[c].tool)
BY DEF RunsWereConsented, RunsWereAudited, Consented, SessionConsent, OnRecord

(* Only Begin and Record make a call run.                                  *)
LEMMA RunsBy ==
  ASSUME TypeOK, \A c \in Calls : Entitled(c), [Next]_vars,
         NEW u \in Calls, call[u].st # "ran", call'[u].st = "ran"
  PROVE  \/ \E s \in Sessions, t \in Tools, trust \in Trusts, n \in Names :
              Begin(u, s, t, trust, n)
         \/ Record(u) /\ call[u].decision # "deny"
<1>1. CASE Beginning  BY <1>1, BeginCases DEF Beginning
<1>2. ASSUME NEW c \in Calls, CallStep(c)
      PROVE  Record(u) /\ call[u].decision # "deny"
  <2>1. u = c  BY <1>2, CallStepCases
  <2>2. ~Sent(c)  BY <2>1, SentCases
  <2>3. ~(SendRaises(c) \/ RecordFails(c))
    <3>1. SendRaises(c) \/ RecordFails(c) => Over(c, "raised")
      BY DEF SendRaises, RecordFails
    <3>2. "raised" \in Finished  BY DEF Finished
    <3>3. QED  BY <2>1, <3>1, <3>2, OverCases
  <2>4. ~(Resume(c) \/ GiveUp(c))
    <3>1. ASSUME Resume(c) \/ GiveUp(c)
          PROVE  \E d \in Answers : Decide(c, d)
      BY <3>1 DEF Resume, GiveUp, TypeOK, Answers
    <3>2. QED  BY <2>1, <3>1, DecideCases
  <2>5. Record(c)  BY <1>2, <2>2, <2>3, <2>4 DEF CallStep
  <2>6. call[c].decision # "deny"
    <3>1. ASSUME call[c].decision = "deny" PROVE Over(c, "refused")
      BY <2>5, <3>1 DEF Record
    <3>2. "refused" \in Finished  BY DEF Finished
    <3>3. QED  BY <2>1, <3>1, <3>2, OverCases
  <2>7. QED  BY <2>1, <2>5, <2>6
<1>3. CASE Answering  BY <1>3, AnsweringCases
<1>4. CASE Joining  BY <1>4, JoiningCases
<1>5. CASE Leaving  BY <1>5, LeavingCases
<1>6. CASE UNCHANGED vars  BY <1>6 DEF vars
<1>7. QED  BY <1>1, <1>2, <1>3, <1>4, <1>5, <1>6, NextCases

(* A call runs by consent and on the record.                               *)
LEMMA RunStep ==
  ASSUME TypeOK, PendingIsAwaited, \A c \in Calls : Entitled(c), Remembrance,
         RunsWereConsented, RunsWereAudited, [Next]_vars
  PROVE  RunsWereConsented' /\ RunsWereAudited'
<1>1. ASSUME NEW u \in Calls, call'[u].st = "ran"
      PROVE  Consented(u)' /\ OnRecord(call[u].sess, call[u].tool)'
  <2>1. CASE call[u].st = "ran"
    <3>1. call'[u] = call[u] /\ answer'[u] = answer[u]  BY <2>1, RanStays
    <3>2. Consented(u) /\ OnRecord(call[u].sess, call[u].tool)
      BY <2>1, ConsentedIsProperty
    <3>3. OnRecord(call[u].sess, call[u].tool)'
      BY <3>1, <3>2, AuditGrows DEF OnRecord
    <3>4. SessionConsent(call[u].sess, call[u].tool)
            => SessionConsent(call[u].sess, call[u].tool)'
      BY <3>1, RanStays DEF SessionConsent
    <3>5. QED  BY <3>1, <3>2, <3>3, <3>4 DEF Consented
  <2>2. ASSUME NEW s \in Sessions, NEW t \in Tools, NEW trust \in Trusts,
               NEW n \in Names, Begin(u, s, t, trust, n)
        PROVE  Consented(u)' /\ OnRecord(call[u].sess, call[u].tool)'
    <3>1. /\ call'[u].sess = s /\ call'[u].tool = t
          /\ call'[u].trust >= MinTrust[t]
          /\ t \in remembered[s]
      BY <1>1, <2>2, BeginCases
    <3>2. SessionConsent(s, t)' /\ OnRecord(s, t)'
      BY <3>1, ConsentStays DEF Remembrance
    <3>3. QED  BY <3>1, <3>2 DEF Consented
  <2>3. CASE Record(u) /\ call[u].decision # "deny"
    <3>1. /\ call'[u].sess = call[u].sess
          /\ call'[u].tool = call[u].tool
          /\ call'[u].trust = call[u].trust
          /\ OnRecord(call[u].sess, call[u].tool)'
          /\ call[u].tool \notin Gated \/ answer'[u] = call[u].decision
      BY <2>3, RecordConsents
    <3>2. /\ call[u].trust >= MinTrust[call[u].tool]
          /\ call[u].decision \in {"allow_once", "allow_session"}
      BY <2>3 DEF Record, Entitled, Answers
    <3>3. QED  BY <3>1, <3>2 DEF Consented
  <2>4. QED  BY <1>1, <2>1, <2>2, <2>3, RunsBy
<1>2. QED
  BY <1>1 DEF RunsWereConsented, RunsWereAudited, Consented, SessionConsent,
     OnRecord

(* The router keeps what is awaited only.                                  *)
LEMMA AwaitedStep ==
  ASSUME TypeOK, PendingIsAwaited, \A c \in Calls : Entitled(c), [Next]_vars
  PROVE  PendingIsAwaited'
<1> USE DEF PendingIsAwaited
<1>a. pending \subseteq Calls  BY DEF TypeOK
<1>1. CASE Beginning
  <2>1. PICK c \in Calls, s \in Sessions, t \in Tools, trust \in Trusts,
             n \in Names : Begin(c, s, t, trust, n)
    BY <1>1 DEF Beginning
  <2>2. fut' = fut  BY <2>1 DEF Begin
  <2>3. c \notin pending /\ fut[c] = None
    BY <2>1, BeginCases DEF Asked, Entitled
  <2>4. c \in pending' => call'[c].st = "asking"
    BY <2>1, <2>3, BeginCases
  <2>5. ASSUME NEW u \in pending', u # c
        PROVE  u \in pending /\ call'[u] = call[u]
    <3>1. u \in pending  BY <2>1, <2>5, BeginCases
    <3>2. QED  BY <1>a, <2>1, <2>5, <3>1, BeginCases
  <2>6. QED  BY <2>2, <2>3, <2>4, <2>5 DEF Asked
<1>2. ASSUME NEW c \in Calls, CallStep(c) PROVE PendingIsAwaited'
  <2>1. fut' = fut /\ pending' \subseteq pending  BY <1>2, CallFrame
  <2>2. ASSUME NEW u \in pending', u # c PROVE call'[u] = call[u]
    BY <1>a, <1>2, <2>1, <2>2, CallStepCases
  <2>3. ASSUME c \in pending' PROVE call'[c].st \in Asked
    <3>1. c \in pending /\ call[c].st # "deciding"
      BY <2>1, <2>3 DEF Asked
    <3>2. Sent(c)  BY <1>2, <2>3, <3>1, CallFrame
    <3>3. QED  BY <3>2, SentCases DEF Asked
  <2>4. QED  BY <2>1, <2>2, <2>3
<1>3. CASE Answering  BY <1>a, <1>3, AnsweringCases
<1>4. CASE Joining  BY <1>4, JoiningCases
<1>5. CASE Leaving
  <2>1. call' = call  BY <1>5, LeavingCases
  <2>2. PICK s \in Sessions, n \in Names : Unbind(s, n)
    BY <1>5, LeavingCases
  <2>3. QED  BY <2>1, <2>2, UnbindCases
<1>6. CASE UNCHANGED vars  BY <1>6 DEF vars
<1>7. QED  BY <1>1, <1>2, <1>3, <1>4, <1>5, <1>6, NextCases

(* A pending request has a channel.                                        *)
LEMMA ChannelStep ==
  ASSUME TypeOK, PendingIsAwaited, \A c \in Calls : Entitled(c),
         PendingHasChannel, [Next]_vars
  PROVE  PendingHasChannel'
<1> USE DEF PendingHasChannel
<1>a. \A u \in pending : u \in Calls /\ call[u].sess \in Sessions
  BY DEF TypeOK, PendingIsAwaited, Entitled
<1>1. CASE Beginning
  <2>1. PICK c \in Calls, s \in Sessions, t \in Tools, trust \in Trusts,
             n \in Names : Begin(c, s, t, trust, n)
    BY <1>1 DEF Beginning
  <2>2. chans' = chans  BY <2>1 DEF Begin
  <2>3. c \notin pending  BY <2>1, BeginCases DEF PendingIsAwaited, Asked
  <2>4. c \in pending' => /\ call'[c].sess = s
                          /\ \E m \in Names : chans[s][m] # None
    BY <2>1, <2>3, BeginCases
  <2>5. ASSUME NEW u \in pending', u # c
        PROVE  u \in pending /\ call'[u] = call[u]
    <3>1. u \in pending  BY <2>1, <2>5, BeginCases
    <3>2. QED  BY <1>a, <2>1, <2>5, <3>1, BeginCases
  <2>6. QED  BY <2>2, <2>4, <2>5
<1>2. ASSUME NEW c \in Calls, CallStep(c) PROVE PendingHasChannel'
  <2>1. chans' = chans /\ pending' \subseteq pending  BY <1>2, CallFrame
  <2>2. ASSUME NEW u \in pending', u # c PROVE call'[u] = call[u]
    BY <1>a, <1>2, <2>1, <2>2, CallStepCases
  <2>3. ASSUME c \in pending' PROVE call'[c].sess = call[c].sess
    <3>1. c \in pending /\ call[c].st # "deciding"
      BY <2>1, <2>3 DEF PendingIsAwaited, Asked
    <3>2. Sent(c)  BY <1>2, <2>3, <3>1, CallFrame
    <3>3. QED  BY <3>2, SentCases
  <2>4. QED  BY <2>1, <2>2, <2>3
<1>3. CASE Answering  BY <1>3, AnsweringCases
<1>4. CASE Joining
  <2>1. call' = call /\ pending' = pending  BY <1>4, JoiningCases
  <2>2. CASE UNCHANGED chans  BY <2>1, <2>2
  <2>3. ASSUME NEW s \in Sessions, NEW n \in Names, NEW e \in Endpoints,
               Bind(s, n, e)
        PROVE  PendingHasChannel'
    <3>1. e # None  BY DEF Endpoints
    <3>2. ASSUME NEW u \in pending
          PROVE  \E m \in Names : chans'[call[u].sess][m] # None
      <4>1. PICK m \in Names : chans[call[u].sess][m] # None  OBVIOUS
      <4>2. chans'[call[u].sess][m] # None
        BY <1>a, <2>3, <3>1, <4>1, BindCases
      <4>3. QED  BY <4>2
    <3>3. QED  BY <2>1, <3>2
  <2>4. QED  BY <1>4, <2>2, <2>3, JoiningCases
<1>5. CASE Leaving
  <2>1. call' = call  BY <1>5, LeavingCases
  <2>2. PICK s \in Sessions, n \in Names : Unbind(s, n)
    BY <1>5, LeavingCases
  <2>3. pending' \subseteq pending /\ Bind(s, n, None)  BY <2>2, UnbindCases
  <2>4. ASSUME NEW u \in pending'
        PROVE  \E m \in Names : chans'[call[u].sess][m] # None
    <3>1. CASE call[u].sess = s
      <4>1. PICK m \in Names \ {n} : chans[s][m] # None
        BY <2>2, <3>1, UnbindCases
      <4>2. chans'[s][m] = chans[s][m]  BY <2>3, BindCases
      <4>3. QED  BY <3>1, <4>1, <4>2
    <3>2. CASE call[u].sess # s
      <4>1. u \in pending /\ call[u].sess \in Sessions  BY <1>a, <2>3
      <4>2. PICK m \in Names : chans[call[u].sess][m] # None  BY <4>1
      <4>3. chans'[call[u].sess][m] = chans[call[u].sess][m]
        BY <2>3, <3>2, <4>1, BindCases
      <4>4. QED  BY <4>2, <4>3
    <3>3. QED  BY <3>1, <3>2
  <2>5. QED  BY <2>1, <2>4
<1>6. CASE UNCHANGED vars  BY <1>6 DEF vars
<1>7. QED  BY <1>1, <1>2, <1>3, <1>4, <1>5, <1>6, NextCases

(* What is bound as "ws" is a socket of the session, and not closed.       *)
LEMMA BoundStep ==
  ASSUME TypeOK, WsIsSocket, BoundIsOpen, [Next]_vars
  PROVE  WsIsSocket' /\ BoundIsOpen'
<1> USE DEF WsIsSocket, BoundIsOpen
<1>a. "ws" \in Names /\ "telegram" \in Names  BY DEF Names
<1>1. ASSUME UNCHANGED <<chans, sock>>
      PROVE  WsIsSocket' /\ BoundIsOpen'
  BY <1>1
<1>2. CASE Beginning  BY <1>1, <1>2 DEF Beginning, Begin
<1>3. ASSUME NEW c \in Calls, CallStep(c)
      PROVE  WsIsSocket' /\ BoundIsOpen'
  BY <1>1, <1>3, CallFrame
<1>4. CASE Answering  BY <1>1, <1>4, AnsweringCases
<1>5. ASSUME NEW w \in Sockets, Connect(w)
      PROVE  WsIsSocket' /\ BoundIsOpen'
  <2>1. SocketOf[w] \in Sessions /\ w \in Endpoints  BY DEF Endpoints
  <2>2. /\ Bind(SocketOf[w], "ws", w)
        /\ sock'[w] = "open"
        /\ \A v \in Sockets : v # w => sock'[v] = sock[v]
    BY <1>5 DEF Connect, TypeOK
  <2>3. /\ chans'[SocketOf[w]]["ws"] = w
        /\ \A s \in Sessions : s # SocketOf[w]
                                 => chans'[s]["ws"] = chans[s]["ws"]
    BY <1>a, <2>1, <2>2, BindCases
  <2>4. QED  BY <2>1, <2>2, <2>3
<1>6. ASSUME NEW w \in Sockets, PeerGone(w)
      PROVE  WsIsSocket' /\ BoundIsOpen'
  <2>1. /\ chans' = chans
        /\ sock'[w] = "gone"
        /\ \A v \in Sockets : v # w => sock'[v] = sock[v]
    BY <1>6 DEF PeerGone, TypeOK
  <2>2. QED  BY <2>1
<1>7. ASSUME NEW w \in Sockets, Disconnect(w)
      PROVE  WsIsSocket' /\ BoundIsOpen'
  <2>1. SocketOf[w] \in Sessions  OBVIOUS
  <2>2. /\ Bind(SocketOf[w], "ws", None)
        /\ \A v \in Sockets : v # w => sock'[v] = sock[v]
    BY <1>7 DEF Disconnect, Unbind, TypeOK
  <2>3. /\ chans'[SocketOf[w]]["ws"] = None
        /\ \A s \in Sessions : s # SocketOf[w]
                                 => chans'[s]["ws"] = chans[s]["ws"]
    BY <1>a, <2>1, <2>2, BindCases
  <2>4. QED  BY <2>1, <2>2, <2>3
<1>8. ASSUME NEW s \in Sessions, NEW e \in {"telegram", None},
             Bind(s, "telegram", e), sock' = sock
      PROVE  WsIsSocket' /\ BoundIsOpen'
  <2>1. e \in Endpoints \cup {None}  BY DEF Endpoints
  <2>2. \A z \in Sessions : chans'[z]["ws"] = chans[z]["ws"]
    BY <1>a, <1>8, <2>1, BindCases
  <2>3. QED  BY <1>8, <2>2
<1>9. ASSUME NEW s \in Sessions, ChatJoins(s)
      PROVE  WsIsSocket' /\ BoundIsOpen'
  BY <1>8, <1>9 DEF ChatJoins
<1>10. CASE ChatLeaves
  <2>1. chat \in Sessions /\ Bind(chat, "telegram", None) /\ sock' = sock
    BY <1>10 DEF ChatLeaves, Unbind, TypeOK
  <2>2. QED  BY <1>8, <2>1
<1>11. CASE UNCHANGED vars  BY <1>1, <1>11 DEF vars
<1>12. QED
  BY <1>2, <1>3, <1>4, <1>5, <1>6, <1>7, <1>9, <1>10, <1>11, NextCases
     DEF Joining, Leaving

-----------------------------------------------------------------------------
(* The theorems.                                                           *)

(* The invariant holds in every reachable state.                           *)
THEOREM Invariance == Spec => []IInv
<1>1. IInv /\ [Next]_vars => IInv'
  BY TypeStep, EntitledStep, RemembranceStep, RunStep, AwaitedStep, ChannelStep,
     BoundStep DEF IInv
<1>2. QED  BY <1>1, InitInv, PTL DEF Spec

(* Router, gate and channels always have their types.                      *)
THEOREM TypeCorrect == Spec => []TypeOK
<1>1. IInv => TypeOK  BY DEF IInv
<1>2. QED  BY <1>1, Invariance, PTL

(* With any number of calls, sessions and connections, no schedule of      *)
(* timeouts, disconnects and reconnects lets a gated tool run without an   *)
(* answer of the user for this call or for its session.                    *)
THEOREM ConsentRequired == Spec => []RunsWereConsented
<1>1. IInv => RunsWereConsented  BY DEF IInv
<1>2. QED  BY <1>1, Invariance, PTL

(* Every run is covered by a recorded decision, failing writes included.   *)
THEOREM RunsAreAudited == Spec => []RunsWereAudited
<1>1. IInv => RunsWereAudited  BY DEF IInv
<1>2. QED  BY <1>1, Invariance, PTL

(* The router never holds a request that nobody waits for.                 *)
THEOREM NoAbandonedRequest == Spec => []PendingIsAwaited
<1>1. IInv => PendingIsAwaited  BY DEF IInv
<1>2. QED  BY <1>1, Invariance, PTL

(* A pending request always has a channel of its session.                  *)
THEOREM NoRequestWithoutChannel == Spec => []PendingHasChannel
<1>1. IInv => PendingHasChannel  BY DEF IInv
<1>2. QED  BY <1>1, Invariance, PTL

(* No binding outlives its WebSocket.                                      *)
THEOREM NoStaleBinding == Spec => []BoundIsOpen
<1>1. IInv => BoundIsOpen  BY DEF IInv
<1>2. QED  BY <1>1, Invariance, PTL
=============================================================================
