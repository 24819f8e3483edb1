--------------------------- MODULE TelegramProofs ---------------------------
(***************************************************************************)
(* Theorems about Telegram, for any chats, sessions and bounds.            *)
(***************************************************************************)
EXTENDS Telegram, FiniteSetTheorems, TLAPS

-----------------------------------------------------------------------------
(* The inductive invariant.                                                *)

(* The tables of the runner and the objects agree: a chat has the one open *)
(* channel made for it, at its session.                                    *)
Owned ==
  \A c \in Chats :
    /\ session[c] = None <=> current[c] = None
    /\ current[c] # None =>
         /\ Open(current[c])
         /\ objs[current[c]].chat = c
         /\ objs[current[c]].session = session[c]

(* What a turn holds: it sends to channels of its session, and a delta is  *)
(* counted before it is sent.                                              *)
TurnsFit ==
  \A s \in Sessions :
    /\ queue[s] <= messages
    /\ turn[s].id <= turns
    /\ turn[s].id = 0 => turn[s] = Quiet
    /\ turn[s].event = "none" => turn[s].due = {} /\ turn[s].sent = 0
    /\ turn[s].event = "piece" => turn[s].sent >= 1
    /\ turn[s].due \subseteq turn[s].audience
    /\ \A i \in turn[s].audience : i \in DOMAIN objs /\ objs[i].session = s

(* How much of turn t channel i has in its buffer.                         *)
Heard(t, i) ==
  IF i \notin t.audience THEN 0
  ELSE IF t.event = "piece" THEN IF i \in t.due THEN t.sent - 1 ELSE t.sent
  ELSE IF i \in t.due THEN t.sent ELSE 0

(* A text that is k pieces of turn id after the rest of dead turns.        *)
EndsWith(text, id, k, dead) ==
  /\ Len(text) >= k
  /\ \A n \in 1..k : text[Len(text) - k + n] = <<id, n>>
  /\ \A n \in 1..(Len(text) - k) : text[n][1] \in dead

Buffers ==
  \A i \in DOMAIN objs :
    Open(i) => LET t == turn[objs[i].session]
               IN EndsWith(objs[i].buffer, t.id, Heard(t, i), broken)

(* Who was told of what exists, and a chat is told of a session once.      *)
ToldOfKnown ==
  \A c \in Chats, s \in Sessions :
    told[<<c, s>>] # 0 \/ minted[s] # None => s \in known

IInv ==
  /\ TypeOK /\ Owned /\ RoutesAreOpen /\ TurnsFit /\ Buffers /\ ToldOfKnown
  /\ ToldOnce /\ PostsAreTurns

-----------------------------------------------------------------------------
(* Lemmas on sequences and on texts.                                       *)

LEMMA Element ==
  ASSUME NEW S, NEW s \in Seq(S), NEW i \in DOMAIN s
  PROVE  s[i] \in S /\ i \in Nat /\ i >= 1 /\ i <= Len(s) /\ Len(s) \in Nat
OBVIOUS

LEMMA Appended ==
  ASSUME NEW S, NEW s \in Seq(S), NEW e \in S
  PROVE  /\ Append(s, e) \in Seq(S) /\ Len(Append(s, e)) = Len(s) + 1
         /\ Len(s) \in Nat /\ Len(s) + 1 \notin DOMAIN s
         /\ DOMAIN Append(s, e) = DOMAIN s \cup {Len(s) + 1}
         /\ Append(s, e)[Len(s) + 1] = e
         /\ \A i \in DOMAIN s : Append(s, e)[i] = s[i]
OBVIOUS

(* The empty text, a text that grows, a text whose turn dies.              *)
LEMMA EmptyText ==
  ASSUME NEW id, NEW dead
  PROVE  EndsWith(<<>>, id, 0, dead)
BY DEF EndsWith

LEMMA TextGrows ==
  ASSUME NEW P, NEW text \in Seq(P), NEW id, NEW k \in Nat, NEW dead,
         EndsWith(text, id, k, dead), <<id, k + 1>> \in P
  PROVE  EndsWith(Append(text, <<id, k + 1>>), id, k + 1, dead)
<1> DEFINE v == Append(text, <<id, k + 1>>)
           L == Len(text)
<1>1. /\ L \in Nat /\ Len(v) = L + 1 /\ v[L + 1] = <<id, k + 1>>
      /\ \A n \in 1..L : v[n] = text[n]
  OBVIOUS
<1>2. L >= k /\ \A n \in 1..k : text[L - k + n] = <<id, n>>  BY DEF EndsWith
<1>3. \A n \in 1..(L - k) : text[n][1] \in dead  BY DEF EndsWith
<1> HIDE DEF v, L
<1>4. ASSUME NEW n \in 1..(k + 1) PROVE v[(L + 1) - (k + 1) + n] = <<id, n>>
  <2>1. CASE n = k + 1
    <3>1. (L + 1) - (k + 1) + n = L + 1  BY <1>1, <1>2, <2>1
    <3>2. QED  BY <1>1, <2>1, <3>1
  <2>2. CASE n # k + 1
    <3>1. n \in 1..k /\ L - k + n \in 1..L /\ (L + 1) - (k + 1) + n = L - k + n
      BY <1>1, <1>2, <2>2
    <3>2. v[L - k + n] = text[L - k + n]  BY <1>1, <3>1
    <3>3. QED  BY <1>2, <3>1, <3>2
  <2>3. QED  BY <2>1, <2>2
<1>5. ASSUME NEW n \in 1..((L + 1) - (k + 1)) PROVE v[n][1] \in dead
  <2>1. n \in 1..(L - k) /\ n \in 1..L  BY <1>1, <1>2
  <2>2. QED  BY <1>1, <1>3, <2>1
<1>6. Len(v) >= k + 1  BY <1>1, <1>2
<1>7. QED  BY <1>1, <1>4, <1>5, <1>6 DEF EndsWith, v

LEMMA TextDies ==
  ASSUME NEW P, NEW text \in Seq(P), NEW id, NEW k \in Nat, NEW dead, NEW other,
         EndsWith(text, id, k, dead)
  PROVE  EndsWith(text, other, 0, dead \cup {id})
<1> DEFINE L == Len(text)
<1>1. L \in Nat /\ L >= k  BY DEF EndsWith
<1>2. ASSUME NEW n \in 1..L PROVE text[n][1] \in dead \cup {id}
  <2>1. CASE n <= L - k
    <3>1. n \in 1..(L - k)  BY <1>1, <2>1
    <3>2. QED  BY <3>1 DEF EndsWith
  <2>2. CASE ~(n <= L - k)
    <3>1. n - (L - k) \in 1..k /\ L - k + (n - (L - k)) = n  BY <1>1, <2>2
    <3>2. text[n] = <<id, n - (L - k)>>
      <4>1. \A m \in 1..k : text[L - k + m] = <<id, m>>  BY DEF EndsWith
      <4>2. text[L - k + (n - (L - k))] = <<id, n - (L - k)>>  BY <3>1, <4>1
      <4>3. QED  BY <3>1, <4>2
    <3>3. QED  BY <3>2
  <2>3. QED  BY <2>1, <2>2
<1>3. L - 0 = L /\ L >= 0 /\ 1..0 = {}  BY <1>1
<1>4. QED  BY <1>2, <1>3 DEF EndsWith

LEMMA DeadStayDead ==
  ASSUME NEW text, NEW id, NEW k, NEW dead, NEW more, dead \subseteq more,
         EndsWith(text, id, k, dead)
  PROVE  EndsWith(text, id, k, more)
BY DEF EndsWith

-----------------------------------------------------------------------------
(* The initial state.                                                      *)

LEMMA TelegramInit == Init => IInv
<1> SUFFICES ASSUME Init PROVE IInv  OBVIOUS
<1>1. objs = <<>> /\ DOMAIN objs = {} /\ Len(objs) = 0  BY DEF Init
<1>2. Quiet \in Turn /\ Quiet.due = {} /\ Quiet.audience = {} /\ Quiet.id = 0
      /\ Quiet.sent = 0 /\ Quiet.event = "none"
  BY TelegramAssumption DEF Quiet, Turn
<1>3. TypeOK
  <2>1. objs \in Seq(Channel) /\ Len(objs) <= MaxChannels
    BY <1>1, TelegramAssumption
  <2>2. post \in [turn : 0..MaxMessages, sent : 0..MaxPieces, text : Seq(Piece)]
    BY TelegramAssumption DEF Init
  <2>3. /\ turn \in [Sessions -> Turn]
        /\ \A s \in Sessions : turn[s].due \subseteq turn[s].audience
    BY <1>2 DEF Init
  <2>4. /\ queue \in [Sessions -> 0..MaxMessages]
        /\ {messages, turns} \subseteq 0..MaxMessages
        /\ broken \subseteq 1..turns
        /\ told \in [Chats \X Sessions -> Nat]
        /\ minted \in [Sessions -> Chats \cup {None}]
    BY TelegramAssumption DEF Init
  <2>5. /\ running \in BOOLEAN /\ known \subseteq Sessions /\ listed \subseteq DOMAIN objs
        /\ session \in [Chats -> Sessions \cup {None}]
        /\ current \in [Chats -> Objs \cup {None}]
        /\ attached \in [Sessions -> SUBSET Objs]
        /\ {bound, speaker} \subseteq [Sessions -> Objs \cup {None}]
    BY DEF Init
  <2>6. QED  BY <2>1, <2>2, <2>3, <2>4, <2>5 DEF TypeOK
<1>4. Owned  BY DEF Init, Owned
<1>5. RoutesAreOpen  BY <1>1 DEF Init, RoutesAreOpen
<1>6. TurnsFit  BY <1>2, TelegramAssumption DEF Init, TurnsFit
<1>7. Buffers  BY <1>1 DEF Buffers
<1>8. ToldOfKnown  BY DEF Init, ToldOfKnown
<1>9. ToldOnce  BY DEF Init, ToldOnce
<1>10. PostsAreTurns  BY DEF Init, PostsAreTurns
<1>11. QED  BY <1>3, <1>4, <1>5, <1>6, <1>7, <1>8, <1>9, <1>10 DEF IInv

(* A channel that is closed, or has its text exchanged, is a channel.      *)
LEMMA Shuts ==
  ASSUME NEW r \in Channel, NEW text \in Seq(Piece)
  PROVE  LET q == [r EXCEPT !.closed = TRUE, !.buffer = text]
         IN q \in Channel /\ q.closed /\ q.chat = r.chat /\ q.session = r.session
BY DEF Channel

LEMMA Shut ==
  ASSUME NEW r \in Channel
  PROVE  LET q == [r EXCEPT !.closed = TRUE, !.buffer = <<>>]
         IN q \in Channel /\ q.closed /\ q.chat = r.chat /\ q.session = r.session
<1>1. <<>> \in Seq(Piece)  OBVIOUS
<1>2. QED  BY <1>1, Shuts

LEMMA Retold ==
  ASSUME NEW r \in Channel, NEW text \in Seq(Piece)
  PROVE  LET q == [r EXCEPT !.buffer = text]
         IN /\ q \in Channel /\ q.closed = r.closed /\ q.chat = r.chat
            /\ q.session = r.session /\ q.buffer = text
BY DEF Channel

-----------------------------------------------------------------------------
(* Rotation.                                                               *)

(* What a rotation leaves of the objects, and the one it adds.             *)
LEMMA RotateObjs ==
  ASSUME TypeOK, Owned, NEW c \in Chats, NEW s \in Sessions, Rotate(c, s)
  PROVE  LET j == Len(objs) + 1
         IN /\ objs' \in Seq(Channel) /\ Len(objs') <= MaxChannels
            /\ j \in Objs /\ j \notin DOMAIN objs /\ DOMAIN objs' = DOMAIN objs \cup {j}
            /\ objs'[j] = Fresh(c, s)
            /\ \A k \in DOMAIN objs : k # current[c] => objs'[k] = objs[k]
            /\ \A k \in DOMAIN objs : k = current[c] => objs'[k].closed
            /\ \A k \in DOMAIN objs : /\ objs'[k].chat = objs[k].chat
                                      /\ objs'[k].session = objs[k].session
<1> DEFINE i == current[c]
           j == Len(objs) + 1
           left == IF i = None THEN objs ELSE Close(i)
<1>1. /\ objs \in Seq(Channel) /\ Len(objs) \in Nat /\ j <= MaxChannels /\ MaxChannels \in Nat
      /\ DOMAIN objs = 1..Len(objs)
  BY TelegramAssumption DEF TypeOK, Rotate
<1>2. Fresh(c, s) \in Channel  BY DEF Fresh, Channel
<1>3. /\ left \in Seq(Channel) /\ Len(left) = Len(objs) /\ DOMAIN left = DOMAIN objs
      /\ \A k \in DOMAIN objs : k # i => left[k] = objs[k]
      /\ \A k \in DOMAIN objs : k = i => left[k].closed
      /\ \A k \in DOMAIN objs : left[k].chat = objs[k].chat /\ left[k].session = objs[k].session
  <2>1. CASE i = None
    <3>1. left = objs  BY <2>1
    <3>2. None \notin DOMAIN objs  BY <1>1, TelegramAssumption
    <3>3. QED  BY <1>1, <2>1, <3>1, <3>2
  <2>2. CASE i # None
    <3>1. i \in DOMAIN objs  BY <2>2 DEF Owned, Open
    <3> DEFINE r == [objs[i] EXCEPT !.closed = TRUE, !.buffer = <<>>]
    <3>2. left = [objs EXCEPT ![i] = r]  BY <1>1, <2>2, <3>1 DEF Close
    <3>3. objs[i] \in Channel  BY <1>1, <3>1, Element
    <3>4. /\ r \in Channel
          /\ r.closed
          /\ r.chat = objs[i].chat
          /\ r.session = objs[i].session
      BY <3>3, Shut
    <3> HIDE DEF r
    <3> HIDE DEF left, i
    <3>5. QED  BY <1>1, <3>1, <3>2, <3>4
  <2>3. QED  BY <2>1, <2>2
<1>4. objs' = Append(left, Fresh(c, s))  BY DEF Rotate
<1> HIDE DEF left, i
<1>5. /\ objs' \in Seq(Channel) /\ Len(objs') = Len(left) + 1
      /\ Len(left) + 1 \notin DOMAIN left
      /\ DOMAIN objs' = DOMAIN left \cup {Len(left) + 1}
      /\ objs'[Len(left) + 1] = Fresh(c, s)
      /\ \A k \in DOMAIN left : objs'[k] = left[k]
  BY <1>2, <1>3, <1>4, Appended
<1>6. j \in Objs /\ Len(objs') <= MaxChannels  BY <1>1, <1>3, <1>5 DEF Objs
<1>7. QED  BY <1>3, <1>5, <1>6 DEF i

LEMMA RotateTypes ==
  ASSUME TypeOK, Owned, NEW c \in Chats, NEW s \in Sessions, Rotate(c, s)
  PROVE  /\ session' \in [Chats -> Sessions \cup {None}]
         /\ current' \in [Chats -> Objs \cup {None}]
         /\ objs' \in Seq(Channel) /\ Len(objs') <= MaxChannels
         /\ attached' \in [Sessions -> SUBSET Objs]
         /\ {bound', speaker'} \subseteq [Sessions -> Objs \cup {None}]
         /\ listed' \subseteq DOMAIN objs'
<1> DEFINE j == Len(objs) + 1
<1>1. j \in Objs /\ objs' \in Seq(Channel) /\ Len(objs') <= MaxChannels
      /\ DOMAIN objs' = DOMAIN objs \cup {j}
  BY RotateObjs
<1> HIDE DEF j
<1>2. /\ session' = [session EXCEPT ![c] = s]
      /\ current' = [current EXCEPT ![c] = j]
      /\ attached' = [Detached(current[c]) EXCEPT ![s] = @ \cup {j}]
      /\ bound' = [RemovedFrom(bound, c) EXCEPT ![s] = j]
      /\ speaker' = [RemovedFrom(speaker, c) EXCEPT ![s] = j]
      /\ listed' = listed \cup {j}
  BY DEF Rotate, Unregistered, j
<1>3. Detached(current[c]) \in [Sessions -> SUBSET Objs]  BY DEF TypeOK, Detached
<1>4. ASSUME NEW table \in [Sessions -> Objs \cup {None}]
      PROVE  [RemovedFrom(table, c) EXCEPT ![s] = j] \in [Sessions -> Objs \cup {None}]
  BY <1>1 DEF RemovedFrom
<1>5. {bound', speaker'} \subseteq [Sessions -> Objs \cup {None}]
  BY <1>2, <1>4 DEF TypeOK
<1>6. session' \in [Chats -> Sessions \cup {None}] /\ current' \in [Chats -> Objs \cup {None}]
  BY <1>1, <1>2 DEF TypeOK
<1>7. attached' \in [Sessions -> SUBSET Objs]  BY <1>1, <1>2, <1>3
<1>8. listed' \subseteq DOMAIN objs'  BY <1>1, <1>2 DEF TypeOK
<1>9. QED  BY <1>1, <1>5, <1>6, <1>7, <1>8

LEMMA RotateRoutes ==
  ASSUME TypeOK, Owned, RoutesAreOpen, NEW c \in Chats, NEW s \in Sessions, Rotate(c, s)
  PROVE  Owned' /\ RoutesAreOpen'
<1> DEFINE i == current[c]
           j == Len(objs) + 1
<1>1. /\ j \in Objs /\ j \notin DOMAIN objs /\ DOMAIN objs' = DOMAIN objs \cup {j}
      /\ objs'[j] = Fresh(c, s)
      /\ \A k \in DOMAIN objs : k # i => objs'[k] = objs[k]
      /\ \A k \in DOMAIN objs : k = i => objs'[k].closed
      /\ \A k \in DOMAIN objs : /\ objs'[k].chat = objs[k].chat
                                /\ objs'[k].session = objs[k].session
  BY RotateObjs
<1>2. objs'[j].chat = c /\ objs'[j].session = s /\ objs'[j].closed = FALSE
  BY <1>1 DEF Fresh
<1>3. /\ session' = [session EXCEPT ![c] = s]
      /\ current' = [current EXCEPT ![c] = j]
      /\ attached' = [Detached(i) EXCEPT ![s] = @ \cup {j}]
      /\ bound' = [RemovedFrom(bound, c) EXCEPT ![s] = j]
      /\ speaker' = [RemovedFrom(speaker, c) EXCEPT ![s] = j]
  BY DEF Rotate
<1>4. j # None /\ s # None  BY <1>1, TelegramAssumption DEF Objs
<1>5. /\ session \in [Chats -> Sessions \cup {None}]
      /\ current \in [Chats -> Objs \cup {None}]
      /\ attached \in [Sessions -> SUBSET Objs]
      /\ bound \in [Sessions -> Objs \cup {None}] /\ speaker \in [Sessions -> Objs \cup {None}]
  BY DEF TypeOK
<1> HIDE DEF j
<1>6. \A k : Open(k)' <=> k = j \/ (Open(k) /\ k # i)
  BY <1>1, <1>2 DEF Open
<1>7. \A k : Open(k)' /\ k # j =>
        /\ k \in DOMAIN objs /\ objs'[k].session = objs[k].session
        /\ objs'[k].chat = objs[k].chat
  BY <1>1, <1>6 DEF Open
<1>8. i # None => Open(i) /\ objs[i].chat = c /\ objs[i].session = session[c]
  BY DEF Owned
<1>9. Owned'
  <2>1. ASSUME NEW d \in Chats
        PROVE  /\ session'[d] = None <=> current'[d] = None
               /\ current'[d] # None =>
                    /\ current'[d] \in DOMAIN objs' /\ ~objs'[current'[d]].closed
                    /\ objs'[current'[d]].chat = d
                    /\ objs'[current'[d]].session = session'[d]
    <3>1. CASE d = c
      <4>1. current'[c] = j /\ session'[c] = s  BY <1>3, <1>5
      <4>2. j \in DOMAIN objs' /\ ~objs'[j].closed  BY <1>1, <1>2
      <4>3. QED  BY <1>2, <1>4, <3>1, <4>1, <4>2 DEF Open
    <3>2. CASE d # c
      <4>1. current'[d] = current[d] /\ session'[d] = session[d]  BY <1>3, <1>5, <3>2
      <4>2. CASE current[d] # None
        <5>1. Open(current[d]) /\ objs[current[d]].chat = d
              /\ objs[current[d]].session = session[d] /\ session[d] # None
          BY <4>2 DEF Owned
        <5>2. current[d] # i  BY <1>8, <3>2, <4>2, <5>1
        <5>3. current[d] \in DOMAIN objs /\ objs'[current[d]] = objs[current[d]]
              /\ current[d] \in DOMAIN objs'
          BY <1>1, <5>1, <5>2 DEF Open
        <5> DEFINE k == current[d]
        <5>4. k \in DOMAIN objs' /\ ~objs'[k].closed /\ objs'[k].chat = d
              /\ objs'[k].session = session[d]
          BY <5>1, <5>3 DEF Open
        <5>5. current'[d] = k /\ k # None /\ session'[d] # None  BY <4>1, <4>2, <5>1
        <5> HIDE DEF k
        <5>6. QED  BY <4>1, <5>4, <5>5
      <4>3. CASE current[d] = None  BY <4>1, <4>3 DEF Owned
      <4>4. QED  BY <4>2, <4>3
    <3>3. QED  BY <3>1, <3>2
  <2>2. QED  BY <2>1 DEF Owned, Open
<1>10. \A t \in Sessions :
         attached[t] = {k \in DOMAIN objs : Open(k) /\ objs[k].session = t}
  BY DEF RoutesAreOpen
<1>11. ASSUME NEW t \in Sessions
       PROVE  attached'[t] = {k \in DOMAIN objs' : Open(k)' /\ objs'[k].session = t}
  <2>1. attached'[t] = (attached[t] \ {i}) \cup (IF t = s THEN {j} ELSE {})
    BY <1>3, <1>5 DEF Detached
  <2>2. ASSUME NEW k PROVE k \in attached'[t]
                           <=> k \in DOMAIN objs' /\ Open(k)' /\ objs'[k].session = t
    <3>1. CASE k = j
      <4>1. k \notin attached[t]  BY <1>1, <1>10, <3>1
      <4>2. QED  BY <1>1, <1>2, <1>6, <2>1, <3>1, <4>1
    <3>2. CASE k # j  BY <1>1, <1>6, <1>7, <1>10, <2>1, <3>2
    <3>3. QED  BY <3>1, <3>2
  <2>3. QED  BY <2>2
<1>12. ASSUME NEW table \in [Sessions -> Objs \cup {None}],
              \A t \in Sessions : table[t] \in attached[t] \cup {None},
              NEW t \in Sessions
       PROVE  [RemovedFrom(table, c) EXCEPT ![s] = j][t] \in attached'[t] \cup {None}
  <2>1. attached'[t] = (attached[t] \ {i}) \cup (IF t = s THEN {j} ELSE {})
    BY <1>3, <1>5 DEF Detached
  <2>2. CASE t = s  BY <1>12, <2>1, <2>2 DEF RemovedFrom
  <2>3. CASE t # s
    <3>1. CASE t = session[c]
      <4>1. session[c] # None  BY <3>1, TelegramAssumption
      <4>2. RemovedFrom(table, c) = [table EXCEPT ![t] = None]
        BY <3>1, <4>1 DEF RemovedFrom
      <4>3. [RemovedFrom(table, c) EXCEPT ![s] = j][t] = None  BY <1>12, <2>3, <4>2
      <4>4. QED  BY <4>3
    <3>2. CASE t # session[c]
      <4>1. [RemovedFrom(table, c) EXCEPT ![s] = j][t] = table[t]
        BY <1>5, <2>3, <3>2 DEF RemovedFrom
      <4>2. i \notin attached[t]
        <5>1. CASE i = None  BY <1>5, <5>1, TelegramAssumption DEF Objs
        <5>2. CASE i # None  BY <1>8, <1>10, <3>2, <5>2
        <5>3. QED  BY <5>1, <5>2
      <4>3. QED  BY <1>12, <2>1, <4>1, <4>2
    <3>3. QED  BY <3>1, <3>2
  <2>4. QED  BY <2>2, <2>3
<1>13. ASSUME NEW t \in Sessions PROVE {bound'[t], speaker'[t]} \subseteq attached'[t] \cup {None}
  BY <1>3, <1>5, <1>12 DEF RoutesAreOpen
<1>14. ASSUME NEW k \in DOMAIN objs', Open(k)' PROVE current'[objs'[k].chat] = k
  <2>1. CASE k = j  BY <1>2, <1>3, <1>5, <2>1
  <2>2. CASE k # j
    <3>1. Open(k) /\ k # i /\ k \in DOMAIN objs /\ objs'[k].chat = objs[k].chat
      BY <1>6, <1>7, <1>14, <2>2
    <3>2. current[objs[k].chat] = k  BY <3>1 DEF RoutesAreOpen
    <3>3. QED  BY <1>3, <1>5, <3>1, <3>2
  <2>3. QED  BY <2>1, <2>2
<1>15. RoutesAreOpen'
  BY <1>11, <1>13, <1>14 DEF RoutesAreOpen, Open
<1>16. QED  BY <1>9, <1>15

(* What else a rotation leaves true: the new channel has heard nothing.    *)
LEMMA RotateRest ==
  ASSUME IInv, NEW c \in Chats, NEW s \in Sessions, Rotate(c, s),
         UNCHANGED <<turn, turns, broken, post>>,
         \A t \in Sessions : queue'[t] <= messages'
  PROVE  TurnsFit' /\ Buffers' /\ PostsAreTurns'
<1> USE DEF IInv
<1> DEFINE j == Len(objs) + 1
<1>1. /\ j \notin DOMAIN objs /\ DOMAIN objs' = DOMAIN objs \cup {j}
      /\ objs'[j] = Fresh(c, s)
      /\ \A k \in DOMAIN objs : k # current[c] => objs'[k] = objs[k]
      /\ \A k \in DOMAIN objs : k = current[c] => objs'[k].closed
      /\ \A k \in DOMAIN objs : objs'[k].session = objs[k].session
  BY RotateObjs
<1> HIDE DEF j
<1>2. TurnsFit'  BY <1>1 DEF TurnsFit
<1>3. ASSUME NEW k \in DOMAIN objs', Open(k)'
      PROVE  EndsWith(objs'[k].buffer, turn'[objs'[k].session].id,
                      Heard(turn'[objs'[k].session], k), broken')
  <2>1. CASE k = j
    <3>1. objs'[k].buffer = <<>> /\ objs'[k].session = s  BY <1>1, <2>1 DEF Fresh
    <3>2. k \notin turn[s].audience  BY <1>1, <2>1 DEF TurnsFit
    <3>3. Heard(turn[s], k) = 0  BY <3>2 DEF Heard
    <3>4. QED  BY <3>1, <3>3, EmptyText
  <2>2. CASE k # j
    <3>1. k \in DOMAIN objs /\ ~objs'[k].closed  BY <1>1, <1>3, <2>2 DEF Open
    <3>2. objs'[k] = objs[k]  BY <1>1, <3>1
    <3>3. Open(k)  BY <3>1, <3>2 DEF Open
    <3>4. QED  BY <3>1, <3>2, <3>3 DEF Buffers
  <2>3. QED  BY <2>1, <2>2
<1>4. Buffers'  BY <1>3 DEF Buffers, Open
<1>5. PostsAreTurns'  BY DEF PostsAreTurns
<1>6. QED  BY <1>2, <1>4, <1>5

-----------------------------------------------------------------------------
(* SessionChanged: each chat has one open channel to be told on.           *)

LEMMA OneOrNone ==
  ASSUME NEW S, \A x, y \in S : x = y
  PROVE  Cardinality(S) \in 0..1 /\ (S = {} => Cardinality(S) = 0)
<1>1. CASE S = {}  BY <1>1, FS_EmptySet
<1>2. CASE S # {}
  <2>1. PICK x : S = {x}  BY <1>2
  <2>2. Cardinality(S) = 1  BY <2>1, FS_Singleton
  <2>3. QED  BY <1>2, <2>2
<1>3. QED  BY <1>1, <1>2

LEMMA Telling ==
  ASSUME TypeOK, ToldOfKnown, NEW s \in Sessions, s \notin known,
         NEW heard \in [Chats \X Sessions -> 0..1],
         told' = [x \in Chats \X Sessions |-> told[x] + heard[x]],
         \A c \in Chats, t \in Sessions : t # s => heard[<<c, t>>] = 0
  PROVE  /\ told' \in [Chats \X Sessions -> Nat]
         /\ \A c \in Chats, t \in Sessions : t # s => told'[<<c, t>>] = told[<<c, t>>]
         /\ \A c \in Chats : told'[<<c, s>>] = heard[<<c, s>>]
<1>1. told \in [Chats \X Sessions -> Nat]  BY DEF TypeOK
<1>2. told' \in [Chats \X Sessions -> Nat]  BY <1>1
<1>3. ASSUME NEW c \in Chats, NEW t \in Sessions
      PROVE  /\ told'[<<c, t>>] = told[<<c, t>>] + heard[<<c, t>>]
             /\ told[<<c, t>>] \in Nat /\ heard[<<c, t>>] \in 0..1
  <2>1. <<c, t>> \in Chats \X Sessions  OBVIOUS
  <2>2. QED  BY <1>1, <2>1
<1>4. ASSUME NEW c \in Chats, NEW t \in Sessions, t # s PROVE told'[<<c, t>>] = told[<<c, t>>]
  <2>1. heard[<<c, t>>] = 0  BY <1>4
  <2>2. told'[<<c, t>>] = told[<<c, t>>] + heard[<<c, t>>] /\ told[<<c, t>>] \in Nat
    BY <1>3
  <2>3. QED  BY <2>1, <2>2
<1>5. ASSUME NEW c \in Chats PROVE told'[<<c, s>>] = heard[<<c, s>>]
  <2>1. told[<<c, s>>] = 0  BY DEF ToldOfKnown
  <2>2. QED  BY <1>3, <2>1
<1>6. QED  BY <1>2, <1>4, <1>5

(* The two parts of the invariant on what chats were told.                 *)
LEMMA ToldAfter ==
  ASSUME TypeOK, ToldOfKnown, ToldOnce, NEW s \in Sessions, s \notin known,
         known' = known \cup {s}, told' \in [Chats \X Sessions -> Nat],
         \A c \in Chats, t \in Sessions : t # s => told'[<<c, t>>] = told[<<c, t>>],
         \A t \in Sessions : t # s => minted'[t] = minted[t],
         \A c \in Chats : told'[<<c, s>>] <= 1,
         \A c \in Chats : minted'[s] = c => told'[<<c, s>>] = 0
  PROVE  ToldOfKnown' /\ ToldOnce'
<1>1. ToldOfKnown'  BY DEF ToldOfKnown
<1>2. ASSUME NEW c \in Chats, NEW t \in Sessions
      PROVE  told'[<<c, t>>] <= IF minted'[t] = c THEN 0 ELSE 1
  <2>1. CASE t = s  BY <2>1
  <2>2. CASE t # s
    <3>1. <<c, t>> \in DOMAIN told /\ <<c, t>>[2] = t /\ <<c, t>>[1] = c  BY DEF TypeOK
    <3>2. told[<<c, t>>] <= IF minted[t] = c THEN 0 ELSE 1  BY <3>1 DEF ToldOnce
    <3>3. QED  BY <2>2, <3>2
  <2>3. QED  BY <2>1, <2>2
<1>3. ToldOnce'
  <2>1. ASSUME NEW x \in Chats \X Sessions
        PROVE  told'[x] <= IF minted'[x[2]] = x[1] THEN 0 ELSE 1
    <3>1. PICK c \in Chats, t \in Sessions : x = <<c, t>>  OBVIOUS
    <3>2. QED  BY <1>2, <3>1
  <2>2. QED  BY <2>1 DEF ToldOnce
<1>4. QED  BY <1>1, <1>3

-----------------------------------------------------------------------------
(* The handlers.                                                           *)

(* Open channels of one chat are one.                                      *)
LEMMA OneOpen ==
  ASSUME RoutesAreOpen, NEW i, NEW k, Open(i), Open(k), objs[i].chat = objs[k].chat
  PROVE  i = k
<1>1. current[objs[i].chat] = i /\ current[objs[k].chat] = k  BY DEF RoutesAreOpen, Open
<1>2. QED  BY <1>1

LEMMA TelegramNew ==
  ASSUME IInv, NEW c \in Chats, NEW s \in Sessions, OnNew(c, s)
  PROVE  IInv'
<1> USE DEF IInv
<1>1. /\ running' = running /\ queue' = queue /\ turn' = turn /\ messages' = messages
      /\ turns' = turns /\ broken' = broken /\ post' = post
      /\ s \notin known /\ known' = known \cup {s}
      /\ Rotate(c, s) /\ minted' = [minted EXCEPT ![s] = c]
      /\ Tell(s, listed', objs')
  BY DEF OnNew
<1>2. Owned' /\ RoutesAreOpen'  BY <1>1, RotateRoutes
<1>3. TurnsFit' /\ Buffers' /\ PostsAreTurns'
  <2>1. \A t \in Sessions : queue'[t] <= messages'  BY <1>1 DEF TurnsFit
  <2>2. QED  BY <1>1, <2>1, RotateRest
<1>4. listed' \subseteq DOMAIN objs'  BY <1>1, RotateTypes
<1>5. ASSUME NEW i \in listed', NEW k \in listed', ~objs'[i].closed, ~objs'[k].closed,
             objs'[i].chat = objs'[k].chat
      PROVE  i = k
  <2>1. i \in DOMAIN objs' /\ k \in DOMAIN objs'  BY <1>4
  <2>2. Open(i)' /\ Open(k)'  BY <1>5, <2>1 DEF Open
  <2>3. current'[objs'[i].chat] = i /\ current'[objs'[k].chat] = k
    BY <1>2, <2>1, <2>2 DEF RoutesAreOpen
  <2>4. QED  BY <1>5, <2>3
<1>6. ASSUME NEW i \in listed', objs'[i].chat = c, ~objs'[i].closed
      PROVE  objs'[i].session = s
  <2>1. i \in DOMAIN objs' /\ Open(i)'  BY <1>4, <1>6 DEF Open
  <2>2. current'[c] = i  BY <1>2, <1>6, <2>1 DEF RoutesAreOpen
  <2>3. session'[c] = s  BY <1>1 DEF Rotate, TypeOK
  <2>4. s # None  BY TelegramAssumption
  <2>5. objs'[i].session = session'[c]  BY <1>2, <2>2, <2>3, <2>4 DEF Owned
  <2>6. QED  BY <2>3, <2>5
<1>7. /\ told' \in [Chats \X Sessions -> Nat]
      /\ \A d \in Chats, t \in Sessions : t # s => told'[<<d, t>>] = told[<<d, t>>]
      /\ \A d \in Chats : told'[<<d, s>>] <= 1
      /\ told'[<<c, s>>] = 0
  <2>1. \A i, k \in listed' :
          /\ ~objs'[i].closed /\ ~objs'[k].closed
          /\ objs'[i].chat = objs'[k].chat
          => i = k
    BY <1>5
  <2>2. \A i \in listed' : /\ objs'[i].chat = c /\ ~objs'[i].closed
                          => objs'[i].session = s
    BY <1>6
  <2> DEFINE heard == [x \in Chats \X Sessions |->
                         Cardinality({i \in listed' : /\ x = <<objs'[i].chat, s>>
                                                      /\ ~IsClosed(objs'[i])
                                                      /\ objs'[i].session # s})]
  <2>3. told' = [x \in Chats \X Sessions |-> told[x] + heard[x]]
    BY <1>1 DEF Tell, TypeOK
  <2>4. ASSUME NEW d \in Chats, NEW t \in Sessions
        PROVE  /\ heard[<<d, t>>] \in 0..1
               /\ t # s => heard[<<d, t>>] = 0
               /\ d = c => heard[<<d, t>>] = 0
    <3> DEFINE x == <<d, t>>
               H == {i \in listed' : /\ x = <<objs'[i].chat, s>>
                                     /\ ~IsClosed(objs'[i])
                                     /\ objs'[i].session # s}
    <3>1. x \in Chats \X Sessions  OBVIOUS
    <3>2. heard[x] = Cardinality(H)  BY <3>1
    <3>3. \A i, k \in H : i = k  BY <2>1 DEF IsClosed
    <3>4. t # s => H = {}  OBVIOUS
    <3>5. d = c => H = {}  BY <2>2 DEF IsClosed
    <3> HIDE DEF H, heard
    <3>6. Cardinality(H) \in 0..1 /\ (H = {} => Cardinality(H) = 0)  BY <3>3, OneOrNone
    <3>7. QED  BY <3>2, <3>4, <3>5, <3>6
  <2>5. heard \in [Chats \X Sessions -> 0..1]
    <3>1. ASSUME NEW x \in Chats \X Sessions PROVE heard[x] \in 0..1
      <4>1. PICK d \in Chats, t \in Sessions : x = <<d, t>>  OBVIOUS
      <4> HIDE DEF heard
      <4>2. QED  BY <2>4, <4>1
    <3>2. heard = [x \in Chats \X Sessions |-> heard[x]]  OBVIOUS
    <3> HIDE DEF heard
    <3>3. QED  BY <3>1, <3>2
  <2> HIDE DEF heard
  <2>6. /\ told' \in [Chats \X Sessions -> Nat]
        /\ \A d \in Chats, t \in Sessions : t # s => told'[<<d, t>>] = told[<<d, t>>]
        /\ \A d \in Chats : told'[<<d, s>>] = heard[<<d, s>>]
    <3> HIDE DEF IInv
    <3>1. TypeOK /\ ToldOfKnown /\ s \notin known  BY <1>1 DEF IInv
    <3>2. \A d \in Chats, t \in Sessions : t # s => heard[<<d, t>>] = 0  BY <2>4
    <3>3. QED  BY <2>3, <2>5, <3>1, <3>2, Telling
  <2>7. QED  BY <2>4, <2>6
<1>8. minted' \in [Sessions -> Chats \cup {None}] /\ minted'[s] = c
      /\ \A t \in Sessions : t # s => minted'[t] = minted[t]
  BY <1>1 DEF TypeOK
<1>9. ToldOfKnown' /\ ToldOnce'  BY <1>1, <1>7, <1>8, ToldAfter
<1>10. TypeOK'
  <2>1. /\ session' \in [Chats -> Sessions \cup {None}]
        /\ current' \in [Chats -> Objs \cup {None}]
        /\ objs' \in Seq(Channel) /\ Len(objs') <= MaxChannels
        /\ attached' \in [Sessions -> SUBSET Objs]
        /\ {bound', speaker'} \subseteq [Sessions -> Objs \cup {None}]
    BY <1>1, RotateTypes
  <2>2. known' \subseteq Sessions  BY <1>1 DEF TypeOK
  <2>3. QED  BY <1>1, <1>4, <1>7, <1>8, <2>1, <2>2 DEF TypeOK
<1>11. QED  BY <1>2, <1>3, <1>9, <1>10

LEMMA TelegramSwitch ==
  ASSUME IInv, NEW c \in Chats, NEW s \in Sessions, OnSwitch(c, s)
  PROVE  IInv'
<1> USE DEF IInv
<1>1. /\ running' = running /\ queue' = queue /\ turn' = turn /\ messages' = messages
      /\ turns' = turns /\ broken' = broken /\ post' = post /\ known' = known
      /\ minted' = minted /\ told' = told /\ Rotate(c, s)
  BY DEF OnSwitch, history
<1>2. Owned' /\ RoutesAreOpen'  BY <1>1, RotateRoutes
<1>3. TurnsFit' /\ Buffers' /\ PostsAreTurns'
  <2>1. \A t \in Sessions : queue'[t] <= messages'  BY <1>1 DEF TurnsFit
  <2>2. QED  BY <1>1, <2>1, RotateRest
<1>4. ToldOfKnown' /\ ToldOnce'  BY <1>1 DEF ToldOfKnown, ToldOnce
<1>5. TypeOK'
  <2>1. /\ session' \in [Chats -> Sessions \cup {None}]
        /\ current' \in [Chats -> Objs \cup {None}]
        /\ objs' \in Seq(Channel) /\ Len(objs') <= MaxChannels
        /\ attached' \in [Sessions -> SUBSET Objs]
        /\ {bound', speaker'} \subseteq [Sessions -> Objs \cup {None}]
        /\ listed' \subseteq DOMAIN objs'
    BY <1>1, RotateTypes
  <2>2. QED  BY <1>1, <2>1 DEF TypeOK
<1>6. QED  BY <1>2, <1>3, <1>4, <1>5

(* What a message changes: a queue, and the session's row.                 *)
LEMMA Submitted ==
  ASSUME TypeOK, TurnsFit, NEW s \in Sessions, Submit(s)
  PROVE  /\ messages' \in 0..MaxMessages /\ messages' = messages + 1
         /\ queue' \in [Sessions -> 0..MaxMessages]
         /\ \A t \in Sessions : queue'[t] <= messages'
         /\ known' = known \cup {s} /\ known' \subseteq Sessions
<1>1. /\ messages' = messages + 1 /\ messages < MaxMessages /\ messages \in 0..MaxMessages
      /\ MaxMessages \in Nat /\ queue' = [queue EXCEPT ![s] = queue[s] + 1]
      /\ queue \in [Sessions -> 0..MaxMessages] /\ known' = known \cup {s}
      /\ known \subseteq Sessions
  BY TelegramAssumption DEF Submit, TypeOK
<1>2. \A t \in Sessions : queue[t] <= messages /\ queue[t] \in 0..MaxMessages
  BY <1>1 DEF TurnsFit
<1>3. queue[s] + 1 \in 0..MaxMessages  BY <1>1, <1>2
<1>4. ASSUME NEW t \in Sessions PROVE queue'[t] <= messages'
  BY <1>1, <1>2
<1>5. QED  BY <1>1, <1>3, <1>4

LEMMA TelegramMessage ==
  ASSUME IInv, NEW c \in Chats, NEW s \in Sessions, OnMessage(c, s)
  PROVE  IInv'
<1> USE DEF IInv
<1>1. /\ running' = running /\ turn' = turn /\ turns' = turns /\ broken' = broken
      /\ post' = post /\ minted' = minted /\ told' = told /\ Submit(s)
      /\ (Rotate(c, s) \/ UNCHANGED <<routes, objs>>)
  BY DEF OnMessage, Ensure
<1>2. /\ messages' \in 0..MaxMessages /\ messages' = messages + 1
      /\ queue' \in [Sessions -> 0..MaxMessages]
      /\ \A t \in Sessions : queue'[t] <= messages'
      /\ known' = known \cup {s} /\ known' \subseteq Sessions
  BY <1>1, Submitted
<1>3. ToldOfKnown' /\ ToldOnce'  BY <1>1, <1>2 DEF ToldOfKnown, ToldOnce
<1>4. CASE Rotate(c, s)
  <2>1. Owned' /\ RoutesAreOpen'  BY <1>4, RotateRoutes
  <2>2. TurnsFit' /\ Buffers' /\ PostsAreTurns'  BY <1>1, <1>2, <1>4, RotateRest
  <2>3. /\ session' \in [Chats -> Sessions \cup {None}]
        /\ current' \in [Chats -> Objs \cup {None}]
        /\ objs' \in Seq(Channel) /\ Len(objs') <= MaxChannels
        /\ attached' \in [Sessions -> SUBSET Objs]
        /\ {bound', speaker'} \subseteq [Sessions -> Objs \cup {None}]
        /\ listed' \subseteq DOMAIN objs'
    BY <1>4, RotateTypes
  <2>4. TypeOK'  BY <1>1, <1>2, <2>3 DEF TypeOK
  <2>5. QED  BY <1>3, <2>1, <2>2, <2>4
<1>5. CASE UNCHANGED <<routes, objs>>
  <2>1. TypeOK'  BY <1>1, <1>2, <1>5 DEF TypeOK, routes
  <2>2. Owned' /\ RoutesAreOpen'  BY <1>5 DEF Owned, RoutesAreOpen, Open, routes
  <2>3. TurnsFit' /\ Buffers' /\ PostsAreTurns'
    BY <1>1, <1>2, <1>5 DEF TurnsFit, Buffers, PostsAreTurns, Open
  <2>4. QED  BY <1>3, <2>1, <2>2, <2>3
<1>6. QED  BY <1>1, <1>4, <1>5

LEMMA TelegramWebMessage ==
  ASSUME IInv, NEW s \in Sessions, WebMessage(s)
  PROVE  IInv'
<1> USE DEF IInv
<1>1. /\ running' = running /\ turn' = turn /\ turns' = turns /\ broken' = broken
      /\ post' = post /\ minted' = minted /\ told' = told /\ Submit(s)
      /\ UNCHANGED <<routes, objs>>
  BY DEF WebMessage
<1>2. /\ messages' \in 0..MaxMessages /\ messages' = messages + 1
      /\ queue' \in [Sessions -> 0..MaxMessages]
      /\ \A t \in Sessions : queue'[t] <= messages'
      /\ known' = known \cup {s} /\ known' \subseteq Sessions
  BY <1>1, Submitted
<1>3. ToldOfKnown' /\ ToldOnce'  BY <1>1, <1>2 DEF ToldOfKnown, ToldOnce
<1>4. TypeOK'  BY <1>1, <1>2 DEF TypeOK, routes
<1>5. Owned' /\ RoutesAreOpen'  BY <1>1 DEF Owned, RoutesAreOpen, Open, routes
<1>6. TurnsFit' /\ Buffers' /\ PostsAreTurns'
  BY <1>1, <1>2 DEF TurnsFit, Buffers, PostsAreTurns, Open
<1>7. QED  BY <1>3, <1>4, <1>5, <1>6

LEMMA TelegramWebNew ==
  ASSUME IInv, NEW s \in Sessions, WebNew(s)
  PROVE  IInv'
<1> USE DEF IInv
<1>1. /\ running' = running /\ queue' = queue /\ turn' = turn /\ messages' = messages
      /\ turns' = turns /\ broken' = broken /\ post' = post /\ minted' = minted
      /\ UNCHANGED routes /\ objs' = objs
      /\ s \notin known /\ known' = known \cup {s} /\ Tell(s, listed, objs)
  BY DEF WebNew
<1>2. ASSUME NEW i \in listed, NEW k \in listed, ~objs[i].closed, ~objs[k].closed,
             objs[i].chat = objs[k].chat
      PROVE  i = k
  <2>1. Open(i) /\ Open(k)  BY <1>2 DEF TypeOK, Open
  <2>2. QED  BY <1>2, <2>1, OneOpen
<1>3. /\ told' \in [Chats \X Sessions -> Nat]
      /\ \A d \in Chats, t \in Sessions : t # s => told'[<<d, t>>] = told[<<d, t>>]
      /\ \A d \in Chats : told'[<<d, s>>] <= 1
  <2>1. \A i, k \in listed :
          /\ ~objs[i].closed /\ ~objs[k].closed
          /\ objs[i].chat = objs[k].chat
          => i = k
    BY <1>2
  <2> DEFINE heard == [x \in Chats \X Sessions |->
                         Cardinality({i \in listed : /\ x = <<objs[i].chat, s>>
                                                     /\ ~IsClosed(objs[i])
                                                     /\ objs[i].session # s})]
  <2>2. told' = [x \in Chats \X Sessions |-> told[x] + heard[x]]
    BY <1>1 DEF Tell, TypeOK
  <2>3. ASSUME NEW x \in Chats \X Sessions
        PROVE  heard[x] \in 0..1 /\ (x[2] # s => heard[x] = 0)
    <3> DEFINE H == {i \in listed : /\ x = <<objs[i].chat, s>>
                                    /\ ~IsClosed(objs[i])
                                    /\ objs[i].session # s}
    <3>1. heard[x] = Cardinality(H)  OBVIOUS
    <3>2. \A i, k \in H : i = k  BY <2>1 DEF IsClosed
    <3>3. x[2] # s => H = {}  OBVIOUS
    <3> HIDE DEF H, heard
    <3>4. Cardinality(H) \in 0..1 /\ (H = {} => Cardinality(H) = 0)  BY <3>2, OneOrNone
    <3>5. QED  BY <3>1, <3>3, <3>4
  <2>4. heard \in [Chats \X Sessions -> 0..1]
    <3>1. heard = [x \in Chats \X Sessions |-> heard[x]]  OBVIOUS
    <3> HIDE DEF heard
    <3>2. QED  BY <2>3, <3>1
  <2>5. \A d \in Chats, t \in Sessions : t # s => heard[<<d, t>>] = 0
    <3> HIDE DEF heard
    <3>1. QED  BY <2>3
  <2> HIDE DEF heard
  <2>6. /\ told' \in [Chats \X Sessions -> Nat]
        /\ \A d \in Chats, t \in Sessions : t # s => told'[<<d, t>>] = told[<<d, t>>]
        /\ \A d \in Chats : told'[<<d, s>>] = heard[<<d, s>>]
    <3> HIDE DEF IInv
    <3>1. TypeOK /\ ToldOfKnown /\ s \notin known  BY <1>1 DEF IInv
    <3>2. QED  BY <2>2, <2>4, <2>5, <3>1, Telling
  <2>7. ASSUME NEW d \in Chats PROVE told'[<<d, s>>] <= 1
    <3>1. heard[<<d, s>>] \in 0..1  BY <2>4
    <3>2. QED  BY <2>6, <3>1
  <2>8. QED  BY <2>6, <2>7
<1>4. ASSUME NEW d \in Chats PROVE minted'[s] # d
  <2>1. minted[s] = None  BY <1>1 DEF ToldOfKnown
  <2>2. QED  BY <1>1, <2>1, TelegramAssumption
<1>5. ToldOfKnown' /\ ToldOnce'  BY <1>1, <1>3, <1>4, ToldAfter
<1>6. TypeOK'
  <2>1. known' \subseteq Sessions  BY <1>1 DEF TypeOK
  <2>2. QED  BY <1>1, <1>3, <2>1 DEF TypeOK, routes
<1>7. Owned' /\ RoutesAreOpen'  BY <1>1 DEF Owned, RoutesAreOpen, Open, routes
<1>8. TurnsFit' /\ Buffers' /\ PostsAreTurns'
  BY <1>1 DEF TurnsFit, Buffers, PostsAreTurns, Open
<1>9. QED  BY <1>5, <1>6, <1>7, <1>8

(* stop: every open channel is one of the runner's, so none is left.       *)
LEMMA TelegramStop ==
  ASSUME IInv, Stop
  PROVE  IInv'
<1> USE DEF IInv
<1> DEFINE ours == {current[c] : c \in Chats} \ {None}
           left == {session[c] : c \in Chats} \ {None}
           Shutdown(i) == IF i \in ours
                          THEN [objs[i] EXCEPT !.closed = TRUE, !.buffer = <<>>] ELSE objs[i]
<1>1. /\ running' = FALSE
      /\ objs' = [i \in DOMAIN objs |-> Shutdown(i)]
      /\ attached' = [s \in Sessions |-> attached[s] \ ours]
      /\ bound' = [s \in Sessions |-> IF s \in left THEN None ELSE bound[s]]
      /\ speaker' = [s \in Sessions |-> IF s \in left THEN None ELSE speaker[s]]
      /\ session' = [c \in Chats |-> None] /\ current' = [c \in Chats |-> None]
      /\ listed' = listed /\ known' = known /\ queue' = queue /\ turn' = turn
      /\ messages' = messages /\ turns' = turns /\ broken' = broken /\ post' = post
      /\ minted' = minted /\ told' = told
  BY DEF Stop, history
<1>2. ASSUME NEW i \in DOMAIN objs
      PROVE  /\ Shutdown(i) \in Channel /\ Shutdown(i).closed
             /\ Shutdown(i).session = objs[i].session
  <2>1. objs[i] \in Channel  BY Element DEF TypeOK
  <2>2. CASE i \in ours
    <3>1. Shutdown(i) = [objs[i] EXCEPT !.closed = TRUE, !.buffer = <<>>]  BY <2>2
    <3> HIDE DEF Shutdown
    <3>2. QED  BY <2>1, <3>1, Shut
  <2>3. CASE i \notin ours
    <3>1. Shutdown(i) = objs[i]  BY <2>3
    <3>2. ~Open(i)
      <4>1. SUFFICES ASSUME Open(i) PROVE FALSE  OBVIOUS
      <4>2. current[objs[i].chat] = i  BY <4>1 DEF RoutesAreOpen
      <4>3. objs[i].chat \in Chats  BY <2>1 DEF Channel
      <4>4. i # None  BY Element, TelegramAssumption DEF TypeOK
      <4>5. QED  BY <2>3, <4>2, <4>3, <4>4
    <3>3. objs[i].closed  BY <3>2 DEF Open
    <3>4. QED  BY <2>1, <3>1, <3>3
  <2>4. QED  BY <2>2, <2>3
<1> HIDE DEF Shutdown
<1>3. /\ objs' \in Seq(Channel) /\ Len(objs') = Len(objs) /\ DOMAIN objs' = DOMAIN objs
      /\ \A i \in DOMAIN objs : objs'[i].closed /\ objs'[i].session = objs[i].session
  <2>1. objs \in Seq(Channel)  BY DEF TypeOK
  <2>2. QED  BY <1>1, <1>2, <2>1
<1>4. ASSUME NEW k PROVE ~Open(k)'  BY <1>3 DEF Open
<1>5. ASSUME NEW s \in Sessions, NEW i \in attached[s] PROVE i \in ours /\ s \in left
  <2>1. i \in DOMAIN objs /\ Open(i) /\ objs[i].session = s  BY DEF RoutesAreOpen
  <2>2. current[objs[i].chat] = i  BY <2>1 DEF RoutesAreOpen
  <2>3. objs[i] \in Channel  BY <2>1, Element DEF TypeOK
  <2>4. objs[i].chat \in Chats /\ i # None
    BY <2>1, <2>3, Element, TelegramAssumption DEF Channel, TypeOK
  <2>5. session[objs[i].chat] = s  BY <2>1, <2>2, <2>4 DEF Owned
  <2>6. s # None  BY TelegramAssumption
  <2>7. QED  BY <2>2, <2>4, <2>5, <2>6
<1>6. ASSUME NEW s \in Sessions
      PROVE  attached'[s] = {} /\ bound'[s] = None /\ speaker'[s] = None
  <2>1. attached'[s] = attached[s] \ ours  BY <1>1
  <2>2. bound[s] \in attached[s] \cup {None} /\ speaker[s] \in attached[s] \cup {None}
    BY DEF RoutesAreOpen
  <2>3. bound'[s] = IF s \in left THEN None ELSE bound[s]  BY <1>1
  <2>4. speaker'[s] = IF s \in left THEN None ELSE speaker[s]  BY <1>1
  <2> HIDE DEF left, ours
  <2>5. QED  BY <1>5, <2>1, <2>2, <2>3, <2>4
<1> HIDE DEF left, ours
<1>7. TypeOK'
  <2>1. attached' \in [Sessions -> SUBSET Objs]  BY <1>1 DEF TypeOK
  <2>2. {bound', speaker'} \subseteq [Sessions -> Objs \cup {None}]
    BY <1>1, <1>6 DEF TypeOK
  <2>3. session' \in [Chats -> Sessions \cup {None}] /\ current' \in [Chats -> Objs \cup {None}]
    BY <1>1
  <2>4. QED  BY <1>1, <1>3, <2>1, <2>2, <2>3 DEF TypeOK
<1>8. Owned'  BY <1>1 DEF Owned
<1>9. RoutesAreOpen'
  <2>1. ASSUME NEW s \in Sessions
        PROVE  /\ attached'[s] = {i \in DOMAIN objs' : Open(i)' /\ objs'[i].session = s}
               /\ {bound'[s], speaker'[s]} \subseteq attached'[s] \cup {None}
    <3>1. attached'[s] = {} /\ bound'[s] = None /\ speaker'[s] = None  BY <1>6
    <3>2. {i \in DOMAIN objs' : Open(i)' /\ objs'[i].session = s} = {}  BY <1>4
    <3>3. QED  BY <3>1, <3>2
  <2>2. QED  BY <1>4, <2>1 DEF RoutesAreOpen, Open
<1>10. TurnsFit'
  <2> SUFFICES ASSUME NEW s \in Sessions PROVE TurnsFit!(s)'  BY DEF TurnsFit
  <2>1. UNCHANGED <<queue, turn, messages, turns>>  BY <1>1
  <2>2. \A i \in turn[s].audience : i \in DOMAIN objs' /\ objs'[i].session = s
    BY <1>3 DEF TurnsFit
  <2>3. QED  BY <2>1, <2>2 DEF TurnsFit
<1>11. Buffers'  BY <1>4 DEF Buffers, Open
<1>12. ToldOfKnown' /\ ToldOnce' /\ PostsAreTurns'
  BY <1>1 DEF ToldOfKnown, ToldOnce, PostsAreTurns
<1>13. QED  BY <1>7, <1>8, <1>9, <1>10, <1>11, <1>12

-----------------------------------------------------------------------------
(* Turns.                                                                  *)

(* A turn's step changes no route.                                         *)
LEMMA SameShape ==
  ASSUME IInv, UNCHANGED <<bot, minted, told>>, DOMAIN objs' = DOMAIN objs,
         \A i \in DOMAIN objs : /\ objs'[i].chat = objs[i].chat
                               /\ objs'[i].session = objs[i].session
                               /\ objs'[i].closed = objs[i].closed
  PROVE  Owned' /\ RoutesAreOpen' /\ ToldOfKnown' /\ ToldOnce'
<1> USE DEF IInv, bot, routes
<1>1. \A i : Open(i)' <=> Open(i)  BY DEF Open
<1>2. Owned'
  <2>1. ASSUME NEW c \in Chats
        PROVE  /\ session[c] = None <=> current[c] = None
               /\ current[c] # None =>
                    /\ Open(current[c]) /\ current[c] \in DOMAIN objs
                    /\ objs'[current[c]].chat = c
                    /\ objs'[current[c]].session = session[c]
    BY DEF Owned, Open
  <2>2. QED  BY <2>1 DEF Owned, Open
<1>3. RoutesAreOpen'
  <2>1. ASSUME NEW s \in Sessions
        PROVE  attached[s] = {i \in DOMAIN objs' : Open(i)' /\ objs'[i].session = s}
    BY <1>1 DEF RoutesAreOpen
  <2>2. \A s \in Sessions : {bound[s], speaker[s]} \subseteq attached[s] \cup {None}
    BY DEF RoutesAreOpen
  <2>3. \A i \in DOMAIN objs : Open(i)' => current[objs'[i].chat] = i
    BY <1>1 DEF RoutesAreOpen
  <2>4. QED  BY <2>1, <2>2, <2>3 DEF RoutesAreOpen, Open
<1>4. ToldOfKnown' /\ ToldOnce'  BY DEF ToldOfKnown, ToldOnce
<1>5. QED  BY <1>2, <1>3, <1>4

(* A turn steps to q and no channel hears anything.                        *)
StepsTo(s, q) ==
  /\ turn' = [turn EXCEPT ![s] = q]
  /\ UNCHANGED <<bot, objs, messages, post, minted, told>>
  /\ turns' \in 0..MaxMessages /\ turns <= turns'
  /\ broken \subseteq broken' /\ broken' \subseteq 1..turns'
  /\ queue' \in [Sessions -> 0..MaxMessages]
  /\ \A t \in Sessions : queue'[t] <= messages
  /\ q.id <= turns' /\ (q.id = 0 => q = Quiet)
  /\ q.event = "none" => q.due = {} /\ q.sent = 0
  /\ q.event = "piece" => q.sent >= 1
  /\ q.due \subseteq q.audience
  /\ \A i \in q.audience : i \in DOMAIN objs /\ objs[i].session = s
  /\ \A i \in DOMAIN objs :
       Open(i) /\ objs[i].session = s
         => EndsWith(objs[i].buffer, q.id, Heard(q, i), broken')

LEMMA TurnSteps ==
  ASSUME IInv, NEW s \in Sessions, NEW q \in Turn, StepsTo(s, q)
  PROVE  IInv'
<1> USE DEF IInv
<1>0. /\ turn' = [turn EXCEPT ![s] = q]
      /\ UNCHANGED <<bot, objs, messages, post, minted, told>>
      /\ turns' \in 0..MaxMessages /\ turns <= turns'
      /\ broken \subseteq broken' /\ broken' \subseteq 1..turns'
      /\ queue' \in [Sessions -> 0..MaxMessages]
      /\ \A t \in Sessions : queue'[t] <= messages
      /\ q.id <= turns' /\ (q.id = 0 => q = Quiet)
      /\ q.event = "none" => q.due = {} /\ q.sent = 0
      /\ q.event = "piece" => q.sent >= 1
      /\ q.due \subseteq q.audience
      /\ \A i \in q.audience : i \in DOMAIN objs /\ objs[i].session = s
      /\ \A i \in DOMAIN objs :
           Open(i) /\ objs[i].session = s
             => EndsWith(objs[i].buffer, q.id, Heard(q, i), broken')
  BY DEF StepsTo
<1>1. /\ UNCHANGED <<running, session, current, attached, bound, speaker, listed, known>>
      /\ UNCHANGED <<objs, messages, post, minted, told>>
  BY <1>0 DEF bot, routes
<1>2. turn \in [Sessions -> Turn]  BY DEF TypeOK
<1>3. turn'[s] = q /\ \A t \in Sessions : t # s => turn'[t] = turn[t]  BY <1>0, <1>2
<1>4. turn' \in [Sessions -> Turn]  BY <1>0, <1>2
<1>5. Owned' /\ RoutesAreOpen' /\ ToldOfKnown' /\ ToldOnce'  BY <1>0, <1>1, SameShape
<1>6. TypeOK'
  <2>1. \A t \in Sessions : turn'[t].due \subseteq turn'[t].audience  BY <1>0, <1>3 DEF TypeOK
  <2>2. QED  BY <1>0, <1>1, <1>4, <2>1 DEF TypeOK
<1>7. TurnsFit'
  <2>1. ASSUME NEW t \in Sessions
        PROVE  /\ queue'[t] <= messages
               /\ turn'[t].id <= turns'
               /\ turn'[t].id = 0 => turn'[t] = Quiet
               /\ turn'[t].event = "none" => turn'[t].due = {} /\ turn'[t].sent = 0
               /\ turn'[t].event = "piece" => turn'[t].sent >= 1
               /\ turn'[t].due \subseteq turn'[t].audience
               /\ \A i \in turn'[t].audience : i \in DOMAIN objs /\ objs[i].session = t
    <3>1. CASE t = s  BY <1>0, <1>3, <3>1
    <3>2. CASE t # s
      <4>1. turn'[t] = turn[t] /\ turn[t] \in Turn  BY <1>2, <1>3, <3>2
      <4>2. turn[t].id <= turns /\ turn[t].id \in Nat /\ turns \in Nat /\ turns' \in Nat
        BY <1>0, <4>1, TelegramAssumption DEF TurnsFit, Turn, TypeOK
      <4>3. QED  BY <1>0, <4>1, <4>2 DEF TurnsFit
    <3>3. QED  BY <3>1, <3>2
  <2>2. QED  BY <1>1, <2>1 DEF TurnsFit
<1>8. Buffers'
  <2>1. ASSUME NEW i \in DOMAIN objs, Open(i)
        PROVE  EndsWith(objs[i].buffer, turn'[objs[i].session].id,
                        Heard(turn'[objs[i].session], i), broken')
    <3>1. objs[i].session \in Sessions
      <4>1. objs[i] \in Channel  BY Element DEF TypeOK
      <4>2. QED  BY <4>1 DEF Channel
    <3>2. CASE objs[i].session = s  BY <1>0, <1>3, <2>1, <3>2
    <3>3. CASE objs[i].session # s
      <4>1. turn'[objs[i].session] = turn[objs[i].session]  BY <1>3, <3>1, <3>3
      <4>2. EndsWith(objs[i].buffer, turn[objs[i].session].id,
                     Heard(turn[objs[i].session], i), broken)
        BY <2>1 DEF Buffers
      <4>3. QED  BY <1>0, <4>1, <4>2, DeadStayDead
    <3>4. QED  BY <3>2, <3>3
  <2>2. QED  BY <1>1, <2>1 DEF Buffers, Open
<1>9. PostsAreTurns'  BY <1>0, <1>1 DEF PostsAreTurns
<1>10. QED  BY <1>5, <1>6, <1>7, <1>8, <1>9

(* What is known of a turn and of its channels before a step.              *)
LEMMA TurnFacts ==
  ASSUME IInv, NEW s \in Sessions
  PROVE  /\ turn[s] \in Turn /\ turn[s].id \in 0..MaxMessages /\ turn[s].sent \in 0..MaxPieces
         /\ turn[s].event \in {"none", "piece", "end", "error"}
         /\ turn[s].audience \subseteq Objs /\ turn[s].due \subseteq turn[s].audience
         /\ {messages, turns} \subseteq 0..MaxMessages
         /\ broken \subseteq 1..turns /\ queue \in [Sessions -> 0..MaxMessages]
         /\ \A t \in Sessions : queue[t] <= messages
         /\ turn[s].id <= turns /\ (turn[s].id = 0 => turn[s] = Quiet)
         /\ (turn[s].event = "none" => turn[s].due = {} /\ turn[s].sent = 0)
         /\ (turn[s].event = "piece" => turn[s].sent >= 1)
         /\ \A i \in turn[s].audience : i \in DOMAIN objs /\ objs[i].session = s
         /\ \A i \in DOMAIN objs :
              Open(i) /\ objs[i].session = s
                => EndsWith(objs[i].buffer, turn[s].id, Heard(turn[s], i), broken)
         /\ MaxMessages \in Nat /\ MaxPieces \in Nat
<1> USE DEF IInv
<1>1. turn[s] \in Turn  BY DEF TypeOK
<1>2. /\ turn[s].id \in 0..MaxMessages /\ turn[s].sent \in 0..MaxPieces
      /\ turn[s].event \in {"none", "piece", "end", "error"} /\ turn[s].audience \subseteq Objs
  BY <1>1 DEF Turn
<1>3. {messages, turns} \subseteq 0..MaxMessages /\ broken \subseteq 1..turns
      /\ queue \in [Sessions -> 0..MaxMessages]
  BY DEF TypeOK
<1>4. MaxMessages \in Nat /\ MaxPieces \in Nat  BY TelegramAssumption
<1>5. /\ \A t \in Sessions : queue[t] <= messages
      /\ turn[s].id <= turns /\ (turn[s].id = 0 => turn[s] = Quiet)
      /\ (turn[s].event = "none" => turn[s].due = {} /\ turn[s].sent = 0)
      /\ (turn[s].event = "piece" => turn[s].sent >= 1)
      /\ turn[s].due \subseteq turn[s].audience
      /\ \A i \in turn[s].audience : i \in DOMAIN objs /\ objs[i].session = s
  BY DEF TurnsFit
<1>6. \A i \in DOMAIN objs :
        Open(i) /\ objs[i].session = s
          => EndsWith(objs[i].buffer, turn[s].id, Heard(turn[s], i), broken)
  BY DEF Buffers
<1>7. QED  BY <1>1, <1>2, <1>3, <1>4, <1>5, <1>6

LEMMA QuietFits ==
  ASSUME MaxMessages \in Nat, MaxPieces \in Nat
  PROVE  /\ Quiet \in Turn /\ Quiet.id = 0 /\ Quiet.sent = 0 /\ Quiet.event = "none"
         /\ Quiet.due = {} /\ Quiet.audience = {}
         /\ \A i : Heard(Quiet, i) = 0
BY DEF Quiet, Turn, Heard

(* A text of no turn yet is a text of the next.                            *)
LEMMA NextText ==
  ASSUME NEW text, NEW id, NEW other, NEW dead, EndsWith(text, id, 0, dead)
  PROVE  EndsWith(text, other, 0, dead)
BY DEF EndsWith

LEMMA TelegramStart ==
  ASSUME IInv, NEW s \in Sessions, Start(s)
  PROVE  IInv'
<1> DEFINE q == [Quiet EXCEPT !.id = turns + 1, !.audience = attached[s]]
<1>1. /\ turn[s].id = 0 /\ queue[s] > 0 /\ turns < MaxMessages
      /\ queue' = [queue EXCEPT ![s] = queue[s] - 1] /\ turns' = turns + 1
      /\ turn' = [turn EXCEPT ![s] = q]
      /\ UNCHANGED <<bot, objs, messages, broken, post, minted, told>>
  BY DEF Start, Ready
<1>2. /\ turns \in 0..MaxMessages /\ messages \in 0..MaxMessages /\ broken \subseteq 1..turns
      /\ queue \in [Sessions -> 0..MaxMessages] /\ MaxMessages \in Nat /\ MaxPieces \in Nat
      /\ \A t \in Sessions : queue[t] <= messages
      /\ turn[s] = Quiet
  BY <1>1, TurnFacts
<1>3. attached[s] \subseteq Objs
      /\ \A i \in attached[s] : i \in DOMAIN objs /\ objs[i].session = s
  BY DEF IInv, TypeOK, RoutesAreOpen
<1>4. /\ q \in Turn /\ q.id = turns + 1 /\ q.sent = 0 /\ q.event = "none" /\ q.due = {}
      /\ q.audience = attached[s]
  <2> DEFINE n == turns + 1
  <2>1. n \in 0..MaxMessages  BY <1>1, <1>2
  <2>2. /\ Quiet \in Turn /\ Quiet.sent = 0 /\ Quiet.event = "none" /\ Quiet.due = {}
    BY <1>2, QuietFits
  <2>3. q = [Quiet EXCEPT !.id = n, !.audience = attached[s]]  OBVIOUS
  <2> HIDE DEF n, q
  <2>4. /\ q \in Turn /\ q.id = n /\ q.audience = attached[s] /\ q.sent = Quiet.sent
        /\ q.event = Quiet.event /\ q.due = Quiet.due
    BY <1>3, <2>1, <2>2, <2>3 DEF Turn
  <2>5. QED  BY <2>2, <2>4 DEF n
<1> HIDE DEF q
<1>5. ASSUME NEW i \in DOMAIN objs, Open(i), objs[i].session = s
      PROVE  EndsWith(objs[i].buffer, q.id, Heard(q, i), broken)
  <2>1. Heard(q, i) = 0  BY <1>4 DEF Heard
  <2>2. Heard(turn[s], i) = 0  BY <1>2, QuietFits
  <2>3. EndsWith(objs[i].buffer, turn[s].id, 0, broken)  BY <1>5, <2>2, TurnFacts
  <2>4. QED  BY <2>1, <2>3, NextText
<1>6. queue' \in [Sessions -> 0..MaxMessages] /\ \A t \in Sessions : queue'[t] <= messages
  <2>1. queue[s] - 1 \in 0..MaxMessages /\ queue[s] - 1 <= messages  BY <1>1, <1>2
  <2>2. QED  BY <1>1, <1>2, <2>1
<1>7. turns' \in 0..MaxMessages /\ turns <= turns' /\ broken' \subseteq 1..turns'
      /\ q.id <= turns' /\ q.id # 0 /\ broken' = broken
  BY <1>1, <1>2, <1>4
<1>8. UNCHANGED <<bot, objs, messages, post, minted, told>>  BY <1>1
<1>9. StepsTo(s, q)  BY <1>1, <1>3, <1>4, <1>5, <1>6, <1>7, <1>8 DEF StepsTo
<1>10. QED  BY <1>4, <1>9, TurnSteps

LEMMA TelegramPiece ==
  ASSUME IInv, NEW s \in Sessions, EmitPiece(s)
  PROVE  IInv'
<1> DEFINE o == turn[s]
           q == [o EXCEPT !.sent = o.sent + 1, !.event = "piece", !.due = o.audience]
<1>1. /\ o.id # 0 /\ o.due = {} /\ o.event \in {"none", "piece"} /\ o.sent < MaxPieces
      /\ turn' = [turn EXCEPT ![s] = q]
      /\ UNCHANGED <<bot, objs, queue, messages, turns, broken, post, minted, told>>
  BY DEF EmitPiece, Emitting, Audience, history
<1>2. /\ o \in Turn /\ o.sent \in 0..MaxPieces /\ o.id <= turns
      /\ o.audience \subseteq Objs /\ (o.event = "none" => o.sent = 0)
      /\ \A i \in o.audience : i \in DOMAIN objs /\ objs[i].session = s
      /\ MaxPieces \in Nat
  BY TurnFacts
<1>3. /\ q \in Turn /\ q.id = o.id /\ q.sent = o.sent + 1 /\ q.event = "piece"
      /\ q.due = o.audience /\ q.audience = o.audience
  <2>1. o.sent + 1 \in 0..MaxPieces  BY <1>1, <1>2
  <2>2. "piece" \in {"none", "piece", "end", "error"} /\ o.audience \in SUBSET Objs
    BY <1>2
  <2> DEFINE n == o.sent + 1
  <2>3. q = [o EXCEPT !.sent = n, !.event = "piece", !.due = o.audience]  OBVIOUS
  <2> HIDE DEF o, q, n
  <2>4. /\ q \in Turn /\ q.id = o.id /\ q.sent = n /\ q.event = "piece"
        /\ q.due = o.audience /\ q.audience = o.audience
    <3>1. o \in Turn /\ n \in 0..MaxPieces  BY <1>2, <2>1 DEF n
    <3>2. QED  BY <2>2, <2>3, <3>1 DEF Turn
  <2>5. QED  BY <2>4 DEF n
<1> HIDE DEF q, o
<1>4. ASSUME NEW i \in DOMAIN objs, Open(i), objs[i].session = s
      PROVE  EndsWith(objs[i].buffer, q.id, Heard(q, i), broken)
  <2>1. Heard(q, i) = Heard(o, i)  BY <1>1, <1>2, <1>3 DEF Heard
  <2>2. EndsWith(objs[i].buffer, o.id, Heard(o, i), broken)  BY <1>4, TurnFacts DEF o
  <2>3. QED  BY <1>3, <2>1, <2>2
<1>5. /\ turns' = turns /\ broken' = broken /\ queue' = queue
      /\ UNCHANGED <<bot, objs, messages, post, minted, told>>
  BY <1>1
<1>6. /\ turns' \in 0..MaxMessages /\ turns <= turns' /\ broken' \subseteq 1..turns'
      /\ queue' \in [Sessions -> 0..MaxMessages] /\ \A t \in Sessions : queue'[t] <= messages
  BY <1>5, TurnFacts
<1>7. q.id <= turns' /\ q.id # 0 /\ q.event # "none" /\ q.due \subseteq q.audience
      /\ (q.event = "piece" => q.sent >= 1)
  BY <1>1, <1>2, <1>3, <1>5
<1>8. StepsTo(s, q)  BY <1>1, <1>2, <1>3, <1>4, <1>5, <1>6, <1>7 DEF StepsTo
<1>9. QED  BY <1>3, <1>8, TurnSteps

LEMMA TelegramEnd ==
  ASSUME IInv, NEW s \in Sessions, NEW event \in {"end", "error"}, EmitEnd(s, event)
  PROVE  IInv'
<1> DEFINE o == turn[s]
           q == [o EXCEPT !.event = event, !.due = o.audience]
<1>1. /\ o.id # 0 /\ o.due = {} /\ o.event \in {"none", "piece"}
      /\ turn' = [turn EXCEPT ![s] = q]
      /\ UNCHANGED <<bot, objs, queue, messages, turns, broken, post, minted, told>>
  BY DEF EmitEnd, Emitting, Audience, history
<1>2. /\ o \in Turn /\ o.sent \in 0..MaxPieces /\ o.id <= turns
      /\ o.audience \subseteq Objs /\ (o.event = "none" => o.sent = 0)
      /\ \A i \in o.audience : i \in DOMAIN objs /\ objs[i].session = s
  BY TurnFacts
<1>3. /\ q \in Turn /\ q.id = o.id /\ q.sent = o.sent /\ q.event = event
      /\ q.due = o.audience /\ q.audience = o.audience
  BY <1>1, <1>2 DEF Turn
<1> HIDE DEF q, o
<1>4. ASSUME NEW i \in DOMAIN objs, Open(i), objs[i].session = s
      PROVE  EndsWith(objs[i].buffer, q.id, Heard(q, i), broken)
  <2>1. Heard(q, i) = Heard(o, i)  BY <1>1, <1>2, <1>3 DEF Heard
  <2>2. EndsWith(objs[i].buffer, o.id, Heard(o, i), broken)  BY <1>4, TurnFacts DEF o
  <2>3. QED  BY <1>3, <2>1, <2>2
<1>5. /\ turns' = turns /\ broken' = broken /\ queue' = queue
      /\ UNCHANGED <<bot, objs, messages, post, minted, told>>
  BY <1>1
<1>6. /\ turns' \in 0..MaxMessages /\ turns <= turns' /\ broken' \subseteq 1..turns'
      /\ queue' \in [Sessions -> 0..MaxMessages] /\ \A t \in Sessions : queue'[t] <= messages
  BY <1>5, TurnFacts
<1>7. q.id <= turns' /\ q.id # 0 /\ q.event # "none" /\ q.due \subseteq q.audience
      /\ (q.event = "piece" => q.sent >= 1)
  BY <1>1, <1>2, <1>3, <1>5
<1>8. StepsTo(s, q)  BY <1>1, <1>2, <1>3, <1>4, <1>5, <1>6, <1>7 DEF StepsTo
<1>9. QED  BY <1>3, <1>8, TurnSteps

(* Break and Finish: nothing runs, and the text of a dead turn is waste.   *)
LEMMA TelegramQuiet ==
  ASSUME IInv, NEW s \in Sessions, Break(s) \/ Finish(s)
  PROVE  IInv'
<1> DEFINE o == turn[s]
<1>1. /\ turn' = [turn EXCEPT ![s] = Quiet]
      /\ UNCHANGED <<bot, objs, queue, messages, turns, post, minted, told>>
  BY DEF Break, Finish, history
<1>2. /\ o.id \in 0..MaxMessages /\ o.id <= turns /\ o.sent \in 0..MaxPieces
      /\ {messages, turns} \subseteq 0..MaxMessages /\ MaxMessages \in Nat /\ MaxPieces \in Nat
      /\ broken \subseteq 1..turns /\ queue \in [Sessions -> 0..MaxMessages]
      /\ \A t \in Sessions : queue[t] <= messages
      /\ (o.event = "piece" => o.sent >= 1)
  BY TurnFacts
<1>3. /\ Quiet \in Turn /\ Quiet.id = 0 /\ Quiet.sent = 0 /\ Quiet.event = "none"
      /\ Quiet.due = {} /\ Quiet.audience = {} /\ \A i : Heard(Quiet, i) = 0
  BY <1>2, QuietFits
<1>4. /\ broken \subseteq broken' /\ broken' \subseteq 1..turns
      /\ \A i \in DOMAIN objs :
           Open(i) /\ objs[i].session = s
             => EndsWith(objs[i].buffer, 0, 0, broken')
  <2>1. CASE Break(s)
    <3>1. broken' = broken \cup {o.id} /\ o.id # 0  BY <2>1 DEF Break, Emitting
    <3>2. ASSUME NEW i \in DOMAIN objs, Open(i), objs[i].session = s
          PROVE  EndsWith(objs[i].buffer, 0, 0, broken')
      <4>1. EndsWith(objs[i].buffer, o.id, Heard(o, i), broken)  BY <3>2, TurnFacts
      <4>2. Heard(o, i) \in Nat  BY <1>2 DEF Heard
      <4>3. objs[i].buffer \in Seq(Piece)
        <5>1. objs[i] \in Channel  BY Element DEF IInv, TypeOK
        <5>2. QED  BY <5>1 DEF Channel
      <4> HIDE DEF o
      <4>4. QED  BY <3>1, <4>1, <4>2, <4>3, TextDies
    <3>3. broken \subseteq broken' /\ broken' \subseteq 1..turns
      <4> HIDE DEF o
      <4>1. o.id \in 1..turns  BY <1>2, <3>1
      <4>2. QED  BY <1>2, <3>1, <4>1
    <3>4. QED  BY <3>2, <3>3
  <2>2. CASE Finish(s)
    <3>1. broken' = broken /\ o.event \in {"end", "error"} /\ o.due = {}
      BY <2>2 DEF Finish, history
    <3>2. ASSUME NEW i \in DOMAIN objs, Open(i), objs[i].session = s
          PROVE  EndsWith(objs[i].buffer, 0, 0, broken')
      <4>1. EndsWith(objs[i].buffer, o.id, Heard(o, i), broken)  BY <3>2, TurnFacts
      <4>2. Heard(o, i) = 0  BY <3>1 DEF Heard
      <4>3. QED  BY <3>1, <4>1, <4>2, NextText
    <3>3. QED  BY <1>2, <3>1, <3>2
  <2>3. QED  BY <2>1, <2>2
<1>5. ASSUME NEW i \in DOMAIN objs, Open(i), objs[i].session = s
      PROVE  EndsWith(objs[i].buffer, Quiet.id, Heard(Quiet, i), broken')
  BY <1>3, <1>4, <1>5
<1>6. turns' = turns /\ queue' = queue /\ UNCHANGED <<bot, objs, messages, post, minted, told>>
  BY <1>1
<1> HIDE DEF o
<1>7. StepsTo(s, Quiet)
  <2>1. /\ turns' \in 0..MaxMessages /\ turns <= turns' /\ Quiet.id <= turns'
        /\ queue' \in [Sessions -> 0..MaxMessages]
    BY <1>2, <1>3, <1>6
  <2>2. QED  BY <1>1, <1>2, <1>3, <1>4, <1>5, <1>6, <2>1 DEF StepsTo
<1>8. QED  BY <1>3, <1>7, TurnSteps

(* A channel exchanges its text.                                           *)
LEMMA Retexted ==
  ASSUME TypeOK, NEW i \in DOMAIN objs, NEW text \in Seq(Piece),
         objs' = [objs EXCEPT ![i].buffer = text]
  PROVE  /\ objs' \in Seq(Channel) /\ Len(objs') = Len(objs) /\ DOMAIN objs' = DOMAIN objs
         /\ \A k \in DOMAIN objs : k # i => objs'[k] = objs[k]
         /\ objs'[i].chat = objs[i].chat /\ objs'[i].session = objs[i].session
         /\ objs'[i].closed = objs[i].closed /\ objs'[i].buffer = text
<1>1. objs \in Seq(Channel) /\ objs[i] \in Channel  BY Element DEF TypeOK
<1> DEFINE r == [objs[i] EXCEPT !.buffer = text]
<1>2. objs' = [objs EXCEPT ![i] = r]  OBVIOUS
<1>3. /\ r \in Channel /\ r.closed = objs[i].closed /\ r.chat = objs[i].chat
      /\ r.session = objs[i].session /\ r.buffer = text
  BY <1>1, Retold
<1> HIDE DEF r
<1>4. QED  BY <1>1, <1>2, <1>3

(* Send: the channel's text is what it has heard of the turn.              *)
LEMMA TelegramSend ==
  ASSUME IInv, NEW s \in Sessions, NEW i, Send(s, i)
  PROVE  IInv'
<1> USE DEF IInv
<1> DEFINE o == turn[s]
           q == [o EXCEPT !.due = o.due \ {i}]
<1>1. /\ i \in o.due /\ Hear(i, o) /\ turn' = [turn EXCEPT ![s] = q]
      /\ UNCHANGED <<bot, queue, messages, turns, broken, minted, told>>
  BY DEF Send
<1>2. /\ o \in Turn /\ o.id \in 0..MaxMessages /\ o.sent \in 0..MaxPieces
      /\ o.event \in {"none", "piece", "end", "error"} /\ o.audience \subseteq Objs
      /\ o.due \subseteq o.audience /\ (o.id = 0 => o = Quiet)
      /\ (o.event = "none" => o.due = {}) /\ (o.event = "piece" => o.sent >= 1)
      /\ \A k \in o.audience : k \in DOMAIN objs /\ objs[k].session = s
      /\ MaxMessages \in Nat /\ MaxPieces \in Nat
  BY TurnFacts
<1>3. i \in o.audience /\ i \in DOMAIN objs /\ objs[i].session = s /\ o.event # "none"
  BY <1>1, <1>2
<1>4. o.id # 0
  <2>1. Quiet.due = {}  BY DEF Quiet
  <2> HIDE DEF o
  <2>2. QED  BY <1>1, <1>2, <2>1
<1>5. /\ q \in Turn /\ q.id = o.id /\ q.sent = o.sent /\ q.event = o.event
      /\ q.due = o.due \ {i} /\ q.audience = o.audience
  BY <1>2 DEF Turn
<1>6. Open(i) => EndsWith(objs[i].buffer, o.id, Heard(o, i), broken)
  BY <1>3, TurnFacts
<1>7. objs[i] \in Channel /\ objs[i].buffer \in Seq(Piece)
  <2>1. objs[i] \in Channel  BY <1>3, Element DEF TypeOK
  <2>2. QED  BY <2>1 DEF Channel
<1>8. /\ objs' \in Seq(Channel) /\ Len(objs') = Len(objs) /\ DOMAIN objs' = DOMAIN objs
      /\ \A k \in DOMAIN objs : k # i => objs'[k] = objs[k]
      /\ objs'[i].chat = objs[i].chat /\ objs'[i].session = objs[i].session
      /\ objs'[i].closed = objs[i].closed
      /\ Open(i) => EndsWith(objs'[i].buffer, o.id, Heard(q, i), broken)
      /\ post' \in [turn : 0..MaxMessages, sent : 0..MaxPieces, text : Seq(Piece)]
      /\ PostsAreTurns'
  <2>1. CASE objs[i].closed
    <3>1. objs' = objs /\ post' = post  BY <1>1, <2>1 DEF Hear, IsClosed
    <3>2. ~Open(i)  BY <2>1 DEF Open
    <3>3. PostsAreTurns'  BY <1>1, <3>1 DEF PostsAreTurns
    <3>4. QED  BY <3>1, <3>2, <3>3 DEF TypeOK
  <2>2. CASE ~objs[i].closed /\ o.event = "piece"
    <3> DEFINE v == Append(objs[i].buffer, <<o.id, o.sent>>)
    <3>1. objs' = [objs EXCEPT ![i].buffer = v] /\ post' = post
      BY <1>1, <2>2 DEF Hear, IsClosed
    <3>2. o.sent >= 1 /\ <<o.id, o.sent>> \in Piece
      <4>1. o.sent \in 1..MaxPieces /\ o.id \in 1..MaxMessages  BY <1>2, <1>4, <2>2
      <4>2. QED  BY <4>1 DEF Piece
    <3>3. v \in Seq(Piece)  BY <1>7, <3>2, Appended
    <3>4. Open(i) => EndsWith(v, o.id, Heard(q, i), broken)
      <4>1. SUFFICES ASSUME Open(i) PROVE EndsWith(v, o.id, Heard(q, i), broken)  OBVIOUS
      <4>2. Heard(o, i) = o.sent - 1 /\ Heard(q, i) = o.sent
        BY <1>1, <1>3, <1>5, <2>2 DEF Heard
      <4> DEFINE k == o.sent - 1
      <4>3. k \in Nat /\ o.sent = k + 1  BY <1>2, <3>2
      <4>4. EndsWith(objs[i].buffer, o.id, k, broken)  BY <1>6, <4>1, <4>2
      <4> HIDE DEF k, o
      <4>5. EndsWith(Append(objs[i].buffer, <<o.id, k + 1>>), o.id, k + 1, broken)
        BY <1>7, <3>2, <4>3, <4>4, TextGrows
      <4>6. QED  BY <4>2, <4>3, <4>5
    <3> HIDE DEF v
    <3>5. /\ objs' \in Seq(Channel) /\ Len(objs') = Len(objs) /\ DOMAIN objs' = DOMAIN objs
          /\ \A k \in DOMAIN objs : k # i => objs'[k] = objs[k]
          /\ objs'[i].chat = objs[i].chat /\ objs'[i].session = objs[i].session
          /\ objs'[i].closed = objs[i].closed /\ objs'[i].buffer = v
      BY <1>3, <3>1, <3>3, Retexted
    <3>6. PostsAreTurns'  BY <1>1, <3>1 DEF PostsAreTurns
    <3>7. QED  BY <3>1, <3>4, <3>5, <3>6 DEF TypeOK
  <2>3. CASE ~objs[i].closed /\ o.event # "piece"
    <3>1. /\ objs' = [objs EXCEPT ![i].buffer = <<>>]
          /\ post' = IF o.event = "end" /\ objs[i].buffer # <<>>
                     THEN [turn |-> o.id, sent |-> o.sent, text |-> objs[i].buffer]
                     ELSE post
      BY <1>1, <2>3 DEF Hear, IsClosed, Cleared
    <3> DEFINE v == <<>>
    <3>2. v \in Seq(Piece)  OBVIOUS
    <3>3. Heard(q, i) = 0 /\ Heard(o, i) = o.sent
      BY <1>1, <1>3, <1>5, <2>3 DEF Heard
    <3>4. EndsWith(v, o.id, Heard(q, i), broken)  BY <3>3, EmptyText
    <3>5. objs' = [objs EXCEPT ![i].buffer = v]  BY <3>1
    <3> HIDE DEF v
    <3>6. /\ objs' \in Seq(Channel) /\ Len(objs') = Len(objs) /\ DOMAIN objs' = DOMAIN objs
          /\ \A k \in DOMAIN objs : k # i => objs'[k] = objs[k]
          /\ objs'[i].chat = objs[i].chat /\ objs'[i].session = objs[i].session
          /\ objs'[i].closed = objs[i].closed /\ objs'[i].buffer = v
      BY <1>3, <3>2, <3>5, Retexted
    <3>7. /\ post' \in [turn : 0..MaxMessages, sent : 0..MaxPieces, text : Seq(Piece)]
          /\ PostsAreTurns'
      <4>1. CASE post' = post  BY <1>1, <4>1 DEF PostsAreTurns, TypeOK
      <4>2. CASE post' = [turn |-> o.id, sent |-> o.sent, text |-> objs[i].buffer]
        <5>1. EndsWith(objs[i].buffer, o.id, o.sent, broken)
          BY <1>3, <1>6, <2>3, <3>3 DEF Open
        <5>2. post'.turn = o.id /\ post'.sent = o.sent /\ post'.text = objs[i].buffer
          BY <4>2
        <5> HIDE DEF o
        <5>3. Len(objs[i].buffer) \in Nat  BY <1>7
        <5>4. PostsAreTurns'
          BY <1>1, <1>2, <5>1, <5>2, <5>3 DEF PostsAreTurns, EndsWith
        <5>5. QED  BY <1>2, <1>7, <4>2, <5>4
      <4>3. QED  BY <3>1, <4>1, <4>2
    <3>8. QED  BY <3>4, <3>6, <3>7
  <2>4. QED  BY <2>1, <2>2, <2>3
<1> HIDE DEF o, q
<1>9. Owned' /\ RoutesAreOpen' /\ ToldOfKnown' /\ ToldOnce'
  <2>1. \A k \in DOMAIN objs : /\ objs'[k].chat = objs[k].chat
                              /\ objs'[k].session = objs[k].session
                              /\ objs'[k].closed = objs[k].closed
    BY <1>8
  <2>2. QED  BY <1>1, <1>8, <2>1, SameShape
<1>10. turn \in [Sessions -> Turn] /\ turn' \in [Sessions -> Turn] /\ turn'[s] = q
       /\ \A t \in Sessions : t # s => turn'[t] = turn[t]
  BY <1>1, <1>5 DEF TypeOK
<1>11. UNCHANGED <<running, session, current, attached, bound, speaker, listed, known>>
       /\ UNCHANGED <<queue, messages, turns, broken, minted, told>>
  BY <1>1 DEF bot, routes
<1>12. TypeOK'
  <2>1. \A t \in Sessions : turn'[t].due \subseteq turn'[t].audience
    BY <1>2, <1>5, <1>10 DEF TypeOK
  <2>2. QED  BY <1>8, <1>10, <1>11, <2>1 DEF TypeOK
<1>13. TurnsFit'
  <2>1. ASSUME NEW t \in Sessions
        PROVE  /\ queue[t] <= messages
               /\ turn'[t].id <= turns
               /\ turn'[t].id = 0 => turn'[t] = Quiet
               /\ turn'[t].event = "none" => turn'[t].due = {} /\ turn'[t].sent = 0
               /\ turn'[t].event = "piece" => turn'[t].sent >= 1
               /\ turn'[t].due \subseteq turn'[t].audience
               /\ \A k \in turn'[t].audience : k \in DOMAIN objs /\ objs'[k].session = t
    <3>1. \A k \in DOMAIN objs : objs'[k].session = objs[k].session  BY <1>8
    <3>2. CASE t = s
      <4>1. queue[t] <= messages /\ o.id <= turns  BY DEF TurnsFit, o
      <4>2. QED  BY <1>2, <1>3, <1>4, <1>5, <1>10, <3>1, <3>2, <4>1
    <3>3. CASE t # s  BY <1>10, <3>1, <3>3 DEF TurnsFit
    <3>4. QED  BY <3>2, <3>3
  <2>2. QED  BY <1>8, <1>11, <2>1 DEF TurnsFit
<1>14. Buffers'
  <2>1. ASSUME NEW k \in DOMAIN objs, Open(k)'
        PROVE  EndsWith(objs'[k].buffer, turn'[objs'[k].session].id,
                        Heard(turn'[objs'[k].session], k), broken)
    <3>1. CASE k = i
      <4>1. Open(i)  BY <1>8, <2>1, <3>1 DEF Open
      <4>2. QED  BY <1>3, <1>5, <1>8, <1>10, <3>1, <4>1
    <3>2. CASE k # i
      <4>1. objs'[k] = objs[k] /\ Open(k)  BY <1>8, <2>1, <3>2 DEF Open
      <4>2. EndsWith(objs[k].buffer, turn[objs[k].session].id,
                     Heard(turn[objs[k].session], k), broken)
        BY <4>1 DEF Buffers
      <4>3. CASE objs[k].session = s
        <5>1. Heard(q, k) = Heard(o, k)  BY <1>5, <3>2 DEF Heard
        <5>2. QED  BY <1>5, <1>10, <4>1, <4>2, <4>3, <5>1 DEF o
      <4>4. CASE objs[k].session # s
        <5>1. objs[k].session \in Sessions
          <6>1. objs[k] \in Channel  BY Element DEF TypeOK
          <6>2. QED  BY <6>1 DEF Channel
        <5>2. QED  BY <1>10, <4>1, <4>2, <4>4, <5>1
      <4>5. QED  BY <4>3, <4>4
    <3>3. QED  BY <3>1, <3>2
  <2>2. QED  BY <1>8, <1>11, <2>1 DEF Buffers, Open
<1>15. QED  BY <1>8, <1>9, <1>12, <1>13, <1>14

-----------------------------------------------------------------------------
(* The theorems.                                                           *)

LEMMA TelegramStutter ==
  ASSUME IInv, UNCHANGED vars
  PROVE  IInv'
<1> USE DEF IInv, vars, bot, routes, history
<1>1. TypeOK'  BY DEF TypeOK
<1>2. Owned' /\ RoutesAreOpen'  BY DEF Owned, RoutesAreOpen, Open
<1>3. TurnsFit' /\ Buffers'  BY DEF TurnsFit, Buffers, Open
<1>4. ToldOfKnown' /\ ToldOnce' /\ PostsAreTurns'  BY DEF ToldOfKnown, ToldOnce, PostsAreTurns
<1>5. QED  BY <1>1, <1>2, <1>3, <1>4

LEMMA TelegramStep ==
  ASSUME IInv, [Next]_vars
  PROVE  IInv'
<1>1. ASSUME NEW c \in Chats, NEW s \in Sessions, Handle(c, s) PROVE IInv'
  BY <1>1, TelegramNew, TelegramSwitch, TelegramMessage DEF Handle
<1>2. ASSUME NEW s \in Sessions, WebMessage(s) \/ WebNew(s) PROVE IInv'
  BY <1>2, TelegramWebMessage, TelegramWebNew
<1>3. ASSUME NEW s \in Sessions, Dispatch(s) PROVE IInv'
  BY <1>3, TelegramStart, TelegramPiece, TelegramEnd, TelegramQuiet, TelegramSend DEF Dispatch
<1>4. QED  BY <1>1, <1>2, <1>3, TelegramStop, TelegramStutter DEF Next

(* Types, tables, turns and texts hold together in every reachable state.  *)
THEOREM Invariance == Spec => []IInv
BY TelegramInit, TelegramStep, PTL DEF Spec

(* Every variable keeps its type: no bound on objects or turns is passed.  *)
THEOREM TypeCorrect == Spec => []TypeOK
<1>1. IInv => TypeOK  BY DEF IInv
<1>2. QED  BY <1>1, Invariance, PTL

(* The tables of _rotate_session and stop name open channels only, and a   *)
(* chat has one, whatever sessions the chats share.                        *)
THEOREM TablesNameOpenChannels == Spec => []RoutesAreOpen
<1>1. IInv => RoutesAreOpen  BY DEF IInv
<1>2. QED  BY <1>1, Invariance, PTL

(* What TelegramChannel posts at TurnEnd is the whole text of that turn.   *)
THEOREM PostsAreWholeTurns == Spec => []PostsAreTurns
<1>1. IInv => PostsAreTurns  BY DEF IInv
<1>2. QED  BY <1>1, Invariance, PTL

(* SessionChanged reaches a chat once at most, and never the one that      *)
(* asked.                                                                  *)
THEOREM ChatsAreToldOnce == Spec => []ToldOnce
<1>1. IInv => ToldOnce  BY DEF IInv
<1>2. QED  BY <1>1, Invariance, PTL
=============================================================================
