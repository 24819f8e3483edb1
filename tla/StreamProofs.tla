---------------------------- MODULE StreamProofs ----------------------------
(***************************************************************************)
(* Theorems about Stream, for any clients, sockets and bounds.             *)
(***************************************************************************)
EXTENDS Stream, TLAPS

-----------------------------------------------------------------------------
(* The inductive invariant.                                                *)

(* Who may be where, and what a socket has not yet got.                    *)
Places ==
  /\ chans = {c \in Sockets : stage[c] = "open"}
  /\ due \subseteq audience
  /\ \A c \in audience : stage[c] \in {"open", "gone"}
  /\ busy => turns >= 1
  /\ ~busy => due = {}
  /\ due # {} => log # <<>>
  /\ \A k \in Clients : link[k] # NoSocket => OwnerOf[link[k]] = k
  /\ \A c \in Sockets :
       /\ Connected(c) => stage[c] \notin {"new", "gone"}
       /\ ~Connected(c) => wire[c] = <<>>
       /\ stage[c] \in {"new", "accepted"} => seen[c] = 0 /\ joined[c] = 0 /\ wire[c] = <<>>
       /\ stage[c] = "replaying" => joined[c] = 0 /\ next[c] <= seen[c] + 1
       /\ stage[c] = "accepted" /\ Connected(c) => asked[c] = lastEventId[OwnerOf[c]]
       /\ stage[c] = "open" /\ busy /\ turns > joined[c] => c \in audience

(* An event is of a turn that has begun.                                   *)
OfATurn == \A n \in Seqs : 1 <= log[n] /\ log[n] <= turns

(* What s holds of the log is older than n, in order, newer than all of h. *)
Older(s, n) == \A i \in DOMAIN s : s[i] # Unlogged => s[i] < n
Sorted(s) ==
  \A i, j \in DOMAIN s :
    i < j /\ s[i] # Unlogged /\ s[j] # Unlogged => s[i] < s[j]
Continues(h, s) == \A j \in DOMAIN s : s[j] # Unlogged => Older(h, s[j])

(* What is on the wire of c is in order and newer than what was handed on, *)
(* and what is to be sent next is newer still.                             *)
Line(c) ==
  /\ Sorted(wire[c])
  /\ Continues(applied[OwnerOf[c]], wire[c])
  /\ stage[c] = "replaying" =>
       Older(applied[OwnerOf[c]], next[c]) /\ Older(wire[c], next[c])
  /\ c \in due =>
       Older(applied[OwnerOf[c]], Len(log)) /\ Older(wire[c], Len(log))

InLine ==
  /\ \A k \in Clients :
       /\ Sorted(applied[k])
       /\ lastEventId[k] # Unlogged => Older(applied[k], lastEventId[k] + 1)
  /\ \A c \in Sockets : Connected(c) => Line(c)

(* The three reasons, and what is no loss.                                 *)
Excused(k, n) == \E c \in Sockets : /\ OwnerOf[c] = k
                                    /\ InGap(c, n) \/ Unanswered(c, n) \/ Unsent(c, n)
Handed(k, n) == n \in Range(applied[k]) \/ Excused(k, n)

(* A client has what is up to its last event id; a replay sends what is    *)
(* before its next row; and nothing else is missing on an open channel.    *)
Covered ==
  /\ \A k \in Clients, n \in Seqs :
       lastEventId[k] # Unlogged /\ n <= lastEventId[k] => Handed(k, n)
  /\ \A c \in Sockets, n \in Seqs :
       Connected(c) /\ stage[c] = "replaying" /\ n <= seen[c] /\ n < next[c]
         => n \in Range(wire[c]) \/ Handed(OwnerOf[c], n)
  /\ \A c \in Sockets, n \in Seqs :
       Connected(c) /\ stage[c] = "open"
         => OnTheWay(OwnerOf[c], n) \/ Handed(OwnerOf[c], n)

IInv == TypeOK /\ Places /\ OfATurn /\ InLine /\ Covered

-----------------------------------------------------------------------------
(* Lemmas on sequences.                                                    *)

LEMMA Appended ==
  ASSUME NEW S, NEW s \in Seq(S), NEW e \in S
  PROVE  /\ Append(s, e) \in Seq(S)
         /\ Len(s) + 1 \in DOMAIN Append(s, e)
         /\ Append(s, e)[Len(s) + 1] = e
         /\ \A i \in DOMAIN s : i \in DOMAIN Append(s, e) /\ Append(s, e)[i] = s[i]
         /\ \A i \in DOMAIN Append(s, e) : i \in DOMAIN s \/ i = Len(s) + 1
         /\ \A i \in DOMAIN s : i \in Nat /\ i < Len(s) + 1
         /\ Range(Append(s, e)) = Range(s) \cup {e}
<1>1. /\ DOMAIN Append(s, e) = 1..(Len(s) + 1) /\ Len(s) \in Nat /\ DOMAIN s = 1..Len(s)
      /\ \A i \in 1..Len(s) : Append(s, e)[i] = s[i]
      /\ Append(s, e)[Len(s) + 1] = e
  OBVIOUS
<1>2. 1..(Len(s) + 1) = (1..Len(s)) \cup {Len(s) + 1}  BY <1>1
<1>3. Append(s, e) \in Seq(S)  OBVIOUS
<1>4. Range(Append(s, e)) = Range(s) \cup {e}  BY <1>1, <1>2 DEF Range
<1>5. QED  BY <1>1, <1>2, <1>3, <1>4

LEMMA Element ==
  ASSUME NEW S, NEW s \in Seq(S), NEW i \in 1..Len(s)
  PROVE  s[i] \in S /\ Len(s) \in Nat
OBVIOUS

LEMMA Taken ==
  ASSUME NEW S, NEW s \in Seq(S), s # <<>>
  PROVE  /\ Tail(s) \in Seq(S) /\ Head(s) \in S
         /\ 1 \in DOMAIN s /\ s[1] = Head(s)
         /\ \A i \in DOMAIN Tail(s) :
              i \in Nat /\ i + 1 \in DOMAIN s /\ Tail(s)[i] = s[i + 1] /\ 1 < i + 1
         /\ \A i \in DOMAIN s : i = 1 \/ \E j \in DOMAIN Tail(s) : i = j + 1
         /\ Range(s) = {Head(s)} \cup Range(Tail(s))
<1>1. Len(s) \in Nat /\ Len(s) >= 1 /\ DOMAIN s = 1..Len(s)  OBVIOUS
<1>2. DOMAIN Tail(s) = 1..(Len(s) - 1) /\ \A i \in 1..(Len(s) - 1) : Tail(s)[i] = s[i + 1]
  OBVIOUS
<1>3. Tail(s) \in Seq(S) /\ Head(s) \in S /\ Head(s) = s[1]  OBVIOUS
<1>4. \A i \in DOMAIN s : i = 1 \/ (i - 1 \in DOMAIN Tail(s) /\ i = (i - 1) + 1)
  BY <1>1, <1>2
<1>5. \A i \in DOMAIN Tail(s) : i \in Nat /\ i + 1 \in DOMAIN s /\ 1 < i + 1  BY <1>1, <1>2
<1>6. Range(s) = {Head(s)} \cup Range(Tail(s))
  <2>1. ASSUME NEW i \in DOMAIN s PROVE s[i] \in {Head(s)} \cup Range(Tail(s))
    <3>1. CASE i = 1  BY <1>3, <3>1
    <3>2. CASE i # 1
      <4>1. i - 1 \in DOMAIN Tail(s) /\ Tail(s)[i - 1] = s[i]  BY <1>1, <1>2, <3>2
      <4>2. QED  BY <4>1 DEF Range
    <3>3. QED  BY <3>1, <3>2
  <2>2. ASSUME NEW i \in DOMAIN Tail(s) PROVE Tail(s)[i] \in Range(s)
    BY <1>2, <1>5 DEF Range
  <2>3. Head(s) \in Range(s)  BY <1>1, <1>3 DEF Range
  <2>4. QED  BY <2>1, <2>2, <2>3 DEF Range
<1>7. QED  BY <1>1, <1>2, <1>3, <1>4, <1>5, <1>6

LEMMA WiderSeq ==
  ASSUME NEW S, NEW T, S \subseteq T, NEW s \in Seq(S)
  PROVE  s \in Seq(T)
OBVIOUS

-----------------------------------------------------------------------------
(* Types and places.                                                       *)

LEMMA StreamInit == Init => IInv
<1> SUFFICES ASSUME Init PROVE IInv  OBVIOUS
<1>1. Seqs = {} /\ Len(log) = 0  BY DEF Init, Seqs
<1>2. \A c \in Sockets : ~Connected(c)  BY StreamAssumption DEF Init, Connected
<1>3. TypeOK
  <2>1. wire \in [Sockets -> Seq(Seqs \cup {Unlogged})] /\ applied \in [Clients -> Seq(Seqs)]
    BY DEF Init
  <2>2. log \in Seq(1..MaxTurns) /\ Len(log) <= MaxEvents  BY StreamAssumption DEF Init
  <2>3. next \in [Sockets -> 1..(Len(log) + 1)]  BY <1>1 DEF Init
  <2>4. /\ turns \in 0..MaxTurns /\ unlogged \in 0..MaxUnlogged /\ lives \in 1..MaxLives
        /\ joined \in [Sockets -> 0..turns]
    BY StreamAssumption DEF Init
  <2>5. /\ worker \in {"idle", "turn", "failed", "over"} /\ unsent \subseteq Sockets \X Seqs
        /\ {audience, due, chans} \subseteq SUBSET Sockets
        /\ stage \in [Sockets -> {"new", "accepted", "replaying", "open", "gone"}]
        /\ link \in [Clients -> Sockets \cup {NoSocket}]
    BY DEF Init
  <2>6. /\ lastEventId \in [Clients -> {0, Unlogged} \cup Seqs]
        /\ asked \in [Sockets -> {0, Unlogged} \cup Seqs]
        /\ seen \in [Sockets -> {0} \cup Seqs]
    BY DEF Init
  <2>7. QED  BY <2>1, <2>2, <2>3, <2>4, <2>5, <2>6 DEF TypeOK
<1>4. Places /\ OfATurn  BY <1>1, <1>2 DEF Init, Places, OfATurn, busy
<1>6. InLine  BY <1>2 DEF Init, InLine, Older, Sorted
<1>7. Covered  BY <1>1 DEF Covered
<1>8. QED  BY <1>3, <1>4, <1>6, <1>7 DEF IInv

(* An event that is sent keeps the wires' type.                            *)
LEMMA PutTypes ==
  ASSUME TypeOK, NEW c \in Sockets, NEW e \in Seqs \cup {Unlogged}, Put(c, e)
  PROVE  wire' \in [Sockets -> Seq(Seqs \cup {Unlogged})]
<1>1. wire[c] \in Seq(Seqs \cup {Unlogged})  BY DEF TypeOK
<1>2. Append(wire[c], e) \in Seq(Seqs \cup {Unlogged})  BY <1>1, Appended
<1>3. QED  BY <1>2 DEF TypeOK, Put

LEMMA FirstTypes ==
  ASSUME TypeOK, NEW c \in Sockets
  PROVE  FirstAfter(asked[c]) \in 1..(Len(log) + 1)
<1>1. asked[c] \in {0, Unlogged} \cup Seqs /\ Len(log) \in Nat  BY DEF TypeOK
<1>2. QED  BY <1>1 DEF FirstAfter, Seqs

LEMMA TypeStep ==
  ASSUME TypeOK, Places, [Next]_vars
  PROVE  TypeOK'
<1>1. Len(log) \in Nat /\ log \in Seq(1..MaxTurns) /\ Len(log) <= MaxEvents
  BY DEF TypeOK
<1>2. ASSUME StartTurn PROVE TypeOK'
  <2>1. turns \in Nat /\ turns' \in 0..MaxTurns /\ 0..turns \subseteq 0..turns'
    BY <1>2, StreamAssumption DEF StartTurn, TypeOK
  <2>2. /\ worker' \in {"idle", "turn", "failed", "over"}
        /\ {audience', due', chans'} \subseteq SUBSET Sockets
    BY <1>2 DEF StartTurn, TypeOK
  <2>3. joined' \in [Sockets -> 0..turns']
    BY <1>2, <2>1 DEF StartTurn, TypeOK, socketVars
  <2>4. UNCHANGED <<log, stage, next, asked, seen, unsent, clientVars, wire, unlogged, lives>>
    BY <1>2 DEF StartTurn, socketVars
  <2>5. QED
    BY <2>1, <2>2, <2>3, <2>4 DEF TypeOK, clientVars, Seqs, Unlogged
<1>3. ASSUME Emit \/ FoldFails PROVE TypeOK'
  <2>1. turns \in 1..MaxTurns
    <3>1. busy  BY <1>3 DEF Emit, FoldFails, Write, busy
    <3>2. turns >= 1 /\ turns \in 0..MaxTurns  BY <3>1 DEF TypeOK, Places
    <3>3. QED  BY <3>2, StreamAssumption
  <2>2. log' \in Seq(1..MaxTurns) /\ Len(log') = Len(log) + 1 /\ Len(log') <= MaxEvents
    <3>1. log' = Append(log, turns) /\ Len(log) < MaxEvents
      BY <1>3 DEF Emit, FoldFails, Write
    <3>2. log' \in Seq(1..MaxTurns) /\ Len(log') = Len(log) + 1  BY <1>1, <2>1, <3>1
    <3>3. QED  BY <1>1, <3>1, <3>2, StreamAssumption
  <2>3. Seqs \subseteq Seqs' /\ Unlogged' = Unlogged  BY <1>1, <2>2 DEF Seqs, Unlogged
  <2>4. \A c \in Sockets : wire[c] \in Seq((Seqs \cup {Unlogged})')
    <3>1. Seqs \cup {Unlogged} \subseteq (Seqs \cup {Unlogged})'  BY <2>3
    <3>2. ASSUME NEW c \in Sockets PROVE wire[c] \in Seq((Seqs \cup {Unlogged})')
      <4>1. wire[c] \in Seq(Seqs \cup {Unlogged})  BY DEF TypeOK
      <4>2. QED  BY <3>1, <4>1, WiderSeq
    <3>3. QED  BY <3>2
  <2>5. \A k \in Clients : applied[k] \in Seq(Seqs')
    <3>1. ASSUME NEW k \in Clients PROVE applied[k] \in Seq(Seqs')
      <4>1. applied[k] \in Seq(Seqs)  BY DEF TypeOK
      <4>2. QED  BY <2>3, <4>1, WiderSeq
    <3>2. QED  BY <3>1
  <2>6. /\ wire' \in [Sockets -> Seq((Seqs \cup {Unlogged})')]
        /\ applied' \in [Clients -> Seq(Seqs')]
    BY <1>3, <2>4, <2>5 DEF Emit, FoldFails, clientVars, TypeOK
  <2>7. /\ next' \in [Sockets -> 1..(Len(log') + 1)]
        /\ lastEventId' \in [Clients -> ({0, Unlogged} \cup Seqs)']
        /\ asked' \in [Sockets -> ({0, Unlogged} \cup Seqs)']
        /\ seen' \in [Sockets -> ({0} \cup Seqs)']
    <3>1. 1..(Len(log) + 1) \subseteq 1..(Len(log') + 1)  BY <1>1, <2>2
    <3>2. QED  BY <1>3, <2>3, <3>1 DEF Emit, FoldFails, socketVars, clientVars, TypeOK
  <2>9. worker' \in {"idle", "turn", "failed", "over"}
    BY <1>3 DEF Emit, FoldFails, Write, Raise
  <2>10. unsent' \subseteq Sockets \X Seqs'
    <3>1. audience \subseteq Sockets /\ unsent \subseteq Sockets \X Seqs  BY DEF TypeOK
    <3>2. Len(log) + 1 \in Seqs'  BY <1>1, <2>2 DEF Seqs
    <3>3. unsent' \subseteq unsent \cup (audience \X {Len(log) + 1})
      BY <1>3 DEF Emit, FoldFails
    <3>4. QED  BY <2>3, <3>1, <3>2, <3>3
  <2>8. QED
    BY <1>3, <2>2, <2>6, <2>7, <2>9, <2>10
    DEF Emit, FoldFails, TypeOK, socketVars, clientVars
<1>4. ASSUME NEW c \in Sockets, Send(c) PROVE TypeOK'
  <2>1. Len(log) \in Seqs
    <3>1. log # <<>>  BY <1>4 DEF Send, Places
    <3>2. QED  BY <1>1, <3>1 DEF Seqs
  <2>2. wire' \in [Sockets -> Seq(Seqs \cup {Unlogged})]
    BY <1>4, <2>1, PutTypes DEF Send, SendEvent, TypeOK
  <2>3. QED
    BY <1>4, <2>2 DEF Send, TypeOK, socketVars, clientVars, Seqs, Unlogged
<1>5. ASSUME HandlerFails \/ EndTurn PROVE TypeOK'
  <2>1. worker' \in {"idle", "turn", "failed", "over"} /\ audience' \subseteq Sockets
    BY <1>5 DEF HandlerFails, Raise, EndTurn, TypeOK
  <2>2. UNCHANGED <<log, turns, due, chans, unsent, socketVars, clientVars, wire, unlogged,
                    lives>>
    BY <1>5 DEF HandlerFails, EndTurn
  <2>3. Seqs' = Seqs /\ Unlogged' = Unlogged  BY <2>2 DEF Seqs, Unlogged
  <2>4. QED  BY <2>1, <2>2, <2>3 DEF TypeOK, socketVars, clientVars
<1>6. ASSUME NEW c \in Sockets, SendUnlogged(c) PROVE TypeOK'
  <2>1. wire' \in [Sockets -> Seq(Seqs \cup {Unlogged})]
    BY <1>6, PutTypes DEF SendUnlogged
  <2>2. unlogged' \in 0..MaxUnlogged
    <3>1. unlogged \in 0..MaxUnlogged  BY DEF TypeOK
    <3>2. unlogged < MaxUnlogged /\ unlogged' = unlogged + 1  BY <1>6 DEF SendUnlogged
    <3>3. QED  BY <3>1, <3>2, StreamAssumption
  <2>3. QED
    BY <1>6, <2>1, <2>2
    DEF SendUnlogged, TypeOK, serverVars, socketVars, clientVars, Seqs, Unlogged
<1>7. ASSUME NEW c \in Sockets, Query(c) PROVE TypeOK'
  <2>1. next' \in [Sockets -> 1..(Len(log) + 1)]
    BY <1>7, FirstTypes DEF Query, TypeOK
  <2>2. seen' \in [Sockets -> {0} \cup Seqs]
    <3>1. Len(log) \in {0} \cup Seqs  BY <1>1 DEF Seqs
    <3>2. QED  BY <1>7, <3>1 DEF Query, TypeOK
  <2>3. stage' \in [Sockets -> {"new", "accepted", "replaying", "open", "gone"}]
    BY <1>7 DEF Query, TypeOK
  <2>4. QED
    BY <1>7, <2>1, <2>2, <2>3 DEF Query, TypeOK, serverVars, clientVars, Seqs, Unlogged
<1>8. ASSUME NEW c \in Sockets, ReplayRow(c) PROVE TypeOK'
  <2>1. next[c] \in Seqs /\ next[c] + 1 \in 1..(Len(log) + 1)
    <3>1. next[c] \in 1..(Len(log) + 1) /\ seen[c] \in {0} \cup Seqs  BY DEF TypeOK
    <3>2. next[c] <= seen[c]  BY <1>8 DEF ReplayRow
    <3>3. QED  BY <1>1, <3>1, <3>2 DEF Seqs
  <2>2. wire' \in [Sockets -> Seq(Seqs \cup {Unlogged})]
    BY <1>8, <2>1, PutTypes DEF ReplayRow
  <2>3. next' \in [Sockets -> 1..(Len(log) + 1)]  BY <1>8, <2>1 DEF ReplayRow, TypeOK
  <2>4. QED
    BY <1>8, <2>2, <2>3 DEF ReplayRow, TypeOK, serverVars, clientVars, Seqs, Unlogged
<1>9. ASSUME NEW c \in Sockets, ReplayBreaks(c) \/ Leave(c) PROVE TypeOK'
  <2>1. /\ stage' \in [Sockets -> {"new", "accepted", "replaying", "open", "gone"}]
        /\ chans' \subseteq Sockets
    BY <1>9 DEF ReplayBreaks, Leave, TypeOK, serverVars
  <2>2. QED
    BY <1>9, <2>1
    DEF ReplayBreaks, Leave, TypeOK, serverVars, clientVars, Seqs, Unlogged
<1>10. ASSUME NEW c \in Sockets, Attach(c) PROVE TypeOK'
  <2>1. /\ stage' \in [Sockets -> {"new", "accepted", "replaying", "open", "gone"}]
        /\ joined' \in [Sockets -> 0..turns]
    <3>1. turns \in 0..turns  BY DEF TypeOK
    <3>2. QED  BY <1>10, <3>1 DEF Attach, TypeOK
  <2>2. QED
    BY <1>10, <2>1 DEF Attach, TypeOK, clientVars, Seqs, Unlogged
<1>11. ASSUME NEW c \in Sockets, Dial(c) PROVE TypeOK'
  <2>1. OwnerOf[c] \in Clients  BY StreamAssumption
  <2>2. /\ stage' \in [Sockets -> {"new", "accepted", "replaying", "open", "gone"}]
        /\ link' \in [Clients -> Sockets \cup {NoSocket}]
        /\ asked' \in [Sockets -> {0, Unlogged} \cup Seqs]
    BY <1>11, <2>1 DEF Dial, TypeOK
  <2>3. QED  BY <1>11, <2>2 DEF Dial, TypeOK, serverVars, Seqs, Unlogged
<1>12. ASSUME NEW c \in Sockets, Receive(c) PROVE TypeOK'
  <2> DEFINE k == OwnerOf[c]
             e == Head(wire[c])
  <2>1. k \in Clients  BY StreamAssumption
  <2>2. wire[c] \in Seq(Seqs \cup {Unlogged}) /\ wire[c] # <<>>
    BY <1>12 DEF Receive, TypeOK
  <2>3. Tail(wire[c]) \in Seq(Seqs \cup {Unlogged}) /\ e \in Seqs \cup {Unlogged}
    BY <2>2, Taken
  <2>4. wire' \in [Sockets -> Seq(Seqs \cup {Unlogged})]
    BY <1>12, <2>3 DEF Receive, TypeOK
  <2>5. lastEventId' \in [Clients -> {0, Unlogged} \cup Seqs]
    BY <1>12, <2>1, <2>3 DEF Receive, TypeOK
  <2>6. applied' \in [Clients -> Seq(Seqs)]
    <3>1. CASE e = Unlogged  BY <1>12, <3>1 DEF Receive, Applied, TypeOK
    <3>2. CASE e # Unlogged
      <4>1. applied[k] \in Seq(Seqs) /\ e \in Seqs  BY <2>1, <2>3, <3>2 DEF TypeOK
      <4>2. Append(applied[k], e) \in Seq(Seqs)  BY <4>1, Appended
      <4>3. applied' = [applied EXCEPT ![k] = Append(applied[k], e)]
        BY <1>12, <3>2 DEF Receive, Applied
      <4>4. QED  BY <4>2, <4>3 DEF TypeOK
    <3>3. QED  BY <3>1, <3>2
  <2> HIDE DEF k, e
  <2>7. QED
    BY <1>12, <2>4, <2>5, <2>6 DEF Receive, TypeOK, serverVars, socketVars, Seqs, Unlogged
<1>13. ASSUME NEW c \in Sockets, Drop(c) PROVE TypeOK'
  <2>1. link' \in [Clients -> Sockets \cup {NoSocket}]
    BY <1>13, StreamAssumption DEF Drop, TypeOK
  <2>3. wire' \in [Sockets -> Seq(Seqs \cup {Unlogged})]
    <3>1. <<>> \in Seq(Seqs \cup {Unlogged})  OBVIOUS
    <3>2. wire' = [wire EXCEPT ![c] = <<>>]  BY <1>13 DEF Drop
    <3>3. wire \in [Sockets -> Seq(Seqs \cup {Unlogged})]  BY DEF TypeOK
    <3>4. QED  BY <3>1, <3>2, <3>3
  <2>2. QED  BY <1>13, <2>1, <2>3 DEF Drop, TypeOK, serverVars, socketVars, Seqs, Unlogged
<1>14. ASSUME Crash PROVE TypeOK'
  <2>1. /\ link' \in [Clients -> Sockets \cup {NoSocket}]
        /\ wire' \in [Sockets -> Seq(Seqs \cup {Unlogged})]
        /\ stage' \in [Sockets -> {"new", "accepted", "replaying", "open", "gone"}]
        /\ lives' \in 1..MaxLives
    BY <1>14, StreamAssumption DEF Crash, TypeOK
  <2>2. QED  BY <1>14, <2>1 DEF Crash, TypeOK, Seqs, Unlogged
<1>15. ASSUME UNCHANGED vars PROVE TypeOK'
  BY <1>15 DEF vars, TypeOK, serverVars, socketVars, clientVars, Seqs, Unlogged
<1>16. QED
  BY <1>2, <1>3, <1>4, <1>5, <1>6, <1>7, <1>8, <1>9, <1>10, <1>11, <1>12, <1>13, <1>14,
     <1>15 DEF Next

LEMMA PlacesStep ==
  ASSUME TypeOK, Places, [Next]_vars
  PROVE  Places'
<1>1. /\ turns \in Nat /\ Len(log) \in Nat
      /\ link \in [Clients -> Sockets \cup {NoSocket}]
      /\ wire \in [Sockets -> Seq(Seqs \cup {Unlogged})]
      /\ stage \in [Sockets -> {"new", "accepted", "replaying", "open", "gone"}]
      /\ due \subseteq Sockets /\ audience \subseteq Sockets
  BY DEF TypeOK
<1>2. /\ joined \in [Sockets -> 0..turns] /\ seen \in [Sockets -> Nat]
      /\ next \in [Sockets -> Nat]
      /\ lastEventId \in [Clients -> {0, Unlogged} \cup Seqs]
      /\ asked \in [Sockets -> {0, Unlogged} \cup Seqs]
  BY DEF TypeOK, Seqs
<1>3. \A c \in Sockets : OwnerOf[c] \in Clients /\ c # NoSocket  BY StreamAssumption
<1>4. ASSUME StartTurn PROVE Places'
  BY <1>1, <1>2, <1>4 DEF StartTurn, Places, socketVars, clientVars, Connected, busy
<1>5. ASSUME Emit \/ FoldFails PROVE Places'
  <2>1. log' # <<>>  BY <1>5 DEF Emit, FoldFails, Write, TypeOK
  <2>2. busy /\ busy' /\ due = {} /\ due' \subseteq audience
    BY <1>5 DEF Emit, FoldFails, Write, Raise, busy
  <2>3. UNCHANGED <<turns, audience, chans, socketVars, clientVars, wire>>
    BY <1>5 DEF Emit, FoldFails
  <2>4. QED  BY <2>1, <2>2, <2>3 DEF Places, socketVars, clientVars, Connected
<1>6. ASSUME NEW c \in Sockets, stage[c] \in {"replaying", "open", "gone"},
             UNCHANGED wire \/ \E e : Put(c, e),
             UNCHANGED <<socketVars, clientVars, worker, turns, audience, chans, log>>,
             due' \subseteq due
      PROVE  Places'
  BY <1>1, <1>6 DEF Put, Places, socketVars, clientVars, Connected, busy
<1>7. ASSUME NEW c \in Sockets, Send(c) PROVE Places'
  <2>1. stage[c] \in {"replaying", "open", "gone"}  BY <1>7 DEF Send, Places
  <2>2. UNCHANGED wire \/ \E e : Put(c, e)  BY <1>7 DEF Send, SendEvent
  <2>3. QED  BY <1>6, <1>7, <2>1, <2>2 DEF Send
<1>8. ASSUME HandlerFails \/ EndTurn PROVE Places'
  BY <1>8 DEF HandlerFails, Raise, EndTurn, Places, socketVars, clientVars, Connected, busy
<1>9. ASSUME NEW c \in Sockets, SendUnlogged(c) PROVE Places'
  BY <1>6, <1>9 DEF SendUnlogged, serverVars
<1>10. ASSUME NEW c \in Sockets, Query(c) PROVE Places'
  <2>1. FirstAfter(asked[c]) <= Len(log) + 1  BY <1>1, FirstTypes
  <2>2. QED
    BY <1>1, <1>2, <1>10, <2>1 DEF Query, Places, serverVars, clientVars, Connected, busy
<1>11. ASSUME NEW c \in Sockets, ReplayRow(c) PROVE Places'
  <2>1. next[c] + 1 <= seen[c] + 1  BY <1>2, <1>11 DEF ReplayRow
  <2>2. QED
    BY <1>1, <1>2, <1>11, <2>1 DEF ReplayRow, Put, Places, serverVars, clientVars,
       Connected, busy
<1>12. ASSUME NEW c \in Sockets, ReplayBreaks(c) PROVE Places'
  BY <1>1, <1>12 DEF ReplayBreaks, Places, serverVars, clientVars, Connected, busy
<1>13. ASSUME NEW c \in Sockets, Leave(c) PROVE Places'
  BY <1>1, <1>13 DEF Leave, Places, clientVars, Connected, busy
<1>14. ASSUME NEW c \in Sockets, Attach(c) PROVE Places'
  BY <1>1, <1>2, <1>14 DEF Attach, Places, clientVars, Connected, busy
<1>15. ASSUME NEW c \in Sockets, Dial(c) PROVE Places'
  BY <1>1, <1>2, <1>3, <1>15 DEF Dial, Places, serverVars, Connected, busy
<1>16. ASSUME NEW c \in Sockets, Receive(c) PROVE Places'
  <2>1. stage[c] \in {"replaying", "open"}  BY <1>1, <1>16 DEF Receive, Places
  <2>2. \A d \in Sockets : d # c /\ Connected(d) => OwnerOf[d] # OwnerOf[c]
    BY <1>16 DEF Receive, Connected, busy
  <2>3. QED
    BY <1>1, <1>2, <1>16, <2>1, <2>2 DEF Receive, Places, serverVars, socketVars, Connected,
       busy
<1>17. ASSUME NEW c \in Sockets, Drop(c) PROVE Places'
  BY <1>1, <1>3, <1>17 DEF Drop, Places, serverVars, socketVars, Connected, busy
<1>18. ASSUME Crash PROVE Places'
  BY <1>1, <1>3, <1>18 DEF Crash, Places, Connected, busy
<1>19. ASSUME UNCHANGED vars PROVE Places'
  BY <1>19 DEF vars, Places, serverVars, socketVars, clientVars, Connected, busy
<1>20. QED
  BY <1>4, <1>5, <1>7, <1>8, <1>9, <1>10, <1>11, <1>12, <1>13, <1>14, <1>15, <1>16, <1>17,
     <1>18, <1>19 DEF Next

-----------------------------------------------------------------------------
(* The order.                                                              *)

(* The numbers of events that go over a wire.                              *)
LEMMA Numbers ==
  ASSUME TypeOK
  PROVE  /\ Len(log) \in Nat /\ Unlogged \in Nat /\ Seqs \subseteq Nat
         /\ \A n \in Seqs : n <= Len(log) /\ n # Unlogged /\ n < Unlogged
         /\ \A k \in Clients :
              /\ applied[k] \in Seq(Seqs)
              /\ \A i \in DOMAIN applied[k] : applied[k][i] \in Seqs
         /\ \A c \in Sockets :
              /\ OwnerOf[c] \in Clients
              /\ wire[c] \in Seq(Seqs \cup {Unlogged})
              /\ \A i \in DOMAIN wire[c] : wire[c][i] \in Seqs \cup {Unlogged}
              /\ next[c] \in Nat
<1>1. Len(log) \in Nat /\ Len(log) <= MaxEvents /\ Unlogged \in Nat /\ MaxEvents \in Nat
  BY StreamAssumption DEF TypeOK, Unlogged
<1>2. \A n \in Seqs : n \in Nat /\ n <= Len(log) /\ n # Unlogged /\ n < Unlogged
  BY <1>1 DEF Seqs, Unlogged
<1>3. \A k \in Clients : applied[k] \in Seq(Seqs)  BY DEF TypeOK
<1>4. \A c \in Sockets :
        /\ OwnerOf[c] \in Clients
        /\ wire[c] \in Seq(Seqs \cup {Unlogged}) /\ next[c] \in Nat
  BY StreamAssumption DEF TypeOK
<1>5. ASSUME NEW S, NEW t \in Seq(S), NEW i \in DOMAIN t PROVE t[i] \in S  OBVIOUS
<1>6. QED  BY <1>1, <1>2, <1>3, <1>4, <1>5

LEMMA WireGrows ==
  ASSUME NEW h \in Seq(Nat), NEW w \in Seq(Nat), NEW e \in Nat,
         Sorted(w), Continues(h, w),
         e # Unlogged => Older(h, e) /\ Older(w, e)
  PROVE  /\ Sorted(Append(w, e)) /\ Continues(h, Append(w, e))
         /\ \A n \in Nat : Older(w, n) /\ (e = Unlogged \/ e < n) => Older(Append(w, e), n)
<1> DEFINE v == Append(w, e)
           last == Len(w) + 1
<1>1. /\ last \in DOMAIN v /\ v[last] = e
      /\ \A i \in DOMAIN w : i \in DOMAIN v /\ v[i] = w[i] /\ i < last /\ i \in Nat
      /\ \A i \in DOMAIN v : i \in DOMAIN w \/ i = last
  BY Appended
<1>2. last \in Nat  OBVIOUS
<1> HIDE DEF v, last
<1>3. ASSUME NEW i \in DOMAIN v, NEW j \in DOMAIN v, i < j, v[i] # Unlogged, v[j] # Unlogged
      PROVE  v[i] < v[j]
  <2>1. i \in DOMAIN w
    <3>1. CASE i = last
      <4>1. j \in DOMAIN w  BY <1>1, <1>2, <1>3, <3>1
      <4>2. j < last /\ j \in Nat  BY <1>1, <4>1
      <4>3. QED  BY <1>2, <1>3, <3>1, <4>2
    <3>2. QED  BY <1>1, <3>1
  <2>2. CASE j \in DOMAIN w  BY <1>1, <1>3, <2>1, <2>2 DEF Sorted
  <2>3. CASE j = last  BY <1>1, <1>3, <2>1, <2>3 DEF Older
  <2>4. QED  BY <1>1, <2>2, <2>3
<1>4. Sorted(v)  BY <1>3 DEF Sorted
<1>5. Continues(h, v)  BY <1>1 DEF Continues
<1>6. \A n \in Nat : Older(w, n) /\ (e = Unlogged \/ e < n) => Older(v, n)
  BY <1>1 DEF Older
<1>7. QED  BY <1>4, <1>5, <1>6 DEF v

LEMMA WireTaken ==
  ASSUME NEW h \in Seq(Nat), NEW w \in Seq(Nat), w # <<>>,
         Sorted(h), Sorted(w), Continues(h, w), NEW g,
         g = IF Head(w) = Unlogged THEN h ELSE Append(h, Head(w))
  PROVE  /\ Sorted(g) /\ Sorted(Tail(w)) /\ Continues(g, Tail(w))
         /\ Head(w) # Unlogged => Older(g, Head(w) + 1)
         /\ \A n \in Nat : Older(h, n) /\ Older(w, n) => Older(g, n) /\ Older(Tail(w), n)
<1> DEFINE t == Tail(w)
           e == Head(w)
<1>1. /\ 1 \in DOMAIN w /\ w[1] = e /\ e \in Nat
      /\ \A i \in DOMAIN t : /\ i \in Nat /\ i + 1 \in DOMAIN w /\ t[i] = w[i + 1]
                             /\ 1 < i + 1
  BY Taken
<1>2. \A i \in DOMAIN t : t[i] \in Nat
  <2>1. \A i \in DOMAIN w : w[i] \in Nat  OBVIOUS
  <2>2. QED  BY <1>1, <2>1
<1> HIDE DEF t, e
<1>3. Sorted(t)  BY <1>1 DEF Sorted
<1>4. \A n \in Nat : Older(w, n) => Older(t, n)  BY <1>1 DEF Older
<1>5. CASE e = Unlogged
  <2>1. g = h  BY <1>5 DEF e
  <2>2. Continues(h, t)  BY <1>1 DEF Continues
  <2>3. QED  BY <1>3, <1>4, <1>5, <2>1, <2>2 DEF t, e
<1>6. CASE e # Unlogged
  <2>1. g = Append(h, e)  BY <1>6 DEF e
  <2>2. Older(h, e)  BY <1>1, <1>6 DEF Continues
  <2>3. /\ \A i \in DOMAIN h : i \in DOMAIN g /\ g[i] = h[i] /\ i \in Nat /\ i < Len(h) + 1
        /\ \A i \in DOMAIN g : i \in DOMAIN h \/ (i = Len(h) + 1 /\ g[i] = e)
        /\ Len(h) + 1 \in Nat
        /\ \A i \in DOMAIN h : h[i] \in Nat
    BY <1>1, <2>1, Appended
  <2>4. ASSUME NEW n \in Nat, Older(h, n), e < n PROVE Older(g, n)
    BY <2>3, <2>4 DEF Older
  <2>5. Older(g, e + 1)
    <3>1. Older(h, e + 1)  BY <1>1, <2>2, <2>3 DEF Older
    <3>2. QED  BY <1>1, <2>4, <3>1
  <2>6. Sorted(g)
    <3>1. ASSUME NEW i \in DOMAIN g, NEW j \in DOMAIN g, i < j,
                 g[i] # Unlogged, g[j] # Unlogged
          PROVE  g[i] < g[j]
      <4>1. i \in DOMAIN h  BY <2>3, <3>1
      <4>2. CASE j \in DOMAIN h  BY <2>3, <3>1, <4>1, <4>2 DEF Sorted
      <4>3. CASE g[j] = e  BY <2>2, <2>3, <3>1, <4>1, <4>3 DEF Older
      <4>4. QED  BY <2>3, <4>2, <4>3
    <3>2. QED  BY <3>1 DEF Sorted
  <2>7. ASSUME NEW j \in DOMAIN t, t[j] # Unlogged PROVE Older(g, t[j])
    <3>1. Older(h, t[j])  BY <1>1, <2>7 DEF Continues
    <3>2. e < t[j]  BY <1>1, <1>6, <2>7 DEF Sorted
    <3>3. QED  BY <1>2, <2>4, <3>1, <3>2
  <2>8. ASSUME NEW n \in Nat, Older(h, n), Older(w, n) PROVE Older(g, n)
    <3>1. e < n  BY <1>1, <1>6, <2>8 DEF Older
    <3>2. QED  BY <2>4, <2>8, <3>1
  <2>9. QED  BY <1>3, <1>4, <2>5, <2>6, <2>7, <2>8 DEF Continues, t, e
<1>7. QED  BY <1>5, <1>6

LEMMA TurnStep ==
  ASSUME TypeOK, Places, OfATurn, [Next]_vars
  PROVE  OfATurn'
<1>1. /\ turns \in Nat /\ turns' \in Nat /\ turns <= turns'
      /\ log' = log \/ (busy /\ turns' = turns /\ log' = Append(log, turns))
  BY DEF Next, TypeOK, StartTurn, Write, Emit, Raise, FoldFails, HandlerFails, Send,
     EndTurn, SendUnlogged, Query, ReplayRow, ReplayBreaks, Attach, Leave, Dial, Receive,
     Drop, Crash, vars, serverVars, busy
<1>2. /\ Len(log) \in Nat /\ \A n \in Seqs : log[n] \in Nat
  <2>1. log \in Seq(1..MaxTurns)  BY DEF TypeOK
  <2>2. ASSUME NEW n \in 1..Len(log) PROVE log[n] \in 1..MaxTurns
    BY <2>1, Element
  <2>3. QED  BY <2>1, <2>2 DEF Seqs
<1>3. CASE log' = log  BY <1>1, <1>2, <1>3 DEF OfATurn, Seqs
<1>4. CASE busy /\ turns' = turns /\ log' = Append(log, turns)
  <2>1. turns >= 1  BY <1>4 DEF Places
  <2>2. ASSUME NEW n \in 1..Len(log') PROVE 1 <= log'[n] /\ log'[n] <= turns'
    <3>1. log \in Seq(1..MaxTurns)  BY DEF TypeOK
    <3>2. (n \in Seqs /\ log'[n] = log[n]) \/ log'[n] = turns  BY <1>2, <1>4, <3>1 DEF Seqs
    <3>3. QED  BY <1>1, <1>4, <2>1, <3>2 DEF OfATurn
  <2>3. QED  BY <2>2 DEF OfATurn, Seqs
<1>5. QED  BY <1>1, <1>3, <1>4

(* What is due to no line is behind no line.                               *)
LEMMA LineStays ==
  ASSUME NEW c \in Sockets, Line(c), wire'[c] = wire[c],
         applied'[OwnerOf[c]] = applied[OwnerOf[c]],
         stage'[c] = "replaying" => stage[c] = "replaying" /\ next'[c] = next[c],
         c \in due' => c \in due /\ log' = log
  PROVE  Line(c)'
BY DEF Line

(* A line that takes e.                                                    *)
LEMMA LineGrows ==
  ASSUME TypeOK, NEW c \in Sockets, Line(c), NEW e \in Seqs \cup {Unlogged},
         wire'[c] = Append(wire[c], e),
         e # Unlogged => Older(applied[OwnerOf[c]], e) /\ Older(wire[c], e),
         applied' = applied, log' = log,
         stage'[c] = "replaying" =>
           /\ stage[c] = "replaying" /\ e = next[c] /\ next'[c] = next[c] + 1,
         c \in due' => c \in due /\ e = Unlogged
  PROVE  Line(c)'
<1> DEFINE h == applied[OwnerOf[c]]
           w == wire[c]
<1>1. h \in Seq(Nat) /\ w \in Seq(Nat) /\ e \in Nat /\ Len(log) \in Nat /\ next[c] \in Nat
  BY Numbers, WiderSeq
<1>2. /\ \A i \in DOMAIN h : h[i] \in Nat
      /\ \A i \in DOMAIN w : w[i] \in Nat
  BY Numbers
<1>3. Sorted(w) /\ Continues(h, w)  BY DEF Line
<1> HIDE DEF h, w
<1>4. /\ Sorted(Append(w, e)) /\ Continues(h, Append(w, e))
      /\ \A n \in Nat : Older(w, n) /\ (e = Unlogged \/ e < n) => Older(Append(w, e), n)
  BY <1>1, <1>3, WireGrows DEF h, w
<1>5. ASSUME stage'[c] = "replaying"
      PROVE  Older(h, next'[c]) /\ Older(Append(w, e), next'[c])
  <2>1. Older(h, next[c]) /\ Older(w, next[c]) /\ next'[c] = next[c] + 1 /\ e = next[c]
    BY <1>5 DEF Line, h, w
  <2>2. Older(h, next[c] + 1) /\ Older(w, next[c] + 1)
    <3>1. \A i \in DOMAIN h : h[i] \in Nat  BY <1>2
    <3>2. \A i \in DOMAIN w : w[i] \in Nat  BY <1>2
    <3>3. Older(h, next[c] + 1)  BY <1>1, <2>1, <3>1 DEF Older
    <3>4. Older(w, next[c] + 1)  BY <1>1, <2>1, <3>2 DEF Older
    <3>5. QED  BY <3>3, <3>4
  <2>3. QED  BY <1>1, <1>4, <2>1, <2>2
<1>6. ASSUME c \in due'
      PROVE  Older(h, Len(log)) /\ Older(Append(w, e), Len(log))
  BY <1>1, <1>4, <1>6 DEF Line, h, w
<1>7. QED  BY <1>4, <1>5, <1>6 DEF Line, h, w

LEMMA LineStep ==
  ASSUME TypeOK, Places, InLine, [Next]_vars
  PROVE  InLine'
<1> DEFINE Known == \A k \in Clients :
             /\ Sorted(applied[k])
             /\ lastEventId[k] # Unlogged => Older(applied[k], lastEventId[k] + 1)
<1>1. Known  BY DEF InLine
<1>2. UNCHANGED <<applied, lastEventId>> => Known'  BY <1>1
<1>3. \A c \in Sockets : Connected(c) => Line(c)  BY DEF InLine
<1>4. Known' /\ (\A c \in Sockets : Connected(c)' => Line(c)') => InLine'  BY DEF InLine
<1> HIDE DEF Known
<1>5. link \in [Clients -> Sockets \cup {NoSocket}]
      /\ stage \in [Sockets -> {"new", "accepted", "replaying", "open", "gone"}]
      /\ wire \in [Sockets -> Seq(Seqs \cup {Unlogged})] /\ next \in [Sockets -> Nat]
  BY DEF TypeOK
<1>6. \A c \in Sockets : OwnerOf[c] \in Clients /\ c # NoSocket  BY StreamAssumption
<1>7. ASSUME UNCHANGED <<wire, clientVars, next, log>>, due' \subseteq due,
             \A c \in Sockets : stage'[c] = "replaying" => stage[c] = "replaying"
      PROVE  InLine'
  <2>1. ASSUME NEW c \in Sockets, Connected(c)' PROVE Line(c)'
    <3>1. Line(c)  BY <1>3, <1>7, <2>1 DEF Connected, clientVars
    <3>2. QED  BY <1>7, <3>1, LineStays DEF clientVars
  <2>2. QED  BY <1>2, <1>4, <1>7, <2>1 DEF clientVars
<1>8. ASSUME NEW c \in Sockets, NEW e \in Seqs \cup {Unlogged}, Put(c, e),
             UNCHANGED <<stage, clientVars, log>>,
             \A d \in Sockets : d # c => next'[d] = next[d],
             Connected(c) /\ e # Unlogged =>
               Older(applied[OwnerOf[c]], e) /\ Older(wire[c], e),
             stage[c] = "replaying" => e = next[c] /\ next'[c] = next[c] + 1,
             due' \subseteq due, c \in due' => e = Unlogged
      PROVE  InLine'
  <2>1. ASSUME NEW d \in Sockets, Connected(d)' PROVE Line(d)'
    <3>1. Line(d) /\ Connected(d)  BY <1>3, <1>8, <2>1 DEF Connected, clientVars
    <3>2. CASE d # c
      <4>1. wire'[d] = wire[d]  BY <1>5, <1>8, <3>2 DEF Put
      <4>2. QED  BY <1>8, <3>1, <3>2, <4>1, LineStays DEF clientVars
    <3>3. CASE d = c
      <4>1. wire'[c] = Append(wire[c], e)  BY <1>5, <1>8, <3>1, <3>3 DEF Put
      <4>2. QED  BY <1>8, <3>1, <3>3, <4>1, LineGrows DEF clientVars
    <3>4. QED  BY <3>2, <3>3
  <2>2. QED  BY <1>2, <1>4, <1>8, <2>1 DEF clientVars
<1>9. ASSUME StartTurn \/ HandlerFails \/ EndTurn PROVE InLine'
  BY <1>7, <1>9 DEF StartTurn, HandlerFails, EndTurn, socketVars
<1>10. ASSUME Emit \/ FoldFails PROVE InLine'
  <2>1. ASSUME NEW c \in Sockets, Connected(c)' PROVE Line(c)'
    <3>1. Line(c)  BY <1>3, <1>10, <2>1 DEF Emit, FoldFails, Connected, clientVars
    <3>2. Len(log') = Len(log) + 1  BY <1>10 DEF Emit, FoldFails, Write, TypeOK
    <3>3. Older(applied[OwnerOf[c]], Len(log')) /\ Older(wire[c], Len(log'))
      <4>1. /\ \A n \in Seqs : n < Len(log')
            /\ \A i \in DOMAIN applied[OwnerOf[c]] : applied[OwnerOf[c]][i] \in Seqs
            /\ \A i \in DOMAIN wire[c] : wire[c][i] \in Seqs \cup {Unlogged}
        BY <3>2, Numbers
      <4>2. QED  BY <4>1 DEF Older
    <3>4. QED  BY <1>10, <3>1, <3>3 DEF Emit, FoldFails, Line, socketVars, clientVars
  <2>2. QED  BY <1>2, <1>4, <1>10, <2>1 DEF Emit, FoldFails, clientVars
<1>11. ASSUME NEW c \in Sockets, Send(c) PROVE InLine'
  <2>1. stage[c] \in {"open", "gone"} /\ log # <<>>  BY <1>11 DEF Send, Places
  <2>2. due' \subseteq due /\ c \notin due' /\ c \in due  BY <1>11 DEF Send
  <2>3. CASE stage[c] = "gone"
    BY <1>7, <1>11, <2>2, <2>3 DEF Send, SendEvent, socketVars
  <2>4. CASE stage[c] = "open"
    <3>1. Len(log) \in Seqs  BY <2>1 DEF TypeOK, Seqs
    <3>2. Connected(c) => Older(applied[OwnerOf[c]], Len(log)) /\ Older(wire[c], Len(log))
      BY <1>3, <2>2 DEF Line
    <3>3. Put(c, Len(log))  BY <1>11, <2>4 DEF Send, SendEvent
    <3>4. UNCHANGED <<stage, clientVars, log, next>>  BY <1>11 DEF Send, socketVars
    <3>5. QED  BY <1>8, <2>2, <2>4, <3>1, <3>2, <3>3, <3>4
  <2>5. QED  BY <2>1, <2>3, <2>4
<1>12. ASSUME NEW c \in Sockets, SendUnlogged(c) PROVE InLine'
  <2>1. /\ Put(c, Unlogged) /\ stage[c] = "open"
        /\ UNCHANGED <<stage, clientVars, log, next, due>>
    BY <1>12 DEF SendUnlogged, serverVars, socketVars
  <2>2. QED  BY <1>8, <2>1
<1>13. ASSUME NEW c \in Sockets, Query(c) PROVE InLine'
  <2>1. ASSUME NEW d \in Sockets, Connected(d)' PROVE Line(d)'
    <3>1. Line(d) /\ Connected(d)  BY <1>3, <1>13, <2>1 DEF Query, Connected, clientVars
    <3>2. CASE d # c
      BY <1>5, <1>13, <3>1, <3>2, LineStays DEF Query, serverVars, clientVars
    <3>3. CASE d = c
      <4>1. /\ wire[c] = <<>> /\ stage[c] = "accepted"
            /\ asked[c] = lastEventId[OwnerOf[c]] /\ c \notin due
        BY <1>13, <3>1, <3>3 DEF Query, Places
      <4>2. Older(applied[OwnerOf[c]], FirstAfter(asked[c]))
        <5>1. CASE asked[c] = Unlogged
          <6>1. FirstAfter(asked[c]) = Len(log) + 1  BY <5>1 DEF FirstAfter
          <6>2. \A i \in DOMAIN applied[OwnerOf[c]] :
                  applied[OwnerOf[c]][i] < Len(log) + 1
            BY Numbers
          <6>3. QED  BY <6>1, <6>2 DEF Older
        <5>2. CASE asked[c] # Unlogged
          BY <1>1, <1>6, <4>1, <5>2 DEF FirstAfter, Known
        <5>3. QED  BY <5>1, <5>2
      <4>3. Older(<<>>, FirstAfter(asked[c]))  BY DEF Older
      <4>4. next'[c] = FirstAfter(asked[c]) /\ UNCHANGED <<due, wire, applied>>
        BY <1>5, <1>13 DEF Query, serverVars, clientVars
      <4>5. QED  BY <3>1, <3>3, <4>1, <4>2, <4>3, <4>4 DEF Line
    <3>4. QED  BY <3>2, <3>3
  <2>2. QED  BY <1>2, <1>4, <1>13, <2>1 DEF Query, clientVars
<1>14. ASSUME NEW c \in Sockets, ReplayRow(c) PROVE InLine'
  <2>1. next[c] \in Seqs
    <3>1. next[c] \in 1..(Len(log) + 1) /\ seen[c] \in {0} \cup Seqs /\ Len(log) \in Nat
      BY DEF TypeOK
    <3>2. next[c] <= seen[c]  BY <1>14 DEF ReplayRow
    <3>3. QED  BY <3>1, <3>2 DEF Seqs
  <2>2. /\ Put(c, next[c]) /\ stage[c] = "replaying" /\ c \notin due
        /\ UNCHANGED <<stage, clientVars, log, due>>
        /\ next' = [next EXCEPT ![c] = @ + 1]
    BY <1>14 DEF ReplayRow, serverVars, Places
  <2>3. /\ next'[c] = next[c] + 1
        /\ \A d \in Sockets : d # c => next'[d] = next[d]
    BY <1>5, <2>2
  <2>4. Connected(c) => Older(applied[OwnerOf[c]], next[c]) /\ Older(wire[c], next[c])
    BY <1>3, <2>2 DEF Line
  <2>5. QED  BY <1>8, <2>1, <2>2, <2>3, <2>4
<1>15. ASSUME NEW c \in Sockets, ReplayBreaks(c) \/ Leave(c) \/ Attach(c) PROVE InLine'
  BY <1>5, <1>7, <1>15 DEF ReplayBreaks, Leave, Attach, serverVars
<1>16. ASSUME NEW c \in Sockets, Dial(c) PROVE InLine'
  <2>1. ASSUME NEW d \in Sockets, Connected(d)' PROVE Line(d)'
    <3>1. CASE d = c
      <4>1. stage[c] = "new" /\ wire[c] = <<>> /\ c \notin due
        BY <1>16 DEF Dial, Places
      <4>2. UNCHANGED <<wire, due>> /\ stage'[c] = "accepted"
        BY <1>5, <1>16 DEF Dial, serverVars
      <4>3. QED  BY <3>1, <4>1, <4>2 DEF Line, Sorted, Continues
    <3>2. CASE d # c
      <4>1. Connected(d)  BY <1>5, <1>6, <1>16, <2>1, <3>2 DEF Dial, Connected
      <4>2. Line(d)  BY <1>3, <4>1
      <4>3. QED  BY <1>5, <1>16, <3>2, <4>2, LineStays DEF Dial, serverVars
    <3>3. QED  BY <3>1, <3>2
  <2>2. QED  BY <1>2, <1>4, <1>16, <2>1 DEF Dial
<1>17. ASSUME NEW c \in Sockets, Receive(c) PROVE InLine'
  <2> DEFINE k == OwnerOf[c]
             e == Head(wire[c])
  <2>1. k \in Clients /\ Connected(c) /\ Line(c)  BY <1>3, <1>6, <1>17 DEF Receive
  <2>2. /\ applied[k] \in Seq(Nat) /\ wire[c] \in Seq(Nat) /\ wire[c] # <<>>
        /\ Len(log) \in Nat /\ next[c] \in Nat
    BY <1>17, <2>1, Numbers, WiderSeq DEF Receive
  <2>3. applied'[k] = IF e = Unlogged THEN applied[k] ELSE Append(applied[k], e)
    BY <1>17, <2>1 DEF Receive, Applied, TypeOK
  <2>4. \A l \in Clients : l # k => applied'[l] = applied[l] /\ lastEventId'[l] = lastEventId[l]
    BY <1>17 DEF Receive, Applied, TypeOK
  <2>5. lastEventId'[k] = e /\ wire'[c] = Tail(wire[c])
    BY <1>17, <2>1 DEF Receive, TypeOK
  <2>6. UNCHANGED <<stage, next, due, log, link>>
    BY <1>17 DEF Receive, serverVars, socketVars
  <2> HIDE DEF k, e
  <2>7. /\ Sorted(applied'[k]) /\ Sorted(Tail(wire[c])) /\ Continues(applied'[k], Tail(wire[c]))
        /\ e # Unlogged => Older(applied'[k], e + 1)
        /\ \A n \in Nat : Older(applied[k], n) /\ Older(wire[c], n)
             => Older(applied'[k], n) /\ Older(Tail(wire[c]), n)
    <3>1. Sorted(applied[k]) /\ Sorted(wire[c]) /\ Continues(applied[k], wire[c])
      BY <1>1, <2>1 DEF Known, Line, k
    <3>2. QED  BY <2>2, <2>3, <3>1, WireTaken DEF e
  <2>8. Known'
    <3>1. ASSUME NEW l \in Clients
          PROVE  /\ Sorted(applied'[l])
                 /\ lastEventId'[l] # Unlogged => Older(applied'[l], lastEventId'[l] + 1)
      BY <1>1, <2>4, <2>5, <2>7 DEF Known
    <3>2. QED  BY <3>1 DEF Known
  <2>9. ASSUME NEW d \in Sockets, Connected(d)' PROVE Line(d)'
    <3>1. CASE d = c  BY <2>1, <2>2, <2>5, <2>6, <2>7, <3>1 DEF Line, k
    <3>2. CASE d # c
      <4>1. Connected(d) /\ OwnerOf[d] # k
        BY <1>6, <2>1, <2>6, <2>9, <3>2 DEF Connected, k
      <4>2. wire'[d] = wire[d] /\ applied'[OwnerOf[d]] = applied[OwnerOf[d]]
        BY <1>5, <1>6, <1>17, <2>4, <3>2, <4>1 DEF Receive
      <4>3. Line(d)  BY <1>3, <4>1
      <4>4. QED  BY <2>6, <4>2, <4>3, LineStays
    <3>3. QED  BY <3>1, <3>2
  <2>10. QED  BY <1>4, <2>8, <2>9
<1>18. ASSUME NEW c \in Sockets, Drop(c) PROVE InLine'
  <2>1. ASSUME NEW d \in Sockets, Connected(d)' PROVE Line(d)'
    <3>1. d # c /\ Connected(d)
      BY <1>5, <1>6, <1>18, <2>1 DEF Drop, Connected
    <3>2. Line(d)  BY <1>3, <3>1
    <3>3. QED
      BY <1>5, <1>18, <3>1, <3>2, LineStays DEF Drop, serverVars, socketVars
  <2>2. QED  BY <1>2, <1>4, <1>18, <2>1 DEF Drop
<1>19. ASSUME Crash PROVE InLine'
  <2>1. \A d \in Sockets : ~Connected(d)'
    BY <1>6, <1>19 DEF Crash, Connected
  <2>2. QED  BY <1>2, <1>4, <1>19, <2>1 DEF Crash
<1>20. ASSUME UNCHANGED vars PROVE InLine'
  BY <1>7, <1>20 DEF vars, serverVars, socketVars
<1>21. QED
  BY <1>9, <1>10, <1>11, <1>12, <1>13, <1>14, <1>15, <1>16, <1>17, <1>18, <1>19, <1>20
  DEF Next

-----------------------------------------------------------------------------
(* What is missing.                                                        *)

(* What was handed on or excused stays so.                                 *)
LEMMA HandedStays ==
  ASSUME TypeOK, Places, OfATurn, [Next]_vars, NEW k \in Clients, NEW n \in Seqs, Handed(k, n)
  PROVE  Handed(k, n)'
<1>1. /\ Len(log) \in Nat /\ n \in Nat /\ n >= 1 /\ log[n] \in Nat /\ log'[n] = log[n]
      /\ log[n] >= 1
  <2>1. log \in Seq(1..MaxTurns)  BY DEF TypeOK
  <2>2. n \in 1..Len(log)  BY DEF Seqs
  <2>3. log' = log \/ log' = Append(log, turns)
    BY DEF Next, StartTurn, Write, Emit, Raise, FoldFails, HandlerFails, Send, EndTurn,
       SendUnlogged, Query, ReplayRow, ReplayBreaks, Attach, Leave, Dial, Receive, Drop,
       Crash, vars
  <2>4. log'[n] = log[n]  BY <2>1, <2>2, <2>3
  <2>5. log[n] \in 1..MaxTurns /\ Len(log) \in Nat  BY <2>1, <2>2, Element
  <2>6. QED  BY <2>2, <2>4, <2>5
<1>2. \A c \in Sockets :
        /\ seen[c] \in Nat /\ joined[c] \in Nat
        /\ stage[c] \in {"new", "accepted"} => seen[c] = 0 /\ joined[c] = 0
        /\ stage[c] = "replaying" => joined[c] = 0
  BY DEF TypeOK, Places, Seqs
<1>3. ASSUME n \in Range(applied[k]) PROVE n \in Range(applied'[k])
  <2>1. applied'[k] = applied[k] \/ \E e \in Seqs : applied'[k] = Append(applied[k], e)
    <3>1. ASSUME NEW c \in Sockets, Receive(c)
          PROVE  applied'[k] = applied[k] \/ \E e \in Seqs : applied'[k] = Append(applied[k], e)
      <4>1. Head(wire[c]) \in Seqs \cup {Unlogged}
        <5>1. wire[c] \in Seq(Seqs \cup {Unlogged}) /\ wire[c] # <<>>
          BY <3>1 DEF Receive, TypeOK
        <5>2. QED  BY <5>1, Taken
      <4>2. QED  BY <3>1, <4>1 DEF Receive, Applied, TypeOK
    <3>2. QED
      BY <3>1 DEF Next, StartTurn, Write, Emit, Raise, FoldFails, HandlerFails, Send,
         EndTurn, SendUnlogged, Query, ReplayRow, ReplayBreaks, Attach, Leave, Dial, Drop,
         Crash, vars, clientVars
  <2>2. applied[k] \in Seq(Seqs)  BY DEF TypeOK
  <2>3. ASSUME NEW e \in Seqs, applied'[k] = Append(applied[k], e)
        PROVE  n \in Range(applied'[k])
    BY <1>3, <2>2, <2>3, Appended
  <2>4. QED  BY <1>3, <2>1, <2>3
<1>4. ASSUME NEW c \in Sockets, InGap(c, n) PROVE InGap(c, n)'
  <2>1. joined[c] >= 1  BY <1>1, <1>2, <1>4 DEF InGap
  <2>2. stage[c] \notin {"new", "accepted", "replaying"}  BY <1>2, <2>1
  <2>3. seen'[c] = seen[c] /\ joined'[c] = joined[c]
    BY <2>2 DEF Next, StartTurn, Write, Emit, Raise, FoldFails, HandlerFails, Send, EndTurn,
       SendUnlogged, Query, ReplayRow, ReplayBreaks, Attach, Leave, Dial, Receive, Drop,
       Crash, vars, socketVars, TypeOK
  <2>4. QED  BY <1>1, <1>4, <2>3 DEF InGap
<1>5. ASSUME NEW c \in Sockets, Unanswered(c, n) PROVE Unanswered(c, n)'
  <2>1. seen[c] >= 1  BY <1>1, <1>2, <1>5 DEF Unanswered
  <2>2. stage[c] \notin {"new", "accepted"}  BY <1>2, <2>1
  <2>3. seen'[c] = seen[c] /\ asked'[c] = asked[c]
    BY <2>2 DEF Next, StartTurn, Write, Emit, Raise, FoldFails, HandlerFails, Send, EndTurn,
       SendUnlogged, Query, ReplayRow, ReplayBreaks, Attach, Leave, Dial, Receive, Drop,
       Crash, vars, socketVars, TypeOK
  <2>4. QED  BY <1>5, <2>3 DEF Unanswered, Unlogged
<1>7. ASSUME NEW c \in Sockets, Unsent(c, n) PROVE Unsent(c, n)'
  <2>1. unsent \subseteq unsent'
    BY DEF Next, StartTurn, Emit, FoldFails, HandlerFails, Send, EndTurn, SendUnlogged,
       Query, ReplayRow, ReplayBreaks, Attach, Leave, Dial, Receive, Drop, Crash, vars,
       serverVars
  <2>2. QED  BY <1>7, <2>1 DEF Unsent
<1>6. QED  BY <1>3, <1>4, <1>5, <1>7 DEF Handed, Excused

(* The parts of Covered.                                                   *)
UpToLast ==
  \A k \in Clients, n \in Seqs :
    lastEventId[k] # Unlogged /\ n <= lastEventId[k] => Handed(k, n)
UpToNext ==
  \A c \in Sockets, n \in Seqs :
    Connected(c) /\ stage[c] = "replaying" /\ n <= seen[c] /\ n < next[c]
      => n \in Range(wire[c]) \/ Handed(OwnerOf[c], n)
AllOfOpen ==
  \A c \in Sockets, n \in Seqs :
    Connected(c) /\ stage[c] = "open" => OnTheWay(OwnerOf[c], n) \/ Handed(OwnerOf[c], n)

(* An event that is put on the wire of c adds to what the wires hold.      *)
LEMMA PutRange ==
  ASSUME TypeOK, NEW c \in Sockets, NEW e \in Seqs \cup {Unlogged}, Put(c, e)
  PROVE  /\ \A d \in Sockets : Range(wire[d]) \subseteq Range(wire'[d])
         /\ Connected(c) => e \in Range(wire'[c])
<1>1. wire[c] \in Seq(Seqs \cup {Unlogged}) /\ wire \in [Sockets -> Seq(Seqs \cup {Unlogged})]
  BY DEF TypeOK
<1>2. Range(Append(wire[c], e)) = Range(wire[c]) \cup {e}  BY <1>1, Appended
<1>3. \A d \in Sockets : d # c => wire'[d] = wire[d]  BY <1>1 DEF Put
<1>4. CASE Connected(c)
  <2>1. wire'[c] = Append(wire[c], e)  BY <1>1, <1>4 DEF Put
  <2>2. QED  BY <1>2, <1>3, <2>1
<1>5. CASE ~Connected(c)  BY <1>5 DEF Put
<1>6. QED  BY <1>4, <1>5

(* Nothing older than what a client receives is still to come.             *)
LEMMA NothingSkipped ==
  ASSUME TypeOK, Places, InLine, Covered, NEW c \in Sockets, Receive(c),
         Head(wire[c]) # Unlogged, NEW n \in Seqs, n < Head(wire[c])
  PROVE  Handed(OwnerOf[c], n)
<1> DEFINE e == Head(wire[c])
<1>1. Connected(c) /\ wire[c] # <<>>  BY DEF Receive
<1>2. Line(c)  BY <1>1 DEF InLine
<1>3. /\ wire[c] \in Seq(Seqs \cup {Unlogged})
      /\ \A i \in DOMAIN wire[c] : wire[c][i] \in Nat
      /\ n \in Nat /\ e \in Seqs /\ e \in Nat /\ Len(log) \in Nat
      /\ 1 \in DOMAIN wire[c] /\ wire[c][1] = e
      /\ n # Unlogged
  BY <1>1, Numbers, Taken
<1>4. n \notin Range(wire[c])
  <2>1. ASSUME NEW i \in DOMAIN wire[c], wire[c][i] = n PROVE FALSE
    <3>1. i = 1 \/ 1 < i  BY <1>3
    <3>2. CASE i = 1  BY <1>3, <2>1, <3>2
    <3>3. CASE 1 < i  BY <1>2, <1>3, <2>1, <3>3 DEF Line, Sorted
    <3>4. QED  BY <3>1, <3>2, <3>3
  <2>2. QED  BY <2>1 DEF Range
<1>5. stage[c] \in {"replaying", "open"}
  BY <1>1 DEF Places, TypeOK
<1>6. CASE stage[c] = "replaying"
  <2>1. e < next[c] /\ next[c] <= seen[c] + 1 /\ next[c] \in Nat /\ seen[c] \in Nat
    BY <1>2, <1>3, <1>6 DEF Line, Older, Places, TypeOK, Seqs
  <2>2. n < next[c] /\ n <= seen[c]  BY <1>3, <2>1
  <2>3. QED  BY <1>1, <1>4, <1>6, <2>2 DEF Covered
<1>7. CASE stage[c] = "open"
  <2>1. OnTheWay(OwnerOf[c], n) \/ Handed(OwnerOf[c], n)  BY <1>1, <1>7 DEF Covered
  <2>2. link[OwnerOf[c]] = c  BY <1>1 DEF Connected
  <2>3. ~(n = Len(log) /\ c \in due)
    BY <1>2, <1>3 DEF Line, Older
  <2>4. QED  BY <1>4, <2>1, <2>2, <2>3 DEF OnTheWay
<1>8. QED  BY <1>5, <1>6, <1>7

LEMMA LastStep ==
  ASSUME TypeOK, Places, OfATurn, InLine, Covered, [Next]_vars
  PROVE  UpToLast'
<1>1. Len(log) \in Nat /\ lastEventId \in [Clients -> {0, Unlogged} \cup Seqs]
  BY DEF TypeOK
<1>2. ASSUME NEW k \in Clients, NEW n \in Seqs', lastEventId'[k] # Unlogged,
             n <= lastEventId'[k], lastEventId'[k] = lastEventId[k]
      PROVE  Handed(k, n)'
  <2>1. n \in Seqs /\ n <= lastEventId[k] /\ lastEventId[k] # Unlogged
    BY <1>1, <1>2 DEF Seqs
  <2>2. Handed(k, n)  BY <2>1 DEF Covered
  <2>3. QED  BY <2>1, <2>2, HandedStays
<1>3. ASSUME NEW c \in Sockets, Receive(c) PROVE UpToLast'
  <2> DEFINE k == OwnerOf[c]
             e == Head(wire[c])
  <2>1. /\ k \in Clients /\ lastEventId'[k] = e
        /\ \A l \in Clients : l # k => lastEventId'[l] = lastEventId[l]
        /\ wire[c] \in Seq(Seqs \cup {Unlogged}) /\ wire[c] # <<>>
        /\ log' = log
    BY <1>1, <1>3, StreamAssumption DEF Receive, TypeOK
  <2>2. e \in Seqs \cup {Unlogged}  BY <2>1, Taken
  <2>3. ASSUME NEW n \in Seqs, e # Unlogged, n <= e PROVE Handed(k, n)'
    <3>1. CASE n = e
      <4>1. applied'[k] = Append(applied[k], e) /\ applied[k] \in Seq(Seqs) /\ e \in Seqs
        BY <1>3, <2>1, <2>2, <2>3 DEF Receive, Applied, TypeOK
      <4>2. n \in Range(applied'[k])  BY <3>1, <4>1, Appended
      <4>3. QED  BY <4>2 DEF Handed
    <3>2. CASE n # e
      <4>1. n < e  BY <2>2, <2>3, <3>2 DEF Seqs
      <4>2. Handed(k, n)  BY <1>3, <2>3, <4>1, NothingSkipped
      <4>3. QED  BY <2>1, <4>2, HandedStays
    <3>3. QED  BY <3>1, <3>2
  <2>4. Seqs' = Seqs /\ Unlogged' = Unlogged  BY <2>1 DEF Seqs, Unlogged
  <2> HIDE DEF k, e
  <2>5. ASSUME NEW l \in Clients, NEW n \in Seqs', lastEventId'[l] # Unlogged,
               n <= lastEventId'[l]
        PROVE  Handed(l, n)'
    <3>1. CASE l = k  BY <2>1, <2>3, <2>4, <2>5, <3>1
    <3>2. CASE l # k  BY <1>2, <2>1, <2>5, <3>2
    <3>3. QED  BY <3>1, <3>2
  <2>6. QED  BY <2>5 DEF UpToLast, Unlogged
<1>4. CASE UNCHANGED lastEventId  BY <1>2, <1>4 DEF UpToLast, Unlogged
<1>5. QED
  BY <1>3, <1>4 DEF Next, StartTurn, Write, Emit, Raise, FoldFails, HandlerFails, Send,
     EndTurn, SendUnlogged, Query, ReplayRow, ReplayBreaks, Attach, Leave, Dial, Drop,
     Crash, vars, clientVars

(* What is on the wire of a client that stays is still there or handed on. *)
LEMMA WireStays ==
  ASSUME TypeOK, [Next]_vars, NEW c \in Sockets, Connected(c), Connected(c)',
         NEW n \in Seqs, n \in Range(wire[c])
  PROVE  n \in Range(wire'[c]) \/ Handed(OwnerOf[c], n)'
<1>1. /\ wire \in [Sockets -> Seq(Seqs \cup {Unlogged})] /\ Len(log) \in Nat
      /\ n # Unlogged /\ OwnerOf[c] \in Clients
      /\ link \in [Clients -> Sockets \cup {NoSocket}]
  BY Numbers, StreamAssumption DEF TypeOK
<1>2. ASSUME NEW d \in Sockets, Send(d) PROVE n \in Range(wire'[c])
  <2>1. CASE stage[d] = "gone"  BY <1>2, <2>1 DEF Send, SendEvent
  <2>2. CASE stage[d] # "gone"
    <3>1. Put(d, Len(log))  BY <1>2, <2>2 DEF Send, SendEvent
    <3>2. CASE Len(log) \in Seqs  BY <3>1, <3>2, PutRange
    <3>3. CASE Len(log) \notin Seqs  BY <1>1, <3>3 DEF Seqs
    <3>4. QED  BY <3>2, <3>3
  <2>3. QED  BY <2>1, <2>2
<1>3. ASSUME NEW d \in Sockets, SendUnlogged(d) PROVE n \in Range(wire'[c])
  BY <1>3, PutRange DEF SendUnlogged
<1>4. ASSUME NEW d \in Sockets, ReplayRow(d) PROVE n \in Range(wire'[c])
  <2>1. next[d] \in Seqs
    <3>1. next[d] \in 1..(Len(log) + 1) /\ seen[d] \in {0} \cup Seqs  BY DEF TypeOK
    <3>2. next[d] <= seen[d]  BY <1>4 DEF ReplayRow
    <3>3. QED  BY <1>1, <3>1, <3>2 DEF Seqs
  <2>2. QED  BY <1>4, <2>1, PutRange DEF ReplayRow
<1>5. ASSUME NEW d \in Sockets, Receive(d)
      PROVE  n \in Range(wire'[c]) \/ Handed(OwnerOf[c], n)'
  <2>1. CASE d # c  BY <1>1, <1>5, <2>1 DEF Receive
  <2>2. CASE d = c
    <3>1. wire[c] # <<>> /\ wire'[c] = Tail(wire[c])  BY <1>1, <1>5, <2>2 DEF Receive
    <3>2. n = Head(wire[c]) \/ n \in Range(wire'[c])  BY <1>1, <3>1, Taken
    <3>3. CASE n = Head(wire[c])
      <4>1. applied'[OwnerOf[c]] = Append(applied[OwnerOf[c]], n)
            /\ applied[OwnerOf[c]] \in Seq(Seqs)
        BY <1>1, <1>5, <2>2, <3>3 DEF Receive, Applied, TypeOK
      <4>2. n \in Range(applied'[OwnerOf[c]])  BY <4>1, Appended
      <4>3. QED  BY <4>2 DEF Handed
    <3>4. QED  BY <3>2, <3>3
  <2>3. QED  BY <2>1, <2>2
<1>6. ASSUME NEW d \in Sockets, Drop(d) PROVE n \in Range(wire'[c])
  <2>1. d # c
    <3>1. link'[OwnerOf[d]] = NoSocket  BY <1>1, <1>6, StreamAssumption DEF Drop
    <3>2. QED  BY <3>1, StreamAssumption DEF Connected
  <2>2. QED  BY <1>1, <1>6, <2>1 DEF Drop
<1>7. ~Crash  BY <1>1, StreamAssumption DEF Crash, Connected
<1>8. QED
  BY <1>2, <1>3, <1>4, <1>5, <1>6, <1>7
  DEF Next, StartTurn, Write, Emit, Raise, FoldFails, HandlerFails, EndTurn, Query,
     ReplayBreaks, Attach, Leave, Dial, vars

LEMMA NextStep ==
  ASSUME TypeOK, Places, OfATurn, Covered, [Next]_vars
  PROVE  UpToNext'
<1> SUFFICES ASSUME NEW c \in Sockets, NEW n \in Seqs', Connected(c)',
                    stage'[c] = "replaying", n <= seen'[c], n < next'[c]
             PROVE  n \in Range(wire'[c]) \/ Handed(OwnerOf[c], n)'
  BY DEF UpToNext
<1>1. /\ Len(log) \in Nat /\ OwnerOf[c] \in Clients /\ n \in Nat /\ n >= 1
      /\ link \in [Clients -> Sockets \cup {NoSocket}]
      /\ stage \in [Sockets -> {"new", "accepted", "replaying", "open", "gone"}]
      /\ seen \in [Sockets -> {0} \cup Seqs] /\ next \in [Sockets -> 1..(Len(log) + 1)]
  <2>1. n \in Nat /\ n >= 1  BY DEF Seqs
  <2>2. OwnerOf[c] \in Clients  BY StreamAssumption
  <2>3. Len(log) \in Nat  BY DEF TypeOK
  <2>4. /\ link \in [Clients -> Sockets \cup {NoSocket}]
        /\ stage \in [Sockets -> {"new", "accepted", "replaying", "open", "gone"}]
        /\ seen \in [Sockets -> {0} \cup Seqs] /\ next \in [Sockets -> 1..(Len(log) + 1)]
    BY DEF TypeOK
  <2>5. QED  BY <2>1, <2>2, <2>3, <2>4
<1>2. \/ Query(c)
      \/ ReplayRow(c)
      \/ /\ stage[c] = "replaying" /\ Connected(c)
         /\ seen'[c] = seen[c] /\ next'[c] = next[c]
  <2> DEFINE same == /\ stage[c] = "replaying" /\ Connected(c)
                     /\ seen'[c] = seen[c] /\ next'[c] = next[c]
  <2>1. ASSUME NEW d \in Sockets, Query(d), d # c PROVE same
    BY <1>1, <2>1 DEF Query, clientVars, Connected
  <2>2. ASSUME NEW d \in Sockets, ReplayRow(d), d # c PROVE same
    BY <1>1, <2>2 DEF ReplayRow, clientVars, Connected
  <2>3. ASSUME NEW d \in Sockets, ReplayBreaks(d) \/ Attach(d) \/ Leave(d) PROVE same
    BY <1>1, <2>3 DEF ReplayBreaks, Attach, Leave, clientVars, Connected
  <2>4. ASSUME NEW d \in Sockets, Dial(d) PROVE same
    <3>1. OwnerOf[d] \in Clients  BY StreamAssumption
    <3>2. QED  BY <1>1, <2>4, <3>1 DEF Dial, Connected
  <2>5. ASSUME NEW d \in Sockets, Drop(d) PROVE same
    <3>1. OwnerOf[d] \in Clients /\ c # NoSocket  BY StreamAssumption
    <3>2. QED  BY <1>1, <2>5, <3>1 DEF Drop, Connected, socketVars
  <2>6. ~Crash  BY <1>1, StreamAssumption DEF Crash, Connected
  <2>7. ASSUME \/ StartTurn \/ Emit \/ FoldFails \/ HandlerFails \/ EndTurn \/ UNCHANGED vars
               \/ \E d \in Sockets : Send(d) \/ SendUnlogged(d) \/ Receive(d)
        PROVE  same
    BY <1>1, <2>7
    DEF StartTurn, Write, Emit, Raise, FoldFails, HandlerFails, EndTurn, Send, SendUnlogged,
       Receive, vars, socketVars, clientVars, Connected
  <2>8. QED  BY <2>1, <2>2, <2>3, <2>4, <2>5, <2>6, <2>7 DEF Next
<1>3. CASE Query(c)
  <2>1. /\ log' = log /\ asked' = asked /\ link' = link
        /\ seen'[c] = Len(log) /\ next'[c] = FirstAfter(asked[c]) /\ stage[c] = "accepted"
    BY <1>1, <1>3 DEF Query, clientVars
  <2>2. n \in Seqs  BY <1>1, <2>1 DEF Seqs
  <2>3. CASE asked[c] = Unlogged
    <3>1. Unanswered(c, n)'  BY <2>1, <2>3 DEF Unanswered, Unlogged
    <3>2. QED  BY <3>1 DEF Handed, Excused
  <2>4. CASE asked[c] # Unlogged
    <3>1. asked[c] = lastEventId[OwnerOf[c]]  BY <2>1 DEF Places, Connected
    <3>2. lastEventId[OwnerOf[c]] \in {0} \cup Seqs  BY <1>1, <2>4, <3>1 DEF TypeOK
    <3>3. n <= lastEventId[OwnerOf[c]]
      BY <1>1, <2>1, <2>4, <3>1, <3>2 DEF FirstAfter, Seqs
    <3>4. Handed(OwnerOf[c], n)  BY <1>1, <2>2, <2>4, <3>1, <3>3 DEF Covered
    <3>5. QED  BY <1>1, <2>2, <3>4, HandedStays
  <2>5. QED  BY <2>3, <2>4
<1>4. ASSUME stage[c] = "replaying", Connected(c), n \in Seqs, n <= seen[c], n < next[c]
      PROVE  n \in Range(wire'[c]) \/ Handed(OwnerOf[c], n)'
  <2>1. n \in Range(wire[c]) \/ Handed(OwnerOf[c], n)  BY <1>4 DEF Covered
  <2>2. CASE n \in Range(wire[c])  BY <1>4, <2>2, WireStays
  <2>3. CASE Handed(OwnerOf[c], n)  BY <1>1, <1>4, <2>3, HandedStays
  <2>4. QED  BY <2>1, <2>2, <2>3
<1>5. CASE ReplayRow(c)
  <2>1. /\ Put(c, next[c]) /\ stage[c] = "replaying" /\ next[c] <= seen[c]
        /\ next'[c] = next[c] + 1 /\ seen'[c] = seen[c] /\ Connected(c)
    BY <1>1, <1>5 DEF ReplayRow, clientVars, Connected
  <2>2. n \in Seqs /\ next[c] \in Seqs  BY <1>1, <2>1 DEF Seqs
  <2>3. CASE n = next[c]  BY <2>1, <2>2, <2>3, PutRange
  <2>4. CASE n # next[c]
    <3>1. n < next[c]  BY <1>1, <2>1, <2>4
    <3>2. QED  BY <1>4, <2>1, <2>2, <3>1
  <2>5. QED  BY <2>3, <2>4
<1>6. CASE /\ stage[c] = "replaying" /\ Connected(c)
           /\ seen'[c] = seen[c] /\ next'[c] = next[c]
  <2>1. n \in Seqs  BY <1>1, <1>6 DEF Seqs
  <2>2. QED  BY <1>4, <1>6, <2>1
<1>7. QED  BY <1>2, <1>3, <1>5, <1>6

LEMMA OpenStep ==
  ASSUME TypeOK, Places, OfATurn, Covered, [Next]_vars
  PROVE  AllOfOpen'
<1> SUFFICES ASSUME NEW c \in Sockets, NEW n \in Seqs', Connected(c)', stage'[c] = "open"
             PROVE  OnTheWay(OwnerOf[c], n)' \/ Handed(OwnerOf[c], n)'
  BY DEF AllOfOpen
<1>1. /\ Len(log) \in Nat /\ OwnerOf[c] \in Clients /\ turns \in Nat
      /\ link \in [Clients -> Sockets \cup {NoSocket}]
      /\ stage \in [Sockets -> {"new", "accepted", "replaying", "open", "gone"}]
      /\ seen \in [Sockets -> Nat] /\ next \in [Sockets -> Nat]
      /\ joined \in [Sockets -> Nat]
      /\ n \in 1..Len(log')
  <2>1. n \in 1..Len(log')  BY DEF Seqs
  <2>2. /\ Len(log) \in Nat /\ turns \in Nat /\ next \in [Sockets -> Nat]
        /\ seen \in [Sockets -> {0} \cup Seqs]
        /\ link \in [Clients -> Sockets \cup {NoSocket}]
        /\ stage \in [Sockets -> {"new", "accepted", "replaying", "open", "gone"}]
        /\ joined \in [Sockets -> 0..turns]
    BY DEF TypeOK
  <2>3. seen \in [Sockets -> Nat]  BY <2>2 DEF Seqs
  <2>4. joined \in [Sockets -> Nat]  BY <2>2
  <2>5. QED  BY <2>1, <2>2, <2>3, <2>4, StreamAssumption
<1>6. seen[c] \in Nat /\ seen[c] <= Len(log) /\ next[c] \in Nat /\ n \in Nat
      /\ joined[c] \in Nat
  <2>1. seen[c] \in {0} \cup Seqs  BY DEF TypeOK
  <2>2. seen[c] <= Len(log)  BY <1>1, <2>1 DEF Seqs
  <2>3. n \in Nat  BY <1>1
  <2>4. QED  BY <1>1, <2>2, <2>3
<1>2. link'[OwnerOf[c]] = c  BY DEF Connected
<1>3. \/ Attach(c)
      \/ stage[c] = "open" /\ Connected(c) /\ seen'[c] = seen[c] /\ joined'[c] = joined[c]
  <2> DEFINE same == /\ stage[c] = "open" /\ Connected(c)
                     /\ seen'[c] = seen[c] /\ joined'[c] = joined[c]
  <2>1. ASSUME NEW d \in Sockets, Query(d) PROVE same
    BY <1>1, <2>1 DEF Query, clientVars, Connected
  <2>2. ASSUME NEW d \in Sockets, Attach(d), d # c PROVE same
    BY <1>1, <2>2 DEF Attach, clientVars, Connected
  <2>3. ASSUME NEW d \in Sockets, ReplayRow(d) \/ ReplayBreaks(d) \/ Leave(d) PROVE same
    BY <1>1, <2>3 DEF ReplayRow, ReplayBreaks, Leave, clientVars, Connected
  <2>4. ASSUME NEW d \in Sockets, Dial(d) PROVE same
    <3>1. OwnerOf[d] \in Clients  BY StreamAssumption
    <3>2. QED  BY <1>1, <2>4, <3>1 DEF Dial, Connected
  <2>5. ASSUME NEW d \in Sockets, Drop(d) PROVE same
    <3>1. OwnerOf[d] \in Clients /\ c # NoSocket  BY StreamAssumption
    <3>2. QED  BY <1>1, <2>5, <3>1 DEF Drop, Connected, socketVars
  <2>6. ~Crash  BY <1>1, StreamAssumption DEF Crash, Connected
  <2>7. ASSUME \/ StartTurn \/ Emit \/ FoldFails \/ HandlerFails \/ EndTurn \/ UNCHANGED vars
               \/ \E d \in Sockets : Send(d) \/ SendUnlogged(d) \/ Receive(d)
        PROVE  same
    BY <1>1, <2>7
    DEF StartTurn, Write, Emit, Raise, FoldFails, HandlerFails, EndTurn, Send, SendUnlogged,
       Receive, vars, socketVars, clientVars, Connected
  <2>8. QED  BY <2>1, <2>2, <2>3, <2>4, <2>5, <2>6, <2>7 DEF Next
<1>4. CASE Attach(c)
  <2>1. /\ log' = log /\ wire' = wire /\ link' = link
        /\ joined'[c] = turns /\ seen'[c] = seen[c]
        /\ stage[c] = "replaying" /\ next[c] > seen[c]
    BY <1>1, <1>4 DEF Attach, clientVars
  <2>2. n \in Seqs /\ Connected(c)  BY <1>1, <2>1 DEF Seqs, Connected
  <2>3. CASE n <= seen[c]
    <3>1. n < next[c]  BY <1>6, <2>1, <2>3
    <3>2. n \in Range(wire[c]) \/ Handed(OwnerOf[c], n)
      BY <2>1, <2>2, <2>3, <3>1 DEF Covered
    <3>3. CASE n \in Range(wire[c])  BY <1>2, <2>1, <3>3 DEF OnTheWay
    <3>4. CASE Handed(OwnerOf[c], n)  BY <1>1, <2>2, <3>4, HandedStays
    <3>5. QED  BY <3>2, <3>3, <3>4
  <2>4. CASE ~(n <= seen[c])
    <3>1. log[n] <= turns  BY <2>2 DEF OfATurn
    <3>2. n > seen[c]  BY <1>6, <2>4
    <3>3. InGap(c, n)'  BY <2>1, <3>1, <3>2 DEF InGap
    <3>4. QED  BY <3>3 DEF Handed, Excused
  <2>5. QED  BY <2>3, <2>4
<1>5. CASE stage[c] = "open" /\ Connected(c) /\ seen'[c] = seen[c] /\ joined'[c] = joined[c]
  <2>1. CASE n \in Seqs
    <3>1. OnTheWay(OwnerOf[c], n) \/ Handed(OwnerOf[c], n)  BY <1>5, <2>1 DEF Covered
    <3>2. CASE Handed(OwnerOf[c], n)  BY <1>1, <2>1, <3>2, HandedStays
    <3>3. CASE n \in Range(wire[c])
      <4>1. n \in Range(wire'[c]) \/ Handed(OwnerOf[c], n)'
        BY <1>5, <2>1, <3>3, WireStays
      <4>2. QED  BY <1>2, <4>1 DEF OnTheWay
    <3>4. CASE n = Len(log) /\ c \in due
      <4>1. Send(c) \/ (c \in due' /\ log' = log)
        BY <1>1, <3>4, StreamAssumption
        DEF Next, StartTurn, Write, Emit, Raise, FoldFails, HandlerFails, Send, EndTurn,
           SendUnlogged, Query, ReplayRow, ReplayBreaks, Attach, Leave, Dial, Receive, Drop,
           Crash, vars, serverVars, Connected
      <4>2. CASE Send(c)
        <5>1. Put(c, n)  BY <1>5, <3>4, <4>2 DEF Send, SendEvent
        <5>2. n \in Range(wire'[c])  BY <1>5, <2>1, <5>1, PutRange
        <5>3. QED  BY <1>2, <5>2 DEF OnTheWay
      <4>3. CASE c \in due' /\ log' = log  BY <1>2, <3>4, <4>3 DEF OnTheWay
      <4>4. QED  BY <4>1, <4>2, <4>3
    <3>5. link[OwnerOf[c]] = c  BY <1>5 DEF Connected
    <3>6. QED  BY <3>1, <3>2, <3>3, <3>4, <3>5 DEF OnTheWay
  <2>2. CASE n \notin Seqs
    <3>1. Emit \/ FoldFails
      <4>1. log' # log  BY <1>1, <2>2 DEF Seqs
      <4>2. QED
        BY <4>1 DEF Next, StartTurn, HandlerFails, Send, EndTurn, SendUnlogged, Query,
           ReplayRow, ReplayBreaks, Attach, Leave, Dial, Receive, Drop, Crash, vars
    <3>2. /\ busy /\ log' = Append(log, turns) /\ turns' = turns
          /\ \/ due' = audience
             \/ unsent' = unsent \cup (audience \X {Len(log) + 1})
      BY <3>1 DEF Emit, FoldFails, Write, busy
    <3>3. Len(log') = Len(log) + 1 /\ log'[Len(log) + 1] = turns  BY <3>2 DEF TypeOK
    <3>4. n = Len(log')  BY <1>1, <2>2, <3>3 DEF Seqs
    <3>5. CASE c \in audience
      <4>1. CASE due' = audience  BY <1>2, <3>4, <3>5, <4>1 DEF OnTheWay
      <4>2. CASE unsent' = unsent \cup (audience \X {Len(log) + 1})
        <5>1. Unsent(c, n)'  BY <3>3, <3>4, <3>5, <4>2 DEF Unsent
        <5>2. QED  BY <5>1 DEF Handed, Excused
      <4>3. QED  BY <3>2, <4>1, <4>2
    <3>6. CASE c \notin audience
      <4>1. ~(turns > joined[c])  BY <1>5, <3>2, <3>6 DEF Places
      <4>2. turns <= joined[c] /\ n > seen[c]  BY <1>1, <1>6, <3>3, <3>4, <4>1
      <4>3. InGap(c, n)'  BY <1>5, <3>3, <3>4, <4>2 DEF InGap
      <4>4. QED  BY <4>3 DEF Handed, Excused
    <3>7. QED  BY <3>5, <3>6
  <2>3. QED  BY <2>1, <2>2
<1>7. QED  BY <1>3, <1>4, <1>5

-----------------------------------------------------------------------------
(* The theorems.                                                           *)

(* The inductive invariant holds of every behaviour.                       *)
THEOREM Invariance == Spec => []IInv
<1>1. Init => IInv  BY StreamInit
<1>2. IInv /\ [Next]_vars => IInv'
  <2> SUFFICES ASSUME IInv, [Next]_vars PROVE IInv'  OBVIOUS
  <2>1. TypeOK /\ Places /\ OfATurn /\ InLine /\ Covered  BY DEF IInv
  <2>2. TypeOK'  BY <2>1, TypeStep
  <2>3. Places'  BY <2>1, PlacesStep
  <2>4. OfATurn'  BY <2>1, TurnStep
  <2>5. InLine'  BY <2>1, LineStep
  <2>6. UpToLast'  BY <2>1, LastStep
  <2>7. UpToNext'  BY <2>1, NextStep
  <2>8. AllOfOpen'  BY <2>1, OpenStep
  <2>9. Covered'  BY <2>6, <2>7, <2>8 DEF Covered, UpToLast, UpToNext, AllOfOpen
  <2>10. QED  BY <2>2, <2>3, <2>4, <2>5, <2>9 DEF IInv
<1>3. QED  BY <1>1, <1>2, PTL DEF Spec

(* The variables of the log, the endpoint and the client keep their types. *)
THEOREM TypeCorrect == Spec => []TypeOK
<1>1. IInv => TypeOK  BY DEF IInv
<1>2. QED  BY <1>1, Invariance, PTL

(* A client applies the logged events in order and none of them twice,     *)
(* whatever the replay of _ws and the fan-out of _dispatch bring it.       *)
THEOREM InOrderAndOnce == Spec => []AppliedInOrder
<1>1. IInv => AppliedInOrder
  <2> SUFFICES ASSUME IInv, NEW k \in Clients, NEW i \in DOMAIN applied[k],
                      NEW j \in DOMAIN applied[k], i < j
               PROVE  applied[k][i] < applied[k][j]
    BY DEF AppliedInOrder
  <2>1. TypeOK /\ Sorted(applied[k])  BY DEF IInv, InLine
  <2>2. applied[k][i] # Unlogged /\ applied[k][j] # Unlogged  BY <2>1, Numbers
  <2>3. QED  BY <2>1, <2>2 DEF Sorted
<1>2. QED  BY <1>1, Invariance, PTL

(* On an open channel nothing is missing but what was logged between the   *)
(* query of the replay and the end of the turn under way at registration,  *)
(* what a replay after an unlogged id should have brought, or what was     *)
(* logged and, its folding having raised, yielded to nobody.               *)
THEOREM MissesAreExcused == Spec => []LostOnlyInGap
<1>1. IInv => LostOnlyInGap
  <2> SUFFICES ASSUME IInv, NEW k \in Clients, link[k] # NoSocket, stage[link[k]] = "open",
                      NEW n \in Seqs
               PROVE  n \in Range(applied[k]) \/ OnTheWay(k, n) \/ Excused(k, n)
    BY DEF LostOnlyInGap, Excused
  <2>1. link[k] \in Sockets  BY DEF IInv, TypeOK
  <2>2. CASE OwnerOf[link[k]] = k
    <3>1. Connected(link[k])  BY <2>2 DEF Connected
    <3>2. QED  BY <2>1, <2>2, <3>1 DEF IInv, Covered, Handed
  <2>3. CASE OwnerOf[link[k]] # k
    <3>1. FALSE  BY <2>1, <2>3 DEF IInv, Places
    <3>2. QED  BY <3>1
  <2>4. QED  BY <2>2, <2>3
<1>2. QED  BY <1>1, Invariance, PTL
=============================================================================
