---------------------------- MODULE GatewayProofs ----------------------------
(***************************************************************************)
(* Theorems about Gateway, for every set of messages and sessions and any  *)
(* number of starts: what becomes of a message, the refinement of Inbox,   *)
(* and the turns of a session.                                             *)
(***************************************************************************)
EXTENDS Gateway, FiniteSetTheorems, SequenceTheorems, TLAPS

USE GatewayAssumption

(* A finite list of messages is a sequence over the elements of a queue.   *)
LEMMA ListIsSeq ==
  ASSUME NEW n \in Nat, NEW q \in [1..n -> Messages]
  PROVE  q \in Seq(Messages \cup {Shutdown})
OBVIOUS

(* The messages can be counted.                                            *)
LEMMA MessagesCard == Cardinality(Messages) \in Nat
BY FS_CardinalityType

(* Updating one row keeps the table a table.                               *)
LEMMA TableUpdate ==
  ASSUME NEW table \in Seq(TurnRow), NEW i, NEW r,
         i \in DOMAIN table => r \in TurnRow
  PROVE  /\ [table EXCEPT ![i] = r] \in Seq(TurnRow)
         /\ Len([table EXCEPT ![i] = r]) = Len(table)
<1>1. CASE i \in DOMAIN table
  <2>1. i \in 1..Len(table)  BY <1>1
  <2>2. QED  BY <2>1, <1>1, ExceptSeq
<1>2. CASE i \notin DOMAIN table
  <2>1. [table EXCEPT ![i] = r] = table  BY <1>2
  <2>2. QED  BY <2>1
<1>3. QED  BY <1>1, <1>2

(* The columns of a row stay in their ranges.                              *)
LEMMA RowUpdate ==
  ASSUME NEW r \in TurnRow
  PROVE  /\ [r EXCEPT !.state = "ended", !.seen = "end"] \in TurnRow
         /\ [r EXCEPT !.seen = "error"] \in TurnRow
         /\ [r EXCEPT !.state = "interrupted"] \in TurnRow
BY DEF TurnRow

(* The stamp EnqueueInbound gives is a natural number.                     *)
LEMMA StampIsNat ==
  Cardinality({n \in Messages : row[n] # "none"}) \in Nat
<1>1. IsFiniteSet({n \in Messages : row[n] # "none"})
  BY FS_Subset
<1>2. QED  BY <1>1, FS_CardinalityType

(* StartGateway fills every queue with a list of messages.                 *)
LEMMA RefillType ==
  ASSUME StartGateway
  PROVE  queue' \in [Sessions -> Seq(Messages \cup {Shutdown})]
<1>1. queue' \in [Sessions -> UNION {[1..n -> Messages] :
                                       n \in 0..Cardinality(Messages)}]
  BY DEF StartGateway
<1>2. ASSUME NEW s \in Sessions
      PROVE  queue'[s] \in Seq(Messages \cup {Shutdown})
  <2>1. PICK n \in 0..Cardinality(Messages) : queue'[s] \in [1..n -> Messages]
    BY <1>1
  <2>2. n \in Nat  BY <2>1, MessagesCard
  <2>3. QED  BY <2>1, <2>2, ListIsSeq
<1>3. QED  BY <1>1, <1>2

-----------------------------------------------------------------------------
(* Type correctness.                                                       *)

(* The initial state has the types.                                        *)
LEMMA TypeInit == Init => TypeOK
BY DEF Init, TypeOK, Idle, Outcomes

(* submit() and register_channel() keep the types.                         *)
LEMMA SubmitType ==
  ASSUME TypeOK, (\E m \in Messages : EnqueueInbound(m)) \/ Enqueue
                 \/ (\E s \in Sessions : RegisterChannel(s))
  PROVE  TypeOK'
<1> USE DEF TypeOK, Idle, Dispatching
<1>1. ASSUME NEW m \in Messages, EnqueueInbound(m)  PROVE TypeOK'
  <2>1. stamp' \in [Messages -> Nat]
    BY <1>1, StampIsNat DEF EnqueueInbound
  <2>2. QED  BY <1>1, <2>1 DEF EnqueueInbound, history
<1>2. ASSUME Enqueue  PROVE TypeOK'
  <2>1. Head(putting) \in Messages /\ Tail(putting) \in Seq(Messages)
    BY <1>2 DEF Enqueue
  <2>2. SessionOf[Head(putting)] \in Sessions  BY <2>1
  <2>3. queue' \in [Sessions -> Seq(Messages \cup {Shutdown})]
    <3>1. queue' = [queue EXCEPT ![SessionOf[Head(putting)]] = Append(@, Head(putting))]
      BY <1>2 DEF Enqueue
    <3>2. Append(queue[SessionOf[Head(putting)]], Head(putting))
            \in Seq(Messages \cup {Shutdown})
      BY <2>1, <2>2
    <3>3. QED  BY <2>2, <3>1, <3>2
  <2>4. worker' \in [Sessions -> Idle \cup Dispatching]
    BY <1>2, <2>2 DEF Enqueue, EnsureWorker
  <2>5. /\ putting' = Tail(putting)
        /\ UNCHANGED <<row, stamp, turns, phase, cur, turn, flagged, gathered, life, outcome>>
    BY <1>2 DEF Enqueue, history, durable
  <2>6. QED  BY <2>1, <2>3, <2>4, <2>5
<1>3. ASSUME NEW s \in Sessions, RegisterChannel(s)  PROVE TypeOK'
  BY <1>3 DEF RegisterChannel, EnsureWorker, history, durable
<1>4. QED  BY <1>1, <1>2, <1>3

(* q.get() keeps the types: what is taken off a queue was on it.           *)
LEMMA TakeType ==
  ASSUME TypeOK, NEW s \in Sessions, Take(s)
  PROVE  TypeOK'
<1> USE DEF TypeOK, Idle, Dispatching, Outcomes
<1>1. /\ Head(queue[s]) \in Messages \cup {Shutdown}
      /\ Tail(queue[s]) \in Seq(Messages \cup {Shutdown})
  BY DEF Take
<1>2. queue' \in [Sessions -> Seq(Messages \cup {Shutdown})]
  BY <1>1 DEF Take
<1>3. CASE Head(queue[s]) = Shutdown
  <2>1. /\ worker' = [worker EXCEPT ![s] = "dead"]
        /\ UNCHANGED <<cur, outcome, durable, phase, putting, turn, flagged, gathered, life>>
    BY <1>3 DEF Take
  <2>2. QED  BY <1>2, <2>1 DEF durable
<1>4. CASE Head(queue[s]) # Shutdown
  <2>1. Head(queue[s]) \in Messages  BY <1>1, <1>4
  <2>2. /\ worker' = [worker EXCEPT ![s] = "taken"]
        /\ cur' = [cur EXCEPT ![s] = Head(queue[s])]
        /\ outcome' = [outcome EXCEPT ![Head(queue[s])] = "none"]
        /\ UNCHANGED <<durable, phase, putting, turn, flagged, gathered, life>>
    BY <1>4 DEF Take, Note
  <2>3. QED  BY <1>2, <2>1, <2>2 DEF durable
<1>5. QED  BY <1>3, <1>4

(* What holds of the message a worker is dispatching is part of the        *)
(* inductive invariant; typing needs only that it is a message.            *)
CurIsMessage == \A s \in Sessions :
                  worker[s] \in Dispatching => cur[s] \in Messages

(* Every step of a dispatch keeps the types.                               *)
LEMMA DispatchType ==
  ASSUME TypeOK, CurIsMessage, NEW s \in Sessions,
         \/ Prepare(s) \/ UserEventFails(s) \/ StartTurn(s) \/ EndTurn(s)
         \/ ErrorTurn(s) \/ MarkDelivered(s) \/ MarkFails(s) \/ CutMark(s)
  PROVE  TypeOK'
<1> USE DEF TypeOK, CurIsMessage, Idle, Dispatching, Outcomes
<1>1. CASE Prepare(s)
  BY <1>1 DEF Prepare, durable
<1>2. CASE UserEventFails(s)
  BY <1>2 DEF UserEventFails, Note, durable
<1>3. CASE StartTurn(s)
  <2>1. [msg |-> cur[s], life |-> life, state |-> "open", seen |-> "nothing"]
          \in TurnRow
    BY <1>3 DEF StartTurn, TurnRow
  <2>2. turns' \in Seq(TurnRow) /\ Len(turns) + 1 \in Nat
    BY <1>3, <2>1 DEF StartTurn
  <2>3. QED  BY <1>3, <2>2 DEF StartTurn, history
<1>4. CASE EndTurn(s)
  <2>1. turns' \in Seq(TurnRow)
    <3>1. turn[s] \in DOMAIN turns => turns[turn[s]] \in TurnRow
      OBVIOUS
    <3>2. QED  BY <1>4, <3>1, RowUpdate, TableUpdate DEF EndTurn
  <2>2. QED  BY <1>4, <2>1 DEF EndTurn, Note
<1>5. CASE ErrorTurn(s)
  <2>1. turns' \in Seq(TurnRow)
    <3>1. turn[s] \in DOMAIN turns => turns[turn[s]] \in TurnRow
      OBVIOUS
    <3>2. [turns EXCEPT ![turn[s]] = [@ EXCEPT !.seen = "error"]]
            \in Seq(TurnRow)
      BY <3>1, RowUpdate, TableUpdate
    <3>3. QED  BY <1>5, <3>2 DEF ErrorTurn
  <2>2. QED  BY <1>5, <2>1 DEF ErrorTurn, Note
<1>6. CASE MarkDelivered(s)
  BY <1>6 DEF MarkDelivered, Delivered, history
<1>7. CASE MarkFails(s)
  BY <1>7 DEF MarkFails, Unmarked, Note, durable
<1>8. CASE CutMark(s)
  BY <1>8 DEF CutMark, Delivered, history
<1>9. QED  BY <1>1, <1>2, <1>3, <1>4, <1>5, <1>6, <1>7, <1>8

(* Boot, recovery, start, stop and the end of the process keep the types.  *)
LEMMA LifeType ==
  ASSUME TypeOK, Stop \/ Exit \/ Crash \/ Boot \/ Recover \/ StartGateway
  PROVE  TypeOK'
<1> USE DEF TypeOK, Idle, Dispatching, Outcomes
<1>1. CASE Stop
  <2>1. queue' \in [Sessions -> Seq(Messages \cup {Shutdown})]
    BY <1>1 DEF Stop, WithSentinel
  <2>2. /\ worker' \in [Sessions -> Idle \cup Dispatching]
        /\ cur' \in [Sessions -> Messages \cup {NoMsg}]
        /\ outcome' \in [Messages -> Outcomes]
    BY <1>1 DEF Stop
  <2>3. QED  BY <1>1, <2>1, <2>2 DEF Stop, durable
<1>2. CASE Exit \/ Crash
  <2>1. PICK p \in {"down", "stopped"} :
          ProcessGone(p) /\ UNCHANGED <<durable, history>>
    BY <1>2 DEF Exit, Crash
  <2>2. \A s \in Sessions : <<>> \in Seq(Messages \cup {Shutdown})
    OBVIOUS
  <2>3. queue' \in [Sessions -> Seq(Messages \cup {Shutdown})]
    BY <2>1, <2>2 DEF ProcessGone
  <2>4. QED  BY <2>1, <2>3 DEF ProcessGone, durable, history
<1>3. CASE Boot
  BY <1>3 DEF Boot, durable
<1>4. CASE Recover
  <2>1. PICK i \in DOMAIN turns : RecoverTurn(i)  BY <1>4 DEF Recover
  <2>a. turns[i] \in TurnRow  BY <2>1
  <2>2. turns' \in Seq(TurnRow)
    BY <2>1, <2>a, RowUpdate, TableUpdate DEF RecoverTurn
  <2>3. SessionOf[turns[i].msg] \in Sessions  BY <2>a DEF TurnRow
  <2>4. QED  BY <2>1, <2>2, <2>3 DEF RecoverTurn
<1>5. CASE StartGateway
  BY <1>5, RefillType DEF StartGateway, durable, history
<1>6. QED  BY <1>1, <1>2, <1>3, <1>4, <1>5

-----------------------------------------------------------------------------
(* The inductive invariant.                                                *)

(* Nothing survives in memory before the server is up.                     *)
DownIsEmpty ==
  phase \in {"down", "stopped", "recovering"} =>
    /\ putting = <<>>
    /\ \A s \in Sessions : queue[s] = <<>> /\ worker[s] = "none"

(* A dispatching worker holds an undelivered message of its session; any   *)
(* other worker holds none.                                                *)
WorkerHolds ==
  \A s \in Sessions :
    IF worker[s] \in Dispatching
    THEN /\ cur[s] \in Messages
         /\ SessionOf[cur[s]] = s
         /\ row[cur[s]] = "undelivered"
    ELSE cur[s] = NoMsg

(* A session's queue holds messages of that session that are undelivered   *)
(* and in no other place.                                                  *)
QueueHolds ==
  \A s \in Sessions : \A i \in DOMAIN queue[s] :
    queue[s][i] # Shutdown =>
      /\ SessionOf[queue[s][i]] = s
      /\ row[queue[s][i]] = "undelivered"
      /\ queue[s][i] # cur[s]
      /\ \A j \in DOMAIN queue[s] : queue[s][i] = queue[s][j] => i = j

(* So do the submit() calls that have not reached their put.               *)
PuttingHolds ==
  \A i \in DOMAIN putting :
    /\ row[putting[i]] = "undelivered"
    /\ putting[i] # cur[SessionOf[putting[i]]]
    /\ putting[i] \notin SeqRange(queue[SessionOf[putting[i]]])
    /\ \A j \in DOMAIN putting : putting[i] = putting[j] => i = j

(* Until stop() every worker is alive, no queue holds the sentinel, and    *)
(* only a session with a worker has anything queued.                       *)
UpIsAlive ==
  phase = "up" =>
    \A s \in Sessions :
      /\ worker[s] \notin {"dead", "cut"}
      /\ Shutdown \notin SeqRange(queue[s])
      /\ worker[s] = "none" => queue[s] = <<>>

(* A message that is about to be marked, or is marked, was dispatched.     *)
Dispatched == {"answered", "errored", "skipped", "cut"}
ClosingWasDispatched ==
  \A s \in Sessions :
    worker[s] \in {"closing", "cut"} => outcome[cur[s]] \in Dispatched

IInv == /\ TypeOK
        /\ DownIsEmpty /\ WorkerHolds /\ QueueHolds /\ PuttingHolds
        /\ UpIsAlive /\ ClosingWasDispatched
        /\ AcceptedIsHeld /\ DeliveredWasDispatched

-----------------------------------------------------------------------------
(* Elements of queues.                                                     *)

(* What is on a queue after a put.                                         *)
LEMMA AppendElems ==
  ASSUME NEW S, NEW q \in Seq(S), NEW x \in S
  PROVE  /\ Append(q, x) \in Seq(S)
         /\ SeqRange(Append(q, x)) = SeqRange(q) \cup {x}
         /\ DOMAIN Append(q, x) = 1..(Len(q) + 1)
         /\ \A i \in DOMAIN Append(q, x) :
              IF i = Len(q) + 1 THEN Append(q, x)[i] = x
              ELSE i \in DOMAIN q /\ Append(q, x)[i] = q[i]
<1>1. /\ Append(q, x) \in Seq(S)
      /\ DOMAIN Append(q, x) = 1..(Len(q) + 1)
      /\ DOMAIN q = 1..Len(q)
      /\ Len(q) \in Nat
      /\ \A i \in 1..Len(q) : Append(q, x)[i] = q[i]
      /\ Append(q, x)[Len(q) + 1] = x
  BY AppendProperties, LenProperties
<1>2. \A i \in DOMAIN Append(q, x) :
        IF i = Len(q) + 1 THEN Append(q, x)[i] = x
        ELSE i \in DOMAIN q /\ Append(q, x)[i] = q[i]
  BY <1>1
<1>3. SeqRange(Append(q, x)) = SeqRange(q) \cup {x}
  <2>1. \A i \in DOMAIN q : i \in DOMAIN Append(q, x)  BY <1>1
  <2>2. Len(q) + 1 \in DOMAIN Append(q, x)  BY <1>1
  <2>3. QED  BY <1>1, <1>2, <2>1, <2>2 DEF SeqRange
<1>4. QED  BY <1>1, <1>2, <1>3

(* What is on a queue after a get.                                         *)
LEMMA TailElems ==
  ASSUME NEW S, NEW q \in Seq(S), q # <<>>
  PROVE  /\ Head(q) \in S /\ Tail(q) \in Seq(S)
         /\ 1 \in DOMAIN q /\ q[1] = Head(q)
         /\ SeqRange(q) = SeqRange(Tail(q)) \cup {Head(q)}
         /\ \A i \in DOMAIN Tail(q) :
              i + 1 \in DOMAIN q /\ Tail(q)[i] = q[i + 1] /\ i \in Nat
<1>1. /\ Head(q) \in S /\ Tail(q) \in Seq(S)
      /\ Len(q) \in Nat /\ Len(q) # 0
      /\ DOMAIN q = 1..Len(q) /\ DOMAIN Tail(q) = 1..(Len(q) - 1)
      /\ q[1] = Head(q)
      /\ \A i \in 1..(Len(q) - 1) : Tail(q)[i] = q[i + 1]
  <2>1. Len(q) \in Nat /\ Len(q) # 0 /\ DOMAIN q = 1..Len(q)
    BY EmptySeq, LenProperties
  <2>2. /\ Head(q) \in S /\ Tail(q) \in Seq(S) /\ Len(Tail(q)) = Len(q) - 1
        /\ \A i \in 1..(Len(q) - 1) : Tail(q)[i] = q[i + 1]
    BY HeadTailProperties
  <2>3. DOMAIN Tail(q) = 1..(Len(q) - 1)  BY <2>2, LenProperties
  <2>4. QED  BY <2>1, <2>2, <2>3
<1>2. \A i \in DOMAIN Tail(q) :
        i + 1 \in DOMAIN q /\ Tail(q)[i] = q[i + 1] /\ i \in Nat
  BY <1>1
<1>3. SeqRange(q) = SeqRange(Tail(q)) \cup {Head(q)}
  <2>1. \A i \in DOMAIN q : i = 1 \/ (i - 1 \in DOMAIN Tail(q) /\ q[i] = Tail(q)[i - 1])
    BY <1>1
  <2>2. SeqRange(q) \subseteq SeqRange(Tail(q)) \cup {Head(q)}
    <3>1. ASSUME NEW i \in DOMAIN q
          PROVE  q[i] \in SeqRange(Tail(q)) \cup {Head(q)}
      <4>1. CASE i = 1  BY <4>1, <1>1
      <4>2. CASE i # 1
        <5>1. i - 1 \in DOMAIN Tail(q) /\ q[i] = Tail(q)[i - 1]
          BY <2>1, <4>2
        <5>2. QED  BY <5>1 DEF SeqRange
      <4>3. QED  BY <4>1, <4>2
    <3>2. QED  BY <3>1 DEF SeqRange
  <2>3. SeqRange(Tail(q)) \subseteq SeqRange(q)
    BY <1>2 DEF SeqRange
  <2>4. Head(q) \in SeqRange(q)
    <3>1. 1 \in DOMAIN q /\ q[1] = Head(q)  BY <1>1
    <3>2. QED  BY <3>1 DEF SeqRange
  <2>5. QED  BY <2>2, <2>3, <2>4
<1>4. QED  BY <1>1, <1>2, <1>3

-----------------------------------------------------------------------------
(* Every step preserves the invariant.                                     *)

(* What the invariant says of types.                                       *)
LEMMA InvImpliesTyped == IInv => TypeOK /\ CurIsMessage
BY DEF IInv, WorkerHolds, CurIsMessage

(* The invariant holds before the first start.                             *)
LEMMA InitInv == Init => IInv
<1> SUFFICES ASSUME Init PROVE IInv
  OBVIOUS
<1>1. TypeOK  BY TypeInit
<1>2. DownIsEmpty /\ WorkerHolds /\ QueueHolds /\ PuttingHolds
  BY DEF Init, DownIsEmpty, WorkerHolds, QueueHolds, PuttingHolds, Dispatching
<1>3. UpIsAlive /\ ClosingWasDispatched /\ AcceptedIsHeld
  BY DEF Init, UpIsAlive, ClosingWasDispatched, AcceptedIsHeld
<1>4. DeliveredWasDispatched  BY DEF Init, DeliveredWasDispatched
<1>5. QED  BY <1>1, <1>2, <1>3, <1>4 DEF IInv

(* submit(), up to its commit, keeps the invariant: the row is new.        *)
LEMMA EnqueueInboundInv ==
  ASSUME IInv, NEW m \in Messages, EnqueueInbound(m)
  PROVE  IInv'
<1>1. TypeOK /\ TypeOK'  BY SubmitType DEF IInv
<1>2. /\ row' = [row EXCEPT ![m] = "undelivered"] /\ row[m] = "none"
      /\ putting' = Append(putting, m)
      /\ phase \in {"up", "stopping"}
      /\ UNCHANGED <<phase, queue, worker, cur, outcome>>
  BY DEF EnqueueInbound, history
<1>3. /\ SeqRange(putting') = SeqRange(putting) \cup {m}
      /\ \A i \in DOMAIN putting' :
           IF i = Len(putting) + 1 THEN putting'[i] = m
           ELSE i \in DOMAIN putting /\ putting'[i] = putting[i]
  <2>1. putting \in Seq(Messages) /\ putting' = Append(putting, m)  BY <1>1, <1>2 DEF TypeOK
  <2>2. QED  BY <2>1, AppendElems
<1>4. /\ m \notin SeqRange(putting)
      /\ \A s \in Sessions : m \notin SeqRange(queue[s]) /\ m # cur[s]
  <2>1. PuttingHolds /\ QueueHolds /\ WorkerHolds  BY DEF IInv
  <2>2. m \notin SeqRange(putting)  BY <1>2, <2>1 DEF PuttingHolds, SeqRange
  <2>3. ASSUME NEW s \in Sessions PROVE m \notin SeqRange(queue[s])
    <3>1. m # Shutdown  BY GatewayAssumption
    <3>2. QED  BY <1>2, <2>1, <3>1 DEF QueueHolds, SeqRange
  <2>4. ASSUME NEW s \in Sessions PROVE m # cur[s]
    <3>1. m # NoMsg  BY GatewayAssumption
    <3>2. QED  BY <1>2, <2>1, <3>1 DEF WorkerHolds
  <2>5. QED  BY <2>2, <2>3, <2>4
<1>5. DownIsEmpty'  BY <1>2 DEF DownIsEmpty
<1>6. WorkerHolds'  BY <1>1, <1>2 DEF IInv, WorkerHolds, TypeOK
<1>7. QueueHolds'
  BY <1>1, <1>2, <1>4, SMTT(30) DEF IInv, QueueHolds, SeqRange, TypeOK
<1>8. PuttingHolds'
  <2>1. SessionOf[m] \in Sessions  OBVIOUS
  <2>2. ASSUME NEW i \in DOMAIN putting'
        PROVE  /\ row'[putting'[i]] = "undelivered"
               /\ putting'[i] # cur'[SessionOf[putting'[i]]]
               /\ putting'[i] \notin SeqRange(queue'[SessionOf[putting'[i]]])
    <3>1. CASE i = Len(putting) + 1
      <4>1. putting'[i] = m  BY <1>3, <3>1
      <4>2. row'[m] = "undelivered"  BY <1>1, <1>2 DEF TypeOK
      <4>3. QED  BY <1>2, <1>4, <2>1, <4>1, <4>2
    <3>2. CASE i # Len(putting) + 1
      <4>1. i \in DOMAIN putting /\ putting'[i] = putting[i]
        BY <1>3, <3>2
      <4>2. /\ row[putting[i]] = "undelivered"
            /\ putting[i] # cur[SessionOf[putting[i]]]
            /\ putting[i] \notin SeqRange(queue[SessionOf[putting[i]]])
        BY <4>1 DEF IInv, PuttingHolds
      <4>3. putting[i] # m  BY <1>2, <4>2
      <4>4. row'[putting[i]] = row[putting[i]]  BY <1>1, <1>2, <4>3 DEF TypeOK
      <4>5. QED  BY <1>2, <4>1, <4>2, <4>4
    <3>3. QED  BY <3>1, <3>2
  <2>3. \A i, j \in DOMAIN putting' : putting'[i] = putting'[j] => i = j
    BY <1>3, <1>4 DEF IInv, PuttingHolds, SeqRange
  <2>4. QED  BY <2>2, <2>3 DEF PuttingHolds
<1>9. UpIsAlive' /\ ClosingWasDispatched'
  BY <1>2 DEF IInv, UpIsAlive, ClosingWasDispatched
<1>10. AcceptedIsHeld'
  BY <1>1, <1>2, <1>3 DEF IInv, AcceptedIsHeld, TypeOK
<1>11. DeliveredWasDispatched'
  BY <1>1, <1>2 DEF IInv, DeliveredWasDispatched, TypeOK
<1>12. QED
  BY <1>1, <1>5, <1>6, <1>7, <1>8, <1>9, <1>10, <1>11 DEF IInv

(* The put of submit() keeps the invariant: the message was in `putting`   *)
(* only, and its session has a worker from now on.                         *)
LEMMA EnqueueInv ==
  ASSUME IInv, Enqueue
  PROVE  IInv'
<1> DEFINE m == Head(putting)
           s == SessionOf[m]
<1>1. TypeOK /\ TypeOK'  BY SubmitType DEF IInv
<1>2. /\ putting # <<>> /\ putting' = Tail(putting)
      /\ worker' = [worker EXCEPT ![s] = IF @ = "none" THEN "idle" ELSE @]
      /\ queue' = [queue EXCEPT ![s] = Append(@, m)]
      /\ UNCHANGED <<row, phase, cur, outcome>>
  BY DEF Enqueue, EnsureWorker, durable, history
<1>3. /\ m \in Messages
      /\ 1 \in DOMAIN putting /\ putting[1] = m
      /\ SeqRange(putting) = SeqRange(putting') \cup {m}
      /\ \A i \in DOMAIN putting' :
           i + 1 \in DOMAIN putting /\ putting'[i] = putting[i + 1] /\ i \in Nat
  BY <1>1, <1>2, TailElems DEF TypeOK
<1>4. s \in Sessions  BY <1>3
<1>5. /\ SeqRange(queue'[s]) = SeqRange(queue[s]) \cup {m}
      /\ \A i \in DOMAIN queue'[s] :
           IF i = Len(queue[s]) + 1 THEN queue'[s][i] = m
           ELSE i \in DOMAIN queue[s] /\ queue'[s][i] = queue[s][i]
      /\ \A z \in Sessions : z # s => queue'[z] = queue[z]
  <2>1. queue[s] \in Seq(Messages \cup {Shutdown})
        /\ m \in Messages \cup {Shutdown}
    BY <1>1, <1>3, <1>4 DEF TypeOK
  <2>2. queue'[s] = Append(queue[s], m)  BY <1>1, <1>2, <1>4 DEF TypeOK
  <2>3. \A z \in Sessions : z # s => queue'[z] = queue[z]
    BY <1>1, <1>2 DEF TypeOK
  <2>4. /\ SeqRange(Append(queue[s], m)) = SeqRange(queue[s]) \cup {m}
        /\ \A i \in DOMAIN Append(queue[s], m) :
             IF i = Len(queue[s]) + 1 THEN Append(queue[s], m)[i] = m
             ELSE i \in DOMAIN queue[s] /\ Append(queue[s], m)[i] = queue[s][i]
    BY <2>1, AppendElems
  <2>5. QED  BY <2>2, <2>3, <2>4
<1>6. /\ row[m] = "undelivered" /\ m # cur[s]
      /\ m \notin SeqRange(queue[s]) /\ m \notin SeqRange(putting')
  <2>1. ASSUME NEW i \in DOMAIN putting', putting'[i] = m
        PROVE  FALSE
    <3>1. i + 1 \in DOMAIN putting /\ putting[i + 1] = m /\ i \in Nat
      BY <1>3, <2>1
    <3>2. \A j \in DOMAIN putting : putting[j] = m => j = 1
      BY <1>3 DEF IInv, PuttingHolds
    <3>3. i + 1 = 1  BY <3>1, <3>2
    <3>4. i \notin DOMAIN putting'
      <4>1. Tail(putting) \in Seq(Messages)
        BY <1>1, <1>2, TailElems DEF TypeOK
      <4>2. QED  BY <1>2, <3>1, <3>3, <4>1, LenProperties
    <3>5. QED  BY <2>1, <3>4
  <2>a. m \notin SeqRange(putting')  BY <2>1 DEF SeqRange
  <2>2. QED  BY <1>3, <2>a DEF IInv, PuttingHolds
<1>7. DownIsEmpty'
  BY <1>2 DEF IInv, DownIsEmpty
<1>8. WorkerHolds'
  <2> SUFFICES ASSUME NEW z \in Sessions
               PROVE  IF worker'[z] \in Dispatching
                      THEN /\ cur'[z] \in Messages
                           /\ SessionOf[cur'[z]] = z
                           /\ row'[cur'[z]] = "undelivered"
                      ELSE cur'[z] = NoMsg
    BY DEF WorkerHolds
  <2>1. worker'[z] \in Dispatching <=> worker[z] \in Dispatching
    BY <1>1, <1>2 DEF TypeOK, Dispatching
  <2>2. QED  BY <1>2, <2>1 DEF IInv, WorkerHolds
<1>9. QueueHolds'
  <2> SUFFICES ASSUME NEW z \in Sessions, NEW i \in DOMAIN queue'[z],
                      queue'[z][i] # Shutdown
               PROVE  /\ SessionOf[queue'[z][i]] = z
                      /\ row'[queue'[z][i]] = "undelivered"
                      /\ queue'[z][i] # cur'[z]
                      /\ \A j \in DOMAIN queue'[z] :
                           queue'[z][i] = queue'[z][j] => i = j
    BY DEF QueueHolds
  <2>1. CASE z # s
    BY <1>2, <1>5, <2>1 DEF IInv, QueueHolds
  <2>2. CASE z = s
    BY <1>2, <1>5, <1>6, <2>2 DEF IInv, QueueHolds, SeqRange
  <2>3. QED  BY <2>1, <2>2
<1>10. PuttingHolds'
  <2> SUFFICES ASSUME NEW i \in DOMAIN putting'
               PROVE  /\ row'[putting'[i]] = "undelivered"
                      /\ putting'[i] # cur'[SessionOf[putting'[i]]]
                      /\ putting'[i] \notin SeqRange(queue'[SessionOf[putting'[i]]])
                      /\ \A j \in DOMAIN putting' :
                           putting'[i] = putting'[j] => i = j
    BY DEF PuttingHolds
  <2>1. /\ row'[putting'[i]] = "undelivered"
        /\ putting'[i] # cur'[SessionOf[putting'[i]]]
        /\ putting'[i] \notin SeqRange(queue[SessionOf[putting'[i]]])
        /\ \A j \in DOMAIN putting' : putting'[i] = putting'[j] => i = j
    BY <1>2, <1>3 DEF IInv, PuttingHolds
  <2>2. putting'[i] # m  BY <1>6 DEF SeqRange
  <2>a. SessionOf[putting'[i]] \in Sessions
    <3>1. putting' \in Seq(Messages)  BY <1>1 DEF TypeOK
    <3>2. putting'[i] \in Messages  BY <3>1, ElementOfSeq, LenProperties
    <3>3. QED  BY <3>2
  <2>b. SeqRange(queue'[SessionOf[putting'[i]]])
          \subseteq SeqRange(queue[SessionOf[putting'[i]]]) \cup {m}
    BY <1>5, <2>a
  <2>3. QED  BY <1>2, <2>1, <2>2, <2>b
<1>11. UpIsAlive'
  <2> SUFFICES ASSUME phase' = "up", NEW z \in Sessions
               PROVE  /\ worker'[z] \notin {"dead", "cut"}
                      /\ Shutdown \notin SeqRange(queue'[z])
                      /\ worker'[z] = "none" => queue'[z] = <<>>
    BY DEF UpIsAlive
  <2>1. /\ worker[z] \notin {"dead", "cut"}
        /\ Shutdown \notin SeqRange(queue[z])
        /\ worker[z] = "none" => queue[z] = <<>>
    BY <1>2 DEF IInv, UpIsAlive
  <2>2. CASE z # s  BY <1>1, <1>2, <1>4, <1>5, <2>1, <2>2 DEF TypeOK
  <2>3. CASE z = s
    <3>1. worker'[s] = IF worker[s] = "none" THEN "idle" ELSE worker[s]
      BY <1>1, <1>2, <1>4 DEF TypeOK
    <3>2. Shutdown # m  BY <1>3
    <3>3. QED  BY <1>5, <2>1, <2>3, <3>1, <3>2
  <2>4. QED  BY <2>2, <2>3
<1>12. ClosingWasDispatched'
  BY <1>1, <1>2, <1>4 DEF IInv, ClosingWasDispatched, TypeOK
<1>13. AcceptedIsHeld'
  <2> SUFFICES ASSUME phase' = "up", NEW n \in Messages,
                      row'[n] = "undelivered"
               PROVE  \/ n \in SeqRange(putting')
                      \/ /\ worker'[SessionOf[n]] \in {"idle"} \cup Dispatching
                         /\ \/ n \in SeqRange(queue'[SessionOf[n]])
                            \/ n = cur'[SessionOf[n]]
                      \/ outcome'[n] = "unmarked"
    BY DEF AcceptedIsHeld
  <2>1. \/ n \in SeqRange(putting)
        \/ /\ worker[SessionOf[n]] \in {"idle"} \cup Dispatching
           /\ \/ n \in SeqRange(queue[SessionOf[n]])
              \/ n = cur[SessionOf[n]]
        \/ outcome[n] = "unmarked"
    BY <1>2 DEF IInv, AcceptedIsHeld
  <2>2. SessionOf[n] \in Sessions  OBVIOUS
  <2>3. CASE n = m
    <3>1. worker[s] \notin {"dead", "cut"}
      BY <1>2, <1>4 DEF IInv, UpIsAlive
    <3>2. worker'[s] \in {"idle"} \cup Dispatching
      BY <1>1, <1>2, <1>4, <3>1 DEF TypeOK, Idle, Dispatching
    <3>3. QED  BY <1>5, <2>3, <3>2
  <2>4. CASE n # m
    <3>a. worker'[SessionOf[n]] = IF SessionOf[n] = s /\ worker[s] = "none"
                                  THEN "idle" ELSE worker[SessionOf[n]]
      BY <1>1, <1>2, <1>4, <2>2 DEF TypeOK
    <3>1. worker[SessionOf[n]] \in {"idle"} \cup Dispatching
            => worker'[SessionOf[n]] = worker[SessionOf[n]]
      BY <3>a DEF Dispatching
    <3>2. SeqRange(queue[SessionOf[n]]) \subseteq SeqRange(queue'[SessionOf[n]])
      BY <1>5, <2>2
    <3>3. QED  BY <1>2, <1>3, <2>1, <2>4, <3>1, <3>2
  <2>5. QED  BY <2>3, <2>4
<1>14. DeliveredWasDispatched'
  BY <1>2 DEF IInv, DeliveredWasDispatched
<1>15. QED
  BY <1>1, <1>7, <1>8, <1>9, <1>10, <1>11, <1>12, <1>13, <1>14 DEF IInv

(* A channel that attaches keeps the invariant.                            *)
LEMMA RegisterChannelInv ==
  ASSUME IInv, NEW s \in Sessions, RegisterChannel(s)
  PROVE  IInv'
<1>1. TypeOK /\ TypeOK'  BY SubmitType DEF IInv
<1>2. /\ phase = "up" /\ worker[s] = "none"
      /\ UNCHANGED <<row, phase, queue, putting, cur, outcome>>
  BY DEF RegisterChannel, durable, history
<1>3. \A z \in Sessions : worker'[z] = IF z = s THEN "idle" ELSE worker[z]
  BY <1>1, <1>2 DEF RegisterChannel, EnsureWorker, TypeOK
<1>4. DownIsEmpty'  BY <1>2 DEF DownIsEmpty
<1>5. WorkerHolds'  BY <1>2, <1>3 DEF IInv, WorkerHolds, Dispatching
<1>6. QueueHolds' /\ PuttingHolds'  BY <1>2 DEF IInv, QueueHolds, PuttingHolds
<1>7. UpIsAlive'  BY <1>2, <1>3 DEF IInv, UpIsAlive
<1>8. ClosingWasDispatched'  BY <1>2, <1>3 DEF IInv, ClosingWasDispatched
<1>9. AcceptedIsHeld'
  BY <1>2, <1>3 DEF IInv, AcceptedIsHeld, Dispatching
<1>10. DeliveredWasDispatched'  BY <1>2 DEF IInv, DeliveredWasDispatched
<1>11. QED
  BY <1>1, <1>4, <1>5, <1>6, <1>7, <1>8, <1>9, <1>10 DEF IInv

(* A dispatch goes on: its worker keeps its message, and the outcome of    *)
(* that message is all that changes.                                       *)
LEMMA DispatchGoesOn ==
  ASSUME IInv, TypeOK', NEW s \in Sessions,
         NEW w \in Dispatching \ {"cut"}, NEW o \in Outcomes,
         worker[s] \in Dispatching \ {"cut"},
         worker' = [worker EXCEPT ![s] = w],
         outcome' = [outcome EXCEPT ![cur[s]] = o],
         w = "closing" => o \in Dispatched,
         UNCHANGED <<row, phase, queue, putting, cur>>
  PROVE  IInv'
<1>1. TypeOK  BY DEF IInv
<1>2. \A z \in Sessions : worker'[z] = IF z = s THEN w ELSE worker[z]
  BY <1>1 DEF TypeOK
<1>3. /\ cur[s] \in Messages /\ SessionOf[cur[s]] = s
      /\ row[cur[s]] = "undelivered"
  BY DEF IInv, WorkerHolds
<1>4. \A m \in Messages : outcome'[m] = IF m = cur[s] THEN o ELSE outcome[m]
  BY <1>1, <1>3 DEF TypeOK
<1>5. DownIsEmpty'
  BY DEF IInv, DownIsEmpty, Dispatching
<1>6. WorkerHolds'  BY <1>2 DEF IInv, WorkerHolds
<1>7. QueueHolds' /\ PuttingHolds'  BY DEF IInv, QueueHolds, PuttingHolds
<1>8. UpIsAlive'
  BY <1>2 DEF IInv, UpIsAlive, Dispatching
<1>9. ClosingWasDispatched'
  <2> SUFFICES ASSUME NEW z \in Sessions, worker'[z] \in {"closing", "cut"}
               PROVE  outcome'[cur'[z]] \in Dispatched
    BY DEF ClosingWasDispatched
  <2>1. CASE z = s  BY <1>2, <1>3, <1>4, <2>1
  <2>2. CASE z # s
    <3>1. worker[z] \in {"closing", "cut"}  BY <1>2, <2>2
    <3>2. cur[z] \in Messages /\ SessionOf[cur[z]] = z
      BY <3>1 DEF IInv, WorkerHolds, Dispatching
    <3>3. outcome[cur[z]] \in Dispatched
      BY <3>1 DEF IInv, ClosingWasDispatched
    <3>4. QED  BY <1>3, <1>4, <2>2, <3>2, <3>3
  <2>3. QED  BY <2>1, <2>2
<1>10. AcceptedIsHeld'
  <2> SUFFICES ASSUME phase' = "up", NEW n \in Messages,
                      row'[n] = "undelivered"
               PROVE  \/ n \in SeqRange(putting')
                      \/ /\ worker'[SessionOf[n]] \in {"idle"} \cup Dispatching
                         /\ \/ n \in SeqRange(queue'[SessionOf[n]])
                            \/ n = cur'[SessionOf[n]]
                      \/ outcome'[n] = "unmarked"
    BY DEF AcceptedIsHeld
  <2>1. CASE n = cur[s]  BY <1>2, <1>3, <2>1
  <2>2. CASE n # cur[s]
    <3>1. outcome'[n] = outcome[n]  BY <1>4, <2>2
    <3>2. worker'[SessionOf[n]] = IF SessionOf[n] = s THEN w
                                  ELSE worker[SessionOf[n]]
      BY <1>2
    <3>3. QED  BY <3>1, <3>2 DEF IInv, AcceptedIsHeld
  <2>3. QED  BY <2>1, <2>2
<1>11. DeliveredWasDispatched'
  BY <1>3, <1>4 DEF IInv, DeliveredWasDispatched, Dispatched
<1>12. QED
  BY <1>5, <1>6, <1>7, <1>8, <1>9, <1>10, <1>11 DEF IInv

(* A dispatch that goes on or reaches its `finally` keeps the invariant.   *)
LEMMA DispatchInv ==
  ASSUME IInv, NEW s \in Sessions,
         Prepare(s) \/ UserEventFails(s) \/ StartTurn(s) \/ EndTurn(s)
         \/ ErrorTurn(s)
  PROVE  IInv'
<1>1. TypeOK /\ TypeOK'  BY DispatchType, InvImpliesTyped
<1>2. CASE Prepare(s) \/ StartTurn(s)
  <2>1. PICK w \in {"prepared", "running"} :
          /\ worker' = [worker EXCEPT ![s] = w]
          /\ worker[s] \in {"taken", "prepared"}
          /\ UNCHANGED <<row, phase, queue, putting, cur, outcome>>
    BY <1>2 DEF Prepare, StartTurn, durable, history
  <2>2. cur[s] \in Messages
    BY <2>1 DEF IInv, WorkerHolds, Dispatching
  <2>3. /\ outcome[cur[s]] \in Outcomes
        /\ outcome' = [outcome EXCEPT ![cur[s]] = outcome[cur[s]]]
    BY <1>1, <2>1, <2>2 DEF TypeOK
  <2>4. QED  BY <1>1, <2>1, <2>3, DispatchGoesOn DEF Dispatching
<1>3. CASE UserEventFails(s) \/ EndTurn(s) \/ ErrorTurn(s)
  <2>1. PICK o \in {"skipped", "answered", "errored"} :
          /\ worker' = [worker EXCEPT ![s] = "closing"]
          /\ worker[s] \in {"taken", "prepared", "running"}
          /\ outcome' = [outcome EXCEPT ![cur[s]] = o]
          /\ UNCHANGED <<row, phase, queue, putting, cur>>
    BY <1>3 DEF UserEventFails, EndTurn, ErrorTurn, Note, durable
  <2>2. QED
    BY <1>1, <2>1, DispatchGoesOn DEF Dispatching, Dispatched, Outcomes
<1>4. QED  BY <1>2, <1>3

(* A dispatch ends with its row marked, by a worker that goes on or, once  *)
(* stop() has cut it, dies.                                                *)
LEMMA MarkedInv ==
  ASSUME IInv, NEW s \in Sessions, MarkDelivered(s) \/ CutMark(s)
  PROVE  IInv'
<1>1. TypeOK /\ TypeOK'  BY DispatchType, InvImpliesTyped
<1>2. PICK w \in {"idle", "dead"} :
        /\ worker' = [worker EXCEPT ![s] = w]
        /\ worker[s] = IF w = "idle" THEN "closing" ELSE "cut"
        /\ row' = [row EXCEPT ![cur[s]] = "delivered"]
        /\ cur' = [cur EXCEPT ![s] = NoMsg]
        /\ UNCHANGED <<phase, queue, putting, outcome>>
  BY DEF MarkDelivered, CutMark, Delivered, history
<1>3. /\ cur[s] \in Messages /\ SessionOf[cur[s]] = s
      /\ row[cur[s]] = "undelivered" /\ outcome[cur[s]] \in Dispatched
  BY <1>2 DEF IInv, WorkerHolds, ClosingWasDispatched, Dispatching
<1>4. \A z \in Sessions : /\ worker'[z] = IF z = s THEN w ELSE worker[z]
                          /\ cur'[z] = IF z = s THEN NoMsg ELSE cur[z]
  BY <1>1, <1>2 DEF TypeOK
<1>5. \A m \in Messages : row'[m] = IF m = cur[s] THEN "delivered" ELSE row[m]
  BY <1>1, <1>2, <1>3 DEF TypeOK
<1>6. w = "dead" => phase # "up"
  BY <1>2 DEF IInv, UpIsAlive
<1>7. DownIsEmpty'
  BY <1>2 DEF IInv, DownIsEmpty
<1>8. WorkerHolds'
  <2> SUFFICES ASSUME NEW z \in Sessions
               PROVE  IF worker'[z] \in Dispatching
                      THEN /\ cur'[z] \in Messages
                           /\ SessionOf[cur'[z]] = z
                           /\ row'[cur'[z]] = "undelivered"
                      ELSE cur'[z] = NoMsg
    BY DEF WorkerHolds
  <2>1. CASE z = s  BY <1>2, <1>4, <2>1 DEF Dispatching
  <2>2. CASE z # s
    <3>1. worker'[z] = worker[z] /\ cur'[z] = cur[z]  BY <1>4, <2>2
    <3>2. CASE worker[z] \in Dispatching
      <4>1. /\ cur[z] \in Messages /\ SessionOf[cur[z]] = z
            /\ row[cur[z]] = "undelivered"
        BY <3>2 DEF IInv, WorkerHolds
      <4>2. cur[z] # cur[s]  BY <1>3, <2>2, <4>1
      <4>3. QED  BY <1>5, <3>1, <3>2, <4>1, <4>2
    <3>3. CASE worker[z] \notin Dispatching
      BY <3>1, <3>3 DEF IInv, WorkerHolds
    <3>4. QED  BY <3>2, <3>3
  <2>3. QED  BY <2>1, <2>2
<1>9. QueueHolds'
  <2> SUFFICES ASSUME NEW z \in Sessions, NEW i \in DOMAIN queue[z],
                      queue[z][i] # Shutdown
               PROVE  /\ SessionOf[queue[z][i]] = z
                      /\ row'[queue[z][i]] = "undelivered"
                      /\ queue[z][i] # cur'[z]
                      /\ \A j \in DOMAIN queue[z] :
                           queue[z][i] = queue[z][j] => i = j
    BY <1>2 DEF QueueHolds
  <2>1. /\ SessionOf[queue[z][i]] = z
        /\ row[queue[z][i]] = "undelivered"
        /\ queue[z][i] # cur[z]
        /\ \A j \in DOMAIN queue[z] : queue[z][i] = queue[z][j] => i = j
    BY DEF IInv, QueueHolds
  <2>2. queue[z][i] \in Messages
    <3>1. queue[z] \in Seq(Messages \cup {Shutdown})  BY <1>1 DEF TypeOK
    <3>2. queue[z][i] \in Messages \cup {Shutdown}
      BY <3>1, ElementOfSeq, LenProperties
    <3>3. QED  BY <3>2
  <2>3. queue[z][i] # cur[s]  BY <1>3, <2>1
  <2>4. QED  BY <1>4, <1>5, <2>1, <2>2, <2>3
<1>10. PuttingHolds'
  <2> SUFFICES ASSUME NEW i \in DOMAIN putting
               PROVE  /\ row'[putting[i]] = "undelivered"
                      /\ putting[i] # cur'[SessionOf[putting[i]]]
                      /\ putting[i] \notin SeqRange(queue[SessionOf[putting[i]]])
                      /\ \A j \in DOMAIN putting :
                           putting[i] = putting[j] => i = j
    BY <1>2 DEF PuttingHolds
  <2>1. /\ row[putting[i]] = "undelivered"
        /\ putting[i] # cur[SessionOf[putting[i]]]
        /\ putting[i] \notin SeqRange(queue[SessionOf[putting[i]]])
        /\ \A j \in DOMAIN putting : putting[i] = putting[j] => i = j
    BY DEF IInv, PuttingHolds
  <2>2. putting[i] \in Messages /\ SessionOf[putting[i]] \in Sessions
    <3>1. putting \in Seq(Messages)  BY <1>1 DEF TypeOK
    <3>2. putting[i] \in Messages  BY <3>1, ElementOfSeq, LenProperties
    <3>3. QED  BY <3>2
  <2>3. putting[i] # cur[s]  BY <1>3, <2>1
  <2>4. QED  BY <1>4, <1>5, <2>1, <2>2, <2>3
<1>11. UpIsAlive'
  BY <1>2, <1>4, <1>6 DEF IInv, UpIsAlive
<1>12. ClosingWasDispatched'
  BY <1>2, <1>4 DEF IInv, ClosingWasDispatched
<1>13. AcceptedIsHeld'
  <2> SUFFICES ASSUME phase' = "up", NEW n \in Messages,
                      row'[n] = "undelivered"
               PROVE  \/ n \in SeqRange(putting')
                      \/ /\ worker'[SessionOf[n]] \in {"idle"} \cup Dispatching
                         /\ \/ n \in SeqRange(queue'[SessionOf[n]])
                            \/ n = cur'[SessionOf[n]]
                      \/ outcome'[n] = "unmarked"
    BY DEF AcceptedIsHeld
  <2>1. n # cur[s] /\ row[n] = "undelivered"  BY <1>5
  <2>2. w = "idle"  BY <1>2, <1>6
  <2>3. /\ worker'[SessionOf[n]] = IF SessionOf[n] = s THEN "idle"
                                   ELSE worker[SessionOf[n]]
        /\ cur'[SessionOf[n]] = IF SessionOf[n] = s THEN NoMsg
                                ELSE cur[SessionOf[n]]
    BY <1>4, <2>2
  <2>4. QED  BY <1>2, <2>1, <2>3 DEF IInv, AcceptedIsHeld
<1>14. DeliveredWasDispatched'
  BY <1>2, <1>3, <1>5 DEF IInv, DeliveredWasDispatched, Dispatched
<1>15. QED
  BY <1>1, <1>7, <1>8, <1>9, <1>10, <1>11, <1>12, <1>13, <1>14 DEF IInv

(* mark_delivered raises: the row stays undelivered, and says so.          *)
LEMMA MarkFailsInv ==
  ASSUME IInv, NEW s \in Sessions, MarkFails(s)
  PROVE  IInv'
<1>1. TypeOK /\ TypeOK'  BY DispatchType, InvImpliesTyped
<1>2. /\ worker' = [worker EXCEPT ![s] = "idle"]
      /\ worker[s] \in {"closing", "cut"}
      /\ outcome' = [outcome EXCEPT ![cur[s]] = "unmarked"]
      /\ cur' = [cur EXCEPT ![s] = NoMsg]
      /\ UNCHANGED <<row, phase, queue, putting>>
  BY DEF MarkFails, Unmarked, Note, durable
<1>3. /\ cur[s] \in Messages /\ SessionOf[cur[s]] = s
      /\ row[cur[s]] = "undelivered"
  BY <1>2 DEF IInv, WorkerHolds, Dispatching
<1>4. \A z \in Sessions : /\ worker'[z] = IF z = s THEN "idle" ELSE worker[z]
                          /\ cur'[z] = IF z = s THEN NoMsg ELSE cur[z]
  BY <1>1, <1>2 DEF TypeOK
<1>5. \A m \in Messages :
        outcome'[m] = IF m = cur[s] THEN "unmarked" ELSE outcome[m]
  BY <1>1, <1>2, <1>3 DEF TypeOK
<1>6. DownIsEmpty'  BY <1>2 DEF IInv, DownIsEmpty
<1>7. WorkerHolds'
  BY <1>2, <1>4 DEF IInv, WorkerHolds, Dispatching
<1>8. QueueHolds'
  <2> SUFFICES ASSUME NEW z \in Sessions, NEW i \in DOMAIN queue[z],
                      queue[z][i] # Shutdown
               PROVE  queue[z][i] # cur'[z]
    BY <1>2 DEF IInv, QueueHolds
  <2>1. queue[z][i] \in Messages \cup {Shutdown}
    <3>1. queue[z] \in Seq(Messages \cup {Shutdown})  BY <1>1 DEF TypeOK
    <3>2. QED  BY <3>1, ElementOfSeq, LenProperties
  <2>2. queue[z][i] # cur[z]  BY DEF IInv, QueueHolds
  <2>3. QED  BY <1>4, <2>1, <2>2
<1>9. PuttingHolds'
  <2> SUFFICES ASSUME NEW i \in DOMAIN putting
               PROVE  putting[i] # cur'[SessionOf[putting[i]]]
    BY <1>2 DEF IInv, PuttingHolds
  <2>1. putting[i] \in Messages
    <3>1. putting \in Seq(Messages)  BY <1>1 DEF TypeOK
    <3>2. QED  BY <3>1, ElementOfSeq, LenProperties
  <2>2. putting[i] # cur[SessionOf[putting[i]]]  BY DEF IInv, PuttingHolds
  <2>3. QED  BY <1>4, <2>1, <2>2
<1>10. UpIsAlive'  BY <1>2, <1>4 DEF IInv, UpIsAlive
<1>11. ClosingWasDispatched'
  <2> SUFFICES ASSUME NEW z \in Sessions, worker'[z] \in {"closing", "cut"}
               PROVE  outcome'[cur'[z]] \in Dispatched
    BY DEF ClosingWasDispatched
  <2>1. z # s /\ worker[z] \in {"closing", "cut"} /\ cur'[z] = cur[z]
    BY <1>4
  <2>2. cur[z] \in Messages /\ SessionOf[cur[z]] = z
    BY <2>1 DEF IInv, WorkerHolds, Dispatching
  <2>3. outcome[cur[z]] \in Dispatched
    BY <2>1 DEF IInv, ClosingWasDispatched
  <2>4. QED  BY <1>3, <1>5, <2>1, <2>2, <2>3
<1>12. AcceptedIsHeld'
  <2> SUFFICES ASSUME phase' = "up", NEW n \in Messages,
                      row'[n] = "undelivered", n # cur[s]
               PROVE  \/ n \in SeqRange(putting')
                      \/ /\ worker'[SessionOf[n]] \in {"idle"} \cup Dispatching
                         /\ \/ n \in SeqRange(queue'[SessionOf[n]])
                            \/ n = cur'[SessionOf[n]]
                      \/ outcome'[n] = "unmarked"
    BY <1>5 DEF AcceptedIsHeld
  <2>1. /\ worker'[SessionOf[n]] = IF SessionOf[n] = s THEN "idle"
                                   ELSE worker[SessionOf[n]]
        /\ cur'[SessionOf[n]] = IF SessionOf[n] = s THEN NoMsg
                                ELSE cur[SessionOf[n]]
        /\ outcome'[n] = outcome[n]
    BY <1>4, <1>5
  <2>2. QED  BY <1>2, <2>1 DEF IInv, AcceptedIsHeld
<1>13. DeliveredWasDispatched'
  BY <1>2, <1>3, <1>5 DEF IInv, DeliveredWasDispatched
<1>14. QED
  BY <1>1, <1>6, <1>7, <1>8, <1>9, <1>10, <1>11, <1>12, <1>13 DEF IInv

(* q.get() keeps the invariant: the message leaves the queue, once, and is *)
(* held by the worker.                                                     *)
LEMMA TakeInv ==
  ASSUME IInv, NEW s \in Sessions, Take(s)
  PROVE  IInv'
<1> DEFINE h == Head(queue[s])
<1>1. TypeOK /\ TypeOK'  BY TakeType DEF IInv
<1>2. /\ worker[s] = "idle" /\ queue[s] # <<>>
      /\ queue' = [queue EXCEPT ![s] = Tail(queue[s])]
      /\ UNCHANGED <<row, phase, putting>>
  BY DEF Take, durable
<1>3. queue[s] \in Seq(Messages \cup {Shutdown})  BY <1>1 DEF TypeOK
<1>4. /\ h \in Messages \cup {Shutdown}
      /\ 1 \in DOMAIN queue[s] /\ queue[s][1] = h
      /\ SeqRange(queue[s]) = SeqRange(Tail(queue[s])) \cup {h}
      /\ \A i \in DOMAIN Tail(queue[s]) :
           /\ i + 1 \in DOMAIN queue[s]
           /\ Tail(queue[s])[i] = queue[s][i + 1]
           /\ i \in Nat
  BY <1>2, <1>3, TailElems
<1>5. \A z \in Sessions :
        queue'[z] = IF z = s THEN Tail(queue[s]) ELSE queue[z]
  BY <1>1, <1>2 DEF TypeOK
<1>6. \A z \in Sessions : SeqRange(queue'[z]) \subseteq SeqRange(queue[z])
  BY <1>4, <1>5
<1>a. ASSUME NEW i \in DOMAIN Tail(queue[s]), Tail(queue[s])[i] # Shutdown
      PROVE  /\ SessionOf[Tail(queue[s])[i]] = s
             /\ row[Tail(queue[s])[i]] = "undelivered"
             /\ Tail(queue[s])[i] # cur[s]
             /\ \A j \in DOMAIN Tail(queue[s]) :
                  Tail(queue[s])[i] = Tail(queue[s])[j] => i = j
  <2>1. /\ i + 1 \in DOMAIN queue[s] /\ i \in Nat
        /\ Tail(queue[s])[i] = queue[s][i + 1]
    BY <1>4
  <2>2. /\ SessionOf[queue[s][i + 1]] = s
        /\ row[queue[s][i + 1]] = "undelivered"
        /\ queue[s][i + 1] # cur[s]
        /\ \A j \in DOMAIN queue[s] :
             queue[s][i + 1] = queue[s][j] => i + 1 = j
    BY <1>a, <2>1 DEF IInv, QueueHolds
  <2>3. ASSUME NEW j \in DOMAIN Tail(queue[s]),
               Tail(queue[s])[i] = Tail(queue[s])[j]
        PROVE  i = j
    <3>1. /\ j + 1 \in DOMAIN queue[s] /\ j \in Nat
          /\ Tail(queue[s])[j] = queue[s][j + 1]
      BY <1>4
    <3>2. i + 1 = j + 1  BY <2>1, <2>2, <2>3, <3>1
    <3>3. QED  BY <2>1, <3>1, <3>2
  <2>4. QED  BY <2>1, <2>2, <2>3
<1>7. DownIsEmpty'  BY <1>2 DEF IInv, DownIsEmpty
<1>8. CASE h = Shutdown
  <2>1. /\ \A z \in Sessions :
             worker'[z] = IF z = s THEN "dead" ELSE worker[z]
        /\ UNCHANGED <<cur, outcome>>
    BY <1>1, <1>8 DEF Take, TypeOK
  <2>2. phase # "up"
    <3>1. Shutdown \in SeqRange(queue[s])  BY <1>4, <1>8
    <3>2. QED  BY <3>1 DEF IInv, UpIsAlive
  <2>3. WorkerHolds'
    BY <1>2, <2>1 DEF IInv, WorkerHolds, Dispatching
  <2>4. QueueHolds'
    <3> SUFFICES ASSUME NEW z \in Sessions, NEW i \in DOMAIN queue'[z],
                        queue'[z][i] # Shutdown
                 PROVE  /\ SessionOf[queue'[z][i]] = z
                        /\ row[queue'[z][i]] = "undelivered"
                        /\ queue'[z][i] # cur[z]
                        /\ \A j \in DOMAIN queue'[z] :
                             queue'[z][i] = queue'[z][j] => i = j
      BY <1>2, <2>1 DEF QueueHolds
    <3>1. CASE z = s  BY <1>a, <1>5, <3>1
    <3>2. CASE z # s  BY <1>5, <3>2 DEF IInv, QueueHolds
    <3>3. QED  BY <3>1, <3>2
  <2>5. PuttingHolds'
    <3> SUFFICES ASSUME NEW i \in DOMAIN putting
                 PROVE  putting[i] \notin SeqRange(queue'[SessionOf[putting[i]]])
      BY <1>2, <2>1 DEF IInv, PuttingHolds
    <3>1. putting[i] \in Messages
      <4>1. putting \in Seq(Messages)  BY <1>1 DEF TypeOK
      <4>2. QED  BY <4>1, ElementOfSeq, LenProperties
    <3>2. QED  BY <1>6, <3>1 DEF IInv, PuttingHolds
  <2>6. UpIsAlive' /\ AcceptedIsHeld'
    BY <1>2, <2>2 DEF UpIsAlive, AcceptedIsHeld
  <2>7. ClosingWasDispatched'
    BY <2>1 DEF IInv, ClosingWasDispatched
  <2>8. DeliveredWasDispatched'
    BY <1>2, <2>1 DEF IInv, DeliveredWasDispatched
  <2>9. QED
    BY <1>1, <1>7, <2>3, <2>4, <2>5, <2>6, <2>7, <2>8 DEF IInv
<1>9. CASE h # Shutdown
  <2>1. h \in Messages  BY <1>4, <1>9
  <2>2. /\ \A z \in Sessions :
             /\ worker'[z] = IF z = s THEN "taken" ELSE worker[z]
             /\ cur'[z] = IF z = s THEN h ELSE cur[z]
        /\ \A m \in Messages : outcome'[m] = IF m = h THEN "none" ELSE outcome[m]
    <3>1. /\ worker' = [worker EXCEPT ![s] = "taken"]
          /\ cur' = [cur EXCEPT ![s] = h]
          /\ outcome' = [outcome EXCEPT ![h] = "none"]
      BY <1>9 DEF Take, Note
    <3>2. worker \in [Sessions -> Idle \cup Dispatching]
          /\ cur \in [Sessions -> Messages \cup {NoMsg}] /\ outcome \in [Messages -> Outcomes]
      BY <1>1 DEF TypeOK
    <3>3. QED  BY <2>1, <3>1, <3>2
  <2>3. SessionOf[h] = s /\ row[h] = "undelivered" /\ h # cur[s]
    BY <1>4, <1>9 DEF IInv, QueueHolds
  <2>4. h \notin SeqRange(queue'[s])
    <3> SUFFICES ASSUME NEW i \in DOMAIN Tail(queue[s]), Tail(queue[s])[i] = h
                 PROVE  FALSE
      BY <1>5 DEF SeqRange
    <3>1. i + 1 \in DOMAIN queue[s] /\ queue[s][i + 1] = h /\ i \in Nat
      BY <1>4
    <3>2. \A j \in DOMAIN queue[s] : queue[s][j] = h => j = 1
      BY <1>4, <1>9 DEF IInv, QueueHolds
    <3>3. i + 1 = 1  BY <3>1, <3>2
    <3>4. Tail(queue[s]) \in Seq(Messages \cup {Shutdown})
      BY <1>2, <1>3, TailElems
    <3>5. QED  BY <3>1, <3>3, <3>4, LenProperties
  <2>5. WorkerHolds'
    BY <1>2, <2>1, <2>2, <2>3 DEF IInv, WorkerHolds, Dispatching
  <2>6. QueueHolds'
    <3> SUFFICES ASSUME NEW z \in Sessions, NEW i \in DOMAIN queue'[z],
                        queue'[z][i] # Shutdown
                 PROVE  /\ SessionOf[queue'[z][i]] = z
                        /\ row[queue'[z][i]] = "undelivered"
                        /\ queue'[z][i] # cur'[z]
                        /\ \A j \in DOMAIN queue'[z] :
                             queue'[z][i] = queue'[z][j] => i = j
      BY <1>2 DEF QueueHolds
    <3>1. CASE z = s
      <4>1. queue'[s][i] # h  BY <2>4, <3>1 DEF SeqRange
      <4>2. queue'[s] = Tail(queue[s]) /\ cur'[s] = h  BY <1>5, <2>2
      <4>3. /\ SessionOf[Tail(queue[s])[i]] = s
            /\ row[Tail(queue[s])[i]] = "undelivered"
            /\ \A j \in DOMAIN Tail(queue[s]) :
                 Tail(queue[s])[i] = Tail(queue[s])[j] => i = j
        BY <1>a, <3>1, <4>2
      <4>4. QED  BY <3>1, <4>1, <4>2, <4>3
    <3>2. CASE z # s
      <4>1. queue'[z] = queue[z] /\ cur'[z] = cur[z]  BY <1>5, <2>2, <3>2
      <4>2. QED  BY <4>1 DEF IInv, QueueHolds
    <3>3. QED  BY <3>1, <3>2
  <2>7. PuttingHolds'
    <3> SUFFICES ASSUME NEW i \in DOMAIN putting
                 PROVE  /\ putting[i] # cur'[SessionOf[putting[i]]]
                        /\ putting[i] \notin SeqRange(queue'[SessionOf[putting[i]]])
      BY <1>2 DEF IInv, PuttingHolds
    <3>1. putting[i] \in Messages
      <4>1. putting \in Seq(Messages)  BY <1>1 DEF TypeOK
      <4>2. QED  BY <4>1, ElementOfSeq, LenProperties
    <3>2. /\ putting[i] # cur[SessionOf[putting[i]]]
          /\ putting[i] \notin SeqRange(queue[SessionOf[putting[i]]])
      BY DEF IInv, PuttingHolds
    <3>3. h \in SeqRange(queue[s])  BY <1>4
    <3>4. putting[i] # h  BY <2>3, <3>2, <3>3
    <3>5. QED  BY <1>6, <2>2, <3>1, <3>2, <3>4
  <2>8. UpIsAlive'
    BY <1>2, <1>5, <1>6, <2>2 DEF IInv, UpIsAlive
  <2>9. ClosingWasDispatched'
    <3> SUFFICES ASSUME NEW z \in Sessions, worker'[z] \in {"closing", "cut"}
                 PROVE  outcome'[cur'[z]] \in Dispatched
      BY DEF ClosingWasDispatched
    <3>1. z # s /\ worker[z] \in {"closing", "cut"} /\ cur'[z] = cur[z]
      BY <2>2
    <3>2. cur[z] \in Messages /\ SessionOf[cur[z]] = z
      BY <3>1 DEF IInv, WorkerHolds, Dispatching
    <3>3. outcome[cur[z]] \in Dispatched
      BY <3>1 DEF IInv, ClosingWasDispatched
    <3>4. QED  BY <2>2, <2>3, <3>1, <3>2, <3>3
  <2>10. AcceptedIsHeld'
    <3> SUFFICES ASSUME phase' = "up", NEW n \in Messages,
                        row'[n] = "undelivered"
                 PROVE  \/ n \in SeqRange(putting')
                        \/ /\ worker'[SessionOf[n]] \in {"idle"} \cup Dispatching
                           /\ \/ n \in SeqRange(queue'[SessionOf[n]])
                              \/ n = cur'[SessionOf[n]]
                        \/ outcome'[n] = "unmarked"
      BY DEF AcceptedIsHeld
    <3>1. CASE n = h  BY <2>2, <2>3, <3>1 DEF Dispatching
    <3>2. CASE n # h
      <4>1. /\ outcome'[n] = outcome[n]
            /\ worker'[SessionOf[n]] = IF SessionOf[n] = s THEN "taken"
                                       ELSE worker[SessionOf[n]]
        BY <2>2, <3>2
      <4>2. n \in SeqRange(queue[SessionOf[n]])
              => n \in SeqRange(queue'[SessionOf[n]])
        BY <1>4, <1>5, <3>2
      <4>3. SessionOf[n] = s => n # cur[s]
        <5>1. cur[s] = NoMsg  BY <1>2 DEF IInv, WorkerHolds, Dispatching
        <5>2. QED  BY <5>1
      <4>4. cur'[SessionOf[n]] = IF SessionOf[n] = s THEN h
                                 ELSE cur[SessionOf[n]]
        BY <2>2
      <4>5. \/ n \in SeqRange(putting)
            \/ /\ worker[SessionOf[n]] \in {"idle"} \cup Dispatching
               /\ \/ n \in SeqRange(queue[SessionOf[n]])
                  \/ n = cur[SessionOf[n]]
            \/ outcome[n] = "unmarked"
        BY <1>2 DEF IInv, AcceptedIsHeld
      <4>6. QED
        BY <1>2, <4>1, <4>2, <4>3, <4>4, <4>5 DEF Dispatching
    <3>3. QED  BY <3>1, <3>2
  <2>11. DeliveredWasDispatched'
    BY <1>2, <2>2, <2>3 DEF IInv, DeliveredWasDispatched
  <2>12. QED
    BY <1>1, <1>7, <2>5, <2>6, <2>7, <2>8, <2>9, <2>10, <2>11 DEF IInv
<1>10. QED  BY <1>8, <1>9

(* stop() changes where a worker is and appends the sentinel; the messages *)
(* stay where they are, except the one of a worker that dies in its mark.  *)
LEMMA StopInv ==
  ASSUME IInv, Stop
  PROVE  IInv'
<1>1. TypeOK /\ TypeOK'  BY LifeType DEF IInv
<1>2. phase = "up" /\ phase' = "stopping" /\ UNCHANGED <<row, putting>>
  BY DEF Stop, durable
<1>b. PICK cut \in SUBSET {s \in Sessions : worker[s] \in Dispatching} :
        \E lost \in SUBSET ({s \in Sessions : worker[s] = "closing"} \ cut) :
          /\ worker' = [s \in Sessions |->
                          IF s \in cut THEN "cut"
                          ELSE IF s \in lost \/ worker[s] = "idle" THEN "dead"
                          ELSE worker[s]]
          /\ cur' = [s \in Sessions |-> IF s \in lost THEN NoMsg ELSE cur[s]]
          /\ outcome' = [m \in Messages |->
                           IF \E s \in cut : cur[s] = m /\ worker[s] # "closing"
                           THEN "cut" ELSE outcome[m]]
  BY DEF Stop
<1>3. PICK lost \in SUBSET ({s \in Sessions : worker[s] = "closing"} \ cut) :
        /\ worker' = [s \in Sessions |->
                        IF s \in cut THEN "cut"
                        ELSE IF s \in lost \/ worker[s] = "idle" THEN "dead"
                        ELSE worker[s]]
        /\ cur' = [s \in Sessions |-> IF s \in lost THEN NoMsg ELSE cur[s]]
        /\ outcome' = [m \in Messages |->
                         IF \E s \in cut : cur[s] = m /\ worker[s] # "closing"
                         THEN "cut" ELSE outcome[m]]
  BY <1>b
<1>a. \A s \in lost : s \notin cut /\ worker[s] = "closing"
  BY <1>3
<1>4. \A s \in Sessions :
        /\ SeqRange(queue'[s]) \subseteq SeqRange(queue[s]) \cup {Shutdown}
        /\ \A i \in DOMAIN queue'[s] :
             \/ queue'[s][i] = Shutdown
             \/ i \in DOMAIN queue[s] /\ queue'[s][i] = queue[s][i]
  <2> SUFFICES ASSUME NEW s \in Sessions
               PROVE  /\ SeqRange(queue'[s])
                           \subseteq SeqRange(queue[s]) \cup {Shutdown}
                      /\ \A i \in DOMAIN queue'[s] :
                           \/ queue'[s][i] = Shutdown
                           \/ i \in DOMAIN queue[s] /\ queue'[s][i] = queue[s][i]
    OBVIOUS
  <2>1. queue[s] \in Seq(Messages \cup {Shutdown})  BY <1>1 DEF TypeOK
  <2>2. queue'[s] = IF worker[s] = "none" THEN queue[s]
                    ELSE Append(queue[s], Shutdown)
    BY DEF Stop, WithSentinel
  <2>3. CASE worker[s] = "none"  BY <2>2, <2>3
  <2>4. CASE worker[s] # "none"
    <3>1. queue'[s] = Append(queue[s], Shutdown)  BY <2>2, <2>4
    <3>2. Shutdown \in Messages \cup {Shutdown}  OBVIOUS
    <3>3. QED  BY <2>1, <3>1, <3>2, AppendElems
  <2>5. QED  BY <2>3, <2>4
<1>5. DownIsEmpty' /\ UpIsAlive' /\ AcceptedIsHeld'
  BY <1>2 DEF DownIsEmpty, UpIsAlive, AcceptedIsHeld
<1>6. WorkerHolds'
  <2> SUFFICES ASSUME NEW z \in Sessions
               PROVE  IF worker'[z] \in Dispatching
                      THEN /\ cur'[z] \in Messages
                           /\ SessionOf[cur'[z]] = z
                           /\ row'[cur'[z]] = "undelivered"
                      ELSE cur'[z] = NoMsg
    BY DEF WorkerHolds
  <2>1. /\ worker'[z] = IF z \in cut THEN "cut"
                        ELSE IF z \in lost \/ worker[z] = "idle" THEN "dead"
                        ELSE worker[z]
        /\ cur'[z] = IF z \in lost THEN NoMsg ELSE cur[z]
        /\ z \in cut => worker[z] \in Dispatching
    BY <1>3
  <2>2. QED  BY <1>2, <1>a, <2>1 DEF IInv, WorkerHolds, Dispatching
<1>7. QueueHolds'
  <2> SUFFICES ASSUME NEW z \in Sessions, NEW i \in DOMAIN queue'[z],
                      queue'[z][i] # Shutdown
               PROVE  /\ SessionOf[queue'[z][i]] = z
                      /\ row'[queue'[z][i]] = "undelivered"
                      /\ queue'[z][i] # cur'[z]
                      /\ \A j \in DOMAIN queue'[z] :
                           queue'[z][i] = queue'[z][j] => i = j
    BY DEF QueueHolds
  <2>1. i \in DOMAIN queue[z] /\ queue'[z][i] = queue[z][i]  BY <1>4
  <2>2. /\ SessionOf[queue[z][i]] = z
        /\ row[queue[z][i]] = "undelivered"
        /\ queue[z][i] # cur[z]
        /\ \A j \in DOMAIN queue[z] : queue[z][i] = queue[z][j] => i = j
    BY <2>1 DEF IInv, QueueHolds
  <2>3. queue[z][i] # NoMsg
    <3>1. queue[z] \in Seq(Messages \cup {Shutdown})  BY <1>1 DEF TypeOK
    <3>2. queue[z][i] \in Messages \cup {Shutdown}
      BY <2>1, <3>1, ElementOfSeq, LenProperties
    <3>3. QED  BY <2>1, <3>2
  <2>4. QED  BY <1>2, <1>3, <1>4, <2>1, <2>2, <2>3
<1>8. PuttingHolds'
  <2> SUFFICES ASSUME NEW i \in DOMAIN putting
               PROVE  /\ putting[i] # cur'[SessionOf[putting[i]]]
                      /\ putting[i] \notin SeqRange(queue'[SessionOf[putting[i]]])
    BY <1>2 DEF IInv, PuttingHolds
  <2>1. putting[i] \in Messages
    <3>1. putting \in Seq(Messages)  BY <1>1 DEF TypeOK
    <3>2. QED  BY <3>1, ElementOfSeq, LenProperties
  <2>2. /\ putting[i] # cur[SessionOf[putting[i]]]
        /\ putting[i] \notin SeqRange(queue[SessionOf[putting[i]]])
    BY DEF IInv, PuttingHolds
  <2>3. QED  BY <1>3, <1>4, <2>1, <2>2, SMTT(30)
<1>9. \A m \in Messages : outcome'[m] \in {"cut", outcome[m]}
  BY <1>3
<1>10. ClosingWasDispatched'
  <2> SUFFICES ASSUME NEW z \in Sessions, worker'[z] \in {"closing", "cut"}
               PROVE  outcome'[cur'[z]] \in Dispatched
    BY DEF ClosingWasDispatched
  <2>1. worker[z] \in Dispatching /\ z \notin lost
    BY <1>3, <1>a DEF Dispatching
  <2>2. cur'[z] = cur[z] /\ cur[z] \in Messages
    BY <1>3, <2>1 DEF IInv, WorkerHolds
  <2>3. CASE z \in cut /\ worker[z] # "closing"
    BY <1>3, <2>2, <2>3 DEF Dispatched
  <2>4. CASE worker[z] \in {"closing", "cut"}
    <3>1. outcome[cur[z]] \in Dispatched
      BY <2>4 DEF IInv, ClosingWasDispatched
    <3>2. QED  BY <1>9, <2>2, <3>1 DEF Dispatched
  <2>5. QED  BY <1>3, <2>3, <2>4
<1>11. DeliveredWasDispatched'
  BY <1>2, <1>9 DEF IInv, DeliveredWasDispatched
<1>12. QED
  BY <1>1, <1>5, <1>6, <1>7, <1>8, <1>10, <1>11 DEF IInv

(* The process is gone: memory is empty, rows and outcomes stay.           *)
LEMMA GoneInv ==
  ASSUME IInv, Exit \/ Crash
  PROVE  IInv'
<1>1. TypeOK /\ TypeOK'  BY LifeType DEF IInv
<1>2. /\ phase' \in {"down", "stopped"} /\ putting' = <<>>
      /\ \A s \in Sessions : /\ queue'[s] = <<>> /\ worker'[s] = "none"
                             /\ cur'[s] = NoMsg
      /\ UNCHANGED <<row, outcome>>
  BY DEF Exit, Crash, ProcessGone, durable, history
<1>3. DownIsEmpty' /\ UpIsAlive' /\ AcceptedIsHeld'
  BY <1>2 DEF DownIsEmpty, UpIsAlive, AcceptedIsHeld
<1>4. WorkerHolds' /\ QueueHolds' /\ PuttingHolds'
  BY <1>2 DEF WorkerHolds, QueueHolds, PuttingHolds, Dispatching
<1>5. ClosingWasDispatched'  BY <1>2 DEF ClosingWasDispatched
<1>6. DeliveredWasDispatched'  BY <1>2 DEF IInv, DeliveredWasDispatched
<1>7. QED  BY <1>1, <1>3, <1>4, <1>5, <1>6 DEF IInv

(* Before the gateway starts there is nothing in memory to disturb.        *)
LEMMA RecoveryInv ==
  ASSUME IInv, Boot \/ Recover
  PROVE  IInv'
<1>1. TypeOK /\ TypeOK'  BY LifeType DEF IInv
<1>2. /\ phase \in {"down", "stopped", "recovering"} /\ phase' = "recovering"
      /\ UNCHANGED <<row, queue, putting, worker, cur>>
      /\ \A m \in Messages : row[m] = "delivered" => outcome'[m] = outcome[m]
  BY DEF Boot, Recover, RecoverTurn, durable
<1>3. \A s \in Sessions : worker[s] = "none"
  BY <1>2 DEF IInv, DownIsEmpty
<1>4. DownIsEmpty' /\ UpIsAlive' /\ AcceptedIsHeld'
  BY <1>2 DEF IInv, DownIsEmpty, UpIsAlive, AcceptedIsHeld
<1>5. WorkerHolds' /\ QueueHolds' /\ PuttingHolds'
  BY <1>2 DEF IInv, WorkerHolds, QueueHolds, PuttingHolds
<1>6. ClosingWasDispatched'  BY <1>2, <1>3 DEF ClosingWasDispatched
<1>7. DeliveredWasDispatched'  BY <1>2 DEF IInv, DeliveredWasDispatched
<1>8. QED  BY <1>1, <1>4, <1>5, <1>6, <1>7 DEF IInv

(* start() queues exactly the undelivered rows, each once.                 *)
LEMMA StartGatewayInv ==
  ASSUME IInv, StartGateway
  PROVE  IInv'
<1>1. TypeOK /\ TypeOK'  BY LifeType DEF IInv
<1>2. /\ phase = "recovering" /\ phase' = "up"
      /\ UNCHANGED <<row, stamp, putting, cur, outcome>>
      /\ \A s \in Sessions :
           /\ InOrder(queue'[s], Backlog(s))
           /\ worker'[s] = IF Backlog(s) = {} THEN "none" ELSE "idle"
  BY DEF StartGateway, durable, history
<1>3. /\ putting = <<>> /\ \A s \in Sessions : cur[s] = NoMsg
  BY <1>2 DEF IInv, DownIsEmpty, WorkerHolds, Dispatching
<1>4. ASSUME NEW s \in Sessions
      PROVE  /\ SeqRange(queue'[s]) = Backlog(s)
             /\ \A i, j \in DOMAIN queue'[s] :
                  queue'[s][i] = queue'[s][j] => i = j
  <2>1. queue'[s] \in Seq(Messages \cup {Shutdown})  BY <1>1 DEF TypeOK
  <2>2. \A i \in DOMAIN queue'[s] : i \in Nat /\ queue'[s][i] \in Backlog(s)
    BY <1>2, <2>1, LenProperties DEF InOrder, SeqRange
  <2>3. /\ SeqRange(queue'[s]) = Backlog(s)
        /\ \A i, j \in DOMAIN queue'[s] :
             i < j => stamp'[queue'[s][i]] < stamp'[queue'[s][j]]
    BY <1>2 DEF InOrder
  <2>4. ASSUME NEW i \in DOMAIN queue'[s], NEW j \in DOMAIN queue'[s],
               queue'[s][i] = queue'[s][j]
        PROVE  i = j
    <3>1. i \in Nat /\ j \in Nat /\ queue'[s][i] \in Messages
      BY <2>2 DEF Backlog
    <3>2. stamp'[queue'[s][i]] \in Nat  BY <1>1, <3>1 DEF TypeOK
    <3>3. ~(i < j) /\ ~(j < i)  BY <2>3, <2>4, <3>2
    <3>4. QED  BY <3>1, <3>3
  <2>5. QED  BY <2>3, <2>4
<1>5. DownIsEmpty'  BY <1>2 DEF DownIsEmpty
<1>6. WorkerHolds'  BY <1>2, <1>3 DEF WorkerHolds, Dispatching
<1>7. QueueHolds'
  <2> SUFFICES ASSUME NEW s \in Sessions, NEW i \in DOMAIN queue'[s]
               PROVE  /\ SessionOf[queue'[s][i]] = s
                      /\ row'[queue'[s][i]] = "undelivered"
                      /\ queue'[s][i] # cur'[s]
                      /\ \A j \in DOMAIN queue'[s] :
                           queue'[s][i] = queue'[s][j] => i = j
    BY DEF QueueHolds
  <2>1. queue'[s][i] \in Backlog(s)  BY <1>4 DEF SeqRange
  <2>2. QED  BY <1>2, <1>3, <1>4, <2>1 DEF Backlog
<1>8. PuttingHolds'  BY <1>2, <1>3 DEF PuttingHolds
<1>9. UpIsAlive'
  <2> SUFFICES ASSUME NEW s \in Sessions
               PROVE  /\ worker'[s] \notin {"dead", "cut"}
                      /\ Shutdown \notin SeqRange(queue'[s])
                      /\ worker'[s] = "none" => queue'[s] = <<>>
    BY DEF UpIsAlive
  <2>1. Shutdown \notin SeqRange(queue'[s])  BY <1>4 DEF Backlog
  <2>2. ASSUME worker'[s] = "none"
        PROVE  queue'[s] = <<>>
    <3>1. SeqRange(queue'[s]) = {}  BY <1>2, <1>4, <2>2
    <3>2. DOMAIN queue'[s] = {}  BY <3>1 DEF SeqRange
    <3>3. queue'[s] \in Seq(Messages \cup {Shutdown})  BY <1>1 DEF TypeOK
    <3>a. Len(queue'[s]) \in Nat /\ 1 \notin 1..Len(queue'[s])
      BY <3>2, <3>3, LenProperties
    <3>4. Len(queue'[s]) = 0  BY <3>a
    <3>5. QED  BY <3>3, <3>4, EmptySeq
  <2>3. QED  BY <1>2, <2>1, <2>2
<1>10. ClosingWasDispatched'  BY <1>2 DEF ClosingWasDispatched
<1>11. AcceptedIsHeld'
  <2> SUFFICES ASSUME NEW n \in Messages, row[n] = "undelivered"
               PROVE  /\ worker'[SessionOf[n]] = "idle"
                      /\ n \in SeqRange(queue'[SessionOf[n]])
    BY <1>2 DEF AcceptedIsHeld
  <2>1. n \in Backlog(SessionOf[n]) /\ SessionOf[n] \in Sessions
    BY DEF Backlog
  <2>2. QED  BY <1>2, <1>4, <2>1
<1>12. DeliveredWasDispatched'  BY <1>2 DEF IInv, DeliveredWasDispatched
<1>13. QED
  BY <1>1, <1>5, <1>6, <1>7, <1>8, <1>9, <1>10, <1>11, <1>12 DEF IInv

(* So does a step that changes nothing.                                    *)
LEMMA StutterInv ==
  ASSUME IInv, UNCHANGED vars
  PROVE  IInv'
<1> USE DEF vars, durable, volatile, history
<1>1. TypeOK'  BY DEF IInv, TypeOK
<1>2. DownIsEmpty' /\ WorkerHolds' /\ QueueHolds' /\ PuttingHolds'
  BY DEF IInv, DownIsEmpty, WorkerHolds, QueueHolds, PuttingHolds
<1>3. UpIsAlive' /\ ClosingWasDispatched'
  BY DEF IInv, UpIsAlive, ClosingWasDispatched
<1>4. AcceptedIsHeld' /\ DeliveredWasDispatched'
  BY DEF IInv, AcceptedIsHeld, DeliveredWasDispatched
<1>5. QED  BY <1>1, <1>2, <1>3, <1>4 DEF IInv

(* Every step keeps the invariant.                                         *)
LEMMA NextInv == IInv /\ [Next]_vars => IInv'
<1> SUFFICES ASSUME IInv, [Next]_vars  PROVE IInv'
  OBVIOUS
<1>1. ASSUME NEW m \in Messages, EnqueueInbound(m)  PROVE IInv'
  BY <1>1, EnqueueInboundInv
<1>2. CASE Enqueue  BY <1>2, EnqueueInv
<1>3. ASSUME NEW s \in Sessions, RegisterChannel(s) \/ WorkerStep(s)
      PROVE  IInv'
  BY <1>3, RegisterChannelInv, TakeInv, DispatchInv, MarkedInv, MarkFailsInv
     DEF WorkerStep
<1>4. CASE Stop  BY <1>4, StopInv
<1>5. CASE Exit \/ Crash  BY <1>5, GoneInv
<1>6. CASE Boot \/ Recover  BY <1>6, RecoveryInv
<1>7. CASE StartGateway  BY <1>7, StartGatewayInv
<1>8. CASE UNCHANGED vars  BY <1>8, StutterInv
<1>9. QED
  BY <1>1, <1>2, <1>3, <1>4, <1>5, <1>6, <1>7, <1>8 DEF Next

(* The inductive invariant holds in every state of the gateway, whatever   *)
(* the messages, the sessions and the number of restarts.                  *)
THEOREM Invariance == Spec => []IInv
<1>1. Init => IInv  BY InitInv
<1>2. IInv /\ [Next]_vars => IInv'  BY NextInv
<1>3. QED  BY <1>1, <1>2, PTL DEF Spec

-----------------------------------------------------------------------------
(* The theorems.                                                           *)

(* Every variable of the gateway keeps its type (TypeOK).                  *)
THEOREM TypeCorrect == Spec => []TypeOK
<1>1. IInv => TypeOK  BY DEF IInv
<1>2. QED  BY <1>1, Invariance, PTL

(* While the server is up no accepted message is forgotten: each           *)
(* undelivered row of `messages` is on its way to a live worker            *)
(* (Gateway.submit, _enqueue, start).                                      *)
THEOREM NoMessageForgotten == Spec => []AcceptedIsHeld
<1>1. IInv => AcceptedIsHeld  BY DEF IInv
<1>2. QED  BY <1>1, Invariance, PTL

(* delivered_at is set only for a message that was dispatched              *)
(* (Gateway._dispatch), whatever crashes or fails.                         *)
THEOREM DeliveredDispatched == Spec => []DeliveredWasDispatched
<1>1. IInv => DeliveredWasDispatched  BY DEF IInv
<1>2. QED  BY <1>1, Invariance, PTL

-----------------------------------------------------------------------------
(* No turn after delivery.                                                 *)

(* Only StartTurn makes the table longer: the other writes update a row.   *)
LEMMA TableGrows ==
  ASSUME TypeOK, [Next]_vars, Len(turns') > Len(turns)
  PROVE  \E s \in Sessions : StartTurn(s)
<1>1. turns \in Seq(TurnRow) /\ ~(Len(turns) > Len(turns))
  BY LenProperties DEF TypeOK
<1>2. ASSUME NEW i, turns' = [turns EXCEPT ![i] = [@ EXCEPT !.state = "ended",
                                                           !.seen = "end"]]
      PROVE  FALSE
  <2>1. i \in DOMAIN turns => turns[i] \in TurnRow  BY <1>1
  <2>2. Len(turns') = Len(turns)  BY <1>1, <1>2, <2>1, TableUpdate, RowUpdate
  <2>3. QED  BY <1>1, <2>2
<1>3. ASSUME NEW i, turns' = [turns EXCEPT ![i] = [@ EXCEPT !.seen = "error"]]
      PROVE  FALSE
  <2>1. i \in DOMAIN turns => turns[i] \in TurnRow  BY <1>1
  <2>2. Len(turns') = Len(turns)  BY <1>1, <1>3, <2>1, TableUpdate, RowUpdate
  <2>3. QED  BY <1>1, <2>2
<1>4. ASSUME NEW i,
             turns' = [turns EXCEPT ![i] = [@ EXCEPT !.state = "interrupted"]]
      PROVE  FALSE
  <2>1. i \in DOMAIN turns => turns[i] \in TurnRow  BY <1>1
  <2>2. Len(turns') = Len(turns)  BY <1>1, <1>4, <2>1, TableUpdate, RowUpdate
  <2>3. QED  BY <1>1, <2>2
<1>5. turns' # turns  BY <1>1
<1>6. CASE Recover  BY <1>4, <1>6 DEF Recover, RecoverTurn
<1>7. ASSUME NEW s \in Sessions, WorkerStep(s)
      PROVE  StartTurn(s)
  <2>1. ~EndTurn(s) /\ ~ErrorTurn(s)
    BY <1>2, <1>3, <1>5 DEF EndTurn, ErrorTurn
  <2>2. QED
    BY <1>5, <1>7, <2>1 DEF WorkerStep, Take, Prepare, UserEventFails,
       MarkDelivered, MarkFails, Unmarked, CutMark, durable
<1>8. CASE Enqueue \/ Stop \/ Exit \/ Crash \/ Boot \/ StartGateway
           \/ UNCHANGED vars
  BY <1>5, <1>8 DEF Enqueue, Stop, Exit, Crash, Boot, StartGateway, vars, durable
<1>9. CASE (\E m \in Messages : EnqueueInbound(m))
           \/ \E s \in Sessions : RegisterChannel(s)
  BY <1>5, <1>9 DEF EnqueueInbound, RegisterChannel, durable
<1>10. QED  BY <1>6, <1>7, <1>8, <1>9 DEF Next

(* A turn starts only for a row that is still undelivered: the worker      *)
(* holds an undelivered message until its own mark_delivered.              *)
THEOREM TurnsOnlyUndelivered == Spec => NoTurnAfterDelivery
<1>1. ASSUME IInv, [Next]_vars, Len(turns') > Len(turns)
      PROVE  row[turns'[Len(turns')].msg] = "undelivered"
  <2>1. TypeOK  BY <1>1 DEF IInv
  <2>2. PICK s \in Sessions : StartTurn(s)  BY <1>1, <2>1, TableGrows
  <2>3. /\ cur[s] \in Messages /\ row[cur[s]] = "undelivered"
    BY <1>1, <2>2 DEF IInv, WorkerHolds, StartTurn, Dispatching
  <2>4. turns'[Len(turns')].msg = cur[s]
    <3>1. turns \in Seq(TurnRow)  BY <2>1 DEF TypeOK
    <3>2. [msg |-> cur[s], life |-> life, state |-> "open",
           seen |-> "nothing"] \in TurnRow
      BY <2>1, <2>3 DEF TurnRow, TypeOK
    <3>3. QED  BY <2>2, <3>1, <3>2, AppendProperties DEF StartTurn
  <2>5. QED  BY <2>3, <2>4
<1>2. IInv /\ [Next]_vars
        => [Len(turns') > Len(turns)
              => row[turns'[Len(turns')].msg] = "undelivered"]_vars
  BY <1>1
<1>3. QED  BY <1>2, Invariance, PTL DEF Spec, NoTurnAfterDelivery

-----------------------------------------------------------------------------
(* The gateway implements the abstract inbox.                              *)

(* The first state is a first state of the inbox.                          *)
LEMMA InitRefines == Init => Abstract!Init
BY DEF Init, Abstract!Init

(* Steps that write neither a row nor what a worker holds.                 *)
LEMMA SilentStep ==
  ASSUME UNCHANGED <<row, cur>>
  PROVE  UNCHANGED Abstract!inboxVars
BY DEF Abstract!inboxVars

(* EnqueueInbound accepts a message.                                       *)
LEMMA AcceptRefines ==
  ASSUME TypeOK, NEW m \in Messages, EnqueueInbound(m)
  PROVE  Abstract!Accept(m)
<1>1. row[m] = "none" /\ cur' = cur  BY DEF EnqueueInbound
<1>2. \A n \in Messages : row'[n] = IF n = m THEN "undelivered" ELSE row[n]
  BY DEF EnqueueInbound, TypeOK
<1>3. {n \in Messages : row'[n] = "undelivered"}
        = {n \in Messages : row[n] = "undelivered"} \cup {m}
  BY <1>2
<1>4. {n \in Messages : row'[n] = "delivered"}
        = {n \in Messages : row[n] = "delivered"}
  BY <1>1, <1>2
<1>5. QED  BY <1>1, <1>3, <1>4 DEF Abstract!Accept

(* Take serves a message, or changes nothing the inbox sees.               *)
LEMMA TakeRefines ==
  ASSUME IInv, NEW s \in Sessions, Take(s)
  PROVE  Abstract!Next \/ UNCHANGED Abstract!inboxVars
<1> DEFINE h == Head(queue[s])
<1>1. TypeOK  BY DEF IInv
<1>2. row' = row  BY DEF Take, durable
<1>3. CASE h = Shutdown
  BY <1>2, <1>3, SilentStep DEF Take
<1>4. CASE h # Shutdown
  <2>1. cur' = [cur EXCEPT ![s] = h]  BY <1>4 DEF Take
  <2>2. 1 \in DOMAIN queue[s] /\ queue[s][1] = h /\ h \in Messages
    <3>1. queue[s] \in Seq(Messages \cup {Shutdown}) /\ queue[s] # <<>>
      BY <1>1 DEF Take, TypeOK
    <3>2. QED  BY <3>1, <1>4, TailElems
  <2>3. SessionOf[h] = s /\ row[h] = "undelivered"
    BY <1>4, <2>2 DEF IInv, QueueHolds
  <2>4. cur[s] = NoMsg
    BY DEF IInv, WorkerHolds, Take, Dispatching
  <2>5. Abstract!Serve(h)
    BY <1>2, <2>1, <2>2, <2>3, <2>4 DEF Abstract!Serve
  <2>6. QED  BY <2>2, <2>5 DEF Abstract!Next
<1>5. QED  BY <1>3, <1>4

(* MarkDelivered and CutMark settle the message that is served.            *)
LEMMA MarkRefines ==
  ASSUME IInv, NEW s \in Sessions, MarkDelivered(s) \/ CutMark(s)
  PROVE  Abstract!Next
<1>1. /\ row' = [row EXCEPT ![cur[s]] = "delivered"]
      /\ cur' = [cur EXCEPT ![s] = NoMsg]
      /\ worker[s] \in Dispatching
  BY DEF MarkDelivered, CutMark, Delivered, Dispatching
<1>2. /\ cur[s] \in Messages /\ SessionOf[cur[s]] = s
      /\ row[cur[s]] = "undelivered"
  BY <1>1 DEF IInv, WorkerHolds
<1>3. \A n \in Messages : row'[n] = IF n = cur[s] THEN "delivered" ELSE row[n]
  BY <1>1 DEF IInv, TypeOK
<1>4. {n \in Messages : row'[n] = "undelivered"}
        = {n \in Messages : row[n] = "undelivered"} \ {cur[s]}
  BY <1>3
<1>5. {n \in Messages : row'[n] = "delivered"}
        = {n \in Messages : row[n] = "delivered"} \cup {cur[s]}
  BY <1>2, <1>3
<1>6. PICK m \in Messages : m = cur[s]  BY <1>2
<1>7. Abstract!Settle(m)
  BY <1>1, <1>2, <1>4, <1>5, <1>6 DEF Abstract!Settle
<1>8. QED  BY <1>7 DEF Abstract!Next

(* MarkFails hands one message back, stop() those whose mark it breaks, a  *)
(* crash or an exit all of them.                                           *)
LEMMA ReleaseRefines ==
  ASSUME IInv, (\E s \in Sessions : MarkFails(s)) \/ Stop \/ Exit \/ Crash
  PROVE  Abstract!Next
<1>1. TypeOK  BY DEF IInv
<1>2. row' = row
  BY DEF MarkFails, Unmarked, Stop, Exit, Crash, durable
<1>3. \E S \in SUBSET Sessions :
        cur' = [z \in Sessions |-> IF z \in S THEN NoMsg ELSE cur[z]]
  <2>1. ASSUME NEW s \in Sessions, MarkFails(s)
        PROVE  cur' = [z \in Sessions |-> IF z \in {s} THEN NoMsg ELSE cur[z]]
    BY <1>1, <2>1 DEF MarkFails, Unmarked, TypeOK
  <2>2. CASE Stop
    <3>1. PICK cut \in SUBSET {s \in Sessions : worker[s] \in Dispatching} :
            \E lost \in SUBSET ({s \in Sessions : worker[s] = "closing"} \ cut) :
              cur' = [s \in Sessions |-> IF s \in lost THEN NoMsg ELSE cur[s]]
      BY <2>2 DEF Stop
    <3>2. PICK lost \in SUBSET ({s \in Sessions : worker[s] = "closing"} \ cut) :
            cur' = [s \in Sessions |-> IF s \in lost THEN NoMsg ELSE cur[s]]
      BY <3>1
    <3>3. lost \in SUBSET Sessions  OBVIOUS
    <3>4. QED  BY <3>2, <3>3
  <2>3. CASE Exit \/ Crash
    <3>1. cur' = [z \in Sessions |-> NoMsg]
      BY <2>3 DEF Exit, Crash, ProcessGone
    <3>2. cur' = [z \in Sessions |-> IF z \in Sessions THEN NoMsg ELSE cur[z]]
      BY <3>1
    <3>3. QED  BY <3>2
  <2>4. CASE \E s \in Sessions : MarkFails(s)
    <3>1. PICK s \in Sessions : MarkFails(s)
      BY <2>4
    <3>2. cur' = [z \in Sessions |-> IF z \in {s} THEN NoMsg ELSE cur[z]]
      BY <3>1, <2>1
    <3>3. {s} \in SUBSET Sessions
      OBVIOUS
    <3>4. QED  BY <3>2, <3>3
  <2>5. QED  BY <2>2, <2>3, <2>4
<1>4. PICK S \in SUBSET Sessions : Abstract!Release(S)
  BY <1>2, <1>3 DEF Abstract!Release
<1>5. QED  BY <1>4 DEF Abstract!Next

(* Every step of the gateway is a step of the inbox or a stutter.          *)
LEMMA StepRefines ==
  IInv /\ [Next]_vars => [Abstract!Next]_(Abstract!inboxVars)
<1> SUFFICES ASSUME IInv, [Next]_vars
             PROVE  Abstract!Next \/ UNCHANGED Abstract!inboxVars
  OBVIOUS
<1>1. ASSUME NEW m \in Messages, EnqueueInbound(m)
      PROVE  Abstract!Next
  BY <1>1, AcceptRefines DEF IInv, Abstract!Next
<1>2. ASSUME NEW s \in Sessions,
             Prepare(s) \/ UserEventFails(s) \/ StartTurn(s) \/ EndTurn(s)
             \/ ErrorTurn(s) \/ RegisterChannel(s)
      PROVE  UNCHANGED <<row, cur>>
  BY <1>2 DEF Prepare, UserEventFails, StartTurn, EndTurn, ErrorTurn,
     RegisterChannel, durable
<1>3. CASE Enqueue \/ Boot \/ Recover \/ StartGateway \/ UNCHANGED vars
  <2>1. UNCHANGED <<row, cur>>
    BY <1>3 DEF Enqueue, Boot, Recover, RecoverTurn, StartGateway, vars,
       durable, volatile
  <2>2. QED  BY <2>1, SilentStep
<1>4. ASSUME NEW s \in Sessions, RegisterChannel(s) \/ WorkerStep(s)
      PROVE  Abstract!Next \/ UNCHANGED Abstract!inboxVars
  BY <1>2, <1>4, SilentStep, TakeRefines, MarkRefines, ReleaseRefines
     DEF WorkerStep
<1>5. CASE Stop \/ Exit \/ Crash  BY <1>5, ReleaseRefines
<1>6. QED  BY <1>1, <1>3, <1>4, <1>5 DEF Next

(* The gateway, with its queues, tasks, crashes and restarts, implements   *)
(* the abstract inbox: a settled message is never served again, and what   *)
(* is interrupted stays pending.                                           *)
THEOREM RefinesInbox == Spec => ImplementsInbox
<1>1. Init => Abstract!Init  BY InitRefines
<1>2. IInv /\ [Next]_vars => [Abstract!Next]_(Abstract!inboxVars)
  BY StepRefines
<1>3. QED
  BY <1>1, <1>2, Invariance, PTL DEF Spec, ImplementsInbox, Abstract!Spec


-----------------------------------------------------------------------------
(* Serial turns: the inductive invariant.                                  *)

(* The session of a turn.                                                  *)
At(i) == SessionOf[turns[i].msg]

(* While the server is up, a turn that may still be written is the one its *)
(* session's worker is running.                                            *)
LiveIsRunning ==
  phase = "up" => \A i \in DOMAIN turns :
                    Live(i) => worker[At(i)] = "running" /\ turn[At(i)] = i

-----------------------------------------------------------------------------
(* The table of turns.                                                     *)

(* Updating columns of a row keeps the others.                             *)
LEMMA ColumnUpdate ==
  ASSUME NEW table \in Seq(TurnRow), NEW i \in DOMAIN table, NEW r \in TurnRow,
         r.msg = table[i].msg, r.life = table[i].life,
         NEW new, new = [table EXCEPT ![i] = r]
  PROVE  /\ DOMAIN new = DOMAIN table
         /\ \A j \in DOMAIN table : /\ new[j].msg = table[j].msg
                                    /\ new[j].life = table[j].life
         /\ new[i] = r
         /\ \A j \in DOMAIN table : j # i => new[j] = table[j]
BY ExceptSeq

SameTable == /\ DOMAIN turns' = DOMAIN turns
             /\ \A j \in DOMAIN turns : /\ turns'[j].msg = turns[j].msg
                                        /\ turns'[j].life = turns[j].life

(* The end of a turn, well or ill, writes its own row.                     *)
LEMMA EndTurnWrites ==
  ASSUME TypeOK, NEW s \in Sessions, EndTurn(s) \/ ErrorTurn(s)
  PROVE  /\ SameTable
         /\ \A j \in DOMAIN turns : j # turn[s] => turns'[j] = turns[j]
         /\ turn[s] \in DOMAIN turns /\ worker[s] = "running"
              => turns'[turn[s]].state = "ended" \/ turns'[turn[s]].seen = "error"
<1> DEFINE i == turn[s]
<1>t. turns \in Seq(TurnRow)  BY DEF TypeOK
<1>1. CASE i \notin DOMAIN turns \/ (ErrorTurn(s) /\ worker[s] # "running")
  <2>1. turns' = turns
    <3>1. CASE EndTurn(s)
      <4>1. turns' = [turns EXCEPT ![i] =
                        [@ EXCEPT !.state = "ended", !.seen = "end"]]
            /\ i \notin DOMAIN turns
        BY <1>1, <3>1 DEF EndTurn, ErrorTurn
      <4>2. QED  BY <1>t, <4>1
    <3>2. CASE ErrorTurn(s) /\ worker[s] # "running"
      BY <3>2 DEF ErrorTurn
    <3>3. CASE ErrorTurn(s) /\ worker[s] = "running"
      <4>1. turns' = [turns EXCEPT ![i] = [@ EXCEPT !.seen = "error"]]
            /\ i \notin DOMAIN turns
        BY <1>1, <3>3 DEF ErrorTurn
      <4>2. QED  BY <1>t, <4>1
    <3>4. QED  BY <3>1, <3>2, <3>3
  <2>2. i \in DOMAIN turns => worker[s] # "running"  BY <1>1
  <2>3. QED  BY <2>1, <2>2 DEF SameTable
<1>2. CASE i \in DOMAIN turns /\ EndTurn(s)
  <2>1. turns[i] \in TurnRow  BY <1>t, <1>2
  <2> DEFINE r == [turns[i] EXCEPT !.state = "ended", !.seen = "end"]
  <2>2. /\ r \in TurnRow /\ r.msg = turns[i].msg /\ r.life = turns[i].life
        /\ r.state = "ended"
    BY <2>1 DEF TurnRow
  <2>3. turns' = [turns EXCEPT ![i] = r]  BY <1>2 DEF EndTurn
  <2> HIDE DEF r
  <2>4. QED  BY <1>t, <1>2, <2>2, <2>3, ColumnUpdate DEF SameTable
<1>3. CASE i \in DOMAIN turns /\ ErrorTurn(s) /\ worker[s] = "running"
  <2>1. turns[i] \in TurnRow  BY <1>t, <1>3
  <2> DEFINE r == [turns[i] EXCEPT !.seen = "error"]
  <2>2. /\ r \in TurnRow /\ r.msg = turns[i].msg /\ r.life = turns[i].life
        /\ r.seen = "error"
    BY <2>1 DEF TurnRow
  <2>3. turns' = [turns EXCEPT ![i] = r]  BY <1>3 DEF ErrorTurn
  <2> HIDE DEF r
  <2>4. QED  BY <1>t, <1>3, <2>2, <2>3, ColumnUpdate DEF SameTable
<1>4. QED  BY <1>1, <1>2, <1>3

(* A start of a turn adds a row at the end.                                *)
LEMMA StartTurnAdds ==
  ASSUME IInv, NEW s \in Sessions, StartTurn(s)
  PROVE  /\ DOMAIN turns' = DOMAIN turns \cup {Len(turns) + 1}
         /\ Len(turns) + 1 \notin DOMAIN turns
         /\ turns'[Len(turns) + 1].msg = cur[s]
         /\ turns'[Len(turns) + 1].life = life
         /\ \A j \in DOMAIN turns : turns'[j] = turns[j] /\ j < Len(turns) + 1
         /\ cur[s] \in Messages /\ SessionOf[cur[s]] = s
         /\ row[cur[s]] = "undelivered"
<1> DEFINE r == [msg |-> cur[s], life |-> life,
                 state |-> "open", seen |-> "nothing"]
<1>1. turns \in Seq(TurnRow) /\ life \in Nat  BY DEF IInv, TypeOK
<1>2. /\ cur[s] \in Messages /\ SessionOf[cur[s]] = s
      /\ row[cur[s]] = "undelivered"
  BY DEF IInv, WorkerHolds, StartTurn, Dispatching
<1>3. r \in TurnRow  BY <1>1, <1>2 DEF TurnRow
<1>4. turns' = Append(turns, r)  BY DEF StartTurn
<1>5. r.msg = cur[s] /\ r.life = life  OBVIOUS
<1> HIDE DEF r
<1>6. /\ Len(turns) \in Nat /\ DOMAIN turns = 1..Len(turns)
      /\ DOMAIN turns' = 1..(Len(turns) + 1)
      /\ turns'[Len(turns) + 1] = r
      /\ \A j \in 1..Len(turns) : turns'[j] = turns[j]
  BY <1>1, <1>3, <1>4, AppendElems, AppendProperties, LenProperties
<1>7. QED  BY <1>2, <1>5, <1>6

(* The sweep writes one row.                                               *)
LEMMA RecoverWrites ==
  ASSUME TypeOK, Recover
  PROVE  SameTable
<1>1. PICK i \in DOMAIN turns : RecoverTurn(i)  BY DEF Recover
<1>2. turns \in Seq(TurnRow) /\ turns[i] \in TurnRow  BY DEF TypeOK
<1> DEFINE r == [turns[i] EXCEPT !.state = "interrupted"]
<1>3. r \in TurnRow /\ r.msg = turns[i].msg /\ r.life = turns[i].life
  BY <1>2 DEF TurnRow
<1>4. turns' = [turns EXCEPT ![i] = r]  BY <1>1 DEF RecoverTurn
<1> HIDE DEF r
<1>5. QED  BY <1>2, <1>3, <1>4, ColumnUpdate DEF SameTable

-----------------------------------------------------------------------------
(* Serial turns.                                                           *)

(* What the table says of a turn has its type.                             *)
LEMMA AtTyped ==
  ASSUME TypeOK, NEW i \in DOMAIN turns
  PROVE  turns[i] \in TurnRow /\ turns[i].msg \in Messages /\ At(i) \in Sessions
<1>1. turns \in Seq(TurnRow)  BY DEF TypeOK
<1>2. turns[i] \in TurnRow  BY <1>1
<1>3. turns[i].msg \in Messages  BY <1>2 DEF TurnRow
<1>4. QED  BY <1>2, <1>3, GatewayAssumption DEF At

(* A step that leaves the running workers and the table alone.             *)
LEMMA LiveStays ==
  ASSUME TypeOK, LiveIsRunning, phase' = "up" => phase = "up", turns' = turns,
         \A s \in Sessions : worker[s] = "running" =>
                               worker'[s] = "running" /\ turn'[s] = turn[s]
  PROVE  LiveIsRunning'
<1> SUFFICES ASSUME phase' = "up", NEW i \in DOMAIN turns, Live(i)
             PROVE  worker'[At(i)] = "running" /\ turn'[At(i)] = i
  BY DEF LiveIsRunning, Live, At
<1>1. worker[At(i)] = "running" /\ turn[At(i)] = i
  BY DEF LiveIsRunning
<1>2. At(i) \in Sessions  BY AtTyped
<1>3. QED  BY <1>1, <1>2

(* The end of a turn settles the live row of its session.                  *)
LEMMA LiveEnds ==
  ASSUME TypeOK, LiveIsRunning, NEW s \in Sessions, EndTurn(s) \/ ErrorTurn(s)
  PROVE  LiveIsRunning'
<1>1. /\ phase' = phase
      /\ \A z \in Sessions : z # s => worker'[z] = worker[z] /\ turn'[z] = turn[z]
  BY DEF EndTurn, ErrorTurn, TypeOK
<1> SUFFICES ASSUME phase = "up", NEW i \in DOMAIN turns', Live(i)'
             PROVE  worker'[At(i)'] = "running" /\ turn'[At(i)'] = i
  BY <1>1 DEF LiveIsRunning
<1>2. i \in DOMAIN turns /\ At(i)' = At(i) /\ At(i) \in Sessions
  <2>1. i \in DOMAIN turns /\ turns'[i].msg = turns[i].msg
    BY EndTurnWrites DEF SameTable
  <2>2. QED  BY <2>1, AtTyped DEF At
<1>3. CASE i # turn[s]
  <2>1. turns'[i] = turns[i]  BY <1>2, <1>3, EndTurnWrites
  <2>2. Live(i)  BY <2>1 DEF Live
  <2>3. worker[At(i)] = "running" /\ turn[At(i)] = i
    BY <1>2, <2>2 DEF LiveIsRunning
  <2>4. At(i) # s  BY <1>3, <2>3
  <2>5. QED  BY <1>1, <1>2, <2>3, <2>4
<1>4. CASE i = turn[s] /\ worker[s] = "running"
  BY <1>2, <1>4, EndTurnWrites DEF Live
<1>5. CASE worker[s] # "running"
  <2>1. turns' = turns  BY <1>5 DEF EndTurn, ErrorTurn
  <2>2. Live(i)  BY <2>1 DEF Live
  <2>3. worker[At(i)] = "running" /\ turn[At(i)] = i
    BY <1>2, <2>2 DEF LiveIsRunning
  <2>4. QED  BY <1>1, <1>2, <1>5, <2>3
<1>6. QED  BY <1>3, <1>4, <1>5

(* A new turn is the only live one of its session: the worker was not      *)
(* running.                                                                *)
LEMMA LiveStarts ==
  ASSUME IInv, LiveIsRunning, NEW s \in Sessions, StartTurn(s)
  PROVE  LiveIsRunning'
<1>t. TypeOK  BY DEF IInv
<1>1. /\ phase' = phase
      /\ worker[s] = "prepared" /\ worker'[s] = "running"
      /\ turn'[s] = Len(turns) + 1
      /\ \A z \in Sessions : z # s => worker'[z] = worker[z] /\ turn'[z] = turn[z]
  BY <1>t DEF StartTurn, TypeOK
<1> SUFFICES ASSUME phase = "up", NEW i \in DOMAIN turns', Live(i)'
             PROVE  worker'[At(i)'] = "running" /\ turn'[At(i)'] = i
  BY <1>1 DEF LiveIsRunning
<1>2. CASE i \in DOMAIN turns
  <2>1. turns'[i] = turns[i]  BY <1>2, StartTurnAdds
  <2>2. Live(i) /\ At(i)' = At(i)  BY <2>1 DEF Live, At
  <2>3. worker[At(i)] = "running" /\ turn[At(i)] = i
    BY <1>2, <2>2 DEF LiveIsRunning
  <2>4. At(i) \in Sessions  BY <1>t, <1>2, AtTyped
  <2>5. QED  BY <1>1, <2>2, <2>3, <2>4
<1>3. CASE i = Len(turns) + 1
  <2>1. At(i)' = s  BY <1>3, StartTurnAdds DEF At
  <2>2. QED  BY <1>1, <1>3, <2>1
<1>4. QED  BY <1>2, <1>3, StartTurnAdds

(* Every step keeps it.                                                    *)
LEMMA LiveStep == IInv /\ LiveIsRunning /\ [Next]_vars => LiveIsRunning'
<1> SUFFICES ASSUME IInv, LiveIsRunning, [Next]_vars PROVE LiveIsRunning'
  OBVIOUS
<1>t. TypeOK  BY DEF IInv
<1>1. ASSUME NEW s \in Sessions, RegisterChannel(s) \/ WorkerStep(s)
      PROVE  LiveIsRunning'
  <2>1. CASE EndTurn(s) \/ ErrorTurn(s)  BY <1>t, <2>1, LiveEnds
  <2>2. CASE StartTurn(s)  BY <2>2, LiveStarts
  <2>3. CASE RegisterChannel(s) \/ Take(s) \/ Prepare(s) \/ UserEventFails(s)
             \/ MarkDelivered(s) \/ MarkFails(s) \/ CutMark(s)
    <3>1. turns' = turns /\ phase' = phase
      BY <2>3 DEF RegisterChannel, Take, Prepare, UserEventFails, MarkDelivered,
         MarkFails, Unmarked, CutMark, durable
    <3>2. \A z \in Sessions : worker[z] = "running" =>
                                worker'[z] = "running" /\ turn'[z] = turn[z]
      BY <1>t, <2>3 DEF RegisterChannel, EnsureWorker, Take, Prepare,
         UserEventFails, MarkDelivered, MarkFails, Unmarked, CutMark, TypeOK
    <3>3. QED  BY <1>t, <3>1, <3>2, LiveStays
  <2>4. QED  BY <1>1, <2>1, <2>2, <2>3 DEF WorkerStep
<1>2. CASE Enqueue
  <2>1. turns' = turns /\ phase' = phase /\ turn' = turn
    BY <1>2 DEF Enqueue, durable
  <2>2. PICK s : EnsureWorker(s)  BY <1>2 DEF Enqueue
  <2>3. \A z \in Sessions : worker[z] = "running" => worker'[z] = "running"
    BY <1>t, <2>2 DEF EnsureWorker, TypeOK
  <2>4. QED  BY <1>t, <2>1, <2>3, LiveStays
<1>3. CASE \E m \in Messages : EnqueueInbound(m)
  BY <1>t, <1>3, LiveStays DEF EnqueueInbound
<1>4. CASE Stop \/ Exit \/ Crash \/ Boot \/ Recover
  <2>1. phase' # "up"
    BY <1>4 DEF Stop, Exit, Crash, ProcessGone, Boot, Recover, RecoverTurn
  <2>2. QED  BY <2>1 DEF LiveIsRunning
<1>5. CASE StartGateway
  <2>1. turns' = turns /\ \A i \in DOMAIN turns : ~Live(i)
    BY <1>5 DEF StartGateway, Swept, Live, durable
  <2>2. QED  BY <2>1 DEF LiveIsRunning, Live
<1>6. CASE UNCHANGED vars
  BY <1>t, <1>6, LiveStays DEF vars, durable, volatile
<1>7. QED  BY <1>1, <1>2, <1>3, <1>4, <1>5, <1>6 DEF Next

(* Within a session no two turns run in parallel, for any sessions and     *)
(* messages, across any number of restarts (gateway.py:17).                *)
THEOREM SerialSessions == Spec => []SerialTurns
<1>1. Init => LiveIsRunning  BY DEF Init, LiveIsRunning
<1>2. LiveIsRunning => SerialTurns  BY DEF LiveIsRunning, SerialTurns, At
<1>3. QED  BY <1>1, <1>2, LiveStep, Invariance, PTL DEF Spec

-----------------------------------------------------------------------------
(* The order of turns: the inductive invariant.                            *)

Accepted == {n \in Messages : row[n] # "none"}

(* Turns are of accepted messages, and none is of this life before the     *)
(* gateway starts.                                                         *)
TurnsAreOld ==
  \A i \in DOMAIN turns : /\ turns[i].msg \in Accepted
                          /\ turns[i].life <= life
                          /\ phase = "recovering" => turns[i].life < life

(* A stamp never exceeds the number of accepted messages.                  *)
StampsAreLow == \A n \in Accepted : stamp[n] <= Cardinality(Accepted)

Earlier(m, S) == \A n \in S \ {Shutdown} : stamp[m] < stamp[n]

Ascending(q) ==
  \A i, j \in DOMAIN q :
    i < j /\ q[i] # Shutdown /\ q[j] # Shutdown => stamp[q[i]] < stamp[q[j]]

(* The messages of s on their way to its queue, and all it has to come.    *)
PutFor(s) == {m \in SeqRange(putting) : SessionOf[m] = s}
Coming(s) == SeqRange(queue[s]) \cup PutFor(s)

(* What a session has in hand is earlier than its queue, and the queue,    *)
(* which is in order, earlier than what is being put.                      *)
LineInOrder ==
  /\ Ascending(putting)
  /\ \A s \in Sessions :
       /\ Ascending(queue[s])
       /\ \A m \in SeqRange(queue[s]) \ {Shutdown} : Earlier(m, PutFor(s))
       /\ cur[s] # NoMsg => Earlier(cur[s], Coming(s))

(* The turns of this life are earlier than all that is to come.            *)
TurnsGoFirst ==
  \A i \in DOMAIN turns : turns[i].life = life =>
    /\ Earlier(turns[i].msg, Coming(At(i)))
    /\ worker[At(i)] \in {"taken", "prepared"}
         => stamp[turns[i].msg] < stamp[cur[At(i)]]

OrderInv == /\ TurnsAreOld /\ StampsAreLow
            /\ LineInOrder /\ TurnsGoFirst /\ TurnsInOrder

-----------------------------------------------------------------------------
(* Queues in order.                                                        *)

(* A put at the end of a queue in order of something later than all of it. *)
LEMMA AppendAscends ==
  ASSUME NEW S, NEW q \in Seq(S), NEW x \in S, Ascending(q),
         x # Shutdown => \A m \in SeqRange(q) \ {Shutdown} : stamp[m] < stamp[x]
  PROVE  Ascending(Append(q, x))
<1>1. /\ Len(q) \in Nat /\ DOMAIN q = 1..Len(q)
      /\ DOMAIN Append(q, x) = 1..(Len(q) + 1)
  BY AppendElems, LenProperties
<1>2. SUFFICES ASSUME NEW i \in 1..(Len(q) + 1), NEW j \in 1..(Len(q) + 1), i < j,
                      Append(q, x)[i] # Shutdown, Append(q, x)[j] # Shutdown
               PROVE  stamp[Append(q, x)[i]] < stamp[Append(q, x)[j]]
  BY <1>1 DEF Ascending
<1>3. i \in DOMAIN q /\ Append(q, x)[i] = q[i]
  <2>1. i # Len(q) + 1  BY <1>1, <1>2
  <2>2. QED  BY <1>1, <1>2, <2>1, AppendElems
<1>4. CASE j = Len(q) + 1
  <2>1. Append(q, x)[j] = x  BY <1>1, <1>4, AppendElems
  <2>2. q[i] \in SeqRange(q)  BY <1>3 DEF SeqRange
  <2>3. QED  BY <1>2, <1>3, <2>1, <2>2
<1>5. CASE j # Len(q) + 1
  <2>1. j \in DOMAIN q /\ Append(q, x)[j] = q[j]
    BY <1>1, <1>5, AppendElems
  <2>2. QED  BY <1>2, <1>3, <2>1 DEF Ascending
<1>6. QED  BY <1>4, <1>5

(* A get from a queue in order: what is left is in order, and later.       *)
LEMMA TailAscends ==
  ASSUME NEW S, NEW q \in Seq(S), q # <<>>, Ascending(q)
  PROVE  /\ Ascending(Tail(q))
         /\ Head(q) # Shutdown => Earlier(Head(q), SeqRange(Tail(q)))
<1>1. /\ 1 \in DOMAIN q /\ q[1] = Head(q)
      /\ \A i \in DOMAIN Tail(q) :
           i + 1 \in DOMAIN q /\ Tail(q)[i] = q[i + 1] /\ i \in Nat
  BY TailElems
<1>2. Ascending(Tail(q))
  <2>1. SUFFICES ASSUME NEW i \in DOMAIN Tail(q), NEW j \in DOMAIN Tail(q), i < j,
                        Tail(q)[i] # Shutdown, Tail(q)[j] # Shutdown
                 PROVE  stamp[Tail(q)[i]] < stamp[Tail(q)[j]]
    BY DEF Ascending
  <2>2. i + 1 < j + 1  BY <1>1, <2>1
  <2>3. QED  BY <1>1, <2>1, <2>2 DEF Ascending
<1>3. ASSUME Head(q) # Shutdown
      PROVE  Earlier(Head(q), SeqRange(Tail(q)))
  <2>1. SUFFICES ASSUME NEW i \in DOMAIN Tail(q), Tail(q)[i] # Shutdown
                 PROVE  stamp[Head(q)] < stamp[Tail(q)[i]]
    BY DEF Earlier, SeqRange
  <2>2. i \in 1..Len(Tail(q)) /\ Len(Tail(q)) \in Nat
    <3>1. Tail(q) \in Seq(S)  BY TailElems
    <3>2. QED  BY <3>1, LenProperties
  <2>3. 1 < i + 1  BY <2>2
  <2>4. QED  BY <1>1, <1>3, <2>1, <2>3 DEF Ascending
<1>4. QED  BY <1>2, <1>3

(* A step after which nothing new is to come.                              *)
LEMMA OrderShrinks ==
  ASSUME TypeOK, OrderInv, SameTable, Accepted' = Accepted,
         UNCHANGED <<stamp, life>>,
         phase' = "recovering" => phase = "recovering",
         Ascending(putting'), SeqRange(putting') \subseteq SeqRange(putting),
         \A s \in Sessions :
           /\ Ascending(queue'[s])
           /\ SeqRange(queue'[s]) \ {Shutdown} \subseteq SeqRange(queue[s])
           /\ cur'[s] \in {cur[s], NoMsg}
           /\ worker'[s] \in {"taken", "prepared"}
                => worker[s] \in {"taken", "prepared"} /\ cur'[s] = cur[s]
  PROVE  OrderInv'
<1> USE DEF OrderInv
<1>1. TurnsAreOld' /\ StampsAreLow'
  BY DEF TurnsAreOld, StampsAreLow, SameTable
<1>2. \A s \in Sessions : PutFor(s)' \subseteq PutFor(s)
  BY DEF PutFor, SeqRange
<1>3. \A s \in Sessions : Coming(s)' \ {Shutdown} \subseteq Coming(s) \ {Shutdown}
  BY <1>2 DEF Coming, SeqRange
<1>4. Ascending(putting)'  BY DEF Ascending
<1>5. ASSUME NEW s \in Sessions
      PROVE  /\ Ascending(queue[s])'
             /\ (\A m \in SeqRange(queue[s]) \ {Shutdown} : Earlier(m, PutFor(s)))'
             /\ (cur[s] # NoMsg => Earlier(cur[s], Coming(s)))'
  <2>1. Ascending(queue[s])'
    <3>1. Ascending(queue'[s])  OBVIOUS
    <3>2. QED  BY <3>1 DEF Ascending
  <2>2. ASSUME NEW m \in SeqRange(queue[s])' \ {Shutdown}
        PROVE  Earlier(m, PutFor(s))'
    <3>1. m \in SeqRange(queue[s]) \ {Shutdown}  BY <2>2 DEF SeqRange
    <3>2. Earlier(m, PutFor(s))  BY <1>5, <3>1 DEF LineInOrder
    <3>3. QED  BY <1>2, <3>2 DEF Earlier
  <2>3. ASSUME cur'[s] # NoMsg
        PROVE  Earlier(cur[s], Coming(s))'
    <3>1. cur'[s] = cur[s]  BY <2>3
    <3>2. Earlier(cur[s], Coming(s))  BY <2>3, <3>1 DEF LineInOrder
    <3>3. QED  BY <1>3, <3>1, <3>2 DEF Earlier
  <2>4. QED  BY <2>1, <2>2, <2>3
<1>6. LineInOrder'  BY <1>4, <1>5 DEF LineInOrder
<1>7. TurnsGoFirst'
  <2>1. SUFFICES ASSUME NEW i \in DOMAIN turns, turns[i].life = life
                 PROVE  /\ Earlier(turns[i].msg, Coming(At(i)))'
                        /\ worker'[At(i)] \in {"taken", "prepared"}
                             => stamp[turns[i].msg] < stamp[cur'[At(i)]]
    BY DEF TurnsGoFirst, SameTable, At
  <2>2. At(i) \in Sessions /\ At(i)' = At(i) /\ turns'[i].msg = turns[i].msg
    BY AtTyped DEF At, SameTable
  <2>3. Earlier(turns[i].msg, Coming(At(i)))  BY <2>1 DEF TurnsGoFirst
  <2>4. Earlier(turns[i].msg, Coming(At(i)))'
    BY <1>3, <2>2, <2>3 DEF Earlier, Coming, PutFor
  <2>5. QED  BY <2>1, <2>2, <2>4 DEF TurnsGoFirst
<1>8. TurnsInOrder'  BY DEF TurnsInOrder, SameTable
<1>9. QED  BY <1>1, <1>6, <1>7, <1>8

(* In particular a step that leaves the queues alone.                      *)
LEMMA OrderStays ==
  ASSUME TypeOK, OrderInv, SameTable, Accepted' = Accepted,
         UNCHANGED <<stamp, life, putting, queue>>,
         phase' = "recovering" => phase = "recovering",
         \A s \in Sessions :
           /\ cur'[s] \in {cur[s], NoMsg}
           /\ worker'[s] \in {"taken", "prepared"}
                => worker[s] \in {"taken", "prepared"} /\ cur'[s] = cur[s]
  PROVE  OrderInv'
<1>1. Ascending(putting') /\ \A s \in Sessions : Ascending(queue'[s])
  BY DEF OrderInv, LineInOrder
<1>2. QED  BY <1>1, OrderShrinks

-----------------------------------------------------------------------------
(* Every step keeps the order.                                             *)

(* The steps of a dispatch but the start of its turn.                      *)
LEMMA DispatchOrder ==
  ASSUME IInv, OrderInv, NEW s \in Sessions,
         RegisterChannel(s) \/ Prepare(s) \/ UserEventFails(s) \/ EndTurn(s)
         \/ ErrorTurn(s) \/ MarkDelivered(s) \/ MarkFails(s) \/ CutMark(s)
  PROVE  OrderInv'
<1>t. TypeOK  BY DEF IInv
<1>1. CASE RegisterChannel(s)
  <2>1. /\ SameTable /\ Accepted' = Accepted
        /\ UNCHANGED <<stamp, life, putting, queue, phase, cur>>
    BY <1>1 DEF RegisterChannel, durable, history, SameTable, Accepted
  <2>2. \A z \in Sessions : worker'[z] \in {"taken", "prepared"}
                              => worker[z] \in {"taken", "prepared"}
    BY <1>1, <1>t DEF RegisterChannel, EnsureWorker, TypeOK
  <2>3. QED  BY <1>t, <2>1, <2>2, OrderStays
<1>2. CASE Prepare(s) \/ UserEventFails(s) \/ EndTurn(s) \/ ErrorTurn(s)
  <2>1. SameTable
    <3>1. CASE EndTurn(s) \/ ErrorTurn(s)  BY <1>t, <3>1, EndTurnWrites
    <3>2. CASE Prepare(s) \/ UserEventFails(s)
      BY <3>2 DEF Prepare, UserEventFails, durable, SameTable
    <3>3. QED  BY <1>2, <3>1, <3>2
  <2>2. /\ Accepted' = Accepted
        /\ UNCHANGED <<stamp, life, putting, queue, phase, cur>>
    BY <1>2 DEF Prepare, UserEventFails, EndTurn, ErrorTurn, durable, Accepted
  <2>3. \A z \in Sessions : worker'[z] \in {"taken", "prepared"}
                              => worker[z] \in {"taken", "prepared"}
    BY <1>2, <1>t DEF Prepare, UserEventFails, EndTurn, ErrorTurn, TypeOK
  <2>4. QED  BY <1>t, <2>1, <2>2, <2>3, OrderStays
<1>3. CASE MarkDelivered(s) \/ MarkFails(s) \/ CutMark(s)
  <2>1. SameTable /\ UNCHANGED <<stamp, life, putting, queue, phase>>
    BY <1>3 DEF MarkDelivered, MarkFails, Unmarked, CutMark, durable, history,
       SameTable
  <2>2. Accepted' = Accepted
    <3>1. cur[s] \in Messages /\ row[cur[s]] = "undelivered"
      BY <1>3 DEF IInv, WorkerHolds, MarkDelivered, MarkFails, Unmarked, CutMark,
         Dispatching
    <3>2. row' = row \/ row' = [row EXCEPT ![cur[s]] = "delivered"]
      BY <1>3 DEF MarkDelivered, MarkFails, Unmarked, CutMark, Delivered, durable
    <3>3. QED  BY <1>t, <3>1, <3>2 DEF Accepted, TypeOK
  <2>3. \A z \in Sessions :
          /\ cur'[z] \in {cur[z], NoMsg}
          /\ worker'[z] \in {"taken", "prepared"}
               => worker[z] \in {"taken", "prepared"} /\ cur'[z] = cur[z]
    BY <1>3, <1>t DEF MarkDelivered, MarkFails, Unmarked, CutMark, TypeOK
  <2>4. QED  BY <1>t, <2>1, <2>2, <2>3, OrderStays
<1>4. QED  BY <1>1, <1>2, <1>3

(* The steps of the process that leave nothing new to come.                *)
LEMMA LifeOrder ==
  ASSUME IInv, OrderInv, Stop \/ Exit \/ Crash \/ Recover \/ UNCHANGED vars
  PROVE  OrderInv'
<1>t. TypeOK  BY DEF IInv
<1>1. CASE Stop
  <2>1. /\ SameTable /\ Accepted' = Accepted /\ phase' = "stopping"
        /\ UNCHANGED <<stamp, life, putting>>
    BY <1>1 DEF Stop, durable, SameTable, Accepted
  <2>2. ASSUME NEW s \in Sessions
        PROVE  /\ Ascending(queue'[s])
               /\ SeqRange(queue'[s]) \ {Shutdown} \subseteq SeqRange(queue[s])
    <3>1. queue[s] \in Seq(Messages \cup {Shutdown}) /\ Ascending(queue[s])
      BY <1>t DEF TypeOK, OrderInv, LineInOrder
    <3>2. queue'[s] = queue[s] \/ queue'[s] = Append(queue[s], Shutdown)
      BY <1>1 DEF Stop, WithSentinel
    <3>3. CASE queue'[s] = Append(queue[s], Shutdown)
      <4>1. Shutdown \in Messages \cup {Shutdown}  OBVIOUS
      <4>2. QED  BY <3>1, <3>3, <4>1, AppendAscends, AppendElems
    <3>4. QED  BY <3>1, <3>2, <3>3
  <2>3. ASSUME NEW s \in Sessions
        PROVE  /\ cur'[s] \in {cur[s], NoMsg}
               /\ worker'[s] \in {"taken", "prepared"}
                    => worker[s] \in {"taken", "prepared"} /\ cur'[s] = cur[s]
    <3>1. PICK cut \in SUBSET {z \in Sessions : worker[z] \in Dispatching},
               lost \in SUBSET ({z \in Sessions : worker[z] = "closing"}) :
            /\ worker' = [z \in Sessions |->
                            IF z \in cut THEN "cut"
                            ELSE IF z \in lost \/ worker[z] = "idle" THEN "dead"
                            ELSE worker[z]]
            /\ cur' = [z \in Sessions |-> IF z \in lost THEN NoMsg ELSE cur[z]]
      BY <1>1 DEF Stop
    <3>2. QED  BY <3>1
  <2>4. Ascending(putting') /\ SeqRange(putting') = SeqRange(putting)
    BY <2>1 DEF OrderInv, LineInOrder
  <2>5. QED  BY <1>t, <2>1, <2>2, <2>3, <2>4, OrderShrinks
<1>2. CASE Exit \/ Crash
  <2>1. /\ SameTable /\ Accepted' = Accepted /\ phase' \in {"down", "stopped"}
        /\ UNCHANGED <<stamp, life>> /\ putting' = <<>>
        /\ \A s \in Sessions : queue'[s] = <<>> /\ cur'[s] = NoMsg
                               /\ worker'[s] = "none"
    BY <1>2 DEF Exit, Crash, ProcessGone, durable, history, SameTable, Accepted
  <2>2. Ascending(<<>>) /\ SeqRange(<<>>) = {}  BY DEF Ascending, SeqRange
  <2>3. QED  BY <1>t, <2>1, <2>2, OrderShrinks
<1>3. CASE Recover
  <2>1. /\ Accepted' = Accepted
        /\ UNCHANGED <<stamp, life, putting, queue, phase, cur, worker>>
    BY <1>3 DEF Recover, RecoverTurn, Accepted
  <2>2. SameTable  BY <1>t, <1>3, RecoverWrites
  <2>3. QED  BY <1>t, <2>1, <2>2, OrderStays
<1>4. CASE UNCHANGED vars
  <2>1. /\ SameTable /\ Accepted' = Accepted
        /\ UNCHANGED <<stamp, life, putting, queue, phase, cur, worker>>
    BY <1>4 DEF vars, durable, volatile, history, SameTable, Accepted
  <2>2. QED  BY <1>t, <2>1, OrderStays
<1>5. QED  BY <1>1, <1>2, <1>3, <1>4

(* A start of the process begins a life without turns.                     *)
LEMMA BootOrder ==
  ASSUME IInv, OrderInv, Boot
  PROVE  OrderInv'
<1>t. TypeOK  BY DEF IInv
<1>1. /\ life \in Nat /\ life' = life + 1
      /\ UNCHANGED <<row, stamp, turns, queue, putting, cur>>
  BY <1>t DEF Boot, durable, TypeOK
<1>2. \A i \in DOMAIN turns : turns[i].life \in Nat /\ turns[i].life <= life
  BY <1>t, AtTyped DEF OrderInv, TurnsAreOld, TurnRow
<1>3. \A i \in DOMAIN turns : turns[i].life < life' /\ turns[i].life # life'
  BY <1>1, <1>2
<1>4. TurnsAreOld'
  BY <1>1, <1>2, <1>3 DEF OrderInv, TurnsAreOld, Accepted
<1>5. StampsAreLow'  BY <1>1 DEF OrderInv, StampsAreLow, Accepted
<1>6. LineInOrder'
  BY <1>1 DEF OrderInv, LineInOrder, Ascending, Earlier, Coming, PutFor
<1>7. TurnsGoFirst'  BY <1>1, <1>3 DEF TurnsGoFirst
<1>8. TurnsInOrder'  BY <1>1 DEF OrderInv, TurnsInOrder
<1>9. QED  BY <1>4, <1>5, <1>6, <1>7, <1>8 DEF OrderInv

(* start() re-enqueues the backlog in order, when nothing else is to come. *)
LEMMA StartGatewayOrder ==
  ASSUME IInv, OrderInv, StartGateway
  PROVE  OrderInv'
<1>t. TypeOK  BY DEF IInv
<1>1. /\ phase = "recovering" /\ phase' = "up"
      /\ UNCHANGED <<row, stamp, turns, putting, cur, life>>
      /\ \A s \in Sessions : InOrder(queue'[s], Backlog(s))
  BY DEF StartGateway, durable, history
<1>2. putting = <<>> /\ \A s \in Sessions : cur[s] = NoMsg
  BY <1>1 DEF IInv, DownIsEmpty, WorkerHolds, Dispatching
<1>3. \A i \in DOMAIN turns : turns[i].life # life
  <2>1. \A i \in DOMAIN turns : turns[i].life \in Nat
    BY <1>t, AtTyped DEF TurnRow
  <2>2. \A i \in DOMAIN turns : turns[i].life < life
    BY <1>1 DEF OrderInv, TurnsAreOld
  <2>3. QED  BY <1>t, <2>1, <2>2 DEF TypeOK
<1>4. TurnsAreOld'  BY <1>1 DEF OrderInv, TurnsAreOld, Accepted
<1>5. StampsAreLow'  BY <1>1 DEF OrderInv, StampsAreLow, Accepted
<1>6. LineInOrder'
  <2>1. Ascending(putting)'  BY <1>1, <1>2 DEF Ascending
  <2>2. \A s \in Sessions : PutFor(s)' = {}
    BY <1>1, <1>2 DEF PutFor, SeqRange
  <2>3. \A s \in Sessions : Ascending(queue[s])'
    BY <1>1 DEF InOrder, Ascending
  <2>4. QED  BY <1>1, <1>2, <2>1, <2>2, <2>3 DEF LineInOrder, Earlier
<1>7. TurnsGoFirst'  BY <1>1, <1>3 DEF TurnsGoFirst
<1>8. TurnsInOrder'  BY <1>1 DEF OrderInv, TurnsInOrder
<1>9. QED  BY <1>4, <1>5, <1>6, <1>7, <1>8 DEF OrderInv

(* q.get() takes what comes next into hand.                                *)
LEMMA TakeOrder ==
  ASSUME IInv, OrderInv, NEW s \in Sessions, Take(s)
  PROVE  OrderInv'
<1> DEFINE h == Head(queue[s])
<1>t. TypeOK  BY DEF IInv
<1>1. /\ worker[s] = "idle" /\ queue[s] # <<>>
      /\ queue' = [queue EXCEPT ![s] = Tail(queue[s])]
      /\ UNCHANGED <<row, stamp, turns, phase, putting, life>>
  BY DEF Take, durable
<1>2. queue[s] \in Seq(Messages \cup {Shutdown}) /\ Ascending(queue[s])
  BY <1>t DEF TypeOK, OrderInv, LineInOrder
<1>3. /\ Ascending(Tail(queue[s]))
      /\ h # Shutdown => Earlier(h, SeqRange(Tail(queue[s])))
      /\ SeqRange(queue[s]) = SeqRange(Tail(queue[s])) \cup {h}
  BY <1>1, <1>2, TailAscends, TailElems
<1>4. \A z \in Sessions :
        /\ queue'[z] = IF z = s THEN Tail(queue[s]) ELSE queue[z]
        /\ Ascending(queue'[z]) /\ SeqRange(queue'[z]) \subseteq SeqRange(queue[z])
  BY <1>t, <1>1, <1>3 DEF TypeOK, OrderInv, LineInOrder
<1> HIDE DEF h
<1>5. CASE h = Shutdown
  <2>1. cur' = cur /\ worker' = [worker EXCEPT ![s] = "dead"]
    BY <1>5 DEF Take, h
  <2>2. SameTable /\ Accepted' = Accepted  BY <1>1 DEF SameTable, Accepted
  <2>3. \A z \in Sessions : worker'[z] \in {"taken", "prepared"}
                              => worker[z] \in {"taken", "prepared"}
    BY <1>t, <2>1 DEF TypeOK
  <2>4. Ascending(putting') /\ SeqRange(putting') = SeqRange(putting)
    BY <1>1 DEF OrderInv, LineInOrder
  <2>5. QED  BY <1>t, <1>1, <1>4, <2>1, <2>2, <2>3, <2>4, OrderShrinks
<1>6. CASE h # Shutdown
  <2>1. \A z \in Sessions :
          /\ cur'[z] = IF z = s THEN h ELSE cur[z]
          /\ worker'[z] = IF z = s THEN "taken" ELSE worker[z]
    BY <1>t, <1>6 DEF Take, TypeOK, h
  <2>2. TurnsAreOld' /\ StampsAreLow' /\ TurnsInOrder'
    BY <1>1 DEF OrderInv, TurnsAreOld, StampsAreLow, TurnsInOrder, Accepted
  <2>3. \A z \in Sessions : /\ PutFor(z)' = PutFor(z)
                            /\ Coming(z)' \subseteq Coming(z)
    BY <1>1, <1>4 DEF PutFor, Coming
  <2>4. LineInOrder'
    <3>1. Ascending(putting)'  BY <1>1 DEF OrderInv, LineInOrder, Ascending
    <3>2. ASSUME NEW z \in Sessions
          PROVE  /\ Ascending(queue[z])'
                 /\ (\A m \in SeqRange(queue[z]) \ {Shutdown} :
                        Earlier(m, PutFor(z)))'
                 /\ (cur[z] # NoMsg => Earlier(cur[z], Coming(z)))'
      <4>1. Ascending(queue[z])'
        <5>1. Ascending(queue'[z])  BY <1>4
        <5>2. QED  BY <1>1, <5>1 DEF Ascending
      <4>2. ASSUME NEW m \in SeqRange(queue[z])' \ {Shutdown}
            PROVE  Earlier(m, PutFor(z))'
        <5>1. m \in SeqRange(queue[z]) \ {Shutdown}
          BY <1>4, <4>2 DEF SeqRange
        <5>2. Earlier(m, PutFor(z))  BY <5>1 DEF OrderInv, LineInOrder
        <5>3. QED  BY <1>1, <2>3, <5>2 DEF Earlier
      <4>3. CASE z # s
        <5>1. cur[z] # NoMsg => Earlier(cur[z], Coming(z))
          BY DEF OrderInv, LineInOrder
        <5>2. QED  BY <1>1, <2>1, <2>3, <4>1, <4>2, <4>3, <5>1 DEF Earlier
      <4>4. CASE z = s
        <5>1. h \in SeqRange(queue[s]) \ {Shutdown}  BY <1>3, <1>6
        <5>2. Earlier(h, PutFor(s))  BY <5>1 DEF OrderInv, LineInOrder
        <5>3. Coming(s)' = SeqRange(Tail(queue[s])) \cup PutFor(s)
          BY <1>4, <2>3 DEF Coming, SeqRange
        <5>4. cur'[s] = h  BY <2>1
        <5>5. Earlier(cur[s], Coming(s))'
          BY <1>1, <1>3, <1>6, <5>2, <5>3, <5>4 DEF Earlier
        <5>6. QED  BY <4>1, <4>2, <4>4, <5>5
      <4>5. QED  BY <4>3, <4>4
    <3>3. QED  BY <3>1, <3>2 DEF LineInOrder
  <2>5. TurnsGoFirst'
    <3>1. SUFFICES ASSUME NEW i \in DOMAIN turns, turns[i].life = life
                   PROVE  /\ Earlier(turns[i].msg, Coming(At(i)))'
                          /\ worker'[At(i)] \in {"taken", "prepared"}
                               => stamp[turns[i].msg] < stamp[cur'[At(i)]]
      BY <1>1 DEF TurnsGoFirst, At
    <3>2. At(i) \in Sessions /\ At(i)' = At(i)  BY <1>t, <1>1, AtTyped DEF At
    <3>3. /\ Earlier(turns[i].msg, Coming(At(i)))
          /\ worker[At(i)] \in {"taken", "prepared"}
               => stamp[turns[i].msg] < stamp[cur[At(i)]]
      BY <3>1 DEF OrderInv, TurnsGoFirst
    <3>4. Earlier(turns[i].msg, Coming(At(i)))'
      BY <1>1, <2>3, <3>2, <3>3 DEF Earlier, Coming, PutFor
    <3>5. CASE At(i) # s  BY <2>1, <3>2, <3>3, <3>4, <3>5
    <3>6. CASE At(i) = s
      <4>1. h \in Coming(s) \ {Shutdown}  BY <1>3, <1>6 DEF Coming
      <4>2. stamp[turns[i].msg] < stamp[h]  BY <3>3, <3>6, <4>1 DEF Earlier
      <4>3. QED  BY <2>1, <3>4, <3>6, <4>2
    <3>7. QED  BY <3>5, <3>6
  <2>6. QED  BY <2>2, <2>4, <2>5 DEF OrderInv
<1>7. QED  BY <1>5, <1>6

(* A turn starts for the message in hand, which is later than the turns    *)
(* before it and earlier than all that is to come.                         *)
LEMMA StartTurnOrder ==
  ASSUME IInv, OrderInv, NEW s \in Sessions, StartTurn(s)
  PROVE  OrderInv'
<1> DEFINE n == Len(turns) + 1
<1>t. TypeOK  BY DEF IInv
<1>1. /\ worker[s] = "prepared" /\ cur[s] # NoMsg
      /\ UNCHANGED <<row, stamp, phase, queue, putting, cur, life>>
      /\ \A z \in Sessions : worker'[z] = IF z = s THEN "running" ELSE worker[z]
  <2>1. /\ worker[s] = "prepared" /\ worker' = [worker EXCEPT ![s] = "running"]
        /\ UNCHANGED <<row, stamp, phase, queue, putting, cur, life>>
    BY DEF StartTurn, history
  <2>2. cur[s] \in Messages /\ NoMsg \notin Messages
    BY StartTurnAdds, GatewayAssumption
  <2>3. worker \in [Sessions -> Idle \cup Dispatching]  BY <1>t DEF TypeOK
  <2>4. QED  BY <2>1, <2>2, <2>3
<1>2. /\ DOMAIN turns' = DOMAIN turns \cup {n} /\ n \notin DOMAIN turns
      /\ turns'[n].msg = cur[s] /\ turns'[n].life = life
      /\ \A j \in DOMAIN turns : turns'[j] = turns[j] /\ j < n
      /\ cur[s] \in Messages /\ SessionOf[cur[s]] = s /\ cur[s] \in Accepted
  BY StartTurnAdds DEF Accepted
<1>n. n \in Nat /\ DOMAIN turns \subseteq Nat
  <2>1. turns \in Seq(TurnRow)  BY <1>t DEF TypeOK
  <2>2. QED  BY <2>1, LenProperties
<1> HIDE DEF n
<1>3. phase # "recovering"
  BY <1>1 DEF IInv, DownIsEmpty
<1>4. TurnsAreOld'
  <2>1. Accepted' = Accepted /\ life \in Nat
    BY <1>t, <1>1 DEF Accepted, TypeOK
  <2>2. QED  BY <1>1, <1>2, <1>3, <2>1 DEF OrderInv, TurnsAreOld
<1>5. StampsAreLow'  BY <1>1 DEF OrderInv, StampsAreLow, Accepted
<1>6. \A z \in Sessions : PutFor(z)' = PutFor(z) /\ Coming(z)' = Coming(z)
  BY <1>1 DEF PutFor, Coming
<1>7. LineInOrder'
  BY <1>1, <1>6 DEF OrderInv, LineInOrder, Ascending, Earlier
<1>8. TurnsGoFirst'
  <2>1. SUFFICES ASSUME NEW i \in DOMAIN turns', turns'[i].life = life
                 PROVE  /\ Earlier(turns[i].msg, Coming(At(i)))'
                        /\ (worker[At(i)] \in {"taken", "prepared"})'
                             => (stamp[turns[i].msg] < stamp[cur[At(i)]])'
    BY <1>1 DEF TurnsGoFirst
  <2>2. CASE i \in DOMAIN turns
    <3>1. At(i) \in Sessions /\ At(i)' = At(i) /\ turns'[i] = turns[i]
      BY <1>t, <1>2, <2>2, AtTyped DEF At
    <3>2. /\ Earlier(turns[i].msg, Coming(At(i)))
          /\ worker[At(i)] \in {"taken", "prepared"}
               => stamp[turns[i].msg] < stamp[cur[At(i)]]
      BY <2>1, <2>2, <3>1 DEF OrderInv, TurnsGoFirst
    <3>3. Earlier(turns[i].msg, Coming(At(i)))'
      BY <1>1, <3>1, <3>2 DEF Earlier, Coming, PutFor
    <3>4. QED  BY <1>1, <3>1, <3>2, <3>3
  <2>3. CASE i = n
    <3>1. At(i)' = s /\ turns'[i].msg = cur[s]  BY <1>2, <2>3 DEF At
    <3>2. Earlier(cur[s], Coming(s))  BY <1>1 DEF OrderInv, LineInOrder
    <3>3. Earlier(turns[i].msg, Coming(At(i)))'
      BY <1>1, <3>1, <3>2 DEF Earlier, Coming, PutFor
    <3>4. QED  BY <1>1, <3>1, <3>3
  <2>4. QED  BY <1>2, <2>1, <2>2, <2>3
<1>9. TurnsInOrder'
  <2>1. SUFFICES ASSUME NEW i \in DOMAIN turns', NEW j \in DOMAIN turns', i < j,
                        turns'[i].life = turns'[j].life, At(i)' = At(j)'
                 PROVE  stamp[turns'[i].msg] < stamp[turns'[j].msg]
    BY <1>1 DEF TurnsInOrder, At
  <2>2. i \in DOMAIN turns /\ turns'[i] = turns[i]
    <3>1. i # n
      BY <1>2, <1>n, <2>1
    <3>2. QED  BY <1>2, <2>1, <3>1
  <2>3. CASE j \in DOMAIN turns
    <3>1. turns'[j] = turns[j]  BY <1>2, <2>3
    <3>2. QED  BY <2>1, <2>2, <2>3, <3>1 DEF OrderInv, TurnsInOrder, At
  <2>4. CASE j = n
    <3>1. turns[i].life = life /\ At(i) = s /\ turns'[j].msg = cur[s]
      BY <1>2, <2>1, <2>2, <2>4 DEF At
    <3>2. stamp[turns[i].msg] < stamp[cur[s]]
      BY <1>1, <2>2, <3>1 DEF OrderInv, TurnsGoFirst
    <3>3. QED  BY <2>2, <3>1, <3>2
  <2>5. QED  BY <1>2, <2>1, <2>3, <2>4
<1>10. QED  BY <1>4, <1>5, <1>7, <1>8, <1>9 DEF OrderInv

(* The first message being put goes to the end of its session's queue.     *)
LEMMA EnqueueOrder ==
  ASSUME IInv, OrderInv, Enqueue
  PROVE  OrderInv'
<1> DEFINE m == Head(putting)
           s == SessionOf[m]
<1>t. TypeOK  BY DEF IInv
<1>1. /\ putting # <<>> /\ putting' = Tail(putting)
      /\ queue' = [queue EXCEPT ![s] = Append(queue[s], m)]
      /\ UNCHANGED <<row, stamp, turns, phase, cur, life>>
  BY DEF Enqueue, durable, history
<1>2. putting \in Seq(Messages) /\ Ascending(putting)
  BY <1>t DEF TypeOK, OrderInv, LineInOrder
<1>3. /\ m \in Messages /\ s \in Sessions /\ m # Shutdown
      /\ SeqRange(putting) = SeqRange(putting') \cup {m}
      /\ Ascending(putting') /\ Earlier(m, SeqRange(putting'))
  BY <1>1, <1>2, TailElems, TailAscends, GatewayAssumption
<1>4. \A z \in Sessions : worker'[z] \in {"taken", "prepared"}
                            => worker[z] \in {"taken", "prepared"}
  BY <1>t DEF Enqueue, EnsureWorker, TypeOK
<1>5. queue[s] \in Seq(Messages \cup {Shutdown}) /\ Ascending(queue[s])
  BY <1>t, <1>3 DEF TypeOK, OrderInv, LineInOrder
<1> HIDE DEF m, s
<1>6. m \in PutFor(s) /\ \A z \in Sessions : PutFor(z)' \subseteq PutFor(z)
  <2>1. m \in SeqRange(putting)  BY <1>3
  <2>2. SeqRange(putting)' \subseteq SeqRange(putting)  BY <1>3 DEF SeqRange
  <2>3. QED  BY <2>1, <2>2 DEF PutFor, s
<1>7. \A k \in SeqRange(queue[s]) \ {Shutdown} : stamp[k] < stamp[m]
  BY <1>3, <1>6 DEF OrderInv, LineInOrder, Earlier
<1>8. /\ Ascending(Append(queue[s], m))
      /\ SeqRange(Append(queue[s], m)) = SeqRange(queue[s]) \cup {m}
  <2>1. m \in Messages \cup {Shutdown}  BY <1>3
  <2>2. QED  BY <1>5, <1>7, <2>1, AppendAscends, AppendElems
<1>9. \A z \in Sessions : queue'[z] = IF z = s THEN Append(queue[s], m)
                                      ELSE queue[z]
  BY <1>t, <1>1 DEF TypeOK
<1>10. \A z \in Sessions : Coming(z)' \subseteq Coming(z)
  <2>1. ASSUME NEW z \in Sessions
        PROVE  SeqRange(queue'[z]) \subseteq Coming(z)
    BY <1>6, <1>8, <1>9 DEF Coming
  <2>2. QED  BY <1>6, <2>1 DEF Coming, SeqRange
<1>11. TurnsAreOld' /\ StampsAreLow' /\ TurnsInOrder'
  BY <1>1 DEF OrderInv, TurnsAreOld, StampsAreLow, TurnsInOrder, Accepted
<1>12. LineInOrder'
  <2>1. Ascending(putting)'  BY <1>1, <1>3 DEF Ascending
  <2>2. ASSUME NEW z \in Sessions
        PROVE  /\ Ascending(queue[z])'
               /\ (\A k \in SeqRange(queue[z]) \ {Shutdown} :
                      Earlier(k, PutFor(z)))'
               /\ (cur[z] # NoMsg => Earlier(cur[z], Coming(z)))'
    <3>1. Ascending(queue'[z])
      BY <1>8, <1>9 DEF OrderInv, LineInOrder
    <3>2. Ascending(queue[z])'  BY <1>1, <3>1 DEF Ascending
    <3>3. ASSUME NEW k \in SeqRange(queue[z])' \ {Shutdown}
          PROVE  Earlier(k, PutFor(z))'
      <4>1. CASE k \in SeqRange(queue[z])
        <5>1. Earlier(k, PutFor(z))  BY <3>3, <4>1 DEF OrderInv, LineInOrder
        <5>2. QED  BY <1>1, <1>6, <5>1 DEF Earlier
      <4>2. CASE k \notin SeqRange(queue[z])
        <5>1. k \in SeqRange(queue'[z])  BY <3>3 DEF SeqRange
        <5>2. k = m  BY <1>8, <1>9, <4>2, <5>1
        <5>3. PutFor(z)' \subseteq SeqRange(putting')  BY DEF PutFor, SeqRange
        <5>4. QED  BY <1>1, <1>3, <5>2, <5>3 DEF Earlier
      <4>3. QED  BY <4>1, <4>2
    <3>4. cur[z] # NoMsg => Earlier(cur[z], Coming(z))
      BY DEF OrderInv, LineInOrder
    <3>5. QED  BY <1>1, <1>10, <3>2, <3>3, <3>4 DEF Earlier
  <2>3. QED  BY <2>1, <2>2 DEF LineInOrder
<1>13. TurnsGoFirst'
  <2>1. SUFFICES ASSUME NEW i \in DOMAIN turns, turns[i].life = life
                 PROVE  /\ Earlier(turns[i].msg, Coming(At(i)))'
                        /\ worker'[At(i)] \in {"taken", "prepared"}
                             => stamp[turns[i].msg] < stamp[cur[At(i)]]
    BY <1>1 DEF TurnsGoFirst, At
  <2>2. At(i) \in Sessions /\ At(i)' = At(i)  BY <1>t, <1>1, AtTyped DEF At
  <2>3. /\ Earlier(turns[i].msg, Coming(At(i)))
        /\ worker[At(i)] \in {"taken", "prepared"}
             => stamp[turns[i].msg] < stamp[cur[At(i)]]
    BY <2>1 DEF OrderInv, TurnsGoFirst
  <2>4. Earlier(turns[i].msg, Coming(At(i)))'
    BY <1>1, <1>10, <2>2, <2>3 DEF Earlier, Coming, PutFor
  <2>5. QED  BY <1>4, <2>2, <2>3, <2>4
<1>14. QED  BY <1>11, <1>12, <1>13 DEF OrderInv

(* A new row gets the latest stamp.                                        *)
LEMMA EnqueueInboundOrder ==
  ASSUME IInv, OrderInv, NEW m \in Messages, EnqueueInbound(m)
  PROVE  OrderInv'
<1>t. TypeOK  BY DEF IInv
<1>1. /\ m \notin Accepted /\ Accepted' = Accepted \cup {m}
      /\ stamp' = [stamp EXCEPT ![m] = 1 + Cardinality(Accepted)]
      /\ putting' = Append(putting, m) /\ phase # "recovering"
      /\ UNCHANGED <<turns, phase, queue, worker, cur, life>>
  BY <1>t DEF EnqueueInbound, history, Accepted, TypeOK
<1>2. /\ Cardinality(Accepted) \in Nat
      /\ Cardinality(Accepted') = Cardinality(Accepted) + 1
  <2>1. IsFiniteSet(Accepted)
    BY FS_Subset, GatewayAssumption DEF Accepted
  <2>2. QED  BY <1>1, <2>1, FS_CardinalityType, FS_AddElement
<1>3. /\ \A n \in Accepted : stamp'[n] = stamp[n] /\ stamp[n] \in Nat
                             /\ stamp[n] < stamp'[m]
      /\ stamp'[m] = 1 + Cardinality(Accepted)
  <2>1. /\ \A n \in Messages : stamp[n] \in Nat
        /\ \A n \in Messages : stamp'[n] = IF n = m THEN 1 + Cardinality(Accepted)
                                           ELSE stamp[n]
    BY <1>t, <1>1 DEF TypeOK
  <2>2. \A n \in Accepted : stamp[n] < 1 + Cardinality(Accepted)
    BY <1>2, <2>1 DEF OrderInv, StampsAreLow, Accepted
  <2>3. QED  BY <1>1, <2>1, <2>2 DEF Accepted
<1>4. /\ \A s \in Sessions : SeqRange(queue[s]) \ {Shutdown} \subseteq Accepted
      /\ SeqRange(putting) \subseteq Accepted
      /\ \A s \in Sessions : cur[s] # NoMsg => cur[s] \in Accepted
      /\ \A i \in DOMAIN turns : turns[i].msg \in Accepted
  <2>1. ASSUME NEW s \in Sessions
        PROVE  SeqRange(queue[s]) \ {Shutdown} \subseteq Accepted
    <3>1. queue[s] \in Seq(Messages \cup {Shutdown})  BY <1>t DEF TypeOK
    <3>2. \A i \in DOMAIN queue[s] : queue[s][i] \in Messages \cup {Shutdown}
      BY <3>1
    <3>3. QED  BY <3>2 DEF IInv, QueueHolds, SeqRange, Accepted
  <2>2. SeqRange(putting) \subseteq Accepted
    <3>1. putting \in Seq(Messages)  BY <1>t DEF TypeOK
    <3>2. \A i \in DOMAIN putting : putting[i] \in Messages  BY <3>1
    <3>3. QED  BY <3>2 DEF IInv, PuttingHolds, SeqRange, Accepted
  <2>3. \A s \in Sessions : cur[s] # NoMsg => cur[s] \in Accepted
    BY DEF IInv, WorkerHolds, Accepted
  <2>4. QED  BY <2>1, <2>2, <2>3 DEF OrderInv, TurnsAreOld
<1>5. /\ SeqRange(putting') = SeqRange(putting) \cup {m}
      /\ Ascending(putting)'
  <2>1. putting \in Seq(Messages) /\ Len(putting) \in Nat
        /\ DOMAIN putting = 1..Len(putting)
    BY <1>t, LenProperties DEF TypeOK
  <2>2. /\ SeqRange(putting') = SeqRange(putting) \cup {m}
        /\ DOMAIN putting' = 1..(Len(putting) + 1)
        /\ \A i \in DOMAIN putting' :
             IF i = Len(putting) + 1 THEN putting'[i] = m
             ELSE i \in DOMAIN putting /\ putting'[i] = putting[i]
    BY <1>1, <2>1, AppendElems
  <2>3. ASSUME NEW i \in DOMAIN putting', NEW j \in DOMAIN putting', i < j
        PROVE  stamp'[putting'[i]] < stamp'[putting'[j]]
    <3>1. i # Len(putting) + 1  BY <2>1, <2>2, <2>3
    <3>2. /\ i \in DOMAIN putting /\ putting'[i] = putting[i]
          /\ putting[i] \in Accepted
      BY <1>4, <2>2, <3>1 DEF SeqRange
    <3>3. CASE j = Len(putting) + 1  BY <1>3, <2>2, <3>2, <3>3
    <3>4. CASE j # Len(putting) + 1
      <4>1. /\ j \in DOMAIN putting /\ putting'[j] = putting[j]
            /\ putting[j] \in Accepted
        BY <1>4, <2>2, <3>4 DEF SeqRange
      <4>2. stamp[putting[i]] < stamp[putting[j]]
        <5>1. putting[i] # Shutdown /\ putting[j] # Shutdown
          BY <3>2, <4>1, GatewayAssumption DEF Accepted
        <5>2. QED
          BY <2>3, <3>2, <4>1, <5>1 DEF OrderInv, LineInOrder, Ascending
      <4>3. QED  BY <1>3, <3>2, <4>1, <4>2
    <3>5. QED  BY <3>3, <3>4
  <2>4. QED  BY <2>2, <2>3 DEF Ascending
<1>6. \A z \in Sessions : /\ PutFor(z)' \subseteq PutFor(z) \cup {m}
                          /\ Coming(z)' \subseteq Coming(z) \cup {m}
                          /\ PutFor(z) \subseteq Accepted
                          /\ Coming(z) \ {Shutdown} \subseteq Accepted
  <2>1. SeqRange(putting)' = SeqRange(putting) \cup {m}  BY <1>5 DEF SeqRange
  <2>2. QED  BY <1>1, <1>4, <2>1 DEF PutFor, Coming
<1>7. ASSUME NEW k \in Accepted, NEW z \in Sessions
      PROVE  Earlier(k, PutFor(z)) => Earlier(k, PutFor(z))'
  BY <1>3, <1>6 DEF Earlier
<1>8. TurnsAreOld'  BY <1>1 DEF OrderInv, TurnsAreOld
<1>9. StampsAreLow'
  <2>1. \A n \in Accepted : stamp'[n] <= Cardinality(Accepted) + 1
    BY <1>2, <1>3 DEF OrderInv, StampsAreLow
  <2>2. QED  BY <1>1, <1>2, <1>3, <2>1 DEF StampsAreLow
<1>10. LineInOrder'
  <2>1. ASSUME NEW z \in Sessions
        PROVE  /\ Ascending(queue[z])'
               /\ (\A k \in SeqRange(queue[z]) \ {Shutdown} :
                      Earlier(k, PutFor(z)))'
               /\ (cur[z] # NoMsg => Earlier(cur[z], Coming(z)))'
    <3>1. Ascending(queue[z])'
      <4>1. \A i \in DOMAIN queue[z] : queue[z][i] # Shutdown =>
                                         queue[z][i] \in Accepted
        BY <1>4 DEF SeqRange
      <4>2. Ascending(queue[z])  BY DEF OrderInv, LineInOrder
      <4>3. QED  BY <1>1, <1>3, <4>1, <4>2 DEF Ascending
    <3>2. ASSUME NEW k \in SeqRange(queue[z]) \ {Shutdown}
          PROVE  Earlier(k, PutFor(z))'
      BY <1>4, <1>7 DEF OrderInv, LineInOrder
    <3>3. (\A k \in SeqRange(queue[z]) \ {Shutdown} : Earlier(k, PutFor(z)))'
      BY <1>1, <3>2 DEF SeqRange
    <3>4. ASSUME cur[z] # NoMsg
          PROVE  Earlier(cur[z], Coming(z))'
      <4>1. cur[z] \in Accepted /\ Earlier(cur[z], Coming(z))
        BY <1>4, <3>4 DEF OrderInv, LineInOrder
      <4>2. \A n \in Coming(z)' \ {Shutdown} : stamp'[cur[z]] < stamp'[n]
        BY <1>3, <1>6, <4>1 DEF Earlier
      <4>3. QED  BY <1>1, <4>2 DEF Earlier
    <3>5. QED  BY <1>1, <3>1, <3>3, <3>4
  <2>2. QED  BY <1>5, <2>1 DEF LineInOrder
<1>11. TurnsGoFirst'
  <2>1. SUFFICES ASSUME NEW i \in DOMAIN turns, turns[i].life = life
                 PROVE  /\ Earlier(turns[i].msg, Coming(At(i)))'
                        /\ worker[At(i)] \in {"taken", "prepared"}
                             => stamp'[turns[i].msg] < stamp'[cur[At(i)]]
    BY <1>1 DEF TurnsGoFirst, At
  <2>2. At(i) \in Sessions /\ At(i)' = At(i) /\ turns[i].msg \in Accepted
    BY <1>t, <1>1, <1>4, AtTyped DEF At
  <2>3. /\ Earlier(turns[i].msg, Coming(At(i)))
        /\ worker[At(i)] \in {"taken", "prepared"}
             => stamp[turns[i].msg] < stamp[cur[At(i)]]
    BY <2>1 DEF OrderInv, TurnsGoFirst
  <2>4. Earlier(turns[i].msg, Coming(At(i)))'
    <3>1. \A n \in Coming(At(i))' \ {Shutdown} : stamp'[turns[i].msg] < stamp'[n]
      BY <1>3, <1>6, <2>2, <2>3 DEF Earlier, Coming, PutFor
    <3>2. QED  BY <1>1, <3>1 DEF Earlier
  <2>5. worker[At(i)] \in {"taken", "prepared"} => cur[At(i)] \in Accepted
    BY <2>2 DEF IInv, WorkerHolds, Dispatching, Accepted
  <2>6. QED  BY <1>3, <2>2, <2>3, <2>4, <2>5
<1>12. TurnsInOrder'
  BY <1>1, <1>3, <1>4 DEF OrderInv, TurnsInOrder
<1>13. QED  BY <1>8, <1>9, <1>10, <1>11, <1>12 DEF OrderInv

(* Every step keeps the order.                                             *)
LEMMA OrderStep == IInv /\ OrderInv /\ [Next]_vars => OrderInv'
<1> SUFFICES ASSUME IInv, OrderInv, [Next]_vars PROVE OrderInv'
  OBVIOUS
<1>1. ASSUME NEW s \in Sessions, RegisterChannel(s) \/ WorkerStep(s)
      PROVE  OrderInv'
  BY <1>1, TakeOrder, StartTurnOrder, DispatchOrder DEF WorkerStep
<1>2. ASSUME NEW m \in Messages, EnqueueInbound(m) PROVE OrderInv'
  BY <1>2, EnqueueInboundOrder
<1>3. CASE Enqueue  BY <1>3, EnqueueOrder
<1>4. CASE Stop \/ Exit \/ Crash \/ Recover \/ UNCHANGED vars
  BY <1>4, LifeOrder
<1>5. CASE Boot  BY <1>5, BootOrder
<1>6. CASE StartGateway  BY <1>6, StartGatewayOrder
<1>7. QED  BY <1>1, <1>2, <1>3, <1>4, <1>5, <1>6 DEF Next

(* Between two starts of the process the turns of a session run in the     *)
(* order of the messages' timestamps and no message gets two, whether it   *)
(* came through submit() or through the re-enqueue of Gateway.start.       *)
THEOREM OrderedTurns == Spec => []TurnsInOrder
<1>1. Init => OrderInv
  <2>1. SUFFICES ASSUME Init PROVE OrderInv
    OBVIOUS
  <2>2. /\ Accepted = {} /\ turns = <<>> /\ putting = <<>>
        /\ \A s \in Sessions : queue[s] = <<>> /\ cur[s] = NoMsg
    BY <2>1 DEF Init, Accepted
  <2>3. Ascending(<<>>) /\ SeqRange(<<>>) = {}  BY DEF Ascending, SeqRange
  <2>4. TurnsAreOld /\ StampsAreLow /\ TurnsGoFirst /\ TurnsInOrder
    BY <2>2 DEF TurnsAreOld, StampsAreLow, TurnsGoFirst, TurnsInOrder
  <2>5. LineInOrder  BY <2>2, <2>3 DEF LineInOrder
  <2>6. QED  BY <2>4, <2>5 DEF OrderInv
<1>2. OrderInv => TurnsInOrder  BY DEF OrderInv
<1>3. QED  BY <1>1, <1>2, OrderStep, Invariance, PTL DEF Spec
=============================================================================
