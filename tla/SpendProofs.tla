----------------------------- MODULE SpendProofs -----------------------------
(***************************************************************************)
(* Theorems about Spend, for any sessions, budget, levels and chain.       *)
(***************************************************************************)
EXTENDS Spend, FiniteSetTheorems, WellFoundedInduction, TLAPS

-----------------------------------------------------------------------------
(* The inductive invariant.                                                *)

(* What a turn still holds at each place.                                  *)
Places ==
  \A s \in Sessions :
    /\ turn[s].pc = "idle" => turn[s] = Idle
    /\ turn[s].pc = "asking" => turn[s].rounds < MaxRounds
    /\ turn[s].pc = "read" => turn[s].served = {}

(* The sessions whose call is admitted, or will be, and has booked nothing *)
(* so far.                                                                 *)
Admitted ==
  {s \in Sessions : \/ turn[s].pc \in {"trying", "streaming"}
                    \/ turn[s].pc = "read" /\ turn[s].read < Budget}

(* What is booked, and what the admitted calls may still book.             *)
InFlight ==
  booked + Cardinality(Admitted) * MaxCost < Budget + Cardinality(Sessions) * MaxCost

(* An alert of the day the marks are for leaves no lower level unmarked.   *)
Marked ==
  \A i \in DOMAIN fired :
    /\ fired[i][1] <= alertedDay
    /\ fired[i][1] = alertedDay => \A l \in Levels : l <= fired[i][2] => l \in alerted

IInv == TypeOK /\ Places /\ InFlight /\ OneModelAnswers /\ Marked /\ AlertsRise

-----------------------------------------------------------------------------
(* Lemmas on numbers and sets.                                             *)

LEMMA Products ==
  ASSUME NEW m \in Nat, NEW a \in Nat, NEW b \in Nat, a <= b
  PROVE  /\ a * m \in Nat
         /\ a * m <= b * m
         /\ (a + 1) * m = a * m + m
<1>1. a * m \in Nat  OBVIOUS
<1>2. (a + 1) * m = a * m + m  OBVIOUS
<1>3. PICK d \in Nat : b = a + d
  <2>1. b - a \in Nat /\ b = a + (b - a)  OBVIOUS
  <2>2. QED  BY <2>1
<1>4. b * m = a * m + d * m  BY <1>3
<1>5. d * m \in Nat  BY <1>3
<1>6. QED  BY <1>1, <1>2, <1>4, <1>5

(* Of the levels that a spend reached one is the highest.                  *)
LEMMA HighestIsMax ==
  ASSUME NEW n \in Nat, NEW levels, levels \subseteq Nat, levels # {},
         \A l \in levels : l <= n
  PROVE  /\ Highest(levels) \in levels
         /\ \A k \in levels : k <= Highest(levels)
<1> DEFINE gaps == {n - l : l \in levels}
           less == {p \in Nat \X Nat : p[1] < p[2]}
<1>1. gaps \subseteq Nat /\ gaps # {}
  <2>1. \A l \in levels : n - l \in Nat  OBVIOUS
  <2>2. QED  BY <2>1
<1>2. PICK g \in gaps : \A h \in gaps : <<h, g>> \notin less
  <2> HIDE DEF gaps, less
  <2>1. IsWellFoundedOn(less, Nat)  BY NatLessThanWellFounded DEF less, OpToRel
  <2>2. QED  BY <1>1, <2>1, WFMin
<1>3. ASSUME NEW h \in gaps PROVE g <= h
  <2>1. g \in Nat /\ h \in Nat  BY <1>1
  <2>2. ~ (h < g)  BY <1>2, <2>1
  <2>3. QED  BY <2>1, <2>2
<1>4. PICK l \in levels : g = n - l  OBVIOUS
<1>5. \A k \in levels : k <= l
  <2>1. SUFFICES ASSUME NEW k \in levels PROVE k <= l  OBVIOUS
  <2>2. n - k \in gaps  OBVIOUS
  <2>3. n - l <= n - k  BY <1>3, <1>4, <2>2
  <2>4. n \in Nat /\ k \in Nat /\ l \in Nat  OBVIOUS
  <2>5. QED  BY <2>3, <2>4
<1>6. QED  BY <1>5 DEF Highest

LEMMA Chains ==
  ASSUME NEW m \in Catalog
  PROVE  /\ Chain(m) \in Seq(Catalog)
         /\ Len(Chain(m)) \in 1..(Len(Fallbacks) + 1)
<1>1. Fallbacks \in Seq(Catalog)  BY SpendAssumption
<1>2. Len(<<m>> \o Fallbacks) = Len(Fallbacks) + 1  BY <1>1
<1>3. QED  BY <1>1, <1>2 DEF Chain

-----------------------------------------------------------------------------
(* Types and places.                                                       *)

LEMMA IdleType == Idle \in Turn
BY SpendAssumption DEF Idle, Turn

(* What a step that moves one turn has to show of it.                      *)
LEMMA TurnMoves ==
  ASSUME TypeOK, Places, NEW s \in Sessions, NEW t \in Turn,
         turn' = [turn EXCEPT ![s] = t],
         t.at <= Len(Chain(t.want)),
         t.pc = "idle" => t = Idle,
         t.pc = "asking" => t.rounds < MaxRounds,
         t.pc = "read" => t.served = {}
  PROVE  /\ turn' \in [Sessions -> Turn]
         /\ \A u \in Sessions : turn'[u].at <= Len(Chain(turn'[u].want))
         /\ Places'
BY DEF TypeOK, Places

LEMMA IdleMoves ==
  ASSUME TypeOK, Places, NEW s \in Sessions, turn' = [turn EXCEPT ![s] = Idle]
  PROVE  /\ turn' \in [Sessions -> Turn]
         /\ \A u \in Sessions : turn'[u].at <= Len(Chain(turn'[u].want))
         /\ Places'
<1>1. Idle.at <= Len(Chain(Idle.want))  BY Chains, SpendAssumption DEF Idle
<1>2. Idle.pc = "idle"  BY DEF Idle
<1>3. QED  BY <1>1, <1>2, IdleType, TurnMoves

(* The checks of the alerts keep the types of what they change.            *)
LEMMA AlertTypes ==
  ASSUME TypeOK, NEW spent \in Nat, CheckAlerts(spent), day' = day
  PROVE  /\ alerted' \subseteq Levels
         /\ alertedDay' \in 0..day'
         /\ fired' \in Seq((1..MaxDays) \X Levels)
         /\ alertTasks' \in 0..Len(fired')
<1> DEFINE crossed == Crossed(spent)
<1>1. crossed \subseteq Levels /\ Levels \subseteq Nat  BY SpendAssumption DEF Crossed
<1>2. CASE crossed = {}
  BY <1>1, <1>2 DEF CheckAlerts, Fire, TypeOK, Today
<1>3. CASE crossed # {}
  <2>1. Highest(crossed) \in Levels
    <3>1. \A l \in crossed : l <= spent  BY DEF Crossed
    <3>2. QED  BY <1>1, <1>3, <3>1, HighestIsMax
  <2>2. /\ alertTasks' = alertTasks + 1
        /\ fired' = Append(fired, <<day, Highest(crossed)>>)
    BY <1>3 DEF CheckAlerts, Fire
  <2>3. <<day, Highest(crossed)>> \in (1..MaxDays) \X Levels  BY <2>1 DEF TypeOK
  <2>4. alerted' \subseteq Levels /\ alertedDay' \in 0..day'
    <3>1. Today \subseteq Levels  BY DEF TypeOK, Today
    <3>2. alerted' = Today \cup crossed /\ alertedDay' = day  BY DEF CheckAlerts
    <3>3. day \in Nat  BY SpendAssumption DEF TypeOK
    <3>4. alerted' \subseteq Levels  BY <1>1, <3>1, <3>2
    <3>5. alertedDay' \in 0..day'  BY <3>2, <3>3
    <3>6. QED  BY <3>4, <3>5
  <2>5. /\ fired' \in Seq((1..MaxDays) \X Levels)
        /\ Len(fired') = Len(fired) + 1
    BY <2>2, <2>3 DEF TypeOK
  <2>6. QED  BY <2>2, <2>4, <2>5 DEF TypeOK
<1>4. QED  BY <1>2, <1>3

LEMMA TypeInit == Init => TypeOK /\ Places
<1> SUFFICES ASSUME Init PROVE TypeOK /\ Places  OBVIOUS
<1>1. turn = [s \in Sessions |-> Idle]  BY DEF Init
<1>2. Idle \in Turn /\ Idle.at <= Len(Chain(Idle.want)) /\ Idle.pc = "idle"
  BY IdleType, Chains, SpendAssumption DEF Idle
<1>3. Places  BY <1>1, <1>2 DEF Places
<1>4. /\ turn \in [Sessions -> Turn]
      /\ \A s \in Sessions : turn[s].at <= Len(Chain(turn[s].want))
  BY <1>1, <1>2
<1>5. mirrors \in [Costs -> Nat] /\ inbox \in [Sessions -> Nat]  BY DEF Init
<1>6. fired \in Seq((1..MaxDays) \X Levels) /\ alertTasks \in 0..Len(fired)
  BY DEF Init
<1>7. /\ booked \in Nat /\ mirrored \in Nat /\ day \in 1..MaxDays
      /\ alerted \subseteq Levels /\ alertedDay \in 0..day
      /\ selected \in Catalog /\ messages \in 0..MaxMessages /\ lives \in 1..MaxLives
  BY SpendAssumption DEF Init
<1>8. QED  BY <1>3, <1>4, <1>5, <1>6, <1>7 DEF TypeOK

LEMMA TypeStep == TypeOK /\ Places /\ [Next]_vars => TypeOK' /\ Places'
<1> SUFFICES ASSUME TypeOK, Places, [Next]_vars PROVE TypeOK' /\ Places'  OBVIOUS
<1> USE SpendAssumption
<1>1. ASSUME NEW s \in Sessions, Submit(s) PROVE TypeOK' /\ Places'
  <2>1. inbox' \in [Sessions -> Nat] /\ messages' \in 0..MaxMessages
    BY <1>1 DEF Submit, TypeOK
  <2>2. UNCHANGED <<budgetVars, selected, turn, lives>>  BY <1>1 DEF Submit
  <2>3. Places'  BY <2>2 DEF Places
  <2>4. QED  BY <2>1, <2>2, <2>3 DEF TypeOK, budgetVars, alertVars
<1>2. ASSUME NEW m \in Catalog, SetModel(m) PROVE TypeOK' /\ Places'
  <2>1. selected' \in Catalog /\ UNCHANGED <<budgetVars, turn, inbox, messages, lives>>
    BY <1>2 DEF SetModel
  <2>2. Places'  BY <2>1 DEF Places
  <2>3. QED  BY <2>1, <2>2 DEF TypeOK, budgetVars, alertVars
<1>3. ASSUME Midnight PROVE TypeOK' /\ Places'
  <2>1. day' \in 1..MaxDays /\ day \in Nat /\ day' = day + 1 /\ booked' = 0 /\ mirrored' = 0
    BY <1>3 DEF Midnight, TypeOK
  <2>2. alertedDay \in 0..day'  BY <2>1 DEF TypeOK
  <2>3. UNCHANGED <<mirrors, alertVars, selected, turn, inbox, messages, lives>>
    BY <1>3 DEF Midnight
  <2>4. Places'  BY <2>3 DEF Places
  <2>5. QED  BY <2>1, <2>2, <2>3, <2>4 DEF TypeOK, alertVars
<1>4. ASSUME NEW s \in Sessions, SendAlert(s) PROVE TypeOK' /\ Places'
  <2>1. /\ alertTasks' \in 0..Len(fired')
        /\ inbox' \in [Sessions -> Nat]
    BY <1>4 DEF SendAlert, TypeOK
  <2>2. QED  BY <1>4, <2>1 DEF SendAlert, TypeOK, Places
<1>5. ASSUME NEW c \in Costs, Mirror(c) PROVE TypeOK' /\ Places'
  <2>1. c \in Nat  BY DEF Costs
  <2>2. mirrors' \in [Costs -> Nat] /\ mirrored' \in Nat  BY <1>5, <2>1 DEF Mirror, TypeOK
  <2>3. UNCHANGED <<booked, day, alertVars, selected, turn, inbox, messages, lives>>
    BY <1>5 DEF Mirror
  <2>4. Places'  BY <2>3 DEF Places
  <2>5. QED  BY <2>2, <2>3, <2>4 DEF TypeOK, alertVars
<1>6. ASSUME Crash PROVE TypeOK' /\ Places'
  <2>1. /\ turn' \in [Sessions -> Turn]
        /\ \A s \in Sessions : turn'[s].at <= Len(Chain(turn'[s].want))
        /\ Places'
    <3>1. Idle \in Turn /\ Idle.at <= Len(Chain(Idle.want)) /\ Idle.pc = "idle"
      BY IdleType, Chains DEF Idle
    <3>2. turn' = [s \in Sessions |-> Idle]  BY <1>6 DEF Crash
    <3>3. QED  BY <3>1, <3>2 DEF Places
  <2>2. QED  BY <1>6, <2>1 DEF Crash, TypeOK
<1>7. ASSUME NEW s \in Sessions, StartTurn(s) PROVE TypeOK' /\ Places'
  <2> DEFINE t == [turn[s] EXCEPT !.pc = "asking", !.want = selected]
  <2>1. turn' = [turn EXCEPT ![s] = t]  BY <1>7 DEF StartTurn, TypeOK
  <2>2. turn[s] = Idle  BY <1>7 DEF StartTurn, Places
  <2>3. /\ t \in Turn
        /\ t.pc = "asking" /\ t.rounds < MaxRounds /\ t.at = 1 /\ t.want \in Catalog
    <3>1. /\ Idle \in Turn /\ Idle.rounds = 0 /\ Idle.at = 1 /\ selected \in Catalog
          /\ 0 < MaxRounds
      BY IdleType DEF Idle, TypeOK
    <3>2. QED  BY <2>2, <3>1 DEF Turn
  <2>4. t.at <= Len(Chain(t.want))
    <3> HIDE DEF t
    <3>1. Len(Chain(t.want)) \in 1..(Len(Fallbacks) + 1)  BY <2>3, Chains
    <3>2. QED  BY <2>3, <3>1
  <2>5. /\ turn' \in [Sessions -> Turn]
        /\ \A u \in Sessions : turn'[u].at <= Len(Chain(turn'[u].want))
        /\ Places'
    <3> HIDE DEF t
    <3>1. QED  BY <2>1, <2>3, <2>4, TurnMoves
  <2>6. inbox' \in [Sessions -> Nat]
    <3>1. inbox' = [inbox EXCEPT ![s] = inbox[s] - 1] /\ inbox[s] > 0
      BY <1>7 DEF StartTurn
    <3>2. inbox \in [Sessions -> Nat] /\ inbox[s] - 1 \in Nat  BY <3>1 DEF TypeOK
    <3>3. QED  BY <3>1, <3>2
  <2>7. UNCHANGED <<budgetVars, selected, messages, lives>>  BY <1>7 DEF StartTurn
  <2>8. QED  BY <2>5, <2>6, <2>7 DEF TypeOK, budgetVars, alertVars
<1>8. ASSUME NEW s \in Sessions, ReadSpent(s) PROVE TypeOK' /\ Places'
  <2> DEFINE t == [turn[s] EXCEPT !.pc = "read", !.read = Spent,
                     !.rounds = @ + 1, !.at = 1, !.served = {}, !.cost = 0]
  <2>1. turn' = [turn EXCEPT ![s] = t]  BY <1>8 DEF ReadSpent, TypeOK
  <2>2. turn[s] \in Turn /\ turn[s].rounds < MaxRounds
    BY <1>8 DEF ReadSpent, TypeOK, Places
  <2>7. Spent \in Nat  BY DEF TypeOK, Spent
  <2>3. t \in Turn /\ t.pc = "read" /\ t.at = 1 /\ t.served = {} /\ t.want \in Catalog
    <3>1. turn[s].rounds + 1 \in 0..MaxRounds  BY <2>2 DEF Turn
    <3>2. 1 \in 1..(Len(Fallbacks) + 1)
      <4>1. Len(Fallbacks) \in Nat  OBVIOUS
      <4>2. QED  BY <4>1
    <3>3. QED  BY <2>2, <2>7, <3>1, <3>2 DEF Turn
  <2>4. t.at <= Len(Chain(t.want))
    <3> HIDE DEF t
    <3>1. Len(Chain(t.want)) \in 1..(Len(Fallbacks) + 1)  BY <2>3, Chains
    <3>2. QED  BY <2>3, <3>1
  <2>5. /\ turn' \in [Sessions -> Turn]
        /\ \A u \in Sessions : turn'[u].at <= Len(Chain(turn'[u].want))
        /\ Places'
    <3> HIDE DEF t
    <3>1. QED  BY <2>1, <2>3, <2>4, TurnMoves
  <2>6. QED  BY <1>8, <2>5 DEF ReadSpent, TypeOK, budgetVars, alertVars
<1>9. ASSUME NEW s \in Sessions, Admit(s) PROVE TypeOK' /\ Places'
  <2> DEFINE t == [turn[s] EXCEPT !.pc = "trying", !.read = 0]
  <2>1. turn' = [turn EXCEPT ![s] = t]  BY <1>9 DEF Admit, TypeOK
  <2>2. turn[s] \in Turn /\ turn[s].at <= Len(Chain(turn[s].want))  BY DEF TypeOK
  <2>3. t \in Turn /\ t.pc = "trying" /\ t.at <= Len(Chain(t.want))  BY <2>2 DEF Turn
  <2>4. /\ turn' \in [Sessions -> Turn]
        /\ \A u \in Sessions : turn'[u].at <= Len(Chain(turn'[u].want))
        /\ Places'
    <3> HIDE DEF t
    <3>1. QED  BY <2>1, <2>3, TurnMoves
  <2>5. turn[s].read \in Nat  BY <2>2 DEF Turn
  <2>6. /\ alerted' \subseteq Levels /\ alertedDay' \in 0..day'
        /\ fired' \in Seq((1..MaxDays) \X Levels) /\ alertTasks' \in 0..Len(fired')
    BY <1>9, <2>5, AlertTypes DEF Admit
  <2>7. QED  BY <1>9, <2>4, <2>6 DEF Admit, TypeOK
<1>10. ASSUME NEW s \in Sessions, Refuse(s) PROVE TypeOK' /\ Places'
  <2>1. /\ turn' \in [Sessions -> Turn]
        /\ \A u \in Sessions : turn'[u].at <= Len(Chain(turn'[u].want))
        /\ Places'
    BY <1>10, IdleMoves DEF Refuse
  <2>2. turn[s].read \in Nat  BY DEF TypeOK, Turn
  <2>3. /\ alerted' \subseteq Levels /\ alertedDay' \in 0..day'
        /\ fired' \in Seq((1..MaxDays) \X Levels) /\ alertTasks' \in 0..Len(fired')
    BY <1>10, <2>2, AlertTypes DEF Refuse
  <2>4. QED  BY <1>10, <2>1, <2>3 DEF Refuse, TypeOK
<1>11. ASSUME NEW s \in Sessions, FirstChunk(s) PROVE TypeOK' /\ Places'
  <2> DEFINE t == [turn[s] EXCEPT !.pc = "streaming",
                     !.served = @ \cup {Chain(turn[s].want)[turn[s].at]}]
  <2>1. turn' = [turn EXCEPT ![s] = t]  BY <1>11 DEF FirstChunk, TypeOK
  <2>2. turn[s] \in Turn /\ turn[s].at <= Len(Chain(turn[s].want))  BY DEF TypeOK
  <2>3. Chain(turn[s].want)[turn[s].at] \in Catalog
    <3>1. turn[s].want \in Catalog /\ turn[s].at \in Nat /\ turn[s].at >= 1
      BY <2>2 DEF Turn
    <3>2. Chain(turn[s].want) \in Seq(Catalog)  BY <3>1, Chains
    <3>3. turn[s].at \in 1..Len(Chain(turn[s].want))  BY <2>2, <3>1, <3>2
    <3>4. QED  BY <3>2, <3>3
  <2>4. t \in Turn /\ t.pc = "streaming" /\ t.at <= Len(Chain(t.want))
    BY <2>2, <2>3 DEF Turn
  <2>5. /\ turn' \in [Sessions -> Turn]
        /\ \A u \in Sessions : turn'[u].at <= Len(Chain(turn'[u].want))
        /\ Places'
    <3> HIDE DEF t
    <3>1. QED  BY <2>1, <2>4, TurnMoves
  <2>6. QED  BY <1>11, <2>5 DEF FirstChunk, TypeOK, budgetVars, alertVars
<1>12. ASSUME NEW s \in Sessions, NextCandidate(s) PROVE TypeOK' /\ Places'
  <2> DEFINE t == [turn[s] EXCEPT !.pc = "trying", !.at = @ + 1]
  <2>1. turn' = [turn EXCEPT ![s] = t]  BY <1>12 DEF NextCandidate, TypeOK
  <2>2. turn[s] \in Turn /\ turn[s].at < Len(Chain(turn[s].want))
    BY <1>12 DEF NextCandidate, Onward, TypeOK
  <2>3. Len(Chain(turn[s].want)) \in 1..(Len(Fallbacks) + 1)
    <3>1. turn[s].want \in Catalog  BY <2>2 DEF Turn
    <3>2. QED  BY <3>1, Chains
  <2>4. t \in Turn /\ t.pc = "trying" /\ t.at <= Len(Chain(t.want))
    <3>1. turn[s].at + 1 \in 1..(Len(Fallbacks) + 1)  BY <2>2, <2>3 DEF Turn
    <3>2. t.want = turn[s].want /\ t.at = turn[s].at + 1  BY <2>2 DEF Turn
    <3>3. t.at <= Len(Chain(t.want))  BY <2>2, <2>3, <3>1, <3>2 DEF Turn
    <3>4. t \in Turn /\ t.pc = "trying"  BY <2>2, <3>1 DEF Turn
    <3>5. QED  BY <3>3, <3>4
  <2>5. /\ turn' \in [Sessions -> Turn]
        /\ \A u \in Sessions : turn'[u].at <= Len(Chain(turn'[u].want))
        /\ Places'
    <3> HIDE DEF t
    <3>1. QED  BY <2>1, <2>4, TurnMoves
  <2>6. QED  BY <1>12, <2>5 DEF NextCandidate, TypeOK, budgetVars, alertVars
<1>13. ASSUME NEW s \in Sessions, CallFails(s) PROVE TypeOK' /\ Places'
  <2>1. /\ turn' \in [Sessions -> Turn]
        /\ \A u \in Sessions : turn'[u].at <= Len(Chain(turn'[u].want))
        /\ Places'
    BY <1>13, IdleMoves DEF CallFails
  <2>2. QED  BY <1>13, <2>1 DEF CallFails, TypeOK, budgetVars, alertVars
<1>14. ASSUME NEW s \in Sessions, NEW c \in Costs, Book(s, c) PROVE TypeOK' /\ Places'
  <2> DEFINE t == [turn[s] EXCEPT !.pc = "booked", !.cost = c]
  <2>1. turn' = [turn EXCEPT ![s] = t]  BY <1>14 DEF Book, TypeOK
  <2>2. turn[s] \in Turn /\ turn[s].at <= Len(Chain(turn[s].want))  BY DEF TypeOK
  <2>3. t \in Turn /\ t.pc = "booked" /\ t.at <= Len(Chain(t.want))  BY <2>2 DEF Turn
  <2>4. /\ turn' \in [Sessions -> Turn]
        /\ \A u \in Sessions : turn'[u].at <= Len(Chain(turn'[u].want))
        /\ Places'
    <3> HIDE DEF t
    <3>1. QED  BY <2>1, <2>3, TurnMoves
  <2>5. booked + c \in Nat  BY DEF Costs, TypeOK
  <2>6. QED  BY <1>14, <2>4, <2>5 DEF Book, TypeOK, alertVars
<1>15. ASSUME NEW s \in Sessions, Finish(s) PROVE TypeOK' /\ Places'
  <2>1. /\ turn' \in [Sessions -> Turn]
        /\ \A u \in Sessions : turn'[u].at <= Len(Chain(turn'[u].want))
        /\ Places'
    <3>1. CASE turn' = [turn EXCEPT ![s] = Idle]  BY <3>1, IdleMoves
    <3>2. CASE turn[s].rounds < MaxRounds /\ turn' = [turn EXCEPT ![s].pc = "asking"]
      <4> DEFINE t == [turn[s] EXCEPT !.pc = "asking"]
      <4>1. turn' = [turn EXCEPT ![s] = t]  BY <3>2 DEF TypeOK
      <4>2. turn[s] \in Turn /\ turn[s].at <= Len(Chain(turn[s].want))  BY DEF TypeOK
      <4>3. /\ t \in Turn /\ t.pc = "asking" /\ t.at <= Len(Chain(t.want))
            /\ t.rounds < MaxRounds
        BY <3>2, <4>2 DEF Turn
      <4> HIDE DEF t
      <4>4. QED  BY <4>1, <4>3, TurnMoves
    <3>3. QED  BY <1>15, <3>1, <3>2 DEF Finish
  <2>2. mirrors' \in [Costs -> Nat]
    <3>1. turn[s].cost \in {0} \cup Costs  BY DEF TypeOK, Turn
    <3>2. CASE turn[s].cost = 0
      BY <1>15, <3>2 DEF Finish, Emitted, TypeOK
    <3>3. CASE turn[s].cost \in Costs
      <4> DEFINE c == turn[s].cost
      <4>1. c # 0 /\ mirrors[c] \in Nat  BY <3>3 DEF Costs, TypeOK
      <4>2. mirrors' = [mirrors EXCEPT ![c] = @ + 1]  BY <1>15, <4>1 DEF Finish, Emitted
      <4>3. QED  BY <3>3, <4>1, <4>2 DEF TypeOK
    <3>4. QED  BY <3>1, <3>2, <3>3
  <2>3. QED  BY <1>15, <2>1, <2>2 DEF Finish, TypeOK, alertVars
<1>16. ASSUME UNCHANGED vars PROVE TypeOK' /\ Places'
  BY <1>16 DEF vars, budgetVars, alertVars, TypeOK, Places
<1>17. QED
  BY <1>1, <1>2, <1>3, <1>4, <1>5, <1>6, <1>7, <1>8, <1>9, <1>10, <1>11, <1>12, <1>13,
     <1>14, <1>15, <1>16 DEF Next, Call

-----------------------------------------------------------------------------
(* The spend.                                                              *)

LEMMA SetsOfSessions ==
  ASSUME NEW S, S \subseteq Sessions, NEW T, T \subseteq S
  PROVE  /\ Cardinality(S) \in Nat /\ Cardinality(T) \in Nat
         /\ Cardinality(T) <= Cardinality(S)
         /\ \A s \in S : Cardinality(S \ {s}) = Cardinality(S) - 1
<1>1. IsFiniteSet(S) /\ IsFiniteSet(T)  BY SpendAssumption, FS_Subset
<1>2. Cardinality(S) \in Nat /\ Cardinality(T) \in Nat  BY <1>1, FS_CardinalityType
<1>3. Cardinality(T) <= Cardinality(S)  BY <1>1, FS_Subset
<1>4. ASSUME NEW s \in S PROVE Cardinality(S \ {s}) = Cardinality(S) - 1
  BY <1>1, FS_RemoveElement
<1>5. QED  BY <1>2, <1>3, <1>4

(* Nothing more is admitted, and nothing more booked.                      *)
LEMMA NoMoreInFlight ==
  ASSUME InFlight, TypeOK, TypeOK', booked' <= booked, Admitted' \subseteq Admitted
  PROVE  InFlight'
<1> DEFINE a == Cardinality(Admitted)
           b == Cardinality(Admitted')
           n == Cardinality(Sessions)
<1>1. a \in Nat /\ b \in Nat /\ b <= a
  <2>1. Admitted \subseteq Sessions  BY DEF Admitted
  <2>2. QED  BY <2>1, SetsOfSessions
<1>2. n \in Nat  BY SetsOfSessions
<1>3. MaxCost \in Nat /\ Budget \in Nat /\ booked \in Nat /\ booked' \in Nat
  BY SpendAssumption DEF TypeOK
<1> HIDE DEF a, b, n
<1>4. b * MaxCost \in Nat /\ b * MaxCost <= a * MaxCost /\ a * MaxCost \in Nat
  BY <1>1, <1>3, Products
<1>5. n * MaxCost \in Nat  BY <1>2, <1>3, Products
<1>6. booked + a * MaxCost < Budget + n * MaxCost  BY DEF InFlight, a, n
<1>7. booked' + b * MaxCost < Budget + n * MaxCost
  BY <1>3, <1>4, <1>5, <1>6
<1>8. QED  BY <1>7 DEF InFlight, b, n

(* However many are admitted, while the budget is not reached.             *)
LEMMA UnderBudget ==
  ASSUME TypeOK', booked' < Budget
  PROVE  InFlight'
<1> DEFINE b == Cardinality(Admitted')
           n == Cardinality(Sessions)
<1>1. b \in Nat /\ n \in Nat /\ b <= n
  <2>1. Admitted' \subseteq Sessions  BY DEF Admitted
  <2>2. QED  BY <2>1, SetsOfSessions
<1>2. MaxCost \in Nat /\ Budget \in Nat /\ booked' \in Nat  BY SpendAssumption DEF TypeOK
<1> HIDE DEF b, n
<1>3. b * MaxCost \in Nat /\ b * MaxCost <= n * MaxCost /\ n * MaxCost \in Nat
  BY <1>1, <1>2, Products
<1>4. booked' + b * MaxCost < Budget + n * MaxCost  BY <1>2, <1>3
<1>5. QED  BY <1>4 DEF InFlight, b, n

(* One that was admitted books what it may.                                *)
LEMMA OneBooks ==
  ASSUME InFlight, TypeOK, NEW s \in Admitted, Admitted' = Admitted \ {s},
         NEW c \in Costs, booked' = booked + c
  PROVE  InFlight'
<1> DEFINE b == Cardinality(Admitted')
           n == Cardinality(Sessions)
<1>1. b \in Nat /\ n \in Nat /\ Cardinality(Admitted) = b + 1
  <2>1. Admitted \subseteq Sessions  BY DEF Admitted
  <2>2. /\ Cardinality(Admitted) \in Nat
        /\ Cardinality(Admitted \ {s}) = Cardinality(Admitted) - 1
        /\ Cardinality(Admitted \ {s}) \in Nat
    BY <2>1, SetsOfSessions
  <2>3. n \in Nat  BY SetsOfSessions
  <2>4. QED  BY <2>2, <2>3
<1>2. MaxCost \in Nat /\ Budget \in Nat /\ booked \in Nat /\ c \in Nat /\ c <= MaxCost
  BY SpendAssumption DEF TypeOK, Costs
<1>3. booked + (b + 1) * MaxCost < Budget + n * MaxCost  BY <1>1 DEF InFlight
<1> HIDE DEF b, n
<1>4. b * MaxCost \in Nat /\ (b + 1) * MaxCost = b * MaxCost + MaxCost
  BY <1>1, <1>2, Products
<1>5. n * MaxCost \in Nat  BY <1>1, <1>2, Products
<1>6. booked' + b * MaxCost < Budget + n * MaxCost  BY <1>2, <1>3, <1>4, <1>5
<1>7. QED  BY <1>6 DEF InFlight, b, n

LEMMA SpendInit == Init => InFlight
<1> SUFFICES ASSUME Init PROVE InFlight  OBVIOUS
<1>1. Admitted = {} /\ booked = 0  BY DEF Init, Admitted, Idle
<1>2. Cardinality(Admitted) = 0  BY <1>1, FS_EmptySet
<1>3. Cardinality(Sessions) \in Nat /\ MaxCost \in Nat  BY SetsOfSessions, SpendAssumption
<1>4. Cardinality(Sessions) * MaxCost \in Nat /\ 0 * MaxCost = 0  BY <1>3, Products
<1>5. 0 < Budget + Cardinality(Sessions) * MaxCost  BY <1>4, SpendAssumption
<1>6. QED  BY <1>1, <1>2, <1>4, <1>5 DEF InFlight

LEMMA SpendStep ==
  ASSUME TypeOK, TypeOK', InFlight, [Next]_vars
  PROVE  InFlight'
<1>1. booked \in Nat /\ turn \in [Sessions -> Turn]  BY DEF TypeOK
<1>2. ASSUME UNCHANGED <<booked, turn>> PROVE InFlight'
  BY <1>2, <1>1, NoMoreInFlight DEF Admitted
<1>3. ASSUME NEW s \in Sessions, UNCHANGED booked,
             \E t : turn' = [turn EXCEPT ![s] = t] /\ t.pc \notin {"trying", "streaming", "read"}
      PROVE  InFlight'
  <2>1. Admitted' \subseteq Admitted  BY <1>1, <1>3 DEF Admitted
  <2>2. QED  BY <1>1, <1>3, <2>1, NoMoreInFlight
<1>4. ASSUME NEW s \in Sessions, UNCHANGED booked, s \in Admitted,
             \E t : turn' = [turn EXCEPT ![s] = t]
      PROVE  InFlight'
  <2>1. Admitted' \subseteq Admitted  BY <1>1, <1>4 DEF Admitted
  <2>2. QED  BY <1>1, <1>4, <2>1, NoMoreInFlight
<1>5. ASSUME NEW s \in Sessions, Submit(s) \/ SendAlert(s) PROVE InFlight'
  BY <1>2, <1>5 DEF Submit, SendAlert, budgetVars
<1>6. ASSUME NEW m \in Catalog, SetModel(m) PROVE InFlight'
  BY <1>2, <1>6 DEF SetModel, budgetVars
<1>7. ASSUME NEW c \in Costs, Mirror(c) PROVE InFlight'  BY <1>2, <1>7 DEF Mirror
<1>8. ASSUME Midnight PROVE InFlight'
  <2>1. booked' < Budget  BY <1>8, SpendAssumption DEF Midnight
  <2>2. QED  BY <2>1, UnderBudget
<1>9. ASSUME Crash PROVE InFlight'
  <2>1. Admitted' \subseteq Admitted  BY <1>9 DEF Crash, Admitted, Idle
  <2>2. QED  BY <1>1, <1>9, <2>1, NoMoreInFlight DEF Crash
<1>10. ASSUME NEW s \in Sessions, StartTurn(s) PROVE InFlight'
  <2> DEFINE t == [turn[s] EXCEPT !.pc = "asking", !.want = selected]
  <2>1. turn' = [turn EXCEPT ![s] = t] /\ UNCHANGED booked
    BY <1>1, <1>10 DEF StartTurn, budgetVars
  <2>2. t.pc = "asking"  BY <1>1 DEF Turn
  <2>3. QED  BY <2>1, <2>2, <1>3
<1>11. ASSUME NEW s \in Sessions, ReadSpent(s) PROVE InFlight'
  <2> DEFINE t == [turn[s] EXCEPT !.pc = "read", !.read = Spent,
                     !.rounds = @ + 1, !.at = 1, !.served = {}, !.cost = 0]
  <2>1. turn' = [turn EXCEPT ![s] = t] /\ UNCHANGED booked
    BY <1>11 DEF ReadSpent, TypeOK, budgetVars
  <2>2. t.pc = "read" /\ t.read = Spent  BY <1>1 DEF Turn
  <2>3. CASE Spent < Budget
    <3>1. booked \in Nat /\ mirrored \in Nat /\ Budget \in Nat
      BY SpendAssumption DEF TypeOK
    <3>2. booked' < Budget  BY <2>1, <2>3, <3>1 DEF Spent
    <3>3. QED  BY <3>2, UnderBudget
  <2>4. CASE ~(Spent < Budget)
    <3> HIDE DEF t
    <3>1. Admitted' \subseteq Admitted  BY <1>1, <2>1, <2>2, <2>4 DEF Admitted
    <3>2. QED  BY <1>1, <2>1, <3>1, NoMoreInFlight
  <2>5. QED  BY <2>3, <2>4
<1>12. ASSUME NEW s \in Sessions, Admit(s) PROVE InFlight'
  <2>1. s \in Admitted  BY <1>12 DEF Admit, WithinBudget, Admitted
  <2>2. \E t : turn' = [turn EXCEPT ![s] = t]  BY <1>1, <1>12 DEF Admit
  <2>3. QED  BY <1>4, <1>12, <2>1, <2>2 DEF Admit
<1>13. ASSUME NEW s \in Sessions, Refuse(s) \/ CallFails(s) PROVE InFlight'
  <2>1. turn' = [turn EXCEPT ![s] = Idle] /\ UNCHANGED booked
    BY <1>13 DEF Refuse, CallFails, budgetVars
  <2>2. Idle.pc = "idle"  BY DEF Idle
  <2>3. QED  BY <1>3, <2>1, <2>2
<1>14. ASSUME NEW s \in Sessions, FirstChunk(s) PROVE InFlight'
  <2>1. s \in Admitted  BY <1>14 DEF FirstChunk, Admitted
  <2>2. \E t : turn' = [turn EXCEPT ![s] = t]  BY <1>1, <1>14 DEF FirstChunk
  <2>3. QED  BY <1>4, <1>14, <2>1, <2>2 DEF FirstChunk, budgetVars
<1>15. ASSUME NEW s \in Sessions, NextCandidate(s) PROVE InFlight'
  <2>1. s \in Admitted  BY <1>15 DEF NextCandidate, EarlyError, Admitted
  <2>2. \E t : turn' = [turn EXCEPT ![s] = t]  BY <1>1, <1>15 DEF NextCandidate
  <2>3. QED  BY <1>4, <1>15, <2>1, <2>2 DEF NextCandidate, budgetVars
<1>16. ASSUME NEW s \in Sessions, NEW c \in Costs, Book(s, c) PROVE InFlight'
  <2> DEFINE t == [turn[s] EXCEPT !.pc = "booked", !.cost = c]
  <2>1. s \in Admitted  BY <1>16 DEF Book, Admitted
  <2>2. turn' = [turn EXCEPT ![s] = t] /\ booked' = booked + c  BY <1>1, <1>16 DEF Book
  <2>3. t.pc = "booked"  BY <1>1 DEF Turn
  <2> HIDE DEF t
  <2>4. Admitted' = Admitted \ {s}  BY <1>1, <2>2, <2>3 DEF Admitted
  <2>5. QED  BY <2>1, <2>2, <2>4, OneBooks
<1>17. ASSUME NEW s \in Sessions, Finish(s) PROVE InFlight'
  <2>1. UNCHANGED booked  BY <1>17 DEF Finish
  <2>2. CASE turn' = [turn EXCEPT ![s] = Idle]
    <3>1. Idle.pc = "idle"  BY DEF Idle
    <3>2. QED  BY <1>3, <2>1, <2>2, <3>1
  <2>3. CASE turn' = [turn EXCEPT ![s].pc = "asking"]
    <3> DEFINE t == [turn[s] EXCEPT !.pc = "asking"]
    <3>1. turn' = [turn EXCEPT ![s] = t] /\ t.pc = "asking"  BY <1>1, <2>3 DEF Turn
    <3>2. QED  BY <1>3, <2>1, <3>1
  <2>4. QED  BY <1>17, <2>2, <2>3 DEF Finish
<1>18. ASSUME UNCHANGED vars PROVE InFlight'
  BY <1>2, <1>18 DEF vars, budgetVars
<1>19. QED
  BY <1>5, <1>6, <1>7, <1>8, <1>9, <1>10, <1>11, <1>12, <1>13, <1>14, <1>15, <1>16,
     <1>17, <1>18 DEF Next, Call

-----------------------------------------------------------------------------
(* The chain.                                                              *)

LEMMA AnswersInit == Init => OneModelAnswers
<1> SUFFICES ASSUME Init PROVE OneModelAnswers  OBVIOUS
<1>1. \A s \in Sessions : turn[s].served = {}  BY DEF Init, Idle
<1>2. Cardinality({}) = 0  BY FS_EmptySet
<1>3. QED  BY <1>1, <1>2 DEF OneModelAnswers

LEMMA AnswersStep ==
  ASSUME TypeOK, Places, OneModelAnswers, [Next]_vars
  PROVE  OneModelAnswers'
<1> DEFINE Fits(t) == /\ Cardinality(t.served) <= 1
                      /\ t.pc = "trying" => t.served = {}
<1>1. turn \in [Sessions -> Turn] /\ \A s \in Sessions : Fits(turn[s])
  BY DEF TypeOK, OneModelAnswers
<1>2. Fits(Idle)  BY FS_EmptySet DEF Idle
<1>3. ASSUME NEW s \in Sessions, NEW t, turn' = [turn EXCEPT ![s] = t], Fits(t)
      PROVE  OneModelAnswers'
  <2> HIDE DEF Fits
  <2>1. \A u \in Sessions : Fits(turn'[u])  BY <1>1, <1>3
  <2>2. QED  BY <2>1 DEF Fits, OneModelAnswers
<1>4. ASSUME UNCHANGED turn PROVE OneModelAnswers'  BY <1>4 DEF OneModelAnswers
<1>5. ASSUME NEW s \in Sessions, StartTurn(s) PROVE OneModelAnswers'
  <2> DEFINE t == [turn[s] EXCEPT !.pc = "asking", !.want = selected]
  <2>1. turn' = [turn EXCEPT ![s] = t]  BY <1>1, <1>5 DEF StartTurn
  <2>2. t.pc = "asking" /\ t.served = turn[s].served  BY <1>1 DEF Turn
  <2>3. Fits(t)  BY <1>1, <2>2
  <2> HIDE DEF t, Fits
  <2>4. QED  BY <1>3, <2>1, <2>3
<1>6. ASSUME NEW s \in Sessions, ReadSpent(s) PROVE OneModelAnswers'
  <2> DEFINE t == [turn[s] EXCEPT !.pc = "read", !.read = Spent,
                     !.rounds = @ + 1, !.at = 1, !.served = {}, !.cost = 0]
  <2>1. turn' = [turn EXCEPT ![s] = t]  BY <1>6 DEF ReadSpent, TypeOK
  <2>2. t.served = {}  BY <1>1 DEF Turn
  <2>3. Fits(t)  BY <2>2, FS_EmptySet
  <2> HIDE DEF t, Fits
  <2>4. QED  BY <1>3, <2>1, <2>3
<1>7. ASSUME NEW s \in Sessions, Admit(s) PROVE OneModelAnswers'
  <2> DEFINE t == [turn[s] EXCEPT !.pc = "trying", !.read = 0]
  <2>1. turn' = [turn EXCEPT ![s] = t]  BY <1>1, <1>7 DEF Admit
  <2>2. t.served = turn[s].served  BY <1>1 DEF Turn
  <2>3. turn[s].served = {}  BY <1>7 DEF Admit, Places
  <2>4. Fits(t)  BY <2>2, <2>3, FS_EmptySet
  <2> HIDE DEF t, Fits
  <2>5. QED  BY <1>3, <2>1, <2>4
<1>8. ASSUME NEW s \in Sessions, turn' = [turn EXCEPT ![s] = Idle]
      PROVE  OneModelAnswers'
  <2> HIDE DEF Fits
  <2>1. QED  BY <1>2, <1>3, <1>8
<1>9. ASSUME NEW s \in Sessions, FirstChunk(s) PROVE OneModelAnswers'
  <2> DEFINE m == Chain(turn[s].want)[turn[s].at]
             t == [turn[s] EXCEPT !.pc = "streaming", !.served = @ \cup {m}]
  <2>1. turn' = [turn EXCEPT ![s] = t]  BY <1>1, <1>9 DEF FirstChunk
  <2>2. turn[s].served = {}  BY <1>1, <1>9 DEF FirstChunk
  <2>3. t.served = {m} /\ t.pc = "streaming"
    <3> HIDE DEF m
    <3>1. QED  BY <1>1, <2>2 DEF Turn
  <2>4. Cardinality({m}) = 1  BY FS_Singleton
  <2>6. Fits(t)  BY <2>3, <2>4
  <2> HIDE DEF t, Fits
  <2>7. QED  BY <1>3, <2>1, <2>6
<1>10. ASSUME NEW s \in Sessions, NextCandidate(s) PROVE OneModelAnswers'
  <2> DEFINE t == [turn[s] EXCEPT !.pc = "trying", !.at = @ + 1]
  <2>1. turn' = [turn EXCEPT ![s] = t]  BY <1>1, <1>10 DEF NextCandidate
  <2>2. t.served = turn[s].served  BY <1>1 DEF Turn
  <2>3. turn[s].served = {}  BY <1>1, <1>10 DEF NextCandidate, EarlyError
  <2>4. Fits(t)  BY <2>2, <2>3, FS_EmptySet
  <2> HIDE DEF t, Fits
  <2>5. QED  BY <1>3, <2>1, <2>4
<1>11. ASSUME NEW s \in Sessions, NEW c \in Costs, Book(s, c) PROVE OneModelAnswers'
  <2> DEFINE t == [turn[s] EXCEPT !.pc = "booked", !.cost = c]
  <2>1. turn' = [turn EXCEPT ![s] = t]  BY <1>1, <1>11 DEF Book
  <2>2. t.pc = "booked" /\ t.served = turn[s].served  BY <1>1 DEF Turn
  <2>3. Fits(t)  BY <1>1, <2>2
  <2> HIDE DEF t, Fits
  <2>4. QED  BY <1>3, <2>1, <2>3
<1>12. ASSUME NEW s \in Sessions, Finish(s) PROVE OneModelAnswers'
  <2>1. CASE turn' = [turn EXCEPT ![s].pc = "asking"]
    <3> DEFINE t == [turn[s] EXCEPT !.pc = "asking"]
    <3>1. turn' = [turn EXCEPT ![s] = t]  BY <1>1, <2>1
    <3>2. t.pc = "asking" /\ t.served = turn[s].served  BY <1>1 DEF Turn
    <3>3. Fits(t)  BY <1>1, <3>2
    <3> HIDE DEF t, Fits
    <3>4. QED  BY <1>3, <3>1, <3>3
  <2>2. QED  BY <1>8, <1>12, <2>1 DEF Finish
<1>13. ASSUME Crash PROVE OneModelAnswers'
  <2>1. \A s \in Sessions : turn'[s] = Idle  BY <1>13 DEF Crash
  <2>2. QED  BY <1>2, <2>1 DEF OneModelAnswers
<1> HIDE DEF Fits
<1>14. ASSUME NEW s \in Sessions, Submit(s) \/ SendAlert(s) PROVE OneModelAnswers'
  BY <1>4, <1>14 DEF Submit, SendAlert
<1>15. ASSUME (\E m \in Catalog : SetModel(m)) \/ (\E c \in Costs : Mirror(c)) \/ Midnight
              \/ UNCHANGED vars
       PROVE  OneModelAnswers'
  BY <1>4, <1>15 DEF SetModel, Mirror, Midnight, vars
<1>16. ASSUME NEW s \in Sessions, Refuse(s) \/ CallFails(s) PROVE OneModelAnswers'
  BY <1>8, <1>16 DEF Refuse, CallFails
<1>17. QED
  BY <1>5, <1>6, <1>7, <1>9, <1>10, <1>11, <1>12, <1>13, <1>14, <1>15, <1>16
  DEF Next, Call

-----------------------------------------------------------------------------
(* The alerts.                                                             *)

LEMMA AlertsInit == Init => Marked /\ AlertsRise
BY DEF Init, Marked, AlertsRise

(* A check marks what it fires and all below.                              *)
LEMMA AlertsCheck ==
  ASSUME TypeOK, TypeOK', Marked, AlertsRise, NEW spent \in Nat, CheckAlerts(spent),
         day' = day
  PROVE  Marked' /\ AlertsRise'
<1> DEFINE crossed == Crossed(spent)
<1>1. /\ alertedDay' = day
      /\ alerted' = Today \cup crossed
      /\ Levels \subseteq Nat /\ crossed \subseteq Levels
  BY SpendAssumption DEF CheckAlerts, Crossed
<1>2. /\ fired \in Seq((1..MaxDays) \X Levels)
      /\ day \in Nat /\ alertedDay \in Nat /\ alertedDay <= day
  BY SpendAssumption DEF TypeOK
<1>3. \A i \in DOMAIN fired : fired[i][1] \in Nat /\ fired[i][2] \in Nat
  <2>1. SUFFICES ASSUME NEW i \in DOMAIN fired
                 PROVE  fired[i][1] \in Nat /\ fired[i][2] \in Nat
    OBVIOUS
  <2>2. fired[i] \in (1..MaxDays) \X Levels  BY <1>2
  <2>3. fired[i][1] \in 1..MaxDays /\ fired[i][2] \in Levels  BY <2>2
  <2>4. fired[i][1] \in Nat  BY <2>3
  <2>5. fired[i][2] \in Nat  BY <1>1, <2>3
  <2>6. QED  BY <2>4, <2>5
<1>4. ASSUME NEW i \in DOMAIN fired
      PROVE  /\ fired[i][1] <= day
             /\ fired[i][1] = day => \A l \in Levels : l <= fired[i][2] => l \in Today
  BY <1>2, <1>3 DEF Marked, Today
<1>5. CASE crossed = {}
  <2>1. fired' = fired  BY <1>5 DEF CheckAlerts, Fire
  <2>2. Marked'  BY <1>1, <1>4, <2>1 DEF Marked
  <2>3. AlertsRise'  BY <2>1 DEF AlertsRise
  <2>4. QED  BY <2>2, <2>3
<1>6. CASE crossed # {}
  <2> DEFINE h == Highest(crossed)
             n == Len(fired) + 1
  <2>1. h \in crossed /\ \A k \in crossed : k <= h
    <3>1. \A l \in crossed : l <= spent /\ l \in Nat  BY <1>1 DEF Crossed
    <3>2. QED  BY <1>1, <1>6, <3>1, HighestIsMax
  <2>2. fired' = Append(fired, <<day, h>>)  BY <1>6 DEF CheckAlerts, Fire
  <2>3. /\ DOMAIN fired' = DOMAIN fired \cup {n}
        /\ \A i \in DOMAIN fired : fired'[i] = fired[i] /\ i < n
        /\ fired'[n] = <<day, h>>
        /\ DOMAIN fired \subseteq Nat /\ n \in Nat
    <3> HIDE DEF h
    <3>1. QED  BY <1>2, <2>2
  <2>4. h \in Levels /\ h \notin Today /\ h <= spent /\ h \in Nat
    BY <1>1, <2>1 DEF Crossed
  <2>5. \A l \in Levels : l <= h => l \in Today \cup crossed
    BY <1>1, <2>4 DEF Crossed
  <2> HIDE DEF h, n, crossed
  <2>6. ASSUME NEW i \in DOMAIN fired' 
        PROVE  /\ fired'[i][1] <= day
               /\ fired'[i][1] = day => \A l \in Levels : l <= fired'[i][2] => l \in alerted'
    <3>1. CASE i = n
      <4>1. fired'[i][1] = day /\ fired'[i][2] = h  BY <2>3, <3>1
      <4>2. day <= day  BY <1>2
      <4>3. \A l \in Levels : l <= h => l \in alerted'  BY <1>1, <2>5
      <4>4. QED  BY <4>1, <4>2, <4>3
    <3>2. CASE i \in DOMAIN fired  BY <1>1, <1>4, <2>3, <3>2
    <3>3. QED  BY <2>3, <3>1, <3>2
  <2>7. Marked'  BY <1>1, <2>6 DEF Marked
  <2>8. ASSUME NEW i \in DOMAIN fired', NEW j \in DOMAIN fired', i < j
        PROVE  \/ fired'[i][1] < fired'[j][1]
               \/ fired'[i][1] = fired'[j][1] /\ fired'[i][2] < fired'[j][2]
    <3>1. i \in DOMAIN fired  BY <2>3, <2>8
    <3>2. CASE j \in DOMAIN fired  BY <2>3, <2>8, <3>1, <3>2 DEF AlertsRise
    <3>3. CASE j = n
      <4>1. fired'[j][1] = day /\ fired'[j][2] = h /\ fired'[i] = fired[i]
        BY <2>3, <3>1, <3>3
      <4>2. ~(h <= fired[i][2]) \/ fired[i][1] # day  BY <1>4, <2>4, <3>1
      <4>3. QED  BY <1>2, <1>3, <1>4, <2>4, <3>1, <4>1, <4>2
    <3>4. QED  BY <2>3, <3>2, <3>3
  <2>9. AlertsRise'  BY <2>8 DEF AlertsRise
  <2>10. QED  BY <2>7, <2>9
<1>7. QED  BY <1>5, <1>6

LEMMA AlertsStep ==
  ASSUME TypeOK, TypeOK', Marked, AlertsRise, [Next]_vars
  PROVE  Marked' /\ AlertsRise'
<1>1. ASSUME UNCHANGED <<alerted, alertedDay, fired>> PROVE Marked' /\ AlertsRise'
  BY <1>1 DEF Marked, AlertsRise
<1>2. ASSUME NEW s \in Sessions, Admit(s) \/ Refuse(s) PROVE Marked' /\ AlertsRise'
  <2>1. turn[s].read \in Nat  BY DEF TypeOK, Turn
  <2>2. CheckAlerts(turn[s].read) /\ day' = day  BY <1>2 DEF Admit, Refuse
  <2>3. QED  BY <2>1, <2>2, AlertsCheck
<1>3. ASSUME Crash PROVE Marked' /\ AlertsRise'
  BY <1>3 DEF Crash, Marked, AlertsRise
<1>4. ASSUME NEW s \in Sessions,
             Submit(s) \/ SendAlert(s) \/ StartTurn(s) \/ ReadSpent(s) \/ FirstChunk(s)
             \/ NextCandidate(s) \/ CallFails(s) \/ Finish(s) \/ \E c \in Costs : Book(s, c)
      PROVE  Marked' /\ AlertsRise'
  BY <1>1, <1>4 DEF Submit, SendAlert, StartTurn, ReadSpent, FirstChunk, NextCandidate,
     CallFails, Finish, Book, budgetVars, alertVars
<1>5. ASSUME (\E m \in Catalog : SetModel(m)) \/ (\E c \in Costs : Mirror(c)) \/ Midnight
             \/ UNCHANGED vars
      PROVE  Marked' /\ AlertsRise'
  BY <1>1, <1>5 DEF SetModel, Mirror, Midnight, vars, budgetVars, alertVars
<1>6. QED  BY <1>2, <1>3, <1>4, <1>5 DEF Next, Call

-----------------------------------------------------------------------------
(* The theorems.                                                           *)

(* The invariant holds at the start and is kept by every step.             *)
THEOREM Invariance == Spec => []IInv
<1>1. Init => IInv  BY TypeInit, SpendInit, AnswersInit, AlertsInit DEF IInv
<1>2. IInv /\ [Next]_vars => IInv'
  <2> SUFFICES ASSUME IInv, [Next]_vars PROVE IInv'  OBVIOUS
  <2>1. TypeOK' /\ Places'  BY TypeStep DEF IInv
  <2>2. InFlight'  BY <2>1, SpendStep DEF IInv
  <2>3. OneModelAnswers'  BY AnswersStep DEF IInv
  <2>4. Marked' /\ AlertsRise'  BY <2>1, AlertsStep DEF IInv
  <2>5. QED  BY <2>1, <2>2, <2>3, <2>4 DEF IInv
<1>3. QED  BY <1>1, <1>2, PTL DEF Spec

(* Every variable of the budget always has its type.                       *)
THEOREM TypeCorrect == Spec => []TypeOK
<1>1. IInv => TypeOK  BY DEF IInv
<1>2. QED  BY <1>1, Invariance, PTL

(* For any number of sessions and any budget: what the provider has booked *)
(* in a day never exceeds the budget by a call per session.                *)
THEOREM OverspendBounded == Spec => []SpendBounded
<1>1. IInv => SpendBounded
  <2> SUFFICES ASSUME IInv PROVE SpendBounded  OBVIOUS
  <2>1. Cardinality(Admitted) \in Nat /\ Cardinality(Sessions) \in Nat
    <3>1. Admitted \subseteq Sessions  BY DEF Admitted
    <3>2. QED  BY <3>1, SetsOfSessions
  <2>2. booked \in Nat /\ MaxCost \in Nat /\ Budget \in Nat
    BY SpendAssumption DEF IInv, TypeOK
  <2>3. /\ Cardinality(Admitted) * MaxCost \in Nat
        /\ Cardinality(Sessions) * MaxCost \in Nat
    BY <2>1, <2>2, Products
  <2>4. QED  BY <2>2, <2>3 DEF IInv, InFlight, SpendBounded
<1>2. QED  BY <1>1, Invariance, PTL

(* However long the chain and wherever a model fails, what a call passes   *)
(* on is one model's.                                                      *)
THEOREM AnswerOfOneModel == Spec => []OneModelAnswers
<1>1. IInv => OneModelAnswers  BY DEF IInv
<1>2. QED  BY <1>1, Invariance, PTL

(* For any levels, and calls that check the spend in any order: an alert   *)
(* is never repeated within a day, nor followed by a lower one.            *)
THEOREM AlertsOnlyRise == Spec => []AlertsRise
<1>1. IInv => AlertsRise  BY DEF IInv
<1>2. QED  BY <1>1, Invariance, PTL
=============================================================================
