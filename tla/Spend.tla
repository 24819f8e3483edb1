-------------------------------- MODULE Spend --------------------------------
(***************************************************************************)
(* The daily token budget of one user (providers/budgeted.py) over the     *)
(* model calls of concurrent sessions, with the chain of fallback models   *)
(* behind it (runtime.py), the double booking through the AFTER_LLM hook   *)
(* (sqlite_sink.py) and the alerts that come back as messages (server.py). *)
(***************************************************************************)
EXTENDS Integers, Sequences, FiniteSets

CONSTANTS
  Sessions,      \* of the user; each has one worker
  Budget,        \* daily_budget_tokens
  Levels,        \* alert thresholds, in tokens
  MaxCost,       \* bound on the usage of a call
  Catalog,       \* models the selector accepts
  Primary,       \* the configured model
  Fallbacks,     \* the rest of the configured chain
  MaxRounds,     \* max_turns of run_turn
  MaxMessages,   \* bound on the user's messages
  MaxDays,       \* bound on days
  MaxLives       \* bound on lives of the process

ASSUME SpendAssumption ==
  /\ IsFiniteSet(Sessions)
  /\ Budget \in Nat \ {0} /\ MaxCost \in Nat
  /\ Levels \subseteq Nat
  /\ Fallbacks \in Seq(Catalog) /\ Primary \in Catalog
  /\ {MaxRounds, MaxDays, MaxLives} \subseteq Nat \ {0}
  /\ MaxMessages \in Nat

VARIABLES
  booked,      \* today's rows of token_spend that BudgetedProvider wrote
  mirrored,    \* today's rows that the sink's hook wrote
  mirrors,     \* hook tasks under way, by cost
  day,
  alerted,     \* BudgetedProvider._alerted
  alertedDay,  \* BudgetedProvider._alerted_day
  alertTasks,  \* alerts fired and not yet submitted
  fired,       \* history: day and level of every alert of this life
  selected,    \* ModelSelector._current
  turn,        \* the turn of each session and the model call it makes
  inbox,       \* messages each session has yet to serve
  messages,    \* history: messages of the user
  lives

alertVars == <<alerted, alertedDay, alertTasks, fired>>
budgetVars == <<booked, mirrored, mirrors, day, alertVars>>
vars == <<budgetVars, selected, turn, inbox, messages, lives>>

Costs == 1..MaxCost
Spent == booked + mirrored

(* A turn: where it is, the model it asks for, the calls it made; and of   *)
(* its call the spend it read, the candidate of the chain it is at, the    *)
(* candidates it passed chunks of (history), and the usage it booked.      *)
Turn == [pc : {"idle", "asking", "read", "trying", "streaming", "booked"},
         want : Catalog, rounds : 0..MaxRounds, read : Nat,
         at : 1..(Len(Fallbacks) + 1), served : SUBSET Catalog,
         cost : {0} \cup Costs]

Idle == [pc |-> "idle", want |-> Primary, rounds |-> 0, read |-> 0, at |-> 1,
         served |-> {}, cost |-> 0]

(* dispatch: an explicit switch means that one model, not a chain.         *)
Chain(m) == IF m = Primary THEN <<m>> \o Fallbacks ELSE <<m>>

TypeOK ==
  /\ booked \in Nat /\ mirrored \in Nat
  /\ mirrors \in [Costs -> Nat]
  /\ day \in 1..MaxDays
  /\ alerted \subseteq Levels
  /\ alertedDay \in 0..day
  /\ alertTasks \in 0..Len(fired)
  /\ fired \in Seq((1..MaxDays) \X Levels)
  /\ selected \in Catalog
  /\ turn \in [Sessions -> Turn]
  /\ \A s \in Sessions : turn[s].at <= Len(Chain(turn[s].want))
  /\ inbox \in [Sessions -> Nat]
  /\ messages \in 0..MaxMessages
  /\ lives \in 1..MaxLives

Init ==
  /\ booked = 0 /\ mirrored = 0
  /\ mirrors = [c \in Costs |-> 0]
  /\ day = 1
  /\ alerted = {} /\ alertedDay = 0 /\ alertTasks = 0 /\ fired = <<>>
  /\ selected = Primary
  /\ turn = [s \in Sessions |-> Idle]
  /\ inbox = [s \in Sessions |-> 0]
  /\ messages = 0
  /\ lives = 1

-----------------------------------------------------------------------------
(* Around the calls.                                                       *)

Submit(s) ==
  /\ messages < MaxMessages
  /\ messages' = messages + 1
  /\ inbox' = [inbox EXCEPT ![s] = @ + 1]
  /\ UNCHANGED <<budgetVars, selected, turn, lives>>

(* set_model, from the chat's model picker.                                *)
SetModel(m) ==
  /\ selected' = m
  /\ UNCHANGED <<budgetVars, turn, inbox, messages, lives>>

(* tokens_spent_since counts the rows of the current UTC day.              *)
Midnight ==
  /\ day < MaxDays
  /\ day' = day + 1
  /\ booked' = 0
  /\ mirrored' = 0
  /\ UNCHANGED <<mirrors, alertVars, selected, turn, inbox, messages, lives>>

(* alert: a message to one of the user's sessions, or to a new one.  One   *)
(* whose exception is suppressed is as good as one that is never sent.     *)
SendAlert(s) ==
  /\ alertTasks > 0
  /\ alertTasks' = alertTasks - 1
  /\ inbox' = [inbox EXCEPT ![s] = @ + 1]
  /\ UNCHANGED <<booked, mirrored, mirrors, day, alerted, alertedDay, fired, selected,
                 turn, messages, lives>>

(* _on_after_llm books what the provider has booked already.  One whose    *)
(* failure _run_safe swallows is as good as one that never runs.           *)
Mirror(c) ==
  /\ mirrors[c] > 0
  /\ mirrors' = [mirrors EXCEPT ![c] = @ - 1]
  /\ mirrored' = mirrored + c
  /\ UNCHANGED <<booked, day, alertVars, selected, turn, inbox, messages, lives>>

(* What is in memory goes; messages in hand are enqueued again; the model  *)
(* is the choice that was saved last, if any was.                          *)
Crash ==
  /\ lives < MaxLives
  /\ lives' = lives + 1
  /\ mirrors' = [c \in Costs |-> 0]
  /\ alerted' = {} /\ alertedDay' = 0 /\ alertTasks' = 0 /\ fired' = <<>>
  /\ selected' \in Catalog
  /\ inbox' = [s \in Sessions |->
                 IF turn[s].pc = "idle" THEN inbox[s] ELSE inbox[s] + 1]
  /\ turn' = [s \in Sessions |-> Idle]
  /\ UNCHANGED <<booked, mirrored, day, messages>>

-----------------------------------------------------------------------------
(* A turn and its model calls.                                             *)

(* The model is read once per turn.                                        *)
StartTurn(s) ==
  /\ turn[s].pc = "idle" /\ inbox[s] > 0
  /\ inbox' = [inbox EXCEPT ![s] = @ - 1]
  /\ turn' = [turn EXCEPT ![s].pc = "asking", ![s].want = selected]
  /\ UNCHANGED <<budgetVars, selected, messages, lives>>

ReadSpent(s) ==
  /\ turn[s].pc = "asking"
  /\ turn' = [turn EXCEPT ![s] = [turn[s] EXCEPT !.pc = "read", !.read = Spent,
                !.rounds = @ + 1, !.at = 1, !.served = {}, !.cost = 0]]
  /\ UNCHANGED <<budgetVars, selected, inbox, messages, lives>>

Highest(levels) == CHOOSE l \in levels : \A k \in levels : k <= l

Fire(levels) ==
  IF levels = {} THEN UNCHANGED <<alertTasks, fired>>
  ELSE /\ alertTasks' = alertTasks + 1
       /\ fired' = Append(fired, <<day, Highest(levels)>>)

Today == IF alertedDay = day THEN alerted ELSE {}

Crossed(spent) == {l \in Levels \ Today : spent >= l}

(* Fault: only the level that fires is marked.                             *)
CheckHighest(spent) ==
  /\ Fire(Crossed(spent))
  /\ alertedDay' = day
  /\ alerted' = Today \cup {l \in Crossed(spent) : \A k \in Crossed(spent) : k <= l}

(* _check_alerts: of the levels crossed and not yet fired today the        *)
(* highest fires, and all count as fired.                                  *)
CheckAlerts(spent) ==
  /\ Fire(Crossed(spent))
  /\ alertedDay' = day
  /\ alerted' = Today \cup Crossed(spent)

(* Fault: the hard stop leaves the call that crosses the budget alone.     *)
UnlessFirst(s) == turn[s].read < Budget \/ turn[s].rounds > 1

WithinBudget(s) == turn[s].read < Budget

Admit(s) ==
  /\ turn[s].pc = "read" /\ WithinBudget(s)
  /\ CheckAlerts(turn[s].read)
  /\ turn' = [turn EXCEPT ![s].pc = "trying", ![s].read = 0]
  /\ UNCHANGED <<booked, mirrored, mirrors, day, selected, inbox, messages, lives>>

(* BudgetExceeded ends the turn.                                           *)
Refuse(s) ==
  /\ turn[s].pc = "read" /\ ~WithinBudget(s)
  /\ CheckAlerts(turn[s].read)
  /\ turn' = [turn EXCEPT ![s] = Idle]
  /\ UNCHANGED <<booked, mirrored, mirrors, day, selected, inbox, messages, lives>>

(* The chain is walked while no chunk has come.                            *)
FirstChunk(s) ==
  /\ turn[s].pc = "trying"
  /\ turn' = [turn EXCEPT ![s].pc = "streaming",
                ![s].served = @ \cup {Chain(turn[s].want)[turn[s].at]}]
  /\ UNCHANGED <<budgetVars, selected, inbox, messages, lives>>

(* Fault: the chain goes on in the middle of an answer.                    *)
AnyError(s) == turn[s].pc \in {"trying", "streaming"}

Onward(s) == turn[s].at < Len(Chain(turn[s].want))

(* An error that moves the chain on: up to the first chunk.                *)
EarlyError(s) == turn[s].pc = "trying"

NextCandidate(s) ==
  /\ EarlyError(s) /\ Onward(s)
  /\ turn' = [turn EXCEPT ![s].pc = "trying", ![s].at = @ + 1]
  /\ UNCHANGED <<budgetVars, selected, inbox, messages, lives>>

(* The last candidate fails, or a stream in its middle, or                 *)
(* record_token_spend: the error ends the turn.                            *)
CallFails(s) ==
  /\ \/ turn[s].pc = "trying" /\ turn[s].at = Len(Chain(turn[s].want))
     \/ turn[s].pc \in {"streaming", "booked"}
  /\ turn' = [turn EXCEPT ![s] = Idle]
  /\ UNCHANGED <<budgetVars, selected, inbox, messages, lives>>

(* The chunk with the usage, before it is passed on.                       *)
Book(s, c) ==
  /\ turn[s].pc = "streaming"
  /\ booked' = booked + c
  /\ turn' = [turn EXCEPT ![s].pc = "booked", ![s].cost = c]
  /\ UNCHANGED <<mirrored, mirrors, day, alertVars, selected, inbox, messages, lives>>

(* hooks.emit(AFTER_LLM) of a call with usage makes a task for the sink.   *)
Emitted(c) == IF c = 0 THEN mirrors ELSE [mirrors EXCEPT ![c] = @ + 1]

(* The end of the stream, with chunks or without: the turn goes on to its  *)
(* next call after tool calls, or ends.                                    *)
Finish(s) ==
  /\ turn[s].pc \in {"trying", "streaming", "booked"}
  /\ mirrors' = Emitted(turn[s].cost)
  /\ \/ /\ turn[s].rounds < MaxRounds
        /\ turn' = [turn EXCEPT ![s].pc = "asking"]
     \/ turn' = [turn EXCEPT ![s] = Idle]
  /\ UNCHANGED <<booked, mirrored, day, alertVars, selected, inbox, messages, lives>>

Call(s) ==
  \/ ReadSpent(s) \/ Admit(s) \/ Refuse(s)
  \/ FirstChunk(s) \/ NextCandidate(s) \/ CallFails(s) \/ Finish(s)
  \/ \E c \in Costs : Book(s, c)

Next ==
  \/ \E s \in Sessions : Submit(s) \/ SendAlert(s) \/ StartTurn(s) \/ Call(s)
  \/ \E m \in Catalog : SetModel(m)
  \/ \E c \in Costs : Mirror(c)
  \/ Midnight \/ Crash

Spec == Init /\ [][Next]_vars

-----------------------------------------------------------------------------
(* Calls that read the spend before a concurrent call booked its own may   *)
(* take the day past the budget, but by no more than one call per session: *)
(* the cap holds up to what is in flight, also across midnight.            *)
SpendBounded == booked < Budget + Cardinality(Sessions) * MaxCost

(* What a call passes on comes from one model of its chain: an error after *)
(* the first chunk never continues the answer with another model's.        *)
OneModelAnswers ==
  \A s \in Sessions : /\ Cardinality(turn[s].served) <= 1
                      /\ turn[s].pc = "trying" => turn[s].served = {}

(* Alerts of a life tell once a day of each level, and of rising levels,   *)
(* in whatever order concurrent calls check the spend they read before.    *)
AlertsRise ==
  \A i, j \in DOMAIN fired :
    i < j => \/ fired[i][1] < fired[j][1]
             \/ fired[i][1] = fired[j][1] /\ fired[i][2] < fired[j][2]
=============================================================================
