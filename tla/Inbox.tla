-------------------------------- MODULE Inbox --------------------------------
(***************************************************************************)
(* What the gateway promises to whoever submits a message, with no queue,  *)
(* worker, restart or turn in sight: an accepted message stays pending     *)
(* until it is settled, it is served only while it is pending (so a        *)
(* settled message is never served again), one message of a session is     *)
(* served at a time, and an interruption only ever hands a message back.   *)
(*                                                                         *)
(* The doc comment of pishkar/gateway/gateway.py makes these promises:     *)
(* every inbound is persisted with delivered_at = NULL, whatever is still  *)
(* undelivered is enqueued again on start, one turn of a session at a time *)
(***************************************************************************)
CONSTANTS Messages,   \* inbound messages, one per message_id
          Sessions,   \* session ids
          SessionOf,  \* the session_id of a message
          NoMsg       \* "not serving"

VARIABLES pending,    \* accepted and not settled
          settled,    \* settled for good
          serving     \* the message each session is working on

inboxVars == <<pending, settled, serving>>

Init == /\ pending = {}
        /\ settled = {}
        /\ serving = [s \in Sessions |-> NoMsg]

Accept(m) == /\ m \notin pending \cup settled
             /\ pending' = pending \cup {m}
             /\ UNCHANGED <<settled, serving>>

Serve(m) == /\ m \in pending
            /\ serving[SessionOf[m]] = NoMsg
            /\ serving' = [serving EXCEPT ![SessionOf[m]] = m]
            /\ UNCHANGED <<pending, settled>>

Settle(m) == /\ m \in pending
             /\ serving[SessionOf[m]] = m
             /\ pending' = pending \ {m}
             /\ settled' = settled \cup {m}
             /\ serving' = [serving EXCEPT ![SessionOf[m]] = NoMsg]

(* A crash, a shutdown or a failed write stops the work of some sessions.  *)
(* What they were serving stays pending.                                   *)
Release(S) == /\ serving' = [s \in Sessions |-> IF s \in S THEN NoMsg
                                                ELSE serving[s]]
              /\ UNCHANGED <<pending, settled>>

Next == \/ \E m \in Messages : Accept(m) \/ Serve(m) \/ Settle(m)
        \/ \E S \in SUBSET Sessions : Release(S)

Spec == Init /\ [][Next]_inboxVars
==============================================================================
