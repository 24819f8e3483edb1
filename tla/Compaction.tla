----------------------------- MODULE Compaction ------------------------------
(***************************************************************************)
(* compact() of core/compaction.py as it runs: two passes with an index    *)
(* into the list that shrinks under it.  `out` holds positions of the      *)
(* input, so that it tells equal messages apart; indices count from 1.     *)
(* The names of the specification leave room for those of Agent.           *)
(***************************************************************************)
EXTENDS Compact, Integers

CONSTANTS MaxLen,   \* bound: messages of a conversation
          Limits    \* values of max_messages

ASSUME CompactionAssumption == MaxLen \in Nat /\ Limits \subseteq Nat

VARIABLES input,  \* the kinds of the messages
          max,    \* max_messages
          pass,   \* which loop runs: "prose", then "blocks"
          out, i,
          keep    \* keep_last_user, or 0 for None

compactVars == <<input, max, pass, out, i, keep>>

Kind(k) == input[out[k]]

CompactInit ==
  /\ input \in UNION {[1..n -> Kinds] : n \in 0..MaxLen}
  /\ max \in Limits
  /\ pass = "start"
  /\ out = [k \in DOMAIN input |-> k]
  /\ i = 1
  /\ keep = 0

(* The index of the last user message, if there is one.                    *)
LastUser == LET U == {k \in DOMAIN out : Kind(k) = "user"}
            IN  IF U = {} THEN 0 ELSE CHOOSE k \in U : \A m \in U : m <= k

(* The early return, or the search for the last user message.              *)
Start ==
  /\ pass = "start"
  /\ IF Len(out) <= max
     THEN pass' = "done" /\ UNCHANGED keep
     ELSE pass' = "prose" /\ keep' = LastUser
  /\ UNCHANGED <<input, max, out, i>>

Looping == Len(out) > max /\ i <= Len(out)

(* Fault: the index of the last user message is not moved along.           *)
DropStill(j) ==
  /\ out' = SubSeq(out, 1, i - 1) \o SubSeq(out, j, Len(out))
  /\ UNCHANGED keep

(* Delete the messages i..j-1; keep_last_user moves with what it points to.*)
Drop(j) ==
  /\ out' = SubSeq(out, 1, i - 1) \o SubSeq(out, j, Len(out))
  /\ keep' = IF keep # 0 /\ i < keep THEN keep - (j - i) ELSE keep

(* Fault: the index stays where it is.                                     *)
SkipNothing == UNCHANGED <<out, i, keep>>

Skip == /\ i' = i + 1
        /\ UNCHANGED <<out, keep>>

(* Messages that neither pass may touch.                                   *)
Protected == Kind(i) = "system" \/ i = keep

(* One round of the first loop.                                            *)
ProseRound ==
  /\ pass = "prose"
  /\ Looping
  /\ IF ~Protected /\ Kind(i) = "prose"
     THEN Drop(i + 1) /\ UNCHANGED i
     ELSE Skip
  /\ UNCHANGED <<input, max, pass>>

(* The first loop is over: return, or start the second.                    *)
ProseDone ==
  /\ pass = "prose"
  /\ ~Looping
  /\ pass' = IF Len(out) <= max THEN "done" ELSE "blocks"
  /\ i' = 1
  /\ UNCHANGED <<input, max, out, keep>>

(* j of the inner loop: the first message after i that is no result.       *)
BlockEnd == CHOOSE j \in (i + 1)..(Len(out) + 1) :
              /\ \A k \in (i + 1)..(j - 1) : Kind(k) = "tool"
              /\ j <= Len(out) => Kind(j) # "tool"

(* One round of the second loop.                                           *)
BlockRound ==
  /\ pass = "blocks"
  /\ Looping
  /\ IF ~Protected /\ Kind(i) = "calls"
     THEN Drop(BlockEnd) /\ UNCHANGED i
     ELSE Skip
  /\ UNCHANGED <<input, max, pass>>

BlocksDone ==
  /\ pass = "blocks"
  /\ ~Looping
  /\ pass' = "done"
  /\ UNCHANGED <<input, max, out, i, keep>>

(* compact() has returned; there is nothing left to do.                    *)
Returned == pass = "done" /\ UNCHANGED compactVars

CompactNext == Start \/ ProseRound \/ ProseDone \/ BlockRound \/ BlocksDone \/ Returned

(* A loop without an await runs to its end.                                *)
CompactSpec == CompactInit /\ [][CompactNext]_compactVars /\ WF_compactVars(CompactNext)

-----------------------------------------------------------------------------
(* Properties.                                                             *)

(* The two loops compute the closed form that the agent loop is modelled   *)
(* with, and keep the order of the messages.                               *)
ResultIsKept ==
  /\ {out[k] : k \in DOMAIN out} = Kept(input, max)
  /\ \A k, m \in DOMAIN out : k < m => out[k] < out[m]

(* A tool result without the call it answers.                              *)
Orphan(h, p) == /\ h[p] = "tool"
                /\ p = 1 \/ h[p - 1] \notin {"calls", "tool"}

(* compaction.py:6, "Tool-call/tool-result pairs are preserved together":  *)
(* a conversation without orphaned results never gets one.                 *)
NoNewOrphans ==
  (\A p \in DOMAIN input : ~Orphan(input, p))
    => \A k \in DOMAIN out : ~Orphan([m \in DOMAIN out |-> Kind(m)], k)

(* What compact() returns is what the closed form says, with every result  *)
(* beside its call.                                                        *)
ReturnsKept == pass = "done" => ResultIsKept /\ NoNewOrphans

(* Both loops end, although the list shrinks under their index.            *)
Compacts == <>(pass = "done")
=============================================================================
