------------------------------- MODULE MCAgent -------------------------------
(* Instances of Agent: what the model may answer.                          *)
EXTENDS Agent

(* Prose, two calls, a call named late, or text and a call without an id.  *)
MCReplies ==
  {[calls |-> 0, text |-> TRUE, given |-> "never"],
   [calls |-> 2, text |-> FALSE, given |-> "first"],
   [calls |-> 1, text |-> FALSE, given |-> "later"],
   [calls |-> 1, text |-> TRUE, given |-> "never"]}
==============================================================================
