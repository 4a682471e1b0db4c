--------------------------- MODULE MCMessageQueue ---------------------------
(* Model checking of MessageQueue on small instances.                       *)
EXTENDS MessageQueue

(* CQueue copies messages and never looks at them, so it is enough to give  *)
(* every call a message of its own: here the number of the call.            *)
Numbered ==
  \A p \in Producers : ppc[p] = "idle" /\ ppc'[p] = "length" => arg'[p] = node'[p]
=============================================================================
