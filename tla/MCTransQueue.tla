---------------------------- MODULE MCTransQueue ----------------------------
(* Model checking of TransQueue on small instances.                         *)
EXTENDS TransQueue
=============================================================================
