---------------------------- MODULE MCPollWorker ----------------------------
(* Model checking of PollWorker on small instances.                         *)
EXTENDS PollWorker
=============================================================================
