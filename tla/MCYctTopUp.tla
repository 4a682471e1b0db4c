----------------------------- MODULE MCYctTopUp -----------------------------
(* Model checking of YctTopUp on small instances.                           *)
EXTENDS YctTopUp
=============================================================================
