---------------------------- MODULE MCFlashLink ----------------------------
(* Model checking of FlashLink on small instances.                          *)
EXTENDS FlashLink
=============================================================================
