-------------------------- MODULE MCSessionServer --------------------------
(* Model checking of SessionServer on small instances.                      *)
EXTENDS SessionServer, TLC

(* Sessions are interchangeable.                                            *)
Symmetry == Permutations(Sessions)
=============================================================================
