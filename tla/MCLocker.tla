------------------------------ MODULE MCLocker ------------------------------
(* Model checking of Locker on small instances: every box has one size, the *)
(* host grants all boxes or reports one of them overdue, and a sensor       *)
(* either feels nothing anywhere or something in the first box.  With one   *)
(* box no parcel is overdue.                                                *)
EXTENDS Locker, TLC

OneSize == [b \in Box |-> 1]

SomeLogins == {[overdue |-> {}, available |-> Box], [overdue |-> {1}, available |-> Box \ {1}]}
SomeReadings == {[b \in Box |-> FALSE], [b \in Box |-> b = 1]}
OneLogin == {[overdue |-> {}, available |-> Box]}
NothingFelt == {[b \in Box |-> FALSE]}

Symmetry == Permutations(Mails) \cup Permutations(PWs)
=============================================================================
