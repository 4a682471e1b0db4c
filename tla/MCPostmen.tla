----------------------------- MODULE MCPostmen -----------------------------
(* Model checking of Postmen on small instances.                            *)
EXTENDS Postmen, TLC

(* The host reports nothing, one parcel, or two parcels in either order.    *)
Pairs == [box : DepositBoxes, mail : Mails]
UpToTwo ==
  {<< >>} \cup {<<a>> : a \in Pairs}
    \cup {s \in Pairs \X Pairs : s[1].box # s[2].box /\ s[1].mail # s[2].mail}

AllBoxes == {Box}

(* Box 1 is named 11 and box 11 is named 1, say: a queued message of one    *)
(* box is taken for one of the other.                                       *)
Crossed == [b \in Box |-> BoxCountTotal + 1 - b]

(* Log-ins that always ask the host, and log-ins that ask it only after the *)
(* table has failed.                                                        *)
TwoSettings == {[offLine |-> o, onLineToo |-> o] : o \in BOOLEAN}

(* Nothing is claimed of the lists once they are disturbed.                 *)
Undisturbed == ~disturbed

Symmetry == Permutations(Ids) \cup Permutations(Mails)
=============================================================================
