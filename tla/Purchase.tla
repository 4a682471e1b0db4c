------------------------------ MODULE Purchase ------------------------------
(***************************************************************************)
(* What a customer may expect of a purchase, however many parties, retries  *)
(* and restarts it takes: nothing is handed over before it is paid for (or  *)
(* free of charge), the seller keeps the money for good (gives a receipt)   *)
(* or pays it back, never both, and nothing that was handed over is paid    *)
(* back or handed over afterwards.                                          *)
(***************************************************************************)
CONSTANT Purchases

VARIABLES money,     \* per purchase: untouched, waived, debited or reversed
          goods,     \* the purchases that were handed over
          receipts   \* the purchases whose price is kept for good

vars == <<money, goods, receipts>>

Init == money = [p \in Purchases |-> "untouched"] /\ goods = {} /\ receipts = {}

Charge(p) ==
  /\ money[p] = "untouched"
  /\ \E m \in {"debited", "waived"} : money' = [money EXCEPT ![p] = m]
  /\ UNCHANGED <<goods, receipts>>

HandOver(p) ==
  /\ money[p] \in {"debited", "waived"} /\ p \notin receipts
  /\ goods' = goods \cup {p}
  /\ UNCHANGED <<money, receipts>>

Keep(p) ==
  /\ money[p] = "debited"
  /\ receipts' = receipts \cup {p}
  /\ UNCHANGED <<money, goods>>

PayBack(p) ==
  /\ money[p] = "debited" /\ p \notin goods /\ p \notin receipts
  /\ money' = [money EXCEPT ![p] = "reversed"]
  /\ UNCHANGED <<goods, receipts>>

Next == \E p \in Purchases : Charge(p) \/ HandOver(p) \/ Keep(p) \/ PayBack(p)

Spec == Init /\ [][Next]_vars
=============================================================================
