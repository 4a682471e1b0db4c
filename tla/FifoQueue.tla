------------------------------ MODULE FifoQueue ------------------------------
(***************************************************************************)
(* What the users of CQueue (the Flash, log and command threads of the     *)
(* terminal) rely on: messages come out once each, in the order in which   *)
(* they went in.                                                           *)
(***************************************************************************)
EXTENDS Naturals, Sequences

CONSTANT Data            \* what a message carries

VARIABLES sent,          \* every message accepted by the queue, in order
          received       \* every message handed to the consumer, in order

Init == sent = << >> /\ received = << >>

Put(d) ==
  /\ sent' = Append(sent, d)
  /\ UNCHANGED received

Get ==
  /\ Len(received) < Len(sent)
  /\ received' = Append(received, sent[Len(received) + 1])
  /\ UNCHANGED sent

Next == Get \/ \E d \in Data : Put(d)

Spec == Init /\ [][Next]_<<sent, received>>
=============================================================================
