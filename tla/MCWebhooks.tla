------------------------------- MODULE MCWebhooks ------------------------------
(* The instances of WebhookDelivery that TLC checks.                          *)
EXTENDS WebhookDelivery, TLC

CONSTANTS c1, c2, h1, h2

(* Dispatch cycles are interchangeable.                                       *)
CycleSymmetry == Permutations(Dispatchers)

(* A wait longer than a row can be in flight before the sweep takes it up.    *)
LongWait == [n \in {0} |-> 5]
OneWait == [n \in {0} |-> 1]
=============================================================================
