------------------------------ MODULE MCWebhooks ------------------------------
(* Webhooks for TLC: two events of one object.                             *)
EXTENDS Webhooks

MCDeliveries == 1..2
MCObject == [d \in MCDeliveries |-> "invoice"]
MCSkews == {-3, 2}
MCTolerances == {0, 1}
=============================================================================
