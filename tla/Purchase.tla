------------------------------ MODULE Purchase ------------------------------
(***************************************************************************)
(* A purchase as native.buy and energy.rent promise it: the goods leave at *)
(* most once, the merchant is never told they left before they did, and is *)
(* told "nothing was delivered" only while that is so.                     *)
(***************************************************************************)
VARIABLES
  sent,    \* the goods have left
  belief   \* what the last answer told the merchant

purchaseVars == <<sent, belief>>

PInit == sent = FALSE /\ belief = "unknown"

(* Never while the merchant stands told that nothing was delivered: it may *)
(* be preparing to buy again.                                              *)
SendGoods ==
  /\ ~sent /\ belief = "unknown"
  /\ sent' = TRUE
  /\ UNCHANGED belief

Tell ==
  /\ belief' \in {"unknown", IF sent THEN "delivered" ELSE "nothing"}
  /\ UNCHANGED sent

PNext == SendGoods \/ Tell
PSpec == PInit /\ [][PNext]_purchaseVars
=============================================================================
