------------------------------- MODULE MCOrders -------------------------------
(* Orders for TLC: energy orders, whose unresolved state may also settle   *)
(* into a refund, and native ones, where it may not.                       *)
EXTENDS Orders

EnergyFinals == {"refused", "refunded"}
NativeFinals == {"refused"}
=============================================================================
