----------------------------- MODULE PayloadTypes -----------------------------
(* The annotations of the SDK's dataclasses.  A scalar stands for every    *)
(* type whose values pass through unchanged: str, int, bool, float, Any.   *)
EXTENDS TLC

Scalar    == [kind |-> "scalar"]
A(class)  == [kind |-> "class", name |-> class]
Opt(t)    == [kind |-> "optional", of |-> t]
ListOf(t) == [kind |-> "list", of |-> t]
MapOf(t)  == [kind |-> "map", of |-> t]

(* Fields of a dataclass that are scalars, and that are Optional scalars.  *)
Plain(fields) == [f \in fields |-> Scalar]
Some(fields)  == [f \in fields |-> Opt(Scalar)]
=============================================================================
