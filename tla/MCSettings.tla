------------------------------ MODULE MCSettings ------------------------------
(* Settings for TLC: one network beside the address, two fields.           *)
EXTENDS Settings, TLC

CONSTANTS net, mode, fee, label, v

Update(n, m, g) == [op |-> "update_settings", network |-> n, change |-> (mode :> m @@ fee :> g)]
Name(value)     == [op |-> "set_name", name |-> label, value |-> value]

MCAsks ==
  {Update(None, v, None), Update(Empty, None, CLEAR), Update(net, CLEAR, v),
   Name(v), Name(Empty), Name(None)}

Interchangeable == Permutations(Callers)

(* Every ask finds a cell that it changes: what is to be cleared is set,   *)
(* what is to be set is not, and the label is.                             *)
MCSettled == {[cell \in Cells |->
  IF cell \in {<<Anywhere, fee>>, <<net, mode>>, <<Wallet, label>>} THEN v ELSE None]}
=============================================================================
