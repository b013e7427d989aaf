------------------------------- MODULE PyValues -------------------------------
(***************************************************************************)
(* The values the SDK handles, of Python and of JSON.                      *)
(*                                                                         *)
(* A value is a record with a tag: null, a scalar ("val", an enum member   *)
(* or a float), a list, a dict ("obj", which is a JSON object as well) or  *)
(* an instance of a dataclass.                                             *)
(***************************************************************************)
Null            == [tag |-> "null"]
Val(x)          == [tag |-> "val", v |-> x]
EnumMember(x)   == [tag |-> "enum", v |-> x]
Float(form)     == [tag |-> "float", form |-> form]   \* "whole", "huge", "fraction" or "nan"
List(items)     == [tag |-> "list", items |-> items]
Obj(members)    == [tag |-> "obj", members |-> members]
Object(c, m)    == [tag |-> "instance", class |-> c, members |-> m]

Empty    == [k \in {} |-> Null]
Present(m) == {k \in DOMAIN m : m[k] # Null}
CryptoChiefError == [tag |-> "CryptoChiefError"]
=============================================================================
