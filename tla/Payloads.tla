------------------------------- MODULE Payloads -------------------------------
(***************************************************************************)
(* Python values and JSON, as the SDK turns one into the other.            *)
(***************************************************************************)
EXTENDS PyValues, RequestShapes, ResponseShapes, Naturals, Sequences

-----------------------------------------------------------------------------
(* Requests.                                                               *)

RECURSIVE ToPayload(_)
ToPayload(v) ==
  CASE v.tag = "enum" -> Val(v.v)
    [] v.tag \in {"obj", "instance"} -> Obj([k \in Present(v.members) |-> ToPayload(v.members[k])])
    [] v.tag = "list" -> List([i \in DOMAIN v.items |-> ToPayload(v.items[i])])
    [] OTHER -> v

RECURSIVE WireValue(_)

(* Mutation: a dict is cleaned at its top level only.                      *)
TopLevelOnly(v) ==
  CASE v.tag = "obj" -> Obj([k \in Present(v.members) |-> v.members[k]])
    [] OTHER -> v

(* A float without a fraction is sent as an integer, below 10^21.          *)
WireValue(v) ==
  CASE v.tag = "obj"  -> Obj([k \in Present(v.members) |-> WireValue(v.members[k])])
    [] v.tag = "list" -> List([i \in DOMAIN v.items |-> WireValue(v.items[i])])
    [] v = Float("whole") -> Val("integer")
    [] OTHER -> v

(* JSON has no NaN.                                                        *)
RECURSIVE Encodable(_)
Encodable(v) ==
  CASE v.tag = "obj"  -> \A k \in DOMAIN v.members : Encodable(v.members[k])
    [] v.tag = "list" -> \A i \in DOMAIN v.items : Encodable(v.items[i])
    [] OTHER -> v # Float("nan")

RequestBody(v) ==
  LET wire == WireValue(v) IN IF v = Null \/ Encodable(wire) THEN wire ELSE CryptoChiefError

-----------------------------------------------------------------------------
(* Responses.                                                              *)

Inner(t) == IF t.kind = "optional" THEN t.of ELSE t

(* What a field is without a value: a list is empty, an Optional None.     *)
Default(t) ==
  CASE t.kind = "list"     -> List(<<>>)
    [] t.kind = "optional" -> Null
    [] OTHER               -> Val("default")

(* Mutation: null is None, whatever the slot.                              *)
NoneForNull(t) == Null

(* A slot declared as a list is a promise of a list, unless it is Optional.*)
NullIn(t) == IF t.kind = "list" THEN List(<<>>) ELSE Null

RECURSIVE Coerce(_, _)

(* Keys a class does not declare are ignored; so is a body that is none.   *)
FromDict(class, data) ==
  LET shape    == ResponseShapes[class]
      received == IF data.tag = "obj" THEN data.members ELSE Empty
  IN Object(class, [f \in DOMAIN shape |->
       IF f \in DOMAIN received THEN Coerce(shape[f], received[f]) ELSE Default(shape[f])])

Coerce(t, value) ==
  LET inner == Inner(t) IN
  IF value = Null THEN NullIn(t)
  ELSE CASE inner.kind = "list" ->
              List([i \in DOMAIN value.items |-> Coerce(inner.of, value.items[i])])
         [] inner.kind = "map" ->
              Obj([k \in DOMAIN value.members |-> Coerce(inner.of, value.members[k])])
         [] inner.kind = "class" -> FromDict(inner.name, value)
         [] OTHER -> value

-----------------------------------------------------------------------------
(* What the two directions promise.                                        *)

(* v may stand in a slot declared t.  A scalar slot is not promised more:  *)
(* null is passed through; so it is among the elements of a list.          *)
RECURSIVE IsA(_, _)
IsA(v, t) ==
  CASE t.kind = "optional" -> v = Null \/ IsA(v, t.of)
    [] t.kind = "list"     -> v.tag = "list" /\ \A i \in DOMAIN v.items : v.items[i] = Null \/ IsA(v.items[i], t.of)
    [] t.kind = "map"      -> v.tag = "obj" /\ \A k \in DOMAIN v.members : IsA(v.members[k], t.of)
    [] t.kind = "scalar"   -> v.tag \in {"null", "val"}
    [] t.kind = "class"    ->
         LET shape == ResponseShapes[t.name] IN
         /\ v.tag = "instance" /\ v.class = t.name
         /\ DOMAIN v.members = DOMAIN shape
         /\ \A f \in DOMAIN shape : IsA(v.members[f], shape[f])

(* v holds what was received, and nothing in place of what was not.        *)
RECURSIVE Keeps(_, _)
Keeps(v, received) ==
  CASE v.tag = "instance" /\ received.tag = "obj" ->
         \A f \in DOMAIN v.members :
           IF f \in DOMAIN received.members
           THEN Keeps(v.members[f], received.members[f])
           ELSE v.members[f] \in {Null, List(<<>>), Val("default")}
    [] v.tag = "obj" /\ received.tag = "obj" ->
         /\ DOMAIN v.members = DOMAIN received.members
         /\ \A k \in DOMAIN v.members : Keeps(v.members[k], received.members[k])
    [] v.tag = "list" /\ received.tag = "list" ->
         /\ Len(v.items) = Len(received.items)
         /\ \A i \in DOMAIN v.items : Keeps(v.items[i], received.items[i])
    [] received = Null -> v \in {Null, List(<<>>)}
    [] OTHER -> v = received

(* The body carries all of a value that is set and nothing that is not.    *)
RECURSIVE Carries(_, _)
Carries(body, v) ==
  CASE v.tag \in {"obj", "instance"} ->
         /\ body.tag = "obj" /\ DOMAIN body.members = Present(v.members)
         /\ \A k \in Present(v.members) : Carries(body.members[k], v.members[k])
    [] v.tag = "list" ->
         /\ body.tag = "list" /\ Len(body.items) = Len(v.items)
         /\ \A i \in DOMAIN v.items : Carries(body.items[i], v.items[i])
    [] v.tag = "enum" -> body = Val(v.v)
    [] v = Float("whole") -> body = Val("integer")
    [] OTHER -> body = v
=============================================================================
