------------------------------- MODULE MCEvmAbi -------------------------------
(* EvmAbi for TLC: words of two bytes of four bits, and types up to arrays *)
(* of arrays.                                                              *)
EXTENDS EvmAbi

Uint == [kind |-> "uint", size |-> 4]
Int8 == [kind |-> "int", size |-> 8]
Byte == [kind |-> "bytesN", size |-> 1]
Dyn  == [kind |-> "bytes", size |-> 0]
Array(t, n) == [kind |-> "array", size |-> n, element |-> t]

Simple == {Uint, Int8, Byte, Dyn}
Types  == Simple \cup {Array(Uint, -1), Array(Dyn, -1), Array(Dyn, 1), Array(Uint, 1), Array(Uint, 2),
                       Array(Array(Uint, -1), 2), Array(Array(Uint, 2), -1)}

RECURSIVE Values(_)
Values(t) ==
  CASE t = Uint -> {0, 15}
    [] t = Int8 -> {-128, 5}
    [] t = Byte -> {<<9>>}
    [] t = Dyn  -> {<<>>, <<1, 0, 2>>}
    [] OTHER    -> UNION {[1..n -> Values(t.element)] : n \in IF t.size < 0 THEN 0..2 ELSE {t.size}}

AllSignatures == {<<t>> : t \in Types} \cup (Types \X Types) \cup (Simple \X Simple \X Simple)

(* A fixed array whose head is not one word, beside a dynamic argument.    *)
WideHead(types) ==
  /\ \E i \in DOMAIN types : IsDynamic(types[i])
  /\ \E i \in DOMAIN types : HeadWords(types[i]) # 1

NarrowSignatures == {s \in AllSignatures : ~WideHead(s)}
WideSignatures   == {s \in AllSignatures : WideHead(s) /\ Len(s) = 2}

(* Arguments that are refused: out of range, of the wrong length, too few. *)
Refused(types) ==
  CASE types = <<Uint, Dyn>>       -> {<<n, <<1>>>> : n \in {-1, 16, 256}}
    [] types = <<Byte>>            -> {<<b>> : b \in {<<>>, <<1, 2>>}}
    [] types = <<Array(Uint, 2)>>  -> {<<a>> : a \in {<<1>>, <<1, 2, 3>>, <<1, 99>>}}
    [] types = <<Uint>>            -> {<<>>, <<1, 2>>}
    [] OTHER                       -> {}

MCArgLists(types) ==
  Refused(types) \cup
  CASE Len(types) = 1 -> {<<a>> : a \in Values(types[1])}
    [] Len(types) = 2 -> Values(types[1]) \X Values(types[2])
    [] Len(types) = 3 -> Values(types[1]) \X Values(types[2]) \X Values(types[3])
=============================================================================
