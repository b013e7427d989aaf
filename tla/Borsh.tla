-------------------------------- MODULE Borsh --------------------------------
(***************************************************************************)
(* Borsh values, Anchor instruction data and base58.  A byte has BorshBits *)
(* bits (8 in the code), a base58 digit is a number below AlphabetSize     *)
(* (58), a public key has KeyLength bytes (32).                            *)
(***************************************************************************)
EXTENDS Integers, SequencesExt

CONSTANTS BorshBits, AlphabetSize, KeyLength,
          Discriminator(_)   \* the first bytes of a method's hash

ASSUME BorshAssumption == {BorshBits, AlphabetSize - 1, KeyLength} \subseteq Nat \ {0}

Byte256   == 2^BorshBits
BorshError == [tag |-> "BorshError"]
Bytes(b)   == [tag |-> "bytes", b |-> b]

(* Mutation: the sign of a negative number is lost.                        *)
LEUnsigned(value, width) ==
  [i \in 1..width |-> ((IF value < 0 THEN -value ELSE value) \div Byte256^(i - 1)) % Byte256]

(* _le: the value modulo its width, the lowest byte first.                 *)
LE(value, width) == [i \in 1..width |-> (value \div Byte256^(i - 1)) % Byte256]

Prefixed(b) == LE(Len(b), 4) \o b

(* base58: leading zero bytes are leading zero digits, the rest a number.  *)
LeadingZeros(s) ==
  LET rest == {i \in DOMAIN s : s[i] # 0}
  IN IF rest = {} THEN Len(s) ELSE (CHOOSE i \in rest : \A j \in rest : i <= j) - 1
Value(s, base) == FoldLeft(LAMBDA n, d : base * n + d, 0, s)
RECURSIVE ToBase(_, _)
ToBase(n, base) == IF n = 0 THEN <<>> ELSE Append(ToBase(n \div base, base), n % base)

ZeroSeq(n)        == [i \in 1..n |-> 0]
Base58Encode(b)   == ZeroSeq(LeadingZeros(b)) \o ToBase(Value(b, Byte256), AlphabetSize)
Base58Decode(s)   == ZeroSeq(LeadingZeros(s)) \o ToBase(Value(s, AlphabetSize), Byte256)

(* A text of no length or with a character outside the alphabet is refused.*)
IsBase58(s) == s # <<>> /\ \A i \in DOMAIN s : s[i] \in 0..(AlphabetSize - 1)

-----------------------------------------------------------------------------
(* The constructors.  A type is what the caller picks a constructor for.   *)

RECURSIVE Encode(_, _)

All(encodings) ==
  IF \E i \in DOMAIN encodings : encodings[i] = BorshError THEN BorshError
  ELSE Bytes(FlattenSeq([i \in DOMAIN encodings |-> encodings[i].b]))

After(prefix, encoding) == IF encoding = BorshError THEN BorshError ELSE Bytes(prefix \o encoding.b)

(* decode_solana_pubkey.                                                   *)
Pubkey(pk) ==
  LET raw == IF pk.form = "bytes" THEN pk.of ELSE Base58Decode(pk.of) IN
  IF (pk.form = "base58" => IsBase58(pk.of)) /\ Len(raw) = KeyLength THEN Bytes(raw) ELSE BorshError

Encode(t, v) ==
  CASE t.kind \in {"u", "i"} -> Bytes(LE(v, t.width))
    [] t.kind = "u128"   -> IF v < 0 \/ v >= Byte256^16 THEN BorshError ELSE Bytes(LE(v, 16))
    [] t.kind = "bool"   -> Bytes(<<IF v THEN 1 ELSE 0>>)
    [] t.kind = "bytes"  -> Bytes(Prefixed(v))
    [] t.kind = "fixed"  -> IF Len(v) = t.size THEN Bytes(v) ELSE BorshError
    [] t.kind = "pubkey" -> Pubkey(v)
    [] t.kind = "option" -> IF v = <<>> THEN Bytes(<<0>>) ELSE After(<<1>>, Encode(t.of, v[1]))
    [] t.kind = "vec"    -> After(LE(Len(v), 4), All([i \in DOMAIN v |-> Encode(t.of, v[i])]))
    [] t.kind = "struct" -> All([i \in DOMAIN v |-> Encode(t.fields[i], v[i])])

AnchorInstruction(method, types, args) ==
  After(Discriminator(method), All([i \in DOMAIN args |-> Encode(types[i], args[i])]))

-----------------------------------------------------------------------------
(* What a program reads: a value of a type at the front of the data, and   *)
(* how long it is there.                                                   *)

NumberAt(data, width) == Value(Reverse(SubSeq(data, 1, width)), Byte256)
Drop(data, n) == SubSeq(data, n + 1, Len(data))

RECURSIVE Read(_, _)
RECURSIVE ReadMany(_, _)
ReadMany(types, data) ==
  IF types = <<>> THEN [value |-> <<>>, length |-> 0]
  ELSE LET first == Read(types[1], data)
           rest  == ReadMany(Tail(types), Drop(data, first.length))
       IN [value |-> <<first.value>> \o rest.value, length |-> first.length + rest.length]
Read(t, data) ==
  LET sized(n, w) == [value |-> n, length |-> w] IN
  CASE t.kind = "u" -> sized(NumberAt(data, t.width), t.width)
    [] t.kind = "i" ->
         LET n == NumberAt(data, t.width) IN
         sized(IF 2 * n >= Byte256^t.width THEN n - Byte256^t.width ELSE n, t.width)
    [] t.kind = "u128"   -> sized(NumberAt(data, 16), 16)
    [] t.kind = "bool"   -> sized(data[1] = 1, 1)
    [] t.kind = "bytes"  -> LET n == NumberAt(data, 4) IN sized(SubSeq(data, 5, 4 + n), 4 + n)
    [] t.kind = "fixed"  -> sized(SubSeq(data, 1, t.size), t.size)
    [] t.kind = "pubkey" -> sized([form |-> "bytes", of |-> SubSeq(data, 1, KeyLength)], KeyLength)
    [] t.kind = "option" ->
         IF data[1] = 0 THEN sized(<<>>, 1)
         ELSE LET inner == Read(t.of, Drop(data, 1)) IN sized(<<inner.value>>, 1 + inner.length)
    [] t.kind = "vec"    ->
         LET many == ReadMany([i \in 1..NumberAt(data, 4) |-> t.of], Drop(data, 4))
         IN sized(many.value, 4 + many.length)
    [] t.kind = "struct" -> ReadMany(t.fields, data)

(* The values of a type, and a key in its plain form.                      *)
RECURSIVE Fits(_, _)
Fits(v, t) ==
  CASE t.kind = "u" -> v \in 0..(Byte256^t.width - 1)
    [] t.kind = "i" -> 2 * v >= -(Byte256^t.width) /\ 2 * v < Byte256^t.width
    [] t.kind = "u128"   -> v >= 0 /\ v < Byte256^16
    [] t.kind = "fixed"  -> Len(v) = t.size
    [] t.kind = "pubkey" -> IF v.form = "bytes" THEN Len(v.of) = KeyLength
                            ELSE \E b \in [1..KeyLength -> 0..(Byte256 - 1)] : Base58Encode(b) = v.of
    [] t.kind \in {"option", "vec"} -> \A i \in DOMAIN v : Fits(v[i], t.of)
    [] t.kind = "struct" -> \A i \in DOMAIN v : Fits(v[i], t.fields[i])
    [] OTHER -> TRUE
=============================================================================
