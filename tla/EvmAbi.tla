-------------------------------- MODULE EvmAbi --------------------------------
(***************************************************************************)
(* The ABI encoder: encode_evm_call turns argument values into calldata, a *)
(* sequence of words, heads first and the tails of dynamic arguments after *)
(* them.  A word holds WordBytes bytes (32 in the code) and is modelled by *)
(* its number.                                                             *)
(*                                                                         *)
(* Types are as _parse_type returns them.  "uint" stands for address and   *)
(* bool too, which are one checked word like it, and "bytes" for string.   *)
(***************************************************************************)
EXTENDS Integers, SequencesExt

CONSTANTS
  WordBytes,   \* bytes of a word
  ByteBits,    \* bits of a byte
  Signatures,  \* the signatures called, as lists of types
  ArgLists(_)  \* the arguments a signature is called with

ASSUME EvmAbiAssumption == WordBytes \in Nat \ {0} /\ ByteBits \in Nat \ {0}

VARIABLES call, outcome, calldata

vars == <<call, outcome, calldata>>

ByteBase == 2^ByteBits
Modulus  == 2^(ByteBits * WordBytes)

Total(s) == FoldSeq(LAMBDA x, y : x + y, 0, s)

-----------------------------------------------------------------------------
(* The encoder.                                                            *)

RECURSIVE IsDynamic(_)
IsDynamic(t) ==
  \/ t.kind = "bytes"
  \/ t.kind = "array" /\ (t.size < 0 \/ IsDynamic(t.element))

(* Mutation: the largest number of a width is refused.                     *)
FitsBelowMax(n, bits) == n >= 0 /\ n < 2^bits - 1

(* _to_big_uint: neither negative nor too wide.                            *)
BigUint(n, bits) == n >= 0 /\ n < 2^bits

(* The checks on the way that raise EvmAbiError; an int has none.          *)
RECURSIVE Accepts(_, _)
Accepts(t, v) ==
  CASE t.kind = "uint"   -> BigUint(v, t.size)
    [] t.kind = "int"    -> TRUE
    [] t.kind = "bytesN" -> Len(v) = t.size
    [] t.kind = "bytes"  -> TRUE
    [] t.kind = "array"  -> /\ t.size >= 0 => Len(v) = t.size
                            /\ \A i \in DOMAIN v : Accepts(t.element, v[i])

(* Bytes put into words, filled up with zeros on the right.                *)
Pack(b) ==
  LET Digit(i) == IF i <= Len(b) THEN b[i] ELSE 0
      Word(w)  == Total([j \in 1..WordBytes |->
                           Digit((w - 1) * WordBytes + j) * ByteBase^(WordBytes - j)])
  IN [w \in 1..((Len(b) + WordBytes - 1) \div WordBytes) |-> Word(w)]

(* Mutation: offsets count from the end of the heads.                      *)
TailOffset(types, tails, i) ==
  WordBytes * Total([j \in 1..(i - 1) |-> IF IsDynamic(types[j]) THEN Len(tails[j]) ELSE 0])

(* Where the tail of argument i begins, in bytes: head_size is one word    *)
(* for each argument.                                                      *)
Offset(types, tails, i) ==
  WordBytes * (Len(types)
    + Total([j \in 1..(i - 1) |-> IF IsDynamic(types[j]) THEN Len(tails[j]) ELSE 0]))

Assemble(types, tails) ==
  FlattenSeq([i \in DOMAIN types |->
                IF IsDynamic(types[i]) THEN <<Offset(types, tails, i)>> ELSE tails[i]])
  \o FlattenSeq([i \in DOMAIN types |-> IF IsDynamic(types[i]) THEN tails[i] ELSE <<>>])

RECURSIVE EncodeOne(_, _)
EncodeComponents(types, args) ==
  Assemble(types, [i \in DOMAIN types |-> EncodeOne(types[i], args[i])])
EncodeOne(t, v) ==
  CASE t.kind \in {"uint", "int"} -> <<v % Modulus>>
    [] t.kind = "bytesN"          -> Pack(v)
    [] t.kind = "bytes"           -> <<Len(v)>> \o Pack(v)
    [] t.kind = "array"           ->
         (IF t.size < 0 THEN <<Len(v)>> ELSE <<>>)
         \o EncodeComponents([i \in DOMAIN v |-> t.element], v)

-----------------------------------------------------------------------------
Init ==
  /\ \E types \in Signatures : \E args \in ArgLists(types) : call = [types |-> types, args |-> args]
  /\ outcome = "none" /\ calldata = <<>>

EncodeEvmCall ==
  /\ outcome = "none"
  /\ IF /\ Len(call.types) = Len(call.args)
        /\ \A i \in DOMAIN call.args : Accepts(call.types[i], call.args[i])
     THEN outcome' = "encoded" /\ calldata' = EncodeComponents(call.types, call.args)
     ELSE outcome' = "EvmAbiError" /\ UNCHANGED calldata
  /\ UNCHANGED call

Next == EncodeEvmCall
Spec == Init /\ [][Next]_vars

-----------------------------------------------------------------------------
(* What a contract reads: the ABI's decoder, by the words an argument      *)
(* occupies in the heads.                                                  *)

RECURSIVE HeadWords(_)
HeadWords(t) ==
  IF t.kind = "array" /\ ~IsDynamic(t) THEN t.size * HeadWords(t.element) ELSE 1

WordAt(data, at) == IF at \in DOMAIN data THEN data[at] ELSE 0

Unpack(data, at, n) ==
  [i \in 1..n |->
     (WordAt(data, at + (i - 1) \div WordBytes) \div ByteBase^(WordBytes - 1 - ((i - 1) % WordBytes)))
       % ByteBase]

(* Components that start at the word base, their offsets relative to it.   *)
RECURSIVE DecodeOne(_, _, _)
DecodeComponents(types, data, base) ==
  [i \in DOMAIN types |->
     LET head == base + Total([j \in 1..(i - 1) |-> HeadWords(types[j])])
     IN DecodeOne(types[i], data,
                  IF IsDynamic(types[i]) THEN base + WordAt(data, head) \div WordBytes ELSE head)]
DecodeOne(t, data, at) ==
  LET word == WordAt(data, at)
      Same(n) == [i \in 1..n |-> t.element] IN
  CASE t.kind = "uint"   -> word
    [] t.kind = "int"    -> IF word >= Modulus \div 2 THEN word - Modulus ELSE word
    [] t.kind = "bytesN" -> Unpack(data, at, t.size)
    [] t.kind = "bytes"  -> Unpack(data, at + 1, word)
    [] t.kind = "array"  -> IF t.size < 0 THEN DecodeComponents(Same(word), data, at + 1)
                                          ELSE DecodeComponents(Same(t.size), data, at)

(* The values of a type.                                                   *)
RECURSIVE HasType(_, _)
HasType(v, t) ==
  CASE t.kind = "uint"   -> v \in 0..2^t.size - 1
    [] t.kind = "int"    -> v \in -2^(t.size - 1)..2^(t.size - 1) - 1
    [] t.kind = "bytesN" -> Len(v) = t.size
    [] t.kind = "bytes"  -> TRUE
    [] t.kind = "array"  -> /\ t.size < 0 \/ Len(v) = t.size
                            /\ \A i \in DOMAIN v : HasType(v[i], t.element)

-----------------------------------------------------------------------------
(* Properties.                                                             *)

(* A contract reads back the arguments the caller gave, for every          *)
(* signature of "fixed / dynamic arrays T[] / T[N] of any supported T".    *)
DecodesBack == outcome = "encoded" => DecodeComponents(call.types, calldata, 1) = call.args

(* No argument list that has the types is refused.                         *)
AcceptsValues ==
  outcome = "EvmAbiError" =>
    \/ Len(call.types) # Len(call.args)
    \/ \E i \in DOMAIN call.args : ~HasType(call.args[i], call.types[i])
=============================================================================
