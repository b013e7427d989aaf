------------------------------- MODULE Amounts -------------------------------
(***************************************************************************)
(* human_to_base and base_to_human.  A decimal string is a sequence of its *)
(* characters: digits are numbers of base ten, the rest are "." and the    *)
(* ones a plain decimal has not: "-", "e", " " and "x".  They are negative *)
(* numbers here, so that all characters compare.                           *)
(***************************************************************************)
EXTENDS Integers, SequencesExt

Dot      == -1
Minus    == -2
Exponent == -3
Space    == -4
Letter   == -5

InvalidAmountError == <<Letter>>

Strip(s) ==
  LET kept == {i \in DOMAIN s : s[i] # Space}
  IN IF kept = {} THEN <<>>
     ELSE SubSeq(s, CHOOSE i \in kept : \A j \in kept : i <= j, CHOOSE i \in kept : \A j \in kept : j <= i)

Has(s, c)     == \E i \in DOMAIN s : s[i] = c
AllDigits(s)  == s # <<>> /\ \A i \in DOMAIN s : s[i] \in 0..9
Zeros(n)      == [i \in 1..n |-> 0]
NumberOf(s)   == FoldLeft(LAMBDA n, d : 10 * n + d, 0, s)

(* The digits before the first dot, and those behind it.                   *)
DotAt(s)    == CHOOSE i \in DOMAIN s : s[i] = Dot /\ \A j \in 1..(i - 1) : s[j] # Dot
IntPart(s)  == IF ~Has(s, Dot) THEN s
               ELSE IF DotAt(s) = 1 THEN <<0>> ELSE SubSeq(s, 1, DotAt(s) - 1)
FracPart(s) == IF ~Has(s, Dot) THEN <<>> ELSE SubSeq(s, DotAt(s) + 1, Len(s))

IsPlainDecimal(s) ==
  /\ s # <<>> /\ ~Has(s, Exponent) /\ s[1] # Minus
  /\ AllDigits(IntPart(s))
  /\ Has(s, Dot) => AllDigits(FracPart(s))

(* Mutation: a short fraction is not filled up.                            *)
CutOnly(frac, decimals) == SubSeq(frac, 1, IF Len(frac) > decimals THEN decimals ELSE Len(frac))

(* The fraction in base units: cut, or filled up with zeros.               *)
Scaled(frac, decimals) ==
  IF Len(frac) > decimals THEN SubSeq(frac, 1, decimals) ELSE frac \o Zeros(decimals - Len(frac))

HumanToBase(human, decimals) ==
  LET s == Strip(human) IN
  IF decimals < 0 \/ ~IsPlainDecimal(s) THEN InvalidAmountError
  ELSE <<NumberOf(IntPart(s) \o Scaled(FracPart(s), decimals))>>

RECURSIVE DigitsOf(_)
DigitsOf(n) == IF n < 10 THEN <<n>> ELSE Append(DigitsOf(n \div 10), n % 10)

RECURSIVE TrimZeros(_)
TrimZeros(s) == IF s = <<>> \/ Last(s) # 0 THEN s ELSE TrimZeros(Front(s))

(* The sign is dropped.                                                    *)
BaseToHuman(base, decimals) ==
  LET d      == IF decimals < 0 THEN 0 ELSE decimals
      digits == DigitsOf(IF base < 0 THEN -base ELSE base)
      filled == IF d > 0 /\ Len(digits) <= d THEN Zeros(d - Len(digits) + 1) \o digits ELSE digits
      cut    == Len(filled) - d
      frac   == TrimZeros(SubSeq(filled, cut + 1, Len(filled)))
  IN SubSeq(filled, 1, cut) \o (IF frac = <<>> THEN <<>> ELSE <<Dot>> \o frac)

-----------------------------------------------------------------------------
(* An accepted string is worth, to the last base unit, what it says, and   *)
(* only a plain decimal is accepted.  As a fraction: all of its digits     *)
(* over the power of ten that its places behind the dot make.              *)
Places(s) == IF Has(s, Dot) THEN Len(s) - DotAt(s) ELSE 0
Worth(s, decimals) ==
  (NumberOf(SelectSeq(s, LAMBDA c : c # Dot)) * 10^decimals) \div 10^Places(s)

Plain10(s) ==
  /\ \A i \in DOMAIN s : s[i] \in 0..9 \cup {Dot}
  /\ Cardinality({i \in DOMAIN s : s[i] = Dot}) <= 1
  /\ s # <<>> /\ Last(s) # Dot

Exact(human, decimals, result) ==
  IF decimals >= 0 /\ Plain10(Strip(human))
  THEN result = <<Worth(Strip(human), decimals)>>
  ELSE result = InvalidAmountError

(* A base amount printed is read back as itself, in its shortest form.     *)
(* Not a negative one: human_to_base takes no negative amount, and         *)
(* base_to_human prints what is read back as the opposite.                 *)
ReadBack(base, decimals, human) ==
  base >= 0 =>
  /\ HumanToBase(human, IF decimals < 0 THEN 0 ELSE decimals) = <<base>>
  /\ Has(human, Dot) => Last(human) # 0
  /\ Len(human) > 1 /\ human[1] = 0 => human[2] = Dot
=============================================================================
