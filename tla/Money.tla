------------------------------- MODULE Money -------------------------------
(***************************************************************************)
(* Decimal numbers and amounts in cents (money/decimal.ts).  A canonical   *)
(* decimal numeral stands for its coefficient and its scale: "10.50" is    *)
(* [coefficient |-> 1050, scale |-> 2].  BigInt does not overflow, so the  *)
(* integers need no width.                                                 *)
(***************************************************************************)
EXTENDS Integers

Decimal == [coefficient : Int, scale : Nat]

Dec(coefficient, scale) == [coefficient |-> coefficient, scale |-> scale]

PowerOfTen[exponent \in Nat] == IF exponent = 0 THEN 1 ELSE 10 * PowerOfTen[exponent - 1]

Abs(n) == IF n < 0 THEN -n ELSE n

\* Integer division that rounds to the nearest, a tie away from zero.
RoundedQuotient(n, divisor) ==
  LET rounded == (Abs(n) + divisor \div 2) \div divisor
  IN  IF n < 0 THEN -rounded ELSE rounded

RoundHalfAwayFromZeroToScale(value, targetScale) ==
  IF value.scale <= targetScale
  THEN value.coefficient * PowerOfTen[targetScale - value.scale]
  ELSE RoundedQuotient(value.coefficient, PowerOfTen[value.scale - targetScale])

\* Only amounts with at most two places have cents: others are refused.
HasMinorUnits(value) == value.scale <= 2
ToMinorUnits(value) == RoundHalfAwayFromZeroToScale(value, 2)

ProductInMinorUnits(left, right) ==
  RoundHalfAwayFromZeroToScale(
    Dec(left.coefficient * right.coefficient, left.scale + right.scale), 2)

PercentageOfInMinorUnits(base, rate) ==
  RoundHalfAwayFromZeroToScale(
    Dec(base.coefficient * rate.coefficient, base.scale + rate.scale + 2), 2)

\* A bug: the written form as the key, so that 19 and 19.0 are two rates.
WrittenKey(value) == <<value.coefficient, value.scale>>

\* The same number has one key, however many zeros it was written with.
CanonicalDecimalKey(value) ==
  IF value.coefficient = 0
  THEN <<0, 0>>
  ELSE LET zeros == CHOOSE z \in 0 .. value.scale :
                      /\ value.coefficient % PowerOfTen[z] = 0
                      /\ \A more \in (z + 1) .. value.scale :
                           value.coefficient % PowerOfTen[more] # 0
       IN  <<value.coefficient \div PowerOfTen[zeros], value.scale - zeros>>

=============================================================================
