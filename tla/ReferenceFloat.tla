--------------------------- MODULE ReferenceFloat ---------------------------
(***************************************************************************)
(* What the library of the simulation says a floating-point operation      *)
(* leaves (sim/v60_fp.cpp, v60_fp_exec; the same formulas are in           *)
(* mame/src/op2.hxx): the arithmetic of the C type float.                  *)
(*                                                                         *)
(* The value of a float is a whole number of units, the least denormal     *)
(* number; a result is the float nearest to the true value, and the even   *)
(* one of two.                                                             *)
(***************************************************************************)
EXTENDS FloatUnit

Place(a) == IF Exp(a) = 0 THEN 0 ELSE Exp(a) - 1
Units(a) == Significand(a) * Two[Place(a)]
Value(a) == IF Sign(a) THEN -Units(a) ELSE Units(a)

UnitPlace   == Bias - 1 + FRAC  \* 1.0 is 2 ^ UnitPlace units
LeastNormal == One
Largest     == Infinity(FALSE) - 1

Absolute(x) == IF x < 0 THEN -x ELSE x

\* The float nearest to n / d units: its place is the least at which n / d has no more bits
\* than a significand, and the pattern is counted on from there.
Nearest(neg, n, d) ==
  LET place == CHOOSE k \in 0 .. 2 * ExpMod :
                 LET least == One * d * Two[k]
                 IN  n < 2 * least /\ (k = 0 \/ n >= least)
      gap   == d * Two[place]
      m     == n \div gap
      over  == 2 * (n % gap)
      p     == place * One + m + (IF over > gap \/ (over = gap /\ m % 2 = 1) THEN 1 ELSE 0)
  IN  (IF neg THEN Top ELSE 0) + (IF p > Largest THEN Infinity(FALSE) ELSE p)

\* The float nearest to (n / d) * 2 ^ e units.
NearestScaled(neg, n, d, e) ==
  IF e >= 0 THEN Nearest(neg, n * Two[e], d) ELSE Nearest(neg, n, d * Two[-e])

Opposite(a) == (a + Top) % WordMod

\* A sum is -0 only when both operands are.
Sum(a, b) ==
  LET v == Value(b) + Value(a)
  IN  Nearest(v < 0 \/ (v = 0 /\ Sign(a) /\ Sign(b)), Absolute(v), 1)

Product(a, b) ==
  NearestScaled(Sign(a) # Sign(b), Significand(a) * Significand(b), 1,
                Place(a) + Place(b) - UnitPlace)

\* The quotient by what is not zero.
Ratio(a, b) ==
  NearestScaled(Sign(a) # Sign(b), Significand(b), Significand(a),
                Place(b) - Place(a) + UnitPlace)

Scaled(a, b) == NearestScaled(Sign(b), Significand(b), 1, Place(b) + ScaleCount(a))

SignedWord(a) == IF Sign(a) THEN a - WordMod ELSE a

\* roundf rounds a tie away from zero; then floorf, ceilf and truncf.
Rounded(a, rounding) ==
  LET one  == Two[UnitPlace]
      u    == Units(a)
      down == u \div one
      up   == IF u % one = 0 THEN down ELSE down + 1
      m    == CASE rounding = 0 -> (2 * u + one) \div (2 * one)
                [] rounding = 1 -> IF Sign(a) THEN up ELSE down
                [] rounding = 2 -> IF Sign(a) THEN down ELSE up
                [] OTHER        -> down
  IN  IF Sign(a) THEN -m ELSE m

\* A result whose flags are those of its word.
ByWord(r) == [result |-> r, flags |-> FpFlags(r = 0, Sign(r), FALSE, FALSE)]

RefFloat(op, a, b, rounding) ==
  CASE op = "FP_CMPF"  -> LET v == Value(b) - Value(a)
                          IN  [result |-> 0, flags |-> FpFlags(v = 0, v < 0, FALSE, FALSE)]
    [] op = "FP_MOVF"  -> [result |-> a, flags |-> FpFlags(FALSE, FALSE, FALSE, FALSE)]
    [] op = "FP_NEGF"  -> LET r == Opposite(a)
                          IN  [result |-> r,
                               flags  |-> FpFlags(Units(a) = 0, Sign(r), FALSE, Value(r) < 0)]
    [] op = "FP_ABSF"  -> LET r == IF Value(a) < 0 THEN Opposite(a) ELSE a
                          IN  [result |-> r, flags |-> FpFlags(Units(a) = 0, Sign(r), FALSE, FALSE)]
    [] op = "FP_SCLF"  -> ByWord(Scaled(a, b))
    [] op = "FP_ADDF"  -> ByWord(Sum(a, b))
    [] op = "FP_SUBF"  -> ByWord(Sum(Opposite(a), b))
    [] op = "FP_MULF"  -> ByWord(Product(a, b))
    [] op = "FP_DIVF"  -> ByWord(Ratio(a, b))
    [] op = "FP_CVTWS" ->
         LET v == SignedWord(a)
             r == Nearest(v < 0, Absolute(v) * Two[UnitPlace], 1)
         IN  [result |-> r, flags |-> FpFlags(v = 0, Sign(r), FALSE, v < 0)]
    [] op = "FP_CVTSW" ->
         LET v == Rounded(a, rounding)
             r == v % WordMod
         IN  [result |-> r,
              flags  |-> FpFlags(r = 0, Sign(r), (Sign(r) /\ v >= 0) \/ (~Sign(r) /\ v < 0), FALSE)]

\* Zero or normal.
Ordinary(a)  == Magnitude(a) = 0 \/ Exp(a) \in 1 .. ExpMod - 2

\* Whole numbers, and those half way between two of which the smaller is even.
IsInteger(a) == Ordinary(a) /\ Units(a) % Two[UnitPlace] = 0
Integer(a)   == IF Sign(a) THEN -(Units(a) \div Two[UnitPlace]) ELSE Units(a) \div Two[UnitPlace]
EvenTie(a)   == Units(a) % Two[UnitPlace + 1] = Two[UnitPlace - 1]

\* The smaller operand of a sum has bits below the last place of the larger one.
Drops(a, b) ==
  LET big   == IF Exp(b) > Exp(a) THEN b ELSE a
      small == IF Exp(b) > Exp(a) THEN a ELSE b
  IN  Significand(small) % Two[Exp(big) - Exp(small)] # 0

\* The product of the significands is less than two and is rounded up to two.
Wraps(a, b) ==
  LET product == Significand(a) * Significand(b)
  IN  product < 2 * One * One /\ product \div One = 2 * One - 1 /\ 2 * (product % One) >= One

NotANumber(a) == Magnitude(a) > Infinity(FALSE)
Number(a)     == Magnitude(a) < Infinity(FALSE)

\* What is compared: operations on numbers, nothing divided by zero, and a scale 1 << count
\* that is an int.
RefFloatDefined(op, a, b) ==
  /\ op \in {"FP_CMPF", "FP_ADDF", "FP_SUBF", "FP_MULF", "FP_DIVF"} =>
       Number(a) /\ Number(b)
  /\ op = "FP_DIVF" => Magnitude(a) # 0
  /\ op = "FP_SCLF" => Absolute(ScaleCount(a)) < EXP + FRAC /\ Number(b)
  /\ op \in {"FP_NEGF", "FP_ABSF"} => ~NotANumber(a)
  /\ op = "FP_CVTSW" => Number(a)
=============================================================================
