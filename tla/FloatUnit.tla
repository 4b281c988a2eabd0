------------------------------ MODULE FloatUnit -----------------------------
(***************************************************************************)
(* The floating-point unit (rtl/v60_fpu.sv): from two words and an         *)
(* operation to a result and four flags.                                   *)
(*                                                                         *)
(* A word is a sign, EXP bits of exponent and FRAC bits of fraction; the   *)
(* code has 8 and 23.  A significand has FRAC + 1 bits, and integers are   *)
(* as wide as a word.  The operand b is the destination.                   *)
(***************************************************************************)
EXTENDS Powers

CONSTANTS EXP, FRAC, COUNT  \* bits of an exponent, of a fraction, of the count of SCLF

One     == Two[FRAC]        \* weight of the implicit bit
Top     == Two[EXP + FRAC]    \* weight of the sign
WordMod == 2 * Top
ExpMod  == Two[EXP]
Bias    == Two[EXP - 1] - 1
Word    == 0 .. WordMod - 1

Sign(a) == a >= Top
Exp(a)  == (a \div One) % ExpMod
Frac(a) == a % One
Magnitude(a) == a % Top

Pack(sign, e, f) == (IF sign THEN Top ELSE 0) + One * e + f
Infinity(sign)   == Pack(sign, ExpMod - 1, 0)

\* Place of the highest bit of x > 0, counted from 1.
BitLength(x) == CHOOSE n \in 1 .. 2 * FRAC + EXP + 4 : Two[n - 1] <= x /\ x < Two[n]

\* x without its lowest n bits, rounded to even: the highest of them and the rest.
RoundUp(x, n) ==
  LET half == Two[n - 1]
  IN  (x \div half) % 2 = 1 /\ (x % half # 0 \/ (x \div Two[n]) % 2 = 1)

-----------------------------------------------------------------------------
(* ADDF, SUBF and CMPF.                                                    *)

Significand(a) == IF Exp(a) # 0 THEN One + Frac(a) ELSE Frac(a)

\* A faulty variant: equal exponents are not told apart by their fractions.
SwapByExponent(a, b) == Exp(b) > Exp(a)

Swap(a, b) == Exp(b) > Exp(a) \/ (Exp(b) = Exp(a) /\ Significand(b) > Significand(a))

\* The smaller operand, aligned: what is shifted out is lost.
Aligned(x, diff) == IF diff > FRAC + 1 THEN 0 ELSE x \div Two[diff]

\* A faulty variant: a difference is shifted up one place too few.
NormalizedShort(sign, e, sum) ==
  LET n == FRAC + 2 - BitLength(sum)
      f == IF n = 0 THEN sum \div 2 ELSE (sum * Two[n - 1]) % One
      x == IF n > e THEN 0 ELSE IF n > 2 THEN e + 2 - n ELSE (e + 1 - n) % ExpMod
  IN  IF x = 0 THEN 0 ELSE Pack(sign, x, f % One)

\* A sum that is not zero, as a float: n is how far its highest bit is below the carry.
Normalized(sign, e, sum) ==
  LET n == FRAC + 2 - BitLength(sum)
      f == IF n = 0 THEN (sum \div 2) + (IF sum % 2 = 1 /\ (sum \div 2) % 2 = 1 THEN 1 ELSE 0)
           ELSE (sum * Two[n - 1]) % One
      x == IF n > 1 /\ n > e THEN 0 ELSE (e + 1 - n) % ExpMod
  IN  IF x = 0 THEN 0 ELSE Pack(sign, x, f % One)

\* b + a, or (sub) b - a.
AddSub(a, b, sub) ==
  LET sign_a == Sign(a) # sub
      swap   == Swap(a, b)
      big    == IF swap THEN b ELSE a
      small  == IF swap THEN a ELSE b
      s      == Aligned(Significand(small), (Exp(big) - Exp(small)) % ExpMod)
      sum    == (IF sign_a # Sign(b) THEN Significand(big) - s ELSE Significand(big) + s)
                % (4 * One)
  IN  IF sum = 0 \/ (Magnitude(a) = 0 /\ Magnitude(b) = 0) THEN 0
      ELSE Normalized(IF swap THEN Sign(b) ELSE sign_a, Exp(big), sum)

-----------------------------------------------------------------------------
(* MULF and DIVF.                                                          *)

\* A result with the exponent e, which is one bit wider than the field: what has its
\* highest bit is taken for an underflow.
Limited(sign, e, f) ==
  IF e = 0 \/ e >= ExpMod THEN 0
  ELSE IF e = ExpMod - 1 THEN Infinity(sign) ELSE Pack(sign, e, f)

Multiply(a, b) ==
  LET product == (One + Frac(a)) * (One + Frac(b))
      drop    == IF product >= 2 * One * One THEN FRAC + 1 ELSE FRAC
      f       == (product \div Two[drop]) + (IF RoundUp(product, drop) THEN 1 ELSE 0)
  IN  IF Magnitude(a) = 0 \/ Magnitude(b) = 0 THEN 0
      ELSE Limited(Sign(a) # Sign(b), (Exp(a) + Exp(b) - Bias + drop - FRAC) % (2 * ExpMod),
                   f % One)

\* A faulty variant: a quotient below one keeps its exponent.
DivideUnnormalized(a, b) ==
  LET q == ((One + Frac(b)) * 2 * One) \div (One + Frac(a))
      e == (Exp(b) - Exp(a) + Bias) % (2 * ExpMod)
  IN  IF Magnitude(b) = 0 THEN 0
      ELSE IF Magnitude(a) = 0 THEN Infinity(Sign(a) # Sign(b))
      ELSE Limited(Sign(a) # Sign(b), e, (IF q >= 2 * One THEN q \div 2 ELSE q) % One)

\* A quotient below one has no bit left to round with. (It is less than two: the
\* branch for a quotient with one bit more, lines 391-395, is never taken.)
Divide(a, b) ==
  LET q     == ((One + Frac(b)) * 2 * One) \div (One + Frac(a))
      e     == (Exp(b) - Exp(a) + Bias) % (2 * ExpMod)
      whole == q >= 2 * One
      up    == q % 2 = 1 /\ (q \div 2) % 2 = 1
  IN  IF Magnitude(b) = 0 THEN 0
      ELSE IF Magnitude(a) = 0 THEN Infinity(Sign(a) # Sign(b))
      ELSE IF whole THEN Limited(Sign(a) # Sign(b), e, ((q \div 2) + (IF up THEN 1 ELSE 0)) % One)
      ELSE Limited(Sign(a) # Sign(b), IF e > 0 THEN e - 1 ELSE e, q % One)

-----------------------------------------------------------------------------
(* SCLF and the conversions.                                               *)

ScaleCount(a) ==
  LET c == a % Two[COUNT] IN IF c >= Two[COUNT - 1] THEN c - Two[COUNT] ELSE c

Scale(a, b) ==
  LET e == Exp(b) + ScaleCount(a)
  IN  IF Magnitude(b) = 0 \/ e <= 0 THEN 0
      ELSE IF e >= ExpMod - 1 THEN Infinity(Sign(b)) ELSE Pack(Sign(b), e, Frac(b))

\* CVT.WS: the word as a float, rounded to even.
FromWord(a) ==
  LET x    == IF Sign(a) THEN WordMod - a ELSE a
      norm == x * Two[EXP + FRAC + 1 - BitLength(x)]
      f    == ((norm \div Two[EXP]) % One) + (IF RoundUp(norm, EXP) THEN 1 ELSE 0)
      e    == Bias + BitLength(x) - 1
  IN  IF a = 0 THEN 0
      ELSE IF f = One THEN Pack(Sign(a), e + 1, 0) ELSE Pack(Sign(a), e, f)

\* CVT.SW: the integer part of the magnitude, with the bit below it and whether any bit
\* further down is set; too large a float is the largest word.
Parts(a) ==
  LET e     == Exp(a) - Bias
      x     == One + Frac(a)
      right == FRAC - e
  IN  IF e < 0 THEN [int |-> 0, round |-> Magnitude(a) # 0 /\ e = -1,
                     sticky |-> IF e = -1 THEN Frac(a) # 0 ELSE Exp(a) > 0]
      ELSE IF e >= EXP + FRAC THEN [int |-> Top - 1, round |-> FALSE, sticky |-> FALSE]
      ELSE IF right <= 0 THEN [int |-> x * Two[-right], round |-> FALSE, sticky |-> FALSE]
      ELSE [int |-> x \div Two[right], round |-> (x \div Two[right - 1]) % 2 = 1,
            sticky |-> x % Two[right - 1] # 0]

ToWord(a, rounding) ==
  LET p  == Parts(a)
      up == CASE rounding = 0 -> p.round /\ (p.sticky \/ p.int % 2 = 1)
              [] rounding = 1 -> Sign(a) /\ (p.round \/ p.sticky)
              [] rounding = 2 -> ~Sign(a) /\ (p.round \/ p.sticky)
              [] OTHER        -> FALSE
      r  == p.int + (IF up THEN 1 ELSE 0)
  IN  IF Sign(a) THEN (-r) % WordMod ELSE r

-----------------------------------------------------------------------------
(* The outputs.                                                            *)

FpFlags(z, s, ov, cy) == [z |-> z, s |-> s, ov |-> ov, cy |-> cy]
FpResult(r) == [result |-> r, flags |-> FpFlags(r = 0, Sign(r), FALSE, FALSE)]

FpuOutcome(op, a, b, rounding) ==
  CASE op = "FP_CMPF"  -> [FpResult(AddSub(a, b, TRUE)) EXCEPT !.result = 0]
    [] op = "FP_MOVF"  -> [result |-> a, flags |-> FpFlags(FALSE, FALSE, FALSE, FALSE)]
    [] op = "FP_NEGF"  -> [result |-> (a + Top) % WordMod,
                           flags |-> FpFlags(Magnitude(a) = 0, ~Sign(a), FALSE, ~Sign(a))]
    [] op = "FP_ABSF"  -> [result |-> Magnitude(a),
                           flags |-> FpFlags(Magnitude(a) = 0, FALSE, FALSE, FALSE)]
    [] op = "FP_SCLF"  -> FpResult(Scale(a, b))
    [] op = "FP_ADDF"  -> FpResult(AddSub(a, b, FALSE))
    [] op = "FP_SUBF"  -> FpResult(AddSub(a, b, TRUE))
    [] op = "FP_MULF"  -> FpResult(Multiply(a, b))
    [] op = "FP_DIVF"  -> FpResult(Divide(a, b))
    [] op = "FP_CVTWS" -> LET o == FpResult(FromWord(a)) IN [o EXCEPT !.flags.cy = o.flags.s]
    [] op = "FP_CVTSW" ->
         LET o == FpResult(ToWord(a, rounding))
         IN  [o EXCEPT !.flags.ov = (o.flags.s /\ ~Sign(a)) \/ (~o.flags.s /\ Sign(a) /\ ~o.flags.z)]
=============================================================================
