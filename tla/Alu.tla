-------------------------------- MODULE Alu --------------------------------
(***************************************************************************)
(* The arithmetic unit and the branch conditions (rtl/v60_alu.sv,          *)
(* rtl/v60_flags.sv): a result and four flags as a function of two words,  *)
(* a size and the flags.                                                   *)
(*                                                                         *)
(* A vector of bits is the number it stands for without a sign.  The       *)
(* widths are parameters; the code's are 8, 16 and 32 bits, 8 bits of      *)
(* shift count of which it compares the lowest 6 with the width.           *)
(***************************************************************************)
EXTENDS Powers, FiniteSetsExt

CONSTANTS
  Width,       \* bits of an operand of each size
  Half,        \* its sign bit, as a number
  COUNT_BITS,  \* bits of shift_count
  COUNT_LOW    \* bits of shift_count[5:0]

Size == {"SZ_BYTE", "SZ_HALF", "SZ_WORD"}

ASSUME SizeAssumption ==
  /\ Width \in [Size -> Nat \ {0, 1}]
  /\ \A s \in Size : Width[s] <= Width["SZ_WORD"]
  /\ Half \in [Size -> Nat \ {0, 1}]
  /\ COUNT_BITS \in Nat \ {0} /\ COUNT_LOW \in 0 .. COUNT_BITS

\* Half is what its comment says.
ASSUME HalfAssumption == \A s \in Size : Half[s] = Two[Width[s] - 1]

Flags == [z : BOOLEAN, s : BOOLEAN, ov : BOOLEAN, cy : BOOLEAN]

Mod(s)      == 2 * Half[s]
WordBits    == Width["SZ_WORD"]
Sized(x, s) == x % Mod(s)
Msb(x, s)   == x >= Half[s]

\* A sized operand as a signed number, and as the word a_sext or b_sext.
Signed(x, s) == IF Msb(x, s) THEN x - Mod(s) ELSE x
Sext(x, s)   == Signed(x, s) % Mod("SZ_WORD")

Bit(x, i)   == (x \div Two[i]) % 2 = 1
Bits(x)     == {i \in 0 .. WordBits - 1 : Bit(x, i)}

\* The word with the bits S, put together from the highest to the lowest.
FromBits(S) ==
  LET high[n \in Nat] == IF n = 0 THEN 0
                         ELSE 2 * high[n - 1] + (IF WordBits - n \in S THEN 1 ELSE 0)
  IN  high[WordBits]

\* Shifts of a vector of n bits; a count as large as the vector clears it.
Shl(x, k, n) == IF k >= n THEN 0 ELSE (x * Two[k]) % Two[n]
Shr(x, k)    == IF k >= WordBits THEN 0 ELSE x \div Two[k]

Count(a) == LET n == a % Two[COUNT_BITS]
            IN  IF n >= Two[COUNT_BITS - 1] THEN n - Two[COUNT_BITS] ELSE n

Low(n) == n % Two[COUNT_LOW]

Carry(f) == IF f.cy THEN 1 ELSE 0

\* The common part: Z and S of the result.
Outcome(s, r, cy, ov) ==
  [result |-> r, flags |-> [z |-> r = 0, s |-> Msb(r, s), ov |-> ov, cy |-> cy]]

-----------------------------------------------------------------------------
(* Operations on sized operands a and b, with the flags f.                 *)

\* ALU_ADD without a carry, ALU_ADDC with it.
Add(s, a, b, c) ==
  LET r == (b + a + c) % Mod(s)
  IN  Outcome(s, r, b + a + c >= Mod(s),
              (Msb(a, s) <=> Msb(b, s)) /\ ~(Msb(r, s) <=> Msb(a, s)))

\* Faulty variants: the carry of an adder for the borrow; the overflow looks at
\* the sign of the wrong operand.
SubtractNoBorrow(s, a, b, c) ==
  LET r == (b - a - c) % Mod(s)
  IN  Outcome(s, r, b - a - c >= 0,
              ~(Msb(a, s) <=> Msb(b, s)) /\ ~(Msb(r, s) <=> Msb(b, s)))
SubtractSignOfSource(s, a, b, c) ==
  LET r == (b - a - c) % Mod(s)
  IN  Outcome(s, r, b - a - c < 0,
              ~(Msb(a, s) <=> Msb(b, s)) /\ ~(Msb(r, s) <=> Msb(a, s)))

\* ALU_SUB and ALU_CMP without a borrow, ALU_SUBC with it.
Subtract(s, a, b, c) ==
  LET r == (b - a - c) % Mod(s)
  IN  Outcome(s, r, b - a - c < 0,
              ~(Msb(a, s) <=> Msb(b, s)) /\ ~(Msb(r, s) <=> Msb(b, s)))

Negate(s, a) ==
  LET r == (-a) % Mod(s)
  IN  Outcome(s, r, a # 0, Msb(a, s) /\ Msb(r, s))

Increment(s, a) ==
  LET r == (a + 1) % Mod(s)
  IN  Outcome(s, r, a + 1 >= Mod(s), ~Msb(a, s) /\ Msb(r, s) /\ a = Half[s] - 1)

\* Faulty variant: any change of sign is an overflow.
DecrementAnyChange(s, a) ==
  LET r == (a - 1) % Mod(s)
  IN  Outcome(s, r, a = 0, ~(Msb(a, s) <=> Msb(r, s)))

Decrement(s, a) ==
  LET r == (a - 1) % Mod(s)
  IN  Outcome(s, r, a = 0, Msb(a, s) /\ ~Msb(r, s))

\* ALU_AND, ALU_OR, ALU_XOR and ALU_NOT, by the bits of the result.
Logic(s, bits) == Outcome(s, FromBits(bits), FALSE, FALSE)

Multiply(s, x, y, f) ==
  Outcome(s, (x * y) % Mod(s), f.cy, x * y \notin 0 .. Mod(s) - 1)

DivideOverflow(s, a, b) == b = Half[s] /\ a = Mod(s) - 1

\* The quotient and the remainder of ALU_DIV and ALU_REM are masked, and the
\* mask has no sign: the operation takes the sign-extended words as unsigned.
Divide(s, a, b, f) ==
  LET ov == DivideOverflow(s, a, b)
  IN  Outcome(s, IF a # 0 /\ ~ov THEN (Sext(b, s) \div Sext(a, s)) % Mod(s) ELSE b,
              f.cy, ov)

Remainder(s, a, b, f) ==
  Outcome(s, IF a # 0 THEN (Sext(b, s) % Sext(a, s)) % Mod(s) ELSE b, f.cy, FALSE)

DivideUnsigned(s, a, b, f) ==
  Outcome(s, IF a # 0 THEN b \div a ELSE b, f.cy, FALSE)

RemainderUnsigned(s, a, b, f) ==
  Outcome(s, IF a # 0 THEN b % a ELSE b, f.cy, FALSE)

-----------------------------------------------------------------------------
(* Shifts and rotations by a signed count, to the left if it is positive.  *)

ShiftLogical(s, n, b) ==
  LET left == Shl(b, n, IF s = "SZ_WORD" THEN 2 * WordBits ELSE WordBits)
  IN  CASE n > 0 -> Outcome(s, left % Mod(s), Bit(left, Width[s]), FALSE)
        [] n = 0 -> Outcome(s, b, FALSE, FALSE)
        [] n < 0 -> Outcome(s, Shr(b, -n), Bit(Shr(b, -n - 1), 0), FALSE)

\* The distance a left shift leaves: bitsize[4:0] less the count, in 8 bits.
LeftDistance(s, n) == ((Width[s] % WordBits) - Low(n)) % Two[COUNT_BITS]

OvMask(s, n) ==
  IF Low(n) >= Width[s] THEN Two[WordBits] - 1
  ELSE Shl((Shl(1, n, WordBits) - 1) % Two[WordBits], LeftDistance(s, n), WordBits)

\* A bit selected beyond the vector has no defined value: it is the bit u.
Select(x, i, u) == IF i < WordBits THEN Bit(x, i) ELSE u

ShiftArithmetic(s, n, b, u) ==
  LET ovs == Bits(b) \cap Bits(OvMask(s, n))
  IN CASE n = 0 -> Outcome(s, b, FALSE, FALSE)
       [] n > 0 ->
            Outcome(s, IF Low(n) >= Width[s] THEN 0 ELSE Shl(b, n, WordBits) % Mod(s),
                    Select(b, LeftDistance(s, n), u),
                    IF Msb(b, s) THEN ovs # Bits(OvMask(s, n)) ELSE ovs # {})
       [] n < 0 ->
            Outcome(s, IF Low(-n) >= Width[s]
                       THEN IF Msb(b, s) THEN Mod(s) - 1 ELSE 0
                       ELSE (Signed(b, s) \div Two[Min({-n, WordBits})]) % Mod(s),
                    Select(b, -n - 1, u), FALSE)

\* One turn of the loops: the value v, and the carry c that comes in.
Left(s, v, c)  == [val |-> ((2 * v) % Mod(s)) + (IF c THEN 1 ELSE 0), out |-> Msb(v, s)]
Right(s, v, c) == [val |-> (v \div 2) + (IF c THEN Half[s] ELSE 0), out |-> Bit(v, 0)]

\* n turns, of the value alone and of the value with the carry.
Turns(s, n, b, f, carry) ==
  LET turn[i \in Nat] ==
        IF i = 0 THEN [val |-> b, out |-> f.cy]
        ELSE LET t == turn[i - 1]
             IN  IF n > 0 THEN Left(s, t.val, IF carry THEN t.out ELSE Msb(t.val, s))
                 ELSE Right(s, t.val, IF carry THEN t.out ELSE Bit(t.val, 0))
  IN  turn[IF n > 0 THEN n ELSE -n]

Rotate(s, n, b, f) ==
  LET r == Turns(s, n, b, f, FALSE).val
  IN  Outcome(s, r, IF n > 0 THEN Bit(r, 0) ELSE n < 0 /\ Msb(r, s), FALSE)

\* The carry is part of the ring; without a turn it is cleared.
RotateCarry(s, n, b, f) ==
  LET r == Turns(s, n, b, f, TRUE)
  IN  Outcome(s, r.val, n # 0 /\ r.out, FALSE)

\* ALU_SET1, ALU_CLR1, ALU_NOT1 and ALU_TEST1: the bit tested is the carry.
BitOperation(op, a, b, f) ==
  LET i  == a % WordBits
      cy == Bit(b, i)
  IN [result |-> CASE op = "ALU_SET1"  -> FromBits(Bits(b) \cup {i})
                   [] op = "ALU_CLR1"  -> FromBits(Bits(b) \ {i})
                   [] op = "ALU_NOT1"  -> IF cy THEN b - Two[i] ELSE b + Two[i]
                   [] op = "ALU_TEST1" -> b,
      flags |-> [f EXCEPT !.cy = cy, !.z = ~cy]]

\* The bits of the lowest byte in reverse; the bytes of the word in reverse.
ReverseBits(a) ==
  LET n == Width["SZ_BYTE"]
  IN  FromBits({n - 1 - i : i \in {j \in 0 .. n - 1 : Bit(a, j)}})

ReverseBytes(a) ==
  LET n == Width["SZ_BYTE"]
  IN  FromBits({((WordBits - n) - (n * (i \div n))) + (i % n) : i \in Bits(a)})

(***************************************************************************)
(* The unit: what op makes of the operands a and b, where u is the value   *)
(* of a bit no vector has.                                                 *)
(***************************************************************************)
AluOutcome(op, s, aw, bw, f, u) ==
  LET a == Sized(aw, s)
      b == Sized(bw, s)
      n == Count(aw)
  IN CASE op = "ALU_ADD"   -> Add(s, a, b, 0)
       [] op = "ALU_ADDC"  -> Add(s, a, b, Carry(f))
       [] op \in {"ALU_SUB", "ALU_CMP"} -> Subtract(s, a, b, 0)
       [] op = "ALU_SUBC"  -> Subtract(s, a, b, Carry(f))
       [] op = "ALU_AND"   -> Logic(s, Bits(a) \cap Bits(b))
       [] op = "ALU_OR"    -> Logic(s, Bits(a) \cup Bits(b))
       [] op = "ALU_XOR"   -> Logic(s, SymDiff(Bits(a), Bits(b)))
       [] op = "ALU_NOT"   -> Logic(s, Bits(Mod(s) - 1) \ Bits(a))
       [] op = "ALU_NEG"   -> Negate(s, a)
       [] op = "ALU_MOV"   -> Logic(s, Bits(a))
       [] op = "ALU_INC"   -> Increment(s, a)
       [] op = "ALU_DEC"   -> Decrement(s, a)
       [] op = "ALU_MUL"   -> Multiply(s, Signed(a, s), Signed(b, s), f)
       [] op = "ALU_MULU"  -> Multiply(s, a, b, f)
       [] op = "ALU_DIV"   -> Divide(s, a, b, f)
       [] op = "ALU_DIVU"  -> DivideUnsigned(s, a, b, f)
       [] op = "ALU_REM"   -> Remainder(s, a, b, f)
       [] op = "ALU_REMU"  -> RemainderUnsigned(s, a, b, f)
       [] op = "ALU_SHL"   -> ShiftLogical(s, n, b)
       [] op = "ALU_SHA"   -> ShiftArithmetic(s, n, b, u)
       [] op = "ALU_ROT"   -> Rotate(s, n, b, f)
       [] op = "ALU_ROTC"  -> RotateCarry(s, n, b, f)
       [] op \in {"ALU_SET1", "ALU_CLR1", "ALU_NOT1", "ALU_TEST1"} ->
            BitOperation(op, aw, bw, f)
       [] op = "ALU_RVBIT" -> [result |-> ReverseBits(aw), flags |-> f]
       [] op = "ALU_RVBYT" -> [result |-> ReverseBytes(aw), flags |-> f]

\* The branch conditions, in the order of their codes 0 to 15.
Conditions == <<"CC_BV", "CC_BNV", "CC_BL", "CC_BNL", "CC_BE", "CC_BNE", "CC_BNH", "CC_BH",
                "CC_BN", "CC_BP", "CC_BR", "CC_NOP", "CC_BLT", "CC_BGE", "CC_BLE", "CC_BGT">>

CondMet(f, cond) ==
  CASE cond = "CC_BV"  -> f.ov
    [] cond = "CC_BNV" -> ~f.ov
    [] cond = "CC_BL"  -> f.cy
    [] cond = "CC_BNL" -> ~f.cy
    [] cond = "CC_BE"  -> f.z
    [] cond = "CC_BNE" -> ~f.z
    [] cond = "CC_BNH" -> f.cy \/ f.z
    [] cond = "CC_BH"  -> ~f.cy /\ ~f.z
    [] cond = "CC_BN"  -> f.s
    [] cond = "CC_BP"  -> ~f.s
    [] cond = "CC_BR"  -> TRUE
    [] cond = "CC_NOP" -> FALSE
    [] cond = "CC_BLT" -> ~(f.s <=> f.ov)
    [] cond = "CC_BGE" -> (f.s <=> f.ov)
    [] cond = "CC_BLE" -> ~(f.s <=> f.ov) \/ f.z
    [] cond = "CC_BGT" -> (f.s <=> f.ov) /\ ~f.z
=============================================================================
