---------------------------- MODULE ReferenceAlu ----------------------------
(***************************************************************************)
(* What the emulator the core is compared with makes of an instruction     *)
(* (mame/src/op12.hxx, op3.hxx, op4.hxx, and the macros of v60.cpp): the   *)
(* destination register and the flags, from the same operand, register and *)
(* flags.  The routines exist three times, for 8, 16 and 32 bits.          *)
(***************************************************************************)
EXTENDS Alu

Sign(x, s) == Bit(x, Width[s] - 1)

\* SetSZPF, then the flags given.
Result(s, res, cy, ov) ==
  [val |-> res % Mod(s),
   flags |-> [z |-> res % Mod(s) = 0, s |-> Sign(res, s), ov |-> ov, cy |-> cy]]

\* ADDB, ADDW, ADDL and SUBB, SUBW, SUBL: the carry is the bit above the result.
RefAdd(s, dst, src) ==
  LET res == dst + src
  IN  Result(s, res, Bit(res, Width[s]),
             Sign(res, s) # Sign(src, s) /\ Sign(res, s) # Sign(dst, s))

RefSub(s, dst, src) ==
  LET res == dst - src
  IN  Result(s, res, Bit(res, Width[s]),
             Sign(dst, s) # Sign(src, s) /\ Sign(dst, s) # Sign(res, s))

\* The operand with the carry added is of the operand's size.
WithCarry(s, src, f) == (src + Carry(f)) % Mod(s)

\* 0 - op1, with its own carry.
RefNeg(s, src) ==
  LET o == RefSub(s, 0, src)
  IN  [o EXCEPT !.flags.cy = o.val # 0]

\* AND, OR, XOR, NOT: the carry stays.
RefLogic(s, bits, f) == Result(s, FromBits(bits), f.cy, FALSE)

\* The product is shifted down to see what was lost, without its sign.
RefMul(s, x, y, f) == Result(s, x * y, f.cy, (x * y) \div Mod(s) # 0)

\* The quotient of C is rounded towards zero; the remainder goes with it.
Abs(x) == IF x < 0 THEN -x ELSE x
Quotient(x, y) ==
  IF (x < 0) = (y < 0) THEN Abs(x) \div Abs(y) ELSE -(Abs(x) \div Abs(y))

RefDiv(s, dst, src, f) ==
  LET ov == dst = Half[s] /\ src = Mod(s) - 1
  IN  Result(s, IF src # 0 /\ ~ov THEN Quotient(Signed(dst, s), Signed(src, s)) ELSE dst,
             f.cy, ov)

RefRem(s, dst, src, f) ==
  LET x == Signed(dst, s)
      y == Signed(src, s)
  IN  Result(s, IF src # 0 THEN x - y * Quotient(x, y) ELSE dst, f.cy, FALSE)

RefDivU(s, dst, src, f) == Result(s, IF src # 0 THEN dst \div src ELSE dst, f.cy, FALSE)
RefRemU(s, dst, src, f) == Result(s, IF src # 0 THEN dst % src ELSE dst, f.cy, FALSE)

-----------------------------------------------------------------------------
(* Shifts and rotations.                                                   *)

RefShl(s, n, x) ==
  IF n > 0      THEN Result(s, x * Two[n], Bit(x * Two[n], Width[s]), FALSE)
  ELSE IF n = 0 THEN Result(s, x, FALSE, FALSE)
  ELSE Result(s, x \div Two[-n], Bit(x, -n - 1), FALSE)

\* SHIFTLEFT_OV: the sign changes during the shift unless the n highest bits agree.
RefSha(s, n, x) ==
  LET top == x \div Two[Width[s] - n]
  IN IF n > 0 THEN Result(s, IF n >= Width[s] THEN 0 ELSE x * Two[n], Bit(x, Width[s] - n),
                          IF Sign(x, s) THEN top # Two[n] - 1 ELSE top # 0)
     ELSE IF n = 0 THEN Result(s, x, FALSE, FALSE)
     ELSE Result(s, IF -n >= Width[s] THEN (IF Sign(x, s) THEN Mod(s) - 1 ELSE 0)
                    ELSE Signed(x, s) \div Two[-n], Bit(x, -n - 1), FALSE)

\* n turns of a ring of w bits to the left.
Ring(x, n, w) ==
  LET k == n % w
  IN  ((x * Two[k]) % Two[w]) + (x \div Two[w - k])

RefRot(s, n, x) ==
  LET r == Ring(x, n, Width[s])
  IN  Result(s, r, IF n > 0 THEN Bit(r, 0) ELSE n < 0 /\ Sign(r, s), FALSE)

\* The carry is the highest bit of the ring.
RefRotc(s, n, x, f) ==
  LET ring == Ring(x + Mod(s) * Carry(f), n, Width[s] + 1)
  IN  Result(s, ring % Mod(s), n # 0 /\ Bit(ring, Width[s]), FALSE)

\* SET1, CLR1, NOT1 and TEST1.
RefBit(op, i, x, f) ==
  LET cy == Bit(x, i)
  IN [val |-> CASE op = "ALU_SET1"  -> IF cy THEN x ELSE x + Two[i]
                [] op = "ALU_CLR1"  -> IF cy THEN x - Two[i] ELSE x
                [] op = "ALU_NOT1"  -> IF cy THEN x - Two[i] ELSE x + Two[i]
                [] op = "ALU_TEST1" -> x,
      flags |-> [f EXCEPT !.cy = cy, !.z = ~cy]]

\* bitswap and swapendian_int32: what was the n-th from below is the n-th from above.
SwapBits(x)  == CHOOSE y \in 0 .. Mod("SZ_BYTE") - 1 :
                  \A n \in 0 .. Width["SZ_BYTE"] - 1 : Bit(y, n) = Bit(x, Width["SZ_BYTE"] - 1 - n)
Byte(x, n)   == (x \div Two[n * Width["SZ_BYTE"]]) % Mod("SZ_BYTE")
SwapBytes(x) == CHOOSE y \in 0 .. Mod("SZ_WORD") - 1 : \A n \in 0 .. 3 : Byte(y, n) = Byte(x, 3 - n)

-----------------------------------------------------------------------------
(* A routine on the value src of its operand, the destination register old *)
(* and the flags f, for an instruction i of AluProgram.                    *)

RefAlu(op, s, src, dst, n, f) ==
  CASE op = "ALU_ADD"  -> RefAdd(s, dst, src)
    [] op = "ALU_ADDC" -> RefAdd(s, dst, WithCarry(s, src, f))
    [] op \in {"ALU_SUB", "ALU_CMP"} -> RefSub(s, dst, src)
    [] op = "ALU_SUBC" -> RefSub(s, dst, WithCarry(s, src, f))
    [] op = "ALU_AND"  -> RefLogic(s, Bits(dst) \cap Bits(src), f)
    [] op = "ALU_OR"   -> RefLogic(s, Bits(dst) \cup Bits(src), f)
    [] op = "ALU_XOR"  -> RefLogic(s, SymDiff(Bits(dst), Bits(src)), f)
    [] op = "ALU_NOT"  -> Result(s, -src - 1, f.cy, FALSE)
    [] op = "ALU_NEG"  -> RefNeg(s, src)
    [] op = "ALU_INC"  -> RefAdd(s, dst, 1)
    [] op = "ALU_DEC"  -> RefSub(s, dst, 1)
    [] op = "SYS_TASI" -> RefSub(s, dst, Mod(s) - 1)
    [] op = "ALU_MUL"  -> RefMul(s, Signed(dst, s), Signed(src, s), f)
    [] op = "ALU_MULU" -> RefMul(s, dst, src, f)
    [] op = "ALU_DIV"  -> RefDiv(s, dst, src, f)
    [] op = "ALU_DIVU" -> RefDivU(s, dst, src, f)
    [] op = "ALU_REM"  -> RefRem(s, dst, src, f)
    [] op = "ALU_REMU" -> RefRemU(s, dst, src, f)
    [] op = "ALU_SHL"  -> RefShl(s, n, dst)
    [] op = "ALU_SHA"  -> RefSha(s, n, dst)
    [] op = "ALU_ROT"  -> RefRot(s, n, dst)
    [] op = "ALU_ROTC" -> RefRotc(s, n, dst, f)
    [] op \in {"ALU_SET1", "ALU_CLR1", "ALU_NOT1", "ALU_TEST1"} -> RefBit(op, src, dst, f)
    [] op = "ALU_MOV"   -> [val |-> src, flags |-> f]
    [] op = "ALU_RVBIT" -> [val |-> SwapBits(src), flags |-> f]
    [] op = "ALU_RVBYT" -> [val |-> SwapBytes(src), flags |-> f]

\* MOVT: the bits above the result are to match its sign.
RefMovt(from, to, src, f) ==
  LET val == src % Mod(to)
  IN  [val |-> val, flags |-> [f EXCEPT !.ov = Signed(src, from) # Signed(val, to)]]

\* The cases of opSETF: each odd one is the contrary of the one before it.
RefCond(n, f) ==
  LET even == CASE n \div 2 = 0 -> f.ov
                [] n \div 2 = 1 -> f.cy
                [] n \div 2 = 2 -> f.z
                [] n \div 2 = 3 -> f.cy \/ f.z
                [] n \div 2 = 4 -> f.s
                [] n \div 2 = 5 -> TRUE
                [] n \div 2 = 6 -> f.s # f.ov
                [] n \div 2 = 7 -> (f.s # f.ov) \/ f.z
  IN  even = (n % 2 = 0)

\* The condition codes as the lowest bits of the PSW.
FlagBits(f) == {i \in 0 .. 3 : <<f.z, f.s, f.ov, f.cy>>[i + 1]}
FlagsOf(B)  == [z |-> 0 \in B, s |-> 1 \in B, ov |-> 2 \in B, cy |-> 3 \in B]

RefOutcome(i, old, f) ==
  LET src == Sized(i.src, i.size)
      dst == Sized(old, i.size)
  IN CASE i.op \in {"SYS_MOVSB", "SYS_MOVSH"} ->
            [val |-> Signed(src, i.size) % Mod(i.dst), flags |-> f]
       [] i.op \in {"SYS_MOVZB", "SYS_MOVZH"} -> [val |-> src, flags |-> f]
       [] i.op = "SYS_MOVT" -> RefMovt(i.size, i.dst, src, f)
       [] i.op = "SYS_SETF" -> [val |-> IF RefCond(i.src % 16, f) THEN 1 ELSE 0, flags |-> f]
       [] i.op = "SYS_UPDPSW" ->
            [val |-> old, flags |-> FlagsOf((FlagBits(f) \ Bits(old)) \cup (Bits(i.src) \cap Bits(old)))]
       [] i.op = "SYS_TASI" ->
            [RefAlu(i.op, i.size, src, dst, 0, f) EXCEPT !.val = Mod(i.size) - 1]
       [] OTHER -> RefAlu(i.op, i.size, src, dst, Count(i.src), f)

\* SETREG8 and SETREG16 keep the rest of the register; CMP, TEST1 and UPDPSW have
\* no destination.
RefExecute(i, old, f) ==
  LET o == RefOutcome(i, old, f)
  IN [reg   |-> IF i.op \in {"ALU_CMP", "ALU_TEST1", "SYS_UPDPSW"} THEN old
                ELSE (old - (old % Mod(i.dst))) + o.val,
      flags |-> o.flags]

\* The counts and indices for which the routines are defined: a shift of C by
\* more than the vector, or by less than nothing, is not.
RefDefined(i) ==
  LET n == Count(i.src)
  IN CASE i.op = "ALU_SHL" -> n \in 1 - WordBits .. WordBits - 1
       [] i.op = "ALU_SHA" -> n \in -WordBits .. Width[i.size]
       [] i.op \in {"ALU_SET1", "ALU_CLR1", "ALU_NOT1", "ALU_TEST1"} ->
            Sized(i.src, i.size) < WordBits
       [] OTHER -> TRUE
=============================================================================
