----------------------------- MODULE AluProgram -----------------------------
(***************************************************************************)
(* A program of arithmetic instructions on registers: what ST_EXECUTE      *)
(* (rtl/v60_control.sv) has the arithmetic unit and the floating-point     *)
(* unit compute, what it writes to the destination register                *)
(* (rtl/v60_regfile.sv) and to the condition codes, and which branch it    *)
(* takes on them.                                                          *)
(*                                                                         *)
(* An instruction is its operation, its two sizes, the value of its source *)
(* operand and whether its destination is the stack pointer.  The          *)
(* destination register holds any of Contents; the flags are carried from  *)
(* one instruction to the next.                                            *)
(*                                                                         *)
(* chain is a history variable: the sum or difference of two numbers of    *)
(* any length that the program is computing, digit by digit, through the   *)
(* carry.                                                                  *)
(***************************************************************************)
EXTENDS ReferenceAlu

CONSTANTS
  Instructions,  \* the instructions executed outside a chain
  Follow,        \* those executed while a chain is going
  Contents,      \* what the destination register of one may hold, by its size
  MaxDigits,     \* bound: digits of a chain
  EXP, FRAC      \* bits of the exponent and of the fraction of a float

\* The count of SCLF is a half word.
Float == INSTANCE ReferenceFloat WITH COUNT <- Width["SZ_HALF"]

AluOps == {"ALU_ADD", "ALU_ADDC", "ALU_SUB", "ALU_CMP", "ALU_SUBC", "ALU_AND", "ALU_OR",
           "ALU_XOR", "ALU_NOT", "ALU_NEG", "ALU_MOV", "ALU_MUL", "ALU_MULU", "ALU_DIV",
           "ALU_DIVU", "ALU_REM", "ALU_REMU", "ALU_SHL", "ALU_SHA", "ALU_ROT", "ALU_ROTC",
           "ALU_SET1", "ALU_CLR1", "ALU_NOT1", "ALU_TEST1", "ALU_RVBIT", "ALU_RVBYT"}
CountOps == {"ALU_INC", "ALU_DEC"}
Extends  == {"SYS_MOVSB", "SYS_MOVZB", "SYS_MOVSH", "SYS_MOVZH"}
FpOps    == {"FP_CMPF", "FP_MOVF", "FP_NEGF", "FP_ABSF", "FP_SCLF", "FP_ADDF", "FP_SUBF",
             "FP_MULF", "FP_DIVF", "FP_CVTWS", "FP_CVTSW"}
SysOps   == Extends \cup {"SYS_TASI", "SYS_MOVT", "SYS_SETF", "SYS_UPDPSW"}

\* FLOAT is the size of a word that is a float.
Destination == Size \cup {"FLOAT"}

\* What a register holds.
Register == 0 .. Mod("SZ_WORD") - 1

ASSUME ProgramAssumption ==
  /\ Instructions \cup Follow \subseteq
       [op : AluOps \cup CountOps \cup SysOps \cup FpOps, size : Size, dst : Destination,
        src : Register, sp : BOOLEAN]
  /\ \A i \in Instructions \cup Follow : i.dst = "FLOAT" => i.op \in FpOps
  /\ Contents \in [Destination -> SUBSET Register]
  /\ MaxDigits \in Nat

\* The sizes an instruction is decoded with: an operation has one, but for the moves from
\* one size to another.
Decoded(i) ==
  /\ i.op \in AluOps \cup CountOps \cup {"SYS_TASI", "SYS_SETF"} => i.dst = i.size
  /\ i.op \in {"ALU_SET1", "ALU_CLR1", "ALU_NOT1", "ALU_TEST1", "ALU_RVBYT"} =>
       i.size = "SZ_WORD"
  /\ i.op \in {"ALU_RVBIT", "SYS_TASI", "SYS_SETF", "SYS_MOVSB", "SYS_MOVZB"} =>
       i.size = "SZ_BYTE"
  /\ i.op \in {"SYS_MOVSH", "SYS_MOVZH"} => i.size = "SZ_HALF"
  /\ i.op \in Extends => Width[i.size] < Width[i.dst]
  /\ i.op = "SYS_MOVT" => Width[i.dst] < Width[i.size]

ASSUME DecodedAssumption == \A i \in Instructions \cup Follow : Decoded(i)

\* A byte is a quarter of a word and a half word is between them; shift_count[5:0] can
\* hold the width of a word.
ASSUME UnitAssumption ==
  /\ Width["SZ_BYTE"] < Width["SZ_HALF"] /\ Width["SZ_HALF"] < WordBits
  /\ WordBits = 4 * Width["SZ_BYTE"]
  /\ WordBits < Two[COUNT_LOW]

\* A float is as wide as a word, and no word, as a number, is beyond the largest float.
ASSUME FloatAssumption ==
  /\ EXP \in Nat \ {0, 1} /\ FRAC \in Nat \ {0}
  /\ 1 + EXP + FRAC = WordBits /\ EXP + FRAC < Two[EXP - 1]

VARIABLES
  state,   \* "ST_EXECUTE", or "ST_DECODE" when the instruction is done
  inst,    \* the instruction done
  before,  \* its destination register and the flags before it
  reg,     \* its destination register after it
  flags,   \* PSW[3:0]
  taken,   \* the branch was taken
  chain

vars == <<state, inst, before, reg, flags, taken, chain>>

NoInst   == [op |-> "none"]
NoBefore == [reg |-> 0, flags |-> [z |-> FALSE, s |-> FALSE, ov |-> FALSE, cy |-> FALSE]]
NoChain  == [kind |-> "none", x |-> 0, y |-> 0, r |-> 0, weight |-> 1, half |-> 0, digits |-> 0]

-----------------------------------------------------------------------------
(* The chain.                                                              *)

\* One more digit, of size s: b and a are added or subtracted, to r.
Extend(c, kind, s, b, a, r) ==
  [kind |-> kind, x |-> c.x + c.weight * b, y |-> c.y + c.weight * a,
   r |-> c.r + c.weight * r, weight |-> c.weight * Mod(s), half |-> c.weight * Half[s],
   digits |-> c.digits + 1]

\* The chain after op on the digits a and b, with the result r: the operations
\* with a carry extend a chain, those without one start it.
NextChain(op, s, a, b, r) ==
  CASE op = "ALU_ADD" -> Extend(NoChain, "add", s, b, a, r)
    [] op = "ALU_INC" -> Extend(NoChain, "add", s, a, 1, r)
    [] op \in {"ALU_SUB", "ALU_CMP"} -> Extend(NoChain, "sub", s, b, a, r)
    [] op = "ALU_DEC" -> Extend(NoChain, "sub", s, a, 1, r)
    [] op = "ALU_NEG" -> Extend(NoChain, "sub", s, 0, a, r)
    [] op = "ALU_ADDC" /\ chain.kind = "add" -> Extend(chain, "add", s, b, a, r)
    [] op = "ALU_SUBC" /\ chain.kind = "sub" -> Extend(chain, "sub", s, b, a, r)
    [] OTHER -> NoChain

\* The number a vector of weight 2 * half stands for with a sign.
SignedNumber(x, half) == IF x >= half THEN x - 2 * half ELSE x

-----------------------------------------------------------------------------
(* Writing the destination register.                                       *)

\* Faulty variant: the data written is not cut to the bytes enabled.
MergedUncut(i, old, r, s) == IF i.sp THEN r ELSE (old - Sized(old, s)) + r

\* The stack pointer is written whole, another register in the bytes of s.
Merged(i, old, r, s) == IF i.sp THEN r ELSE (old - Sized(old, s)) + Sized(r, s)

Init ==
  /\ state = "ST_EXECUTE" /\ inst = NoInst /\ before = NoBefore
  /\ reg = 0 /\ flags = NoBefore.flags /\ taken = FALSE /\ chain = NoChain

Done(i, old, r, f) ==
  /\ state' = "ST_DECODE" /\ inst' = i /\ reg' = r /\ flags' = f /\ taken' = FALSE
  /\ before' = [reg |-> old, flags |-> flags]

-----------------------------------------------------------------------------
(* Actions                                                                 *)

WritesFlags(i)  == i.op \notin {"ALU_MOV", "ALU_RVBIT", "ALU_RVBYT"}
WritesResult(i) == i.op \notin {"ALU_CMP", "ALU_TEST1"}

\* Format I on registers and constants: every operation of the unit but the two
\* of Format III.
ExecuteAlu(i, old, u) ==
  LET o == AluOutcome(i.op, i.size, i.src, old, flags, u)
  IN /\ i.op \in AluOps
     /\ Done(i, old, IF WritesResult(i) THEN Merged(i, old, o.result, i.size) ELSE old,
             IF WritesFlags(i) THEN o.flags ELSE flags)
     /\ chain' = IF WritesFlags(i)
                 THEN NextChain(i.op, i.size, Sized(i.src, i.size), Sized(old, i.size), o.result)
                 ELSE chain

\* Format III: INC and DEC work on the destination register alone.
Count1(i, old) ==
  LET o == AluOutcome(i.op, i.size, old, 0, flags, FALSE)
  IN /\ i.op \in CountOps
     /\ Done(i, old, Merged(i, old, o.result, i.size), o.flags)
     /\ chain' = NextChain(i.op, i.size, Sized(old, i.size), 0, o.result)

\* TASI: the flags of a comparison with ones, then ones in the lowest byte.
TestAndSet(i, old) ==
  LET ones == Mod("SZ_BYTE") - 1
      low  == Sized(old, "SZ_BYTE")
      o    == AluOutcome("ALU_SUB", "SZ_BYTE", ones, low, flags, FALSE)
  IN /\ i.op = "SYS_TASI"
     /\ Done(i, old, Merged(i, old, ones, "SZ_BYTE"), o.flags)
     /\ chain' = NextChain("ALU_SUB", "SZ_BYTE", ones, low, o.result)

\* MOVS and MOVZ: a narrow operand made a word, of which dst is written.
CrossMove(i, old) ==
  LET s == IF i.op \in {"SYS_MOVSB", "SYS_MOVZB"} THEN "SZ_BYTE" ELSE "SZ_HALF"
      a == Sized(i.src, s)
      r == IF i.op \in {"SYS_MOVSB", "SYS_MOVSH"} THEN Sext(a, s) ELSE a
  IN /\ i.op \in Extends
     /\ Done(i, old, Merged(i, old, r, i.dst), flags)
     /\ UNCHANGED chain

\* MOVT: the bits cut off are to be copies of the sign that is left.
Truncate(i, old) ==
  LET a    == i.src
      r    == Sized(a, i.dst)
      from == IF i.dst = "SZ_BYTE" /\ i.size = "SZ_HALF" THEN "SZ_HALF" ELSE "SZ_WORD"
      cut  == (a \div Mod(i.dst)) % (Mod(from) \div Mod(i.dst))
      ones == (Mod(from) \div Mod(i.dst)) - 1
  IN /\ i.op = "SYS_MOVT"
     /\ Done(i, old, Merged(i, old, r, i.dst),
             [flags EXCEPT !.ov = cut # (IF Msb(r, i.dst) THEN ones ELSE 0)])
     /\ chain' = NoChain

\* SETF: the byte is whether the condition of the lowest four bits is met.
SetFlag(i, old) ==
  /\ i.op = "SYS_SETF"
  /\ Done(i, old,
          Merged(i, old, IF CondMet(flags, Conditions[(i.src % 16) + 1]) THEN 1 ELSE 0, i.dst),
          flags)
  /\ UNCHANGED chain

\* UPDPSW: the bits of the destination register select the ones replaced.
UpdatePsw(i, old) ==
  /\ i.op = "SYS_UPDPSW"
  /\ Done(i, old, old, [z  |-> IF Bit(old, 0) THEN Bit(i.src, 0) ELSE flags.z,
                        s  |-> IF Bit(old, 1) THEN Bit(i.src, 1) ELSE flags.s,
                        ov |-> IF Bit(old, 2) THEN Bit(i.src, 2) ELSE flags.ov,
                        cy |-> IF Bit(old, 3) THEN Bit(i.src, 3) ELSE flags.cy])
  /\ chain' = NoChain

\* Format II on registers and constants. The rounding mode of the unit is tied to zero
\* (rtl/v60_control.sv:1176), whatever TKCW holds.
ExecuteFloat(i, old) ==
  LET o == Float!FpuOutcome(i.op, i.src, old, 0)
  IN /\ i.op \in FpOps
     /\ Done(i, old, IF i.op = "FP_CMPF" THEN old ELSE o.result,
             IF i.op = "FP_MOVF" THEN flags ELSE o.flags)
     /\ chain' = IF i.op = "FP_MOVF" THEN chain ELSE NoChain

\* Format IV.
Branch(cond) ==
  /\ state = "ST_EXECUTE"
  /\ state' = "ST_DECODE" /\ inst' = [op |-> "BRANCH", cond |-> cond]
  /\ before' = [reg |-> 0, flags |-> flags]
  /\ taken' = CondMet(flags, cond)
  /\ reg' = 0 /\ UNCHANGED <<flags, chain>>

\* The next instruction is decoded.
Retire ==
  /\ state = "ST_DECODE"
  /\ state' = "ST_EXECUTE" /\ inst' = NoInst /\ before' = NoBefore /\ reg' = 0 /\ taken' = FALSE
  /\ UNCHANGED <<flags, chain>>

\* The program turns to another computation.
Forget ==
  /\ state = "ST_EXECUTE" /\ chain # NoChain
  /\ chain' = NoChain /\ UNCHANGED <<state, inst, before, reg, flags, taken>>

Execute(i, old) ==
  \/ \E u \in IF i.op = "ALU_SHA" THEN BOOLEAN ELSE {FALSE} : ExecuteAlu(i, old, u)
  \/ Count1(i, old)
  \/ TestAndSet(i, old)
  \/ CrossMove(i, old)
  \/ Truncate(i, old)
  \/ SetFlag(i, old)
  \/ UpdatePsw(i, old)
  \/ ExecuteFloat(i, old)

Next ==
  \/ /\ state = "ST_EXECUTE" /\ chain.digits < MaxDigits
     /\ \E i \in IF chain = NoChain THEN Instructions ELSE Follow :
          \E old \in Contents[i.dst] : Execute(i, old)
  \/ \E n \in DOMAIN Conditions : Branch(Conditions[n])
  \/ Retire
  \/ Forget

Spec == Init /\ [][Next]_vars

-----------------------------------------------------------------------------
(* Properties                                                              *)

Branches == [op : {"BRANCH"}, cond : {Conditions[n] : n \in DOMAIN Conditions}]

\* Everything is of its type; nothing is left of an instruction that is over.
TypeOK ==
  /\ state \in {"ST_EXECUTE", "ST_DECODE"}
  /\ inst \in Branches \cup {NoInst} \cup Instructions \cup Follow
  /\ before.flags \in Flags /\ before.reg \in Register
  /\ reg \in Register
  /\ flags \in Flags /\ taken \in BOOLEAN
  /\ state = "ST_EXECUTE" => inst = NoInst /\ before = NoBefore /\ ~taken

\* Where the core is known to differ from the reference: the registers and flags
\* an instruction leaves unlike it.
Unlike(i, old, f) ==
  LET s   == i.size
      src == Sized(i.src, s)
      dst == Sized(old, s)
      n   == Count(i.src)
  IN UNION {
       \* The destination is the stack pointer, written whole.
       IF i.sp /\ i.dst # "SZ_WORD" THEN {"reg"} ELSE {},
       \* A negative operand is divided as an unsigned word.
       IF i.op \in {"ALU_DIV", "ALU_REM"} /\ src # 0 /\ (Msb(src, s) \/ Msb(dst, s))
         THEN {"reg", "z", "s"} ELSE {},
       \* The core clears the carry, the reference keeps it.
       IF i.op \in {"ALU_AND", "ALU_OR", "ALU_XOR", "ALU_NOT"} /\ f.cy THEN {"cy"} ELSE {},
       \* The reference adds the carry to the operand and loses a carry or a sign.
       IF i.op \in {"ALU_ADDC", "ALU_SUBC"} /\ f.cy /\ src = Mod(s) - 1 THEN {"cy"} ELSE {},
       IF i.op \in {"ALU_ADDC", "ALU_SUBC"} /\ f.cy /\ src = Half[s] - 1 THEN {"ov"} ELSE {},
       \* bitsize[4:0] is zero for a word: no overflow is seen and the carry is
       \* read beyond the vector.
       IF i.op = "ALU_SHA" /\ s = "SZ_WORD" /\ n > 0 THEN {"ov", "cy"} ELSE {},
       \* The mask of the core is a word of ones.
       IF i.op = "ALU_SHA" /\ n = Width[s] /\ dst = Mod(s) - 1 THEN {"ov"} ELSE {},
       \* The count of the reference has no opposite: its loop turns nothing.
       IF i.op = "ALU_ROTC" /\ n = -Two[COUNT_BITS - 1] THEN {"reg", "z", "s", "cy"} ELSE {}}

\* The same of a floating-point instruction, with the rounding mode of TKCW and the result r
\* of the reference.
UnlikeFloat(i, old, tkcw, r) ==
  LET a   == i.src
      b   == old
      sum == i.op \in {"FP_ADDF", "FP_SUBF"}
      all == {"reg", "z", "s"}
  IN UNION {
       \* The unit knows no denormal operands.
       IF \/ i.op = "FP_SCLF" /\ ~Float!Ordinary(b)
          \/ /\ sum \/ i.op \in {"FP_CMPF", "FP_MULF", "FP_DIVF"}
             /\ ~(Float!Ordinary(a) /\ Float!Ordinary(b))
         THEN all ELSE {},
       \* Nor denormal results, which it makes zero; -0 neither, and an overflow of a sum
       \* or one beyond all exponents is not made infinity.
       IF sum /\ ((Float!Magnitude(r) < Float!LeastNormal /\ r # 0) \/ ~Float!Number(r))
         THEN all ELSE {},
       IF i.op \in {"FP_MULF", "FP_DIVF", "FP_SCLF"}
            /\ ((Float!Magnitude(r) <= Float!LeastNormal /\ r # 0) \/ ~Float!Number(r))
         THEN all ELSE {},
       \* A difference that small is no difference.
       IF i.op = "FP_CMPF" /\ Abs(Float!Value(b) - Float!Value(a)) < Float!LeastNormal
         THEN {"z", "s"} ELSE {},
       \* What is shifted out of the smaller operand is lost.
       IF sum /\ Float!Drops(a, b) THEN all ELSE {},
       \* A product that is rounded up to two keeps its exponent.
       IF i.op = "FP_MULF" /\ Float!Wraps(a, b) THEN {"reg"} ELSE {},
       \* A quotient is not rounded to the nearest: Close says what is left of it.
       IF i.op = "FP_DIVF" THEN {"reg"} ELSE {},
       \* The reference does not count -0 as negative.
       IF i.op = "FP_NEGF" /\ Float!Magnitude(a) = 0 THEN {"cy"} ELSE {},
       IF i.op = "FP_ABSF" /\ Float!Magnitude(a) = 0 THEN {"reg", "s"} ELSE {},
       \* TKCW is not looked at, ties go to the even number, and what is beyond a word is
       \* made the largest word.
       IF i.op = "FP_CVTSW"
            /\ \/ tkcw # 0 /\ ~Float!IsInteger(a)
               \/ Float!EvenTie(a)
               \/ Float!Units(a) >= Half["SZ_WORD"] * Two[Float!UnitPlace]
         THEN all \cup {"ov"} ELSE {}}

\* The register is r and the flags are f, but for what is unlike.
LikeBut(unlike, r, f) ==
  /\ "reg" \in unlike \/ reg = r
  /\ \A n \in {"z", "s", "ov", "cy"} \ unlike : flags[n] = f[n]

\* A floating-point instruction leaves what ref says.
LikeFloat(ref, tkcw) ==
  LET result == IF inst.op = "FP_CMPF" THEN before.reg ELSE ref.result
      codes  == IF inst.op = "FP_MOVF" THEN before.flags ELSE ref.flags
  IN \/ reg = result /\ flags = codes
     \/ LikeBut(UnlikeFloat(inst, before.reg, tkcw, ref.result), result, codes)

\* An instruction leaves the destination register and the four flags as the
\* reference does, in all but the cases listed, and a branch is taken when the
\* reference takes it: the results of v60_alu.sv and v60_fpu.sv, the merge of a byte or
\* half word into a register, and which flags each instruction keeps.
LikeReference ==
  CASE inst.op = "none" -> TRUE
    [] inst.op = "BRANCH" ->
         \A n \in DOMAIN Conditions : inst.cond = Conditions[n] => taken = RefCond(n - 1, flags)
    [] inst.op \in FpOps ->
         \A tkcw \in IF inst.op = "FP_CVTSW" THEN 0 .. 3 ELSE {0} :
           Float!RefFloatDefined(inst.op, inst.src, before.reg) =>
             LikeFloat(Float!RefFloat(inst.op, inst.src, before.reg, tkcw), tkcw)
    [] OTHER ->
         LET ref    == RefExecute(inst, before.reg, before.flags)
             unlike == Unlike(inst, before.reg, before.flags)
         IN RefDefined(inst) => LikeBut(unlike, ref.reg, ref.flags)

\* A number computed digit by digit is exact: the digits so far, the carry and the
\* overflow are the sum or difference of the numbers read so far, whatever sizes
\* the digits have and whatever instructions that keep the flags ran in between.
WideSum ==
  LET c    == chain
      x    == SignedNumber(c.x, c.half)
      y    == SignedNumber(c.y, c.half)
      wide == IF c.kind = "add" THEN x + y ELSE x - y
  IN c # NoChain =>
       /\ c.r \in 0 .. c.weight - 1
       /\ c.kind = "add" => c.x + c.y = c.r + c.weight * Carry(flags)
       /\ c.kind = "sub" => c.x - c.y = c.r - c.weight * Carry(flags)
       /\ flags.s <=> c.r >= c.half
       /\ flags.ov <=> wide \notin -c.half .. c.half - 1

\* A branch after a comparison of any length decides what its condition is named
\* for: BL and BNL by the unsigned numbers, BLT and BGE by the signed ones, and after
\* a comparison of one digit the conditions that look at Z too.
WideCompare ==
  LET x  == chain.x
      y  == chain.y
      sx == SignedNumber(x, chain.half)
      sy == SignedNumber(y, chain.half)
  IN inst.op = "BRANCH" /\ chain.kind = "sub" =>
       /\ inst.cond = "CC_BL"  => (taken <=> x < y)
       /\ inst.cond = "CC_BNL" => (taken <=> x >= y)
       /\ inst.cond = "CC_BLT" => (taken <=> sx < sy)
       /\ inst.cond = "CC_BGE" => (taken <=> sx >= sy)
       /\ chain.digits = 1 =>
            /\ inst.cond = "CC_BE"  => (taken <=> x = y)
            /\ inst.cond = "CC_BNE" => (taken <=> x # y)
            /\ inst.cond = "CC_BNH" => (taken <=> x <= y)
            /\ inst.cond = "CC_BH"  => (taken <=> x > y)
            /\ inst.cond = "CC_BLE" => (taken <=> sx <= sy)
            /\ inst.cond = "CC_BGT" => (taken <=> sx > sy)

\* A program that counts in floats is exact, and so are its conversions from and to words,
\* as long as its numbers are whole and of FRAC + 1 bits: whatever the operands of
\* v60_fpu.sv are shifted by, aligned and normalized, no bit of such a number is lost.
IntegersExact ==
  LET a == inst.src
      b == before.reg
      Is(f, n)    == Float!IsInteger(f) /\ Float!Integer(f) = n
      Counts(f)   == Float!IsInteger(f) /\ Abs(Float!Integer(f)) < 2 * Float!One
      Leaves(n)   == Abs(n) < 2 * Float!One => Is(reg, n)
      From(x)     == Counts(a) => Leaves(x)
      FromBoth(x) == Counts(a) /\ Counts(b) => Leaves(x)
      x == Float!Integer(a)
      y == Float!Integer(b)
      k == Float!ScaleCount(a)
  IN /\ inst.op = "FP_ADDF"  => FromBoth(y + x)
     /\ inst.op = "FP_SUBF"  => FromBoth(y - x)
     /\ inst.op = "FP_MULF"  => FromBoth(y * x)
     /\ inst.op = "FP_DIVF"  => \A q \in -Abs(y) .. Abs(y) : (x # 0 /\ q * x = y) => FromBoth(q)
     /\ inst.op = "FP_SCLF"  => (k >= 0 /\ Counts(b) => Leaves(y * Two[k]))
     /\ inst.op = "FP_NEGF"  => From(-x)
     /\ inst.op = "FP_ABSF"  => From(Abs(x))
     /\ inst.op = "FP_CVTWS" => Leaves(Signed(a, "SZ_WORD"))
     /\ inst.op = "FP_CVTSW" => (Counts(a) => Signed(reg, "SZ_WORD") = x)

\* CMPF and the branches after it order the numbers: what branches on LT is less, what
\* branches on E differs by less than the least normal number, equal numbers do, and what
\* branches on neither is greater. The bits lost in aligning never turn it round.
Ordered ==
  LET x == Float!Value(inst.src)
      y == Float!Value(before.reg)
  IN inst.op = "FP_CMPF" /\ Float!Ordinary(inst.src) /\ Float!Ordinary(before.reg) =>
       /\ CondMet(flags, "CC_BLT") => y < x
       /\ CondMet(flags, "CC_BE") => Abs(y - x) < Float!LeastNormal
       /\ y = x => CondMet(flags, "CC_BE")
       /\ CondMet(flags, "CC_BGT") => y > x

\* Where ADDF, SUBF and DIVF do not leave the nearest float they leave one near it: a sum
\* less than two places of the larger operand off, a quotient the nearest float or the one
\* before it.
Close ==
  LET a == inst.src
      b == before.reg
      x == Float!Value(a)
      y == Float!Value(b)
      larger  == IF Abs(x) > Abs(y) THEN a ELSE b
      Near(v) == Abs(v) >= Float!LeastNormal =>
                   Abs(Float!Value(reg) - v) < 2 * Two[Float!Place(larger)]
      nearest == Float!Ratio(a, b)
  IN inst.op \in {"FP_ADDF", "FP_SUBF", "FP_DIVF"} /\ Float!Ordinary(a) /\ Float!Ordinary(b) =>
       /\ inst.op = "FP_ADDF" /\ Float!Number(Float!Sum(a, b)) => Near(y + x)
       /\ inst.op = "FP_SUBF" /\ Float!Number(Float!Sum(Float!Opposite(a), b)) => Near(y - x)
       /\ inst.op = "FP_DIVF" /\ x # 0 /\ Float!Number(nearest)
            /\ Float!Magnitude(nearest) > Float!LeastNormal => reg \in {nearest - 1, nearest}

\* DIV leaves the signed quotient: "DIV (signed divide)", rtl/v60_alu.sv:199.
SignedDivision ==
  inst.op = "ALU_DIV" =>
    LET s == inst.size
        b == Sized(before.reg, s)
        a == Sized(inst.src, s)
    IN a # 0 /\ ~DivideOverflow(s, a, b) =>
         Sized(reg, s) = Quotient(Signed(b, s), Signed(a, s)) % Mod(s)
=============================================================================
