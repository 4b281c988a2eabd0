------------------------------- MODULE Decode ------------------------------
(***************************************************************************)
(* The instruction decoder (rtl/v60_decode.sv): a combinational function   *)
(* of the window of the prefetch buffer and of the number of its bytes     *)
(* that have arrived.  The window's other bytes are whatever the buffer    *)
(* held before.                                                            *)
(*                                                                         *)
(* A displacement or an immediate is the sequence of the bytes it is made  *)
(* of, lowest first: the extension to 32 bits is left out.                 *)
(***************************************************************************)
EXTENDS Integers, Sequences, TLC

\* A byte of the window; an index past its end reads as zero.
At(ibuf, i) == IF i \in DOMAIN ibuf THEN ibuf[i] ELSE 0

Field(ibuf, from, n) == [k \in 1 .. n |-> At(ibuf, from + k - 1)]

Bit(b, i) == (b \div (2 ^ i)) % 2 = 1

-----------------------------------------------------------------------------
(* Operands: addressing mode, register, displacement or immediate, second  *)
(* displacement, whether the address is that of a pointer, and the length  *)
(* of the mod field.                                                       *)

Plain(am, reg) ==
  [am |-> am, reg |-> reg, imm |-> <<>>, imm2 |-> <<>>, indirect |-> FALSE, len |-> 1]

NoOperand == [Plain("AM_ERROR", 0) EXCEPT !.len = 0]

\* The register field of byte 1: no bytes of its own.
RegisterField(reg) == [Plain("AM_REGISTER", reg) EXCEPT !.len = 0]

OneDisp(am, reg, d) ==
  [am |-> am, reg |-> reg, imm |-> d, imm2 |-> <<>>, indirect |-> FALSE, len |-> 1 + Len(d)]

\* The address of o is that of a pointer.
Deferred(o) == [o EXCEPT !.indirect = TRUE]

TwoDisps(am, reg, d, d2) ==
  [am |-> am, reg |-> reg, imm |-> d, imm2 |-> d2, indirect |-> TRUE,
   len |-> 1 + Len(d) + Len(d2)]

\* The bytes of a displacement: the lowest two bits of the mode are their logarithm.
DispBytes(mode) == 2 ^ (mode % 4)

RegDisp(n) == IF n = 4 THEN "AM_DISP32_REG" ELSE "AM_DISP16_REG"

PcDisp(n) == IF n = 4 THEN "AM_PC_DISP32" ELSE "AM_PC_DISP16"

\* mod[7:5] = 7 with m = 0, dispatched on lo, mod[4:0].
Group7(ibuf, at, lo, immBytes) ==
  LET n == DispBytes(lo)
      d(k) == Field(ibuf, at + 1, k)
  IN CASE lo <= 15        -> [Plain("AM_IMM_QUICK", 0) EXCEPT !.imm = <<lo>>]
       [] lo \in 16 .. 18 -> OneDisp(PcDisp(n), 0, d(n))
       [] lo = 19          -> OneDisp("AM_DIRECT_ADDR", 0, d(4))
       [] lo = 20          -> OneDisp("AM_IMMEDIATE", 0, d(immBytes))
       [] lo \in 24 .. 26 -> Deferred(OneDisp(PcDisp(n), 0, d(n)))
       [] lo = 27          -> Deferred(OneDisp("AM_DIRECT_ADDR", 0, d(4)))
       [] lo \in 28 .. 30 ->
            TwoDisps(PcDisp(n), 0, d(n), Field(ibuf, at + 1 + n, n))
       [] OTHER            -> Plain("AM_ERROR", 0)

\* The operand of a mod byte, dispatched on m and on hi, mod[7:5].
ModForm(ibuf, at, m, hi, lo, immBytes) ==
  LET n == DispBytes(hi)
      d == Field(ibuf, at + 1, n)
  IN CASE m /\ hi \in 0 .. 2  -> TwoDisps(RegDisp(n), lo, d, Field(ibuf, at + 1 + n, n))
       [] m /\ hi = 3         -> Plain("AM_REGISTER", lo)
       [] m /\ hi = 4         -> Plain("AM_REG_INDIRECT_INC", lo)
       [] m /\ hi = 5         -> Plain("AM_REG_INDIRECT_DEC", lo)
       [] m /\ hi \in {6, 7}  -> Plain("AM_ERROR", 0)
       [] ~m /\ hi \in 0 .. 2 -> OneDisp(RegDisp(n), lo, d)
       [] ~m /\ hi = 3        -> Plain("AM_REG_INDIRECT", lo)
       [] ~m /\ hi \in 4 .. 6 -> Deferred(OneDisp(RegDisp(n), lo, d))
       [] ~m /\ hi = 7        -> Group7(ibuf, at, lo, immBytes)

\* The operand whose mod byte is at `at'.  The source writes it three times: for the
\* mod field of Format I and first of Format II, for the second of Format II and for
\* Format III.
ModField(ibuf, at, m, immBytes) ==
  ModForm(ibuf, at, m, At(ibuf, at) \div 32, At(ibuf, at) % 32, immBytes)

-----------------------------------------------------------------------------
(* Opcodes.  Sizes are in bytes.                                           *)

OP_BSR == \h48

\* Two-operand instructions whose opcode holds the size: six to a row, a byte,
\* a half word and a word of each of two operations (ADD and MUL, OR and ROT,
\* ADDC and MULU, SUBC and ROTC, AND and DIV, SUB and SHL, XOR and DIVU, CMP
\* and SHA, REM and REMU, NOT and NEG).
AluRows == {\h80, \h88, \h90, \h98, \hA0, \hA8, \hB0, \hB8, \h50, \h38}

AluOps == {row + k : row \in AluRows, k \in 0 .. 5}

\* SHL, SHA, ROT and ROTC: the count is a byte.
ShiftOps == {row + k : row \in {\h88, \h98, \hA8, \hB8}, k \in {1, 3, 5}}

\* The others: MOV, TEST1, SET1, CLR1, NOT1, RVBIT, RVBYT; MOVS; MOVZ; MOVT; MOVEA; SETF,
\* LDPR, STPR and UPDPSW.
OtherOps ==
  {\h09, \h1B, \h2D, \h87, \h97, \hA7, \hB7, \h08, \h2C} \cup {\h0A, \h0C, \h1C} \cup
  {\h0B, \h0D, \h1D} \cup {\h19, \h29, \h2B} \cup {\h40, \h42, \h44} \cup
  {\h47, \h12, \h02, \h13, \h4A}

OtherSource(op) ==
  CASE op \in {\h09, \h08, \h0A, \h0C, \h0B, \h0D, \h40, \h47} -> 1
    [] op \in {\h1B, \h1C, \h1D, \h19, \h42}                   -> 2
    [] OTHER                                                    -> 4

OtherDestination(op) ==
  CASE op \in {\h09, \h08, \h19, \h29, \h47} -> 1
    [] op \in {\h1B, \h0A, \h0B, \h2B, \h4A} -> 2
    [] OTHER                                  -> 4

Fmt1Ops == AluOps \cup OtherOps

\* fmt1_mod_dim: the size of the operand the mod field names.
Fmt1ModDim(op, d) ==
  IF op \in OtherOps THEN IF d THEN OtherSource(op) ELSE OtherDestination(op)
  ELSE IF op \in ShiftOps /\ d THEN 1 ELSE 2 ^ ((op % 8) \div 2)

\* Floating point: the sub-operations of opcodes 5C and 5F.
FpOps == {\h5C, \h5F}

FpKnown(op, subop) ==
  \/ op = \h5C /\ subop \in {\h00, \h08, \h09, \h0A, \h10, \h18, \h19, \h1A, \h1B}
  \/ op = \h5F /\ subop \in {0, 1}

\* The count of SCLF is a half word.
FpDim(op, subop) == IF op = \h5C /\ subop = \h10 THEN 2 ELSE 4

\* One-operand instructions, each with m = 0 and with m = 1: DEC and INC,
\* JMP, PREPARE, TASI, RET, POPM, POP, JSR, RETIU, PUSHM, PUSH, GETPSW,
\* TRAP, RETIS.
Fmt3Ops == (\hD0 .. \hEF) \cup {\hF6, \hF7, \hF8, \hF9, \hFA, \hFB}

Fmt3ImmBytes(op) ==
  CASE op \in {\hF8, \hF9}             -> 1
    [] op \in {\hEA, \hEB, \hFA, \hFB} -> 2
    [] OTHER                           -> 4

\* String, bit field and decimal instructions: their length comes from the
\* simulator.
StringOps == {\h58, \h59, \h5A, \h5B, \h5D}

-----------------------------------------------------------------------------
(* The decoded instruction.                                                *)

Inst(format, op, len, src, dst, disp) ==
  [format |-> format, op |-> op, len |-> len, src |-> src, dst |-> dst, disp |-> disp]

Short(op) == Inst("FMT_V", op, 1, NoOperand, NoOperand, <<>>)

DecodeDbcc(ibuf) ==
  Inst("FMT_VI", At(ibuf, 0), 4, NoOperand, RegisterField(At(ibuf, 1) % 32),
       Field(ibuf, 2, 2))

DecodeBranch(ibuf, n) ==
  Inst("FMT_IV", At(ibuf, 0), 1 + n, NoOperand, NoOperand, Field(ibuf, 1, n))

\* A faulty variant: the second operand is looked for behind a first one of
\* one byte.
DecodeFpFixed(ibuf) ==
  LET op == At(ibuf, 0)
      am1 == ModField(ibuf, 2, Bit(At(ibuf, 1), 6), FpDim(op, At(ibuf, 1) % 32))
      am2 == ModField(ibuf, 3, Bit(At(ibuf, 1), 5), 4)
  IN Inst("FMT_II", op, 2 + am1.len + am2.len, am1, am2, <<>>)

\* The second operand is where the first one ends, so that its mod byte is
\* known only when the first one's length is.
DecodeFp(ibuf) ==
  LET op == At(ibuf, 0)
      am1 == ModField(ibuf, 2, Bit(At(ibuf, 1), 6), FpDim(op, At(ibuf, 1) % 32))
      am2 == ModField(ibuf, 2 + am1.len, Bit(At(ibuf, 1), 5), 4)
  IN Inst("FMT_II", op, 2 + am1.len + am2.len, am1, am2, <<>>)

\* d = 1: the mod field is the source; d = 0: it is the destination.
DecodeFmt1(ibuf) ==
  LET op == At(ibuf, 0)
      b1 == At(ibuf, 1)
      d == Bit(b1, 5)
      mod == ModField(ibuf, 2, Bit(b1, 6), Fmt1ModDim(op, d))
      reg == RegisterField(b1 % 32)
  IN Inst("FMT_I", op, 2 + mod.len, IF d THEN mod ELSE reg, IF d THEN reg ELSE mod, <<>>)

\* m is bit 0 of the opcode.
DecodeFmt3(ibuf) ==
  LET op == At(ibuf, 0)
      mod == ModField(ibuf, 1, Bit(op, 0), Fmt3ImmBytes(op))
  IN Inst("FMT_III", op, 1 + mod.len, NoOperand, mod, <<>>)

decoded(ibuf) ==
  LET op == At(ibuf, 0)
  IN CASE op \in {\hC6, \hC7}           -> DecodeDbcc(ibuf)
       [] op \in (\h60 .. \h6F)         -> DecodeBranch(ibuf, 1)
       [] op \in (\h70 .. \h7F)         -> DecodeBranch(ibuf, 2)
       [] op = OP_BSR                   -> DecodeBranch(ibuf, 2)
       [] op \in FpOps                  -> DecodeFp(ibuf)
       [] op \in Fmt1Ops                -> DecodeFmt1(ibuf)
       [] op \in Fmt3Ops                -> DecodeFmt3(ibuf)
       [] op \in (\h80 .. \hBF) \ Fmt1Ops ->
            Inst("FMT_I", op, 3, NoOperand, NoOperand, <<>>)
       [] op \in StringOps              ->
            Inst("FMT_VII", op, 2, NoOperand, NoOperand, <<>>)
       [] OTHER                         -> Short(op)

\* A faulty variant: the length of a floating-point instruction leaves out its
\* second operand.
DecodeValidEarly(ibuf, count) ==
  /\ At(ibuf, 0) \in FpOps \cup Fmt1Ops => count >= 2 /\ ~Bit(At(ibuf, 1), 7)
  /\ count >= decoded(ibuf).len - decoded(ibuf).dst.len + 1

\* A faulty variant: one byte more is waited for.
DecodeValidLate(ibuf, count) ==
  /\ At(ibuf, 0) \in FpOps \cup Fmt1Ops => count >= 2 /\ ~Bit(At(ibuf, 1), 7)
  /\ count > decoded(ibuf).len

\* decode_valid: the whole instruction has arrived.  A sub-operation of a
\* floating-point instruction that is not known and a Format I opcode with
\* bit 7 of byte 1 set, which makes it Format II, are never valid.
decode_valid(ibuf, count) ==
  /\ At(ibuf, 0) \in FpOps =>
       /\ count >= 2
       /\ FpKnown(At(ibuf, 0), At(ibuf, 1) % 32)
  /\ At(ibuf, 0) \in Fmt1Ops =>
       /\ count >= 2
       /\ ~Bit(At(ibuf, 1), 7)
  /\ count >= decoded(ibuf).len
=============================================================================
