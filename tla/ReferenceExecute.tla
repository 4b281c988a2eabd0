-------------------------- MODULE ReferenceExecute -------------------------
(***************************************************************************)
(* What the emulator the core is compared with makes of an instruction     *)
(* and its operands (mame/src/op2.hxx to op6.hxx, op12.hxx, v60.cpp): the  *)
(* state after it as a function of the state before it.                    *)
(*                                                                         *)
(* A state is [reg, pc, psw, preg, mem]: the general registers with AP, FP *)
(* and SP, the program counter, the PSW, the privileged registers and      *)
(* memory.  The PSW is a word of eight bits: the condition codes, two      *)
(* control bits that a program may change, one bit of the execution level  *)
(* EL and the interrupt stack flag IS.  A PUSHM or POPM list has a bit for *)
(* each register below the stack pointer and one for the PSW.              *)
(*                                                                         *)
(* An instruction is its operation, the sizes of its operands, the         *)
(* operands `src' and `to' (`to' alone if there is one), the condition and *)
(* the displacement of a branch, and its length in bytes.                  *)
(***************************************************************************)
EXTENDS ReferenceAlu, ReferenceOperands

LOCAL INSTANCE SequencesExt

CONSTANT Fpu(_, _, _, _)  \* a floating-point operation: its result and the flags

FP == SP - 1
AP == SP - 2

\* Privileged registers, by their number.
ISP  == 0
L0SP == 1
L1SP == 2
SBR  == 3
PrivilegedRegisters == ISP .. SBR

PSW_EL  == 6
PSW_IS  == 7
PSW_BIT == SP   \* the PSW in a register list

Length(s) == CASE s = "SZ_BYTE" -> 1 [] s = "SZ_HALF" -> 2 [] s = "SZ_WORD" -> 4

-----------------------------------------------------------------------------
(* The PSW.                                                                *)

CodesOf(psw)       == FlagsOf({b \in 0 .. 3 : Bit(psw, b)})
PutCodes(psw, f)   == (psw - (psw % 16)) + FromBits(FlagBits(f))
WithCodes(r, f)    == [r EXCEPT !.psw = PutCodes(@, f)]

\* v60SaveStack and v60ReloadStack: the stack pointer in use.
StackOf(psw) == IF Bit(psw, PSW_IS) THEN ISP ELSE IF Bit(psw, PSW_EL) THEN L1SP ELSE L0SP

\* v60WritePSW: another stack is taken up, and the old one kept.
WritePSW(r, psw) ==
  IF StackOf(psw) = StackOf(r.psw) THEN [r EXCEPT !.psw = psw]
  ELSE [r EXCEPT !.psw = psw, !.preg[StackOf(r.psw)] = r.reg[SP],
                 !.reg[SP] = r.preg[StackOf(psw)]]

-----------------------------------------------------------------------------
(* The stack.                                                              *)

Push(r, v) ==
  LET sp == (r.reg[SP] - 4) % WORD
  IN  [r EXCEPT !.reg[SP] = sp, !.mem = Store(@, sp, 4, v)]

Top(r)     == Load(r.mem, r.reg[SP], 4)
Drop(r, n) == [r EXCEPT !.reg[SP] = (@ + n) % WORD]

-----------------------------------------------------------------------------
(* Two operands, op12.hxx.                                                 *)

RefCompares == {"ALU_CMP", "ALU_TEST1"}
RefShifts   == {"ALU_SHL", "ALU_SHA", "ALU_ROT", "ALU_ROTC"}
RefCopies   == {"ALU_MOV", "ALU_NEG", "ALU_NOT", "ALU_RVBIT", "ALU_RVBYT", "SYS_MOVSB",
                "SYS_MOVZB", "SYS_MOVSH", "SYS_MOVZH", "SYS_MOVT", "SYS_SETF"}

\* The first operand of a shift is a byte.
Dim1(i) == IF i.op \in RefShifts THEN 1 ELSE Length(i.size)
Dim2(i) == Length(i.dst)

\* F12DecodeOperands with ReadAM twice: a register that is the second operand is
\* read before the first operand is decoded.
DecodeValues(r, i) ==
  LET a == ReadAM(r, i.src, Dim1(i))
      b == ReadAM(IF i.to.mode = "Register" THEN r ELSE a.r, i.to, Length(i.size))
  IN [val1 |-> a.val, val2 |-> b.val, r |-> IF i.to.mode = "Register" THEN a.r ELSE b.r]

\* CMP, TEST1.
CompareOperands(r, i) ==
  LET d == DecodeValues(r, i)
  IN  WithCodes(d.r, RefOutcome([i EXCEPT !.src = d.val1], d.val2, CodesOf(r.psw)).flags)

\* ADD to XOR: the second operand is read, changed and written.
ChangeOperand(r, i) ==
  LET a == ReadAM(r, i.src, Dim1(i))
      b == ReadAMAddress(a.r, i.to, Dim2(i))
      o == RefOutcome([i EXCEPT !.src = a.val], ReadFlag(b.r, b, Dim2(i)), CodesOf(r.psw))
  IN  WithCodes(WriteFlag(b.r, b, Dim2(i), o.val), o.flags)

\* F12DecodeFirstOperand, F12WriteSecondOperand: the second operand is only written.
CopyOperand(r, i) ==
  LET a == ReadAM(r, i.src, Dim1(i))
      o == RefOutcome([i EXCEPT !.src = a.val], 0, CodesOf(r.psw))
  IN  WriteAM(WithCodes(a.r, o.flags), i.to, Dim2(i), o.val)

\* MOVEA: an address, or the number of a register.
MoveAddress(r, i) ==
  LET a == ReadAMAddress(r, i.src, Dim1(i)) IN WriteAM(a.r, i.to, 4, a.val)

\* LDPR: a register's contents, or the address of an operand in memory.
LoadPrivileged(r, i) ==
  LET b == ReadAM(r, i.to, 4)
      a == ReadAMAddress(IF i.to.mode = "Register" THEN r ELSE b.r, i.src, 4)
  IN  [a.r EXCEPT !.preg[b.val] = IF a.flag THEN a.r.reg[a.val] ELSE a.val]

\* STPR.
StorePrivileged(r, i) ==
  LET a == ReadAM(r, i.src, 4) IN WriteAM(a.r, i.to, 4, r.preg[a.val])

\* UPDPSW: the second operand selects bits of the lowest half or of the lowest three bytes.
UpdatePSW(r, i) ==
  LET d    == DecodeValues(r, [i EXCEPT !.size = "SZ_WORD"])
      mask == Bits(Cut(d.val2, IF i.dst = "SZ_HALF" THEN 2 ELSE 3))
  IN  WritePSW(d.r, FromBits((Bits(r.psw) \ mask) \cup (Bits(d.val1) \cap mask)))

RefTwoOperands(r, i) ==
  CASE i.op \in RefCompares   -> CompareOperands(r, i)
    [] i.op \in RefCopies     -> CopyOperand(r, i)
    [] i.op = "SYS_MOVEA"     -> MoveAddress(r, i)
    [] i.op = "SYS_LDPR"      -> LoadPrivileged(r, i)
    [] i.op = "SYS_STPR"      -> StorePrivileged(r, i)
    [] i.op = "SYS_UPDPSW"    -> UpdatePSW(r, i)
    [] OTHER                  -> ChangeOperand(r, i)

-----------------------------------------------------------------------------
(* Floating point, op2.hxx: the order in which the operands are decoded.   *)

FpMoves   == {"FP_MOVF", "FP_CVTWS", "FP_CVTSW"}
FpChanges == {"FP_NEGF", "FP_ABSF", "FP_ADDF", "FP_SUBF", "FP_MULF", "FP_DIVF", "FP_SCLF"}
FpOps     == FpMoves \cup FpChanges \cup {"FP_CMPF"}

FpCodes(op, f, psw) == IF op = "FP_MOVF" THEN CodesOf(psw) ELSE f

\* F2DecodeFirstOperand; the scale of SCLF is a half word.
FpFirst(r, i) == ReadAM(r, i.src, IF i.op = "FP_SCLF" THEN 2 ELSE 4)

\* MOVF, CVTWS, CVTSW: F2WriteSecondOperand.
FpMove(r, i) ==
  LET a == FpFirst(r, i)
      o == Fpu(i.op, a.val, 0, CodesOf(r.psw))
  IN  WriteAM(WithCodes(a.r, FpCodes(i.op, o.flags, r.psw)), i.to, 4, o.val)

\* NEGF ... SCLF: F2LOADOPFLOAT, F2STOREOPFLOAT.
FpChange(r, i) ==
  LET a == FpFirst(r, i)
      b == ReadAMAddress(a.r, i.to, 4)
      o == Fpu(i.op, a.val, ReadFlag(b.r, b, 4), CodesOf(r.psw))
  IN  WithCodes(WriteFlag(b.r, b, 4, o.val), o.flags)

\* CMPF.
FpCompare(r, i) ==
  LET a == FpFirst(r, i)
      b == ReadAM(a.r, i.to, 4)
  IN  WithCodes(b.r, Fpu(i.op, a.val, b.val, CodesOf(r.psw)).flags)

RefFloat(r, i) ==
  CASE i.op \in FpMoves -> FpMove(r, i)
    [] i.op \in FpChanges -> FpChange(r, i)
    [] i.op = "FP_CMPF" -> FpCompare(r, i)

-----------------------------------------------------------------------------
(* One operand, op3.hxx; none, op5.hxx.                                    *)

\* INC, DEC and TASI.
CountOperand(r, i) ==
  LET b == ReadAMAddress(r, i.to, Dim2(i))
      o == RefOutcome([i EXCEPT !.src = 0], ReadFlag(b.r, b, Dim2(i)), CodesOf(r.psw))
  IN  WithCodes(WriteFlag(b.r, b, Dim2(i), o.val), o.flags)

\* The address of a jump is that of an operand of one byte.
Jump(r, i) ==
  LET a == ReadAMAddress(r, i.to, 1) IN [a.r EXCEPT !.pc = a.val]

JumpToSubroutine(r, i) ==
  LET a == ReadAMAddress(r, i.to, 1)
  IN  [Push(a.r, (r.pc + i.len) % WORD) EXCEPT !.pc = a.val]

Prepare(r, i) ==
  LET a == ReadAM(r, i.to, 4)
      p == Push(a.r, a.r.reg[FP])
  IN  Drop([p EXCEPT !.reg[FP] = p.reg[SP]], -a.val)

Return(r, i) ==
  LET a == ReadAM(r, i.to, 4)
      p == Drop([a.r EXCEPT !.pc = Top(a.r)], 4)
  IN  Drop([p EXCEPT !.reg[AP] = Top(p)], 4 + a.val)

\* RETIU and RETIS.
ReturnFromInterrupt(r, i) ==
  LET a == ReadAM(r, i.to, 2)
      p == Drop([a.r EXCEPT !.pc = Top(a.r)], 4)
  IN  WritePSW(Drop(p, 4 + a.val), Top(p))

GetPSW(r, i) == WriteAM(r, i.to, 4, r.psw)

PushOperand(r, i) == LET a == ReadAM(r, i.to, 4) IN Push(a.r, a.val)

\* The stack pointer has been raised when the operand is written.
PopOperand(r, i) == WriteAM(Drop(r, 4), i.to, 4, Top(r))

\* PUSHM: the PSW first, then the registers from the highest to the lowest.
PushRegisters(r, i) ==
  LET a    == ReadAM(r, i.to, 4)
      list == Bits(a.val) \ {PSW_BIT}
      p    == IF Bit(a.val, PSW_BIT) THEN Push(a.r, a.r.psw) ELSE a.r
  IN  FoldLeft(LAMBDA q, n : Push(q, q.reg[n]), p, SetToSortSeq(list, >))

\* POPM: the registers from the lowest to the highest, then the lower half of the PSW.
PopRegisters(r, i) ==
  LET a    == ReadAM(r, i.to, 4)
      list == Bits(a.val) \ {PSW_BIT}
      p    == FoldLeft(LAMBDA q, n : Drop([q EXCEPT !.reg[n] = Top(q)], 4), a.r,
                       SetToSortSeq(list, <))
  IN  IF Bit(a.val, PSW_BIT)
      THEN Drop(WritePSW(p, SetReg(p.psw, 2, Load(p.mem, p.reg[SP], 2))), 4) ELSE p

Dispose(r) ==
  LET p == [r EXCEPT !.reg[SP] = r.reg[FP]] IN Drop([p EXCEPT !.reg[FP] = Top(p)], 4)

ReturnFromSubroutine(r) == Drop([r EXCEPT !.pc = Top(r)], 4)

-----------------------------------------------------------------------------
(* Branches, op4.hxx and op6.hxx: the conditions are numbered as in the    *)
(* opcodes, BV being 0.                                                    *)

\* BGT, BGE, BLT, BLE.
SignedTaken(n, f) ==
  CASE n = 12 -> f.s # f.ov
    [] n = 13 -> f.s = f.ov
    [] n = 14 -> (f.s # f.ov) \/ f.z
    [] n = 15 -> ~((f.s # f.ov) \/ f.z)

\* BH, BNH, BNL, BL.
UnsignedTaken(n, f) ==
  CASE n = 2 -> f.cy
    [] n = 3 -> ~f.cy
    [] n = 6 -> f.cy \/ f.z
    [] n = 7 -> ~(f.cy \/ f.z)

\* BNE, BE, BNV, BV, BP, BN.
FlagTaken(n, f) ==
  CASE n = 0 -> f.ov
    [] n = 1 -> ~f.ov
    [] n = 4 -> f.z
    [] n = 5 -> ~f.z
    [] n = 8 -> f.s
    [] n = 9 -> ~f.s

ALWAYS == 10
NEVER  == 11   \* TB among the loops

RefTaken(n, f) ==
  CASE n \in 12 .. 15     -> SignedTaken(n, f)
    [] n \in {2, 3, 6, 7} -> UnsignedTaken(n, f)
    [] n = ALWAYS         -> TRUE
    [] OTHER              -> FlagTaken(n, f)

GoTo(r, i, taken) == [r EXCEPT !.pc = (@ + IF taken THEN i.disp ELSE i.len) % WORD]

RefBranch(r, i) == GoTo(r, i, RefTaken(i.cond, CodesOf(r.psw)))

BranchToSubroutine(r, i) == GoTo(Push(r, (r.pc + i.len) % WORD), i, TRUE)

\* DBGT ... DBR: the register is decremented in any case.
DecrementAndBranch(r, i) ==
  LET left == (r.reg[i.to.reg] - 1) % WORD
  IN  GoTo([r EXCEPT !.reg[i.to.reg] = left], i, left # 0 /\ RefTaken(i.cond, CodesOf(r.psw)))

\* TB.
TestAndBranch(r, i) == GoTo(r, i, r.reg[i.to.reg] = 0)

\* opC6, opC7.
RefLoop(r, i) == IF i.cond = NEVER THEN TestAndBranch(r, i) ELSE DecrementAndBranch(r, i)

-----------------------------------------------------------------------------
(* An instruction.                                                         *)

Advance(r, i) == GoTo(r, i, FALSE)

RefOther(r, i) ==
  CASE i.op \in {"ALU_INC", "ALU_DEC", "SYS_TASI"} -> Advance(CountOperand(r, i), i)
    [] i.op = "GETPSW"     -> Advance(GetPSW(r, i), i)
    [] i.op = "CF_PREPARE" -> Advance(Prepare(r, i), i)
    [] i.op = "CF_PUSH"    -> Advance(PushOperand(r, i), i)
    [] i.op = "CF_POP"     -> Advance(PopOperand(r, i), i)
    [] i.op = "CF_PUSHM"   -> Advance(PushRegisters(r, i), i)
    [] i.op = "CF_POPM"    -> Advance(PopRegisters(r, i), i)
    [] i.op = "CF_DISPOSE" -> Advance(Dispose(r), i)
    [] i.op = "NOP"        -> Advance(r, i)
    [] i.op = "CF_JMP"     -> Jump(r, i)
    [] i.op = "CF_JSR"     -> JumpToSubroutine(r, i)
    [] i.op = "CF_RET"     -> Return(r, i)
    [] i.op = "CF_RETIU"   -> ReturnFromInterrupt(r, i)
    [] i.op = "CF_RSR"     -> ReturnFromSubroutine(r)
    [] i.op = "CF_BSR"     -> BranchToSubroutine(r, i)
    [] i.op = "BRANCH"     -> RefBranch(r, i)
    [] i.op = "CF_DBCC"    -> RefLoop(r, i)

RefInstruction(r, i) ==
  CASE i.format = "FMT_I"  -> Advance(RefTwoOperands(r, i), i)
    [] i.format = "FMT_II" -> Advance(RefFloat(r, i), i)
    [] OTHER               -> RefOther(r, i)
=============================================================================
