----------------------------- MODULE MCExecute -----------------------------
(***************************************************************************)
(* Execute with bytes of 2 bits, so that a word has 8 bits, a register     *)
(* list of 8 bits names all of 7 registers and the PSW, and memory of 32   *)
(* bytes.                                                                  *)
(***************************************************************************)
EXTENDS Execute, TLC

MCWidth == [s \in Size |-> CASE s = "SZ_BYTE" -> 2 [] s = "SZ_HALF" -> 4 [] s = "SZ_WORD" -> 8]
MCHalf  == [s \in Size |-> CASE s = "SZ_BYTE" -> 2 [] s = "SZ_HALF" -> 8 [] s = "SZ_WORD" -> 128]

\* A function of the operation and of the operands it has, that differs when they do.
MCFpu(op, a, b, f) ==
  LET x == IF op = "FP_SCLF" THEN a % 16 ELSE a
      y == IF op \in FpMoves \cup {"FP_NEGF", "FP_ABSF"} THEN 0 ELSE b
      v == CASE op = "FP_MOVF" -> a [] op = "FP_CVTWS" -> a + 67 [] OTHER -> 3 * x + 5 * y + 1
  IN  [val |-> v % 256,
       flags |-> [z |-> v % 2 = 0, s |-> v % 3 = 0, ov |-> v % 5 = 0, cy |-> v % 7 = 0]]

\* Registers and memory that differ from one another; the stacks are apart.
Mem == [b \in 0 .. 31 |-> (b * b + 3 * (b \div 3)) % 4]
Regs == [n \in 0 .. 6 |-> <<9, 2, 13, 86, 1, 22, 20>>[n + 1]]
MCMachines ==
  {[reg |-> Regs, pc |-> 5, psw |-> p, mem |-> Mem,
    preg |-> (ISP :> 28 @@ L0SP :> 16 @@ L1SP :> 24 @@ SBR :> 77)] :
     p \in {0, 15 + 32, 2 + 64, 4 + 128}}

-----------------------------------------------------------------------------
Op(mode, reg, d, d2) == [mode |-> mode, reg |-> reg, disp |-> d, disp2 |-> d2, index |-> NoIndex]
R(n)    == Op("Register", n, 0, 0)
Imm(v)  == Op("Immediate", 0, v, 0)
Quick(v) == Op("ImmediateQuick", 0, v, 0)
Nothing == Imm(0)

\* An operand in memory of every mode.
Automatic == {Op(mode, reg, 0, 0) : mode \in AMAuto, reg \in {2, 7}}
Direct_ == {Op("RegisterIndirect", 0, 0, 0), Op("RegisterIndirect", 7, 0, 0),
            Op("Displacement", 5, 3, 0), Op("Displacement", 0, 255, 0),
            Op("PCDisplacement", 0, 6, 0), Op("DirectAddress", 0, 30, 0)}
Pointers == {Op("DisplacementIndirect", 2, 1, 0), Op("PCDisplacementIndirect", 0, 250, 0),
             Op("DirectAddressDeferred", 0, 17, 0), Op("DoubleDisplacement", 7, 2, 5),
             Op("PCDoubleDisplacement", 0, 3, 254)}
InMem == Automatic \cup Direct_ \cup Pointers

Inst(f, op, size, dst, src, to) ==
  [format |-> f, op |-> op, size |-> size, dst |-> dst, src |-> src, to |-> to, cond |-> 0,
   disp |-> 0, len |-> 3]

\* One operand is a register, the other of any mode.
Pairs(regs, consts) ==
  {<<R(a), R(b)>> : a \in regs, b \in regs} \cup {<<c, R(b)>> : c \in consts, b \in regs}
  \cup {<<o, R(b)>> : o \in InMem, b \in regs} \cup {<<R(b), o>> : o \in InMem, b \in regs}

One(op, s) == {Inst("FMT_I", op, s, s, p[1], p[2]) : p \in Pairs({2, 3}, {Imm(1), Quick(2)})}
Sys(op, s, d) == {Inst("FMT_I", op, s, d, p[1], p[2]) : p \in Pairs({1, 2}, {Imm(2), Quick(1)})}

TwoOperands ==
  UNION {One(op, s) : op \in {"ALU_MOV", "ALU_ADD", "ALU_CMP", "ALU_SHL"}, s \in Size}
  \cup One("ALU_SUB", "SZ_WORD") \cup One("ALU_NEG", "SZ_HALF") \cup One("ALU_RVBYT", "SZ_WORD")
  \cup One("ALU_RVBIT", "SZ_BYTE")
  \cup {Inst("FMT_I", op, "SZ_WORD", "SZ_WORD", Imm(5), R(3)) : op \in {"ALU_SET1", "ALU_TEST1"}}
  \cup Sys("SYS_MOVSB", "SZ_BYTE", "SZ_HALF") \cup Sys("SYS_MOVZB", "SZ_BYTE", "SZ_WORD")
  \cup Sys("SYS_MOVSH", "SZ_HALF", "SZ_WORD") \cup Sys("SYS_MOVZH", "SZ_HALF", "SZ_WORD")
  \cup Sys("SYS_MOVT", "SZ_HALF", "SZ_BYTE") \cup Sys("SYS_MOVT", "SZ_WORD", "SZ_HALF")
  \cup Sys("SYS_MOVEA", "SZ_BYTE", "SZ_WORD") \cup Sys("SYS_MOVEA", "SZ_WORD", "SZ_WORD")
  \cup Sys("SYS_SETF", "SZ_BYTE", "SZ_BYTE") \cup Sys("SYS_UPDPSW", "SZ_WORD", "SZ_HALF")
  \cup Sys("SYS_UPDPSW", "SZ_WORD", "SZ_WORD") \cup Sys("SYS_LDPR", "SZ_WORD", "SZ_WORD")
  \cup Sys("SYS_STPR", "SZ_WORD", "SZ_WORD")
  \cup {Inst("FMT_I", op, "SZ_BYTE", "SZ_BYTE", Imm(1), R(7)) : op \in {"ALU_MOV", "ALU_CMP"}}

Float ==
  {Inst("FMT_II", op, "SZ_WORD", "SZ_WORD", a, b) :
     op \in {"FP_MOVF", "FP_CVTWS", "FP_ADDF", "FP_CMPF", "FP_SCLF"},
     a \in {R(2), Imm(11)} \cup Automatic \cup {Op("Displacement", 5, 3, 0)},
     b \in {R(2), R(3)} \cup Automatic \cup {Op("RegisterIndirect", 0, 0, 0)}}
  \cup {Inst("FMT_II", "FP_MOVF", "SZ_WORD", "SZ_WORD", R(1), Op("DirectAddress", 0, 8, 0)),
        Inst("FMT_II", "FP_NEGF", "SZ_WORD", "SZ_WORD", Op("DoubleDisplacement", 7, 2, 5), R(3))}

Single ==
  {Inst("FMT_III", op, s, s, Nothing, o) :
     op \in {"ALU_INC", "ALU_DEC"}, s \in Size, o \in {R(3), R(7)} \cup InMem}
  \cup {Inst("FMT_III", "SYS_TASI", "SZ_BYTE", "SZ_BYTE", Nothing, o) : o \in {R(3)} \cup InMem}
  \cup {Inst("FMT_III", "GETPSW", "SZ_WORD", "SZ_WORD", Nothing, o) : o \in {R(3)} \cup InMem}

Lists == {Imm(0), Imm(255), Imm(128 + 18), Imm(64 + 32 + 1), R(2)}
Controls ==
  {Inst("FMT_III", op, "SZ_WORD", "SZ_WORD", Nothing, o) :
     op \in {"CF_JMP", "CF_JSR"}, o \in InMem}
  \cup {Inst("FMT_III", op, "SZ_WORD", "SZ_WORD", Nothing, o) :
     op \in {"CF_PUSHM", "CF_POPM"}, o \in Lists}
  \cup {Inst("FMT_III", op, "SZ_WORD", "SZ_WORD", Nothing, o) :
     op \in {"CF_PUSH", "CF_PREPARE", "CF_RET", "CF_RETIU"},
     o \in {R(2), R(6), R(7), Imm(4), Quick(2), Op("RegisterIndirect", 0, 0, 0)}}
  \cup {Inst("FMT_III", "CF_POP", "SZ_WORD", "SZ_WORD", Nothing, o) :
     o \in {R(2), R(6), R(7), Op("RegisterIndirect", 0, 0, 0)}}
  \cup {Inst("FMT_V", op, "SZ_WORD", "SZ_WORD", Nothing, Nothing) :
     op \in {"NOP", "CF_RSR", "CF_DISPOSE"}}
  \cup {[Inst("FMT_IV", op, "SZ_WORD", "SZ_WORD", Nothing, Nothing)
            EXCEPT !.cond = c, !.disp = d] :
     op \in {"BRANCH"}, c \in 0 .. 15 \ {NEVER}, d \in {20, 250}}
  \cup {[Inst("FMT_IV", "CF_BSR", "SZ_WORD", "SZ_WORD", Nothing, Nothing) EXCEPT !.disp = 9]}
  \cup {[Inst("FMT_VI", "CF_DBCC", "SZ_WORD", "SZ_WORD", Nothing, R(n))
            EXCEPT !.cond = c, !.disp = 200] :
     n \in {3, 4}, c \in 0 .. 15}

MCInstructions == TwoOperands \cup Float \cup Single \cup Controls

\* What takes from the stack after what uses it.
Pops ==
  {Inst("FMT_III", "CF_POPM", "SZ_WORD", "SZ_WORD", Nothing, l) : l \in Lists}
  \cup {Inst("FMT_V", op, "SZ_WORD", "SZ_WORD", Nothing, Nothing) :
           op \in {"CF_RSR", "CF_DISPOSE"}}
  \cup {Inst("FMT_III", "CF_POP", "SZ_WORD", "SZ_WORD", Nothing, o) :
           o \in {R(4), R(6), R(7), Op("RegisterIndirect", 0, 0, 0)}}
  \cup {Inst("FMT_III", "CF_RET", "SZ_WORD", "SZ_WORD", Nothing, Imm(4))}
MCFollow(i) == IF i.op \in Control THEN Pops ELSE {}
=============================================================================
