------------------------------ MODULE Execute ------------------------------
(***************************************************************************)
(* The main state machine between two instructions (rtl/v60_control.sv)    *)
(* with the register file (rtl/v60_regfile.sv): the states an instruction  *)
(* goes through, the latches that carry its operands from one to the next, *)
(* and what each state reads and writes.                                   *)
(*                                                                         *)
(* A program is a sequence of decoded instructions; ReferenceExecute tells *)
(* what one is, and what the emulator makes of it.  A transfer on the bus  *)
(* is one step, its waiting left to BusIf and CpuBus.  Exceptions are      *)
(* Interrupt's; the floating-point unit is the function Fpu.               *)
(***************************************************************************)
EXTENDS ReferenceExecute

CONSTANTS
  Instructions,  \* what a program may begin with
  Follow(_),     \* what may follow an instruction
  Machines       \* the states of registers and memory a program begins in

Control == {"CF_JMP", "CF_JSR", "CF_BSR", "CF_RET", "CF_PREPARE", "CF_DISPOSE", "CF_PUSH",
            "CF_POP", "CF_PUSHM", "CF_POPM", "CF_RSR", "CF_RETIU", "CF_DBCC"}

\* What v60_decode.sv makes of an instruction; those on the stack and jumps are not of
\* the formats that have two operands.
Instruction ==
  {i \in [format : {"FMT_I", "FMT_II", "FMT_III", "FMT_IV", "FMT_V", "FMT_VI"}, op : STRING,
          size : Size, dst : Size, src : Operands, to : Operands, cond : 0 .. 15,
          disp : Word, len : Nat] :
     i.op \in Control => i.format \notin {"FMT_I", "FMT_II"}}

MachineState ==
  [reg : [0 .. SP - 1 -> Word], pc : Word, psw : Word, preg : [PrivilegedRegisters -> Word],
   mem : Memory]

\* A list of registers has a bit for each below the stack pointer and one for the PSW, and
\* there is memory for all of them.
ASSUME ExecuteAssumption ==
  /\ SP \in Nat /\ SP >= 2 /\ WordBits = SP + 1 /\ 4 * WordBits <= MEM
  /\ Instructions \subseteq Instruction
  /\ \A i \in Instructions : Follow(i) \subseteq Instruction
  /\ Machines \subseteq MachineState

VARIABLES
  state,   \* of the state machine
  inst,    \* inst_r
  m,       \* registers and memory
  t,       \* the latches of the state machine
  before,  \* m when the instruction was decoded
  past     \* the instruction before it, and m when that was decoded

vars == <<state, inst, m, t, before, past>>

NoInst == [format |-> "none", op |-> "none"]
NoPast == [inst |-> NoInst]

NoLatch == [addr |-> 0, addr2 |-> 0, data |-> 0, src |-> 0, ret |-> 0, psw |-> 0,
            fpsrc |-> 0, phase |-> 0, step |-> 0, bitmap |-> {}, reg |-> 0,
            indirect |-> FALSE, write |-> FALSE]

-----------------------------------------------------------------------------
(* The register file.                                                      *)

Reg(n) == IF n = SP THEN m.preg[StackOf(m.psw)] ELSE m.reg[n]

\* A write of size s: the stack pointer in use is written whole.
PutReg(q, n, s, v) ==
  IF n = SP THEN [q EXCEPT !.preg[StackOf(q.psw)] = v]
  ELSE [q EXCEPT !.reg[n] = SetReg(@, Length(s), v)]
PutWord(q, n, v) == PutReg(q, n, "SZ_WORD", v)

PutPC(q, a) == [q EXCEPT !.pc = a % WORD]

-----------------------------------------------------------------------------
(* The decoded instruction.                                                *)

InMemory(o) == o.mode \in AMMemory
is_mem_src == inst.format \in {"FMT_I", "FMT_II"} /\ InMemory(inst.src)
is_mem_dst == inst.format \in {"FMT_I", "FMT_II", "FMT_III"} /\ InMemory(inst.to)

Indirect(o) == o.mode \in {"DisplacementIndirect", "PCDisplacementIndirect",
                           "DirectAddressDeferred", "DoubleDisplacement",
                           "PCDoubleDisplacement"}

\* The operand in memory, if there is one.
Operand == IF is_mem_src THEN inst.src ELSE inst.to

SysOps  == {"SYS_MOVSB", "SYS_MOVZB", "SYS_MOVSH", "SYS_MOVZH", "SYS_MOVT", "SYS_MOVEA",
            "SYS_SETF", "SYS_UPDPSW", "SYS_LDPR", "SYS_STPR"}
Direct  == {"ALU_MOV", "ALU_RVBIT", "ALU_RVBYT"} \cup SysOps

writes_flags ==
  inst.op \notin {"ALU_MOV", "ALU_RVBIT", "ALU_RVBYT", "GETPSW", "FP_MOVF"}
                 \cup (SysOps \ {"SYS_MOVT"})

\* eff_addr_comb and eff_addr_comb2: an operand of n bytes, based on register b
\* and displaced by d.
AddressFrom(o, b, d, n) ==
  (CASE o.mode \in {"RegisterIndirect", "Autoincrement"} -> Reg(b)
     [] o.mode = "Autodecrement" -> Reg(b) - n
     [] o.mode \in {"Displacement", "DisplacementIndirect", "DoubleDisplacement"} -> Reg(b) + d
     [] o.mode \in {"PCDisplacement", "PCDisplacementIndirect", "PCDoubleDisplacement"} ->
          m.pc + d
     [] o.mode \in {"DirectAddress", "DirectAddressDeferred"} -> d) % WORD
EffAddr(o, n) == AddressFrom(o, o.reg, o.disp, n)

\* A register or a constant; of a quick constant some instructions read register 0.
Value(o) == IF o.mode = "Register" THEN Reg(o.reg) ELSE o.disp
ValueNoQuick(o) == IF o.mode = "ImmediateQuick" THEN Reg(o.reg) ELSE Value(o)

\* cf_operand_val: of an operand in memory the register that addresses it.
ControlValue(o) ==
  IF o.mode \in AMConstant THEN o.disp
  ELSE Reg(IF inst.op = "CF_PREPARE" THEN FP ELSE o.reg)

MemSize ==
  IF t.indirect \/ inst.op \in Control THEN 4
  ELSE IF inst.format = "FMT_II" THEN (IF inst.op = "FP_SCLF" /\ t.phase = 0 THEN 2 ELSE 4)
  ELSE IF inst.op \in RefShifts /\ is_mem_src THEN 1
  ELSE Length(inst.size)

-----------------------------------------------------------------------------
(* The arithmetic unit and the operations beside it.                       *)

Codes == CodesOf(m.psw)

Alu(a, b) ==
  IF inst.op \in SysOps \cup {"GETPSW"}   \* ALU_NOP
  THEN [result |-> a, flags |-> CodesOf(0)]
  ELSE IF inst.op = "SYS_TASI"
  THEN [AluOutcome("ALU_SUB", "SZ_BYTE", BYTE - 1, Cut(b, 1), Codes, FALSE)
          EXCEPT !.result = BYTE - 1]
  ELSE AluOutcome(inst.op, inst.size, a, b, Codes, FALSE)

Flagged(q, f) == IF writes_flags THEN WithCodes(q, f) ELSE q

\* SYS_MOVS and SYS_MOVZ.
Extended(a) ==
  CASE inst.op = "SYS_MOVSB" -> Number(a, 1) % WORD
    [] inst.op = "SYS_MOVZB" -> Cut(a, 1)
    [] inst.op = "SYS_MOVSH" -> Number(a, 2) % WORD
    [] inst.op = "SYS_MOVZH" -> Cut(a, 2)

\* SYS_MOVT: OV if the bits cut off are not copies of the sign.
Truncated(a) ==
  LET n    == Length(inst.dst)
      from == IF n = 1 /\ inst.size = "SZ_HALF" THEN 2 ELSE 4
      cut  == Cut(a, from) \div (BYTE ^ n)
      sign == IF Negative(a, n) THEN BYTE ^ (from - n) - 1 ELSE 0
  IN  WithCodes(PutReg(m, inst.to.reg, inst.dst, Cut(a, n)), [Codes EXCEPT !.ov = cut # sign])

\* SYS_UPDPSW: psw & ~mask | a & mask.
Selected(a, mask) ==
  LET bits == Bits(Cut(mask, IF inst.dst = "SZ_HALF" THEN 2 ELSE 3))
  IN  FromBits((Bits(m.psw) \ bits) \cup (Bits(a) \cap bits))

\* preg_addr: the lowest bits, as many as number the privileged registers.
PregAddr(a) == a % (SBR + 1)

\* The registers after a system instruction with the value a and the destination
\* register: in ST_EXECUTE, or in ST_EXECUTE2 when a was read from memory.
SystemResult(a, address) ==
  LET put(v) == PutReg(m, inst.to.reg, inst.dst, v)
  IN CASE inst.op \in {"SYS_MOVSB", "SYS_MOVZB", "SYS_MOVSH", "SYS_MOVZH"} -> put(Extended(a))
       [] inst.op = "SYS_MOVT"   -> Truncated(a)
       [] inst.op = "SYS_MOVEA"  -> put(address)
       [] inst.op = "SYS_SETF"   ->
            put(IF CondMet(Codes, Conditions[(Cut(a, 1) % 16) + 1]) THEN 1 ELSE 0)
       [] inst.op = "SYS_UPDPSW" -> [m EXCEPT !.psw = Selected(a, Reg(inst.to.reg))]
       [] inst.op = "SYS_LDPR"   -> [m EXCEPT !.preg[PregAddr(Reg(inst.to.reg))] = a]
       [] inst.op = "SYS_STPR"   -> put(m.preg[PregAddr(a)])

-----------------------------------------------------------------------------
(* ST_DECODE                                                               *)

Init ==
  /\ state = "ST_DECODE" /\ inst = NoInst /\ m \in Machines /\ t = NoLatch
  /\ before = m /\ past = NoPast

\* The first instruction of the program, or the second.
Decode ==
  /\ state = "ST_DECODE"
  /\ \/ inst = NoInst /\ inst' \in Instructions /\ past' = NoPast
     \/ /\ inst # NoInst /\ past = NoPast
        /\ inst' \in Follow(inst) /\ past' = [inst |-> inst, m |-> before]
  /\ before' = m
  /\ state' = "ST_EXECUTE" /\ UNCHANGED <<m, t>>

\* The last one is HALT.
Halt ==
  /\ state = "ST_DECODE" /\ inst # NoInst
  /\ state' = "ST_HALT" /\ UNCHANGED <<inst, m, t, before, past>>

\* A step of the instruction being executed.
Go(from, to, q, l) ==
  /\ state = from /\ state' = to /\ m' = q /\ t' = l
  /\ UNCHANGED <<inst, before, past>>

-----------------------------------------------------------------------------
(* ST_EXECUTE                                                              *)

ToWriteback(q) == Go("ST_EXECUTE", "ST_WRITEBACK", q, t)

\* Format I on a register and a register or constant.
ExecuteAlu ==
  LET o == Alu(Value(inst.src), Reg(inst.to.reg))
  IN /\ inst.format = "FMT_I" /\ ~is_mem_src /\ ~is_mem_dst /\ inst.op \notin SysOps
     /\ ToWriteback(IF inst.op \in RefCompares THEN Flagged(m, o.flags)
                    ELSE Flagged(PutReg(m, inst.to.reg, inst.size, o.result), o.flags))

ExecuteSystem ==
  /\ inst.format = "FMT_I" /\ ~is_mem_src /\ ~is_mem_dst /\ inst.op \in SysOps
  /\ ToWriteback(SystemResult(
       IF inst.op \in {"SYS_MOVSH", "SYS_MOVZH", "SYS_MOVT"} THEN ValueNoQuick(inst.src)
       ELSE Value(inst.src),
       IF inst.src.mode = "Register" THEN inst.src.reg ELSE inst.src.disp))

\* Format III on a register: GETPSW, TASI, INC and DEC.
ExecuteSingle ==
  LET old == Reg(inst.to.reg)
      o   == Alu(IF inst.op = "GETPSW" THEN m.psw ELSE old, old)
  IN /\ inst.format = "FMT_III" /\ ~is_mem_dst /\ inst.op \notin Control
     /\ ToWriteback(Flagged(PutReg(m, inst.to.reg, inst.size, o.result), o.flags))

\* NOP, and DBcc and TB, which do all of their work in ST_WRITEBACK.
ExecuteNothing == inst.op \in {"NOP", "CF_DBCC"} /\ ToWriteback(m)

Taken == CondMet(Codes, Conditions[inst.cond + 1])

ExecuteBranch ==
  /\ inst.op = "BRANCH"
  /\ ToWriteback(IF Taken THEN PutPC(m, m.pc + inst.disp) ELSE m)

\* What is written to memory without a read: the source register, converted.
DirectData(b) ==
  CASE inst.op = "ALU_RVBIT" -> ReverseBits(b)
    [] inst.op = "ALU_RVBYT" -> ReverseBytes(b)
    [] inst.op \in {"SYS_MOVSB", "SYS_MOVZB", "SYS_MOVSH", "SYS_MOVZH"} -> Extended(b)
    [] inst.op \in {"ALU_MOV", "SYS_MOVT", "SYS_SETF", "SYS_STPR", "SYS_MOVEA"} -> b
    [] OTHER -> t.data

\* Formats I and III with an operand in memory.
ExecuteMemory ==
  LET o    == Operand
      a    == EffAddr(o, Length(inst.size))
      b    == IF is_mem_dst THEN Reg(inst.src.reg) ELSE 0
      done == inst.op = "SYS_MOVEA" /\ is_mem_src /\ ~Indirect(o)
  IN /\ inst.format \in {"FMT_I", "FMT_III"} /\ inst.op \notin Control
     /\ is_mem_src \/ is_mem_dst
     /\ Go("ST_EXECUTE",
          IF done THEN "ST_WRITEBACK"
          ELSE IF is_mem_dst /\ inst.op \in Direct /\ ~Indirect(o) THEN "ST_MEM_WRITE"
          ELSE "ST_MEM_READ",
          IF done THEN PutWord(m, inst.to.reg, a)
          ELSE IF o.mode = "Autodecrement" THEN PutWord(m, o.reg, a) ELSE m,
          [t EXCEPT !.addr = a, !.indirect = Indirect(o),
             !.data = IF is_mem_dst THEN DirectData(b) ELSE @,
             !.src = IF is_mem_dst /\ inst.op \in Direct \ {"SYS_UPDPSW", "SYS_LDPR"}
                     THEN b ELSE @,
             !.write = is_mem_dst /\ inst.op \notin SysOps \cup RefCompares \cup {"ALU_MOV"}])

\* JMP: the target is known unless a pointer is to be read.
ExecuteJump ==
  LET a == EffAddr(inst.to, Length(inst.size))
  IN /\ inst.op = "CF_JMP"
     /\ IF Indirect(inst.to)
        THEN Go("ST_EXECUTE", "ST_MEM_READ", m, [t EXCEPT !.addr = a, !.indirect = TRUE])
        ELSE ToWriteback(PutPC(m, a))

\* JSR, BSR: the return address is written, and the target kept.
ExecuteCall ==
  LET a    == IF inst.op = "CF_BSR" THEN (m.pc + inst.disp) % WORD
              ELSE EffAddr(inst.to, Length(inst.size))
      next == (m.pc + inst.len) % WORD
      sp   == (Reg(SP) - 4) % WORD
  IN /\ inst.op \in {"CF_JSR", "CF_BSR"}
     /\ IF inst.op = "CF_JSR" /\ Indirect(inst.to)
        THEN Go("ST_EXECUTE", "ST_MEM_READ", m,
                   [t EXCEPT !.addr = a, !.indirect = TRUE, !.data = next, !.src = sp])
        ELSE Go("ST_EXECUTE", "ST_MEM_WRITE", m,
                   [t EXCEPT !.addr = sp, !.data = next, !.src = a])

\* PUSH, and PREPARE, which pushes FP.
ExecutePush ==
  LET v == ControlValue(inst.to)
  IN /\ inst.op \in {"CF_PUSH", "CF_PREPARE"}
     /\ Go("ST_EXECUTE", "ST_MEM_WRITE", m,
          IF inst.op = "CF_PUSH" THEN [t EXCEPT !.addr = (Reg(SP) - 4) % WORD, !.data = v]
          ELSE [t EXCEPT !.addr = (Reg(SP) - 4) % WORD, !.data = Reg(FP), !.src = v, !.step = 1])

\* DISPOSE, POP, RSR, RET and RETIU: the stack is read.
ExecutePop ==
  LET l == [t EXCEPT !.addr = Reg(IF inst.op = "CF_DISPOSE" THEN FP ELSE SP)]
  IN /\ inst.op \in {"CF_DISPOSE", "CF_POP", "CF_RSR", "CF_RET", "CF_RETIU"}
     /\ Go("ST_EXECUTE", "ST_MEM_READ", m,
          IF inst.op \notin {"CF_RET", "CF_RETIU"} THEN l
          ELSE [l EXCEPT !.src = ControlValue(inst.to),
                         !.step = IF inst.op = "CF_RET" THEN 2 ELSE 0])

\* PUSHM, POPM: the list of registers is kept.
ExecuteList ==
  /\ inst.op \in {"CF_PUSHM", "CF_POPM"}
  /\ Go("ST_EXECUTE", "ST_EXECUTE2", m,
       [t EXCEPT !.addr = Reg(SP), !.bitmap = Bits(ControlValue(inst.to)),
                 !.step = IF inst.op = "CF_PUSHM" THEN 1 ELSE 0])

\* Format II on registers and constants.
ExecuteFp ==
  LET o == Fpu(inst.op, Value(inst.src), Reg(inst.to.reg), Codes)
  IN /\ inst.format = "FMT_II" /\ ~is_mem_src /\ ~is_mem_dst
     /\ ToWriteback(Flagged(IF inst.op = "FP_CMPF" THEN m
                            ELSE PutWord(m, inst.to.reg, o.val), o.flags))

\* With an operand in memory.  addr is that of the first operand; if only the second
\* is in memory it is taken with the register and the displacement of the first.
ExecuteFpMemory ==
  LET a1 == IF is_mem_src THEN EffAddr(inst.src, 4)
            ELSE AddressFrom(inst.to, inst.src.reg, inst.src.disp, 4)
      a2 == IF is_mem_dst THEN EffAddr(inst.to, 4) ELSE 0
  IN /\ inst.format = "FMT_II"
     /\ is_mem_src \/ is_mem_dst
     /\ Go("ST_EXECUTE",
          IF ~is_mem_src /\ inst.op \in FpMoves THEN "ST_MEM_WRITE" ELSE "ST_MEM_READ",
          IF inst.src.mode = "Autodecrement" THEN PutWord(m, inst.src.reg, a1)
          ELSE IF inst.to.mode = "Autodecrement" THEN PutWord(m, inst.to.reg, a2) ELSE m,
          [t EXCEPT !.addr = a1, !.addr2 = a2, !.phase = 0, !.write = FALSE, !.indirect = FALSE,
                    !.fpsrc = IF is_mem_src THEN @ ELSE Value(inst.src)])

-----------------------------------------------------------------------------
(* ST_MEM_READ, ST_MEM_WRITE                                               *)

ReadMemory ==
  Go("ST_MEM_READ", "ST_EXECUTE2", m, [t EXCEPT !.data = Load(m.mem, t.addr, MemSize)])

Written(a, n, v) == [m EXCEPT !.mem = Store(@, a, n, v)]

\* Faulty variant: the request for a write is not taken back.
StillWanted(l) == l

Served(l) == [l EXCEPT !.write = FALSE]

\* A system instruction writes an operand of its second size.
WriteMemory ==
  LET n == IF inst.op \in Control \/ inst.format = "FMT_II" THEN 4
           ELSE IF inst.op \in SysOps \cup {"SYS_TASI"} THEN Length(inst.dst)
           ELSE Length(inst.size)
  IN /\ inst.op # "CF_PUSHM" /\ ~(inst.op \in FpMoves /\ t.phase = 0)
     /\ Go("ST_MEM_WRITE", "ST_WRITEBACK", Written(t.addr, n, t.data), Served(t))

\* MOVF, CVTWS and CVTSW of a register: the unit's result.
WriteFpResult ==
  LET o == Fpu(inst.op, t.fpsrc, 0, Codes)
  IN /\ inst.op \in FpMoves /\ t.phase = 0
     /\ Go("ST_MEM_WRITE", "ST_WRITEBACK", Flagged(Written(t.addr, 4, o.val), o.flags),
           Served(t))

\* PUSHM: the register, or the PSW, and the next of the list.
WriteOfList ==
  LET a == (t.addr - 4) % WORD
  IN /\ inst.op = "CF_PUSHM"
     /\ Go("ST_MEM_WRITE", "ST_EXECUTE2",
           Written(a, 4, IF t.reg = PSW_BIT THEN m.psw ELSE Reg(t.reg)),
           Served([t EXCEPT !.addr = a, !.bitmap = @ \ {t.reg}]))

-----------------------------------------------------------------------------
(* ST_EXECUTE2: data is what was read.                                     *)

Execute2(to, q, l) == Go("ST_EXECUTE2", to, q, l)

\* A pointer was read, to an operand; a MOV to there is ready to be written.
FollowPointer ==
  LET a     == (t.data + Operand.disp2) % WORD
      ready == is_mem_dst /\ inst.op = "ALU_MOV"
  IN /\ inst.op \notin Control /\ t.indirect
     /\ Execute2(IF ready THEN "ST_MEM_WRITE" ELSE "ST_MEM_READ", m,
                 [t EXCEPT !.addr = a, !.indirect = FALSE,
                           !.data = IF ready THEN t.src ELSE @])

AluOfRead ==
  LET o == Alu(t.data, Reg(inst.to.reg))
  IN /\ inst.format = "FMT_I" /\ is_mem_src /\ inst.op \notin SysOps /\ ~t.indirect
     /\ Execute2("ST_WRITEBACK",
          Flagged(IF inst.op \in RefCompares THEN m
                  ELSE PutReg(m, inst.to.reg, inst.size, o.result), o.flags), t)

SystemOfRead ==
  /\ inst.format = "FMT_I" /\ is_mem_src /\ inst.op \in SysOps /\ ~t.indirect
  /\ Execute2("ST_WRITEBACK",
              SystemResult(t.data, (t.data + Operand.disp2) % WORD), t)

\* The operand read is the second one, or the only one.
ChangeRead ==
  LET o == IF inst.format = "FMT_I" THEN Alu(Value(inst.src), t.data) ELSE Alu(t.data, t.data)
  IN /\ inst.format \in {"FMT_I", "FMT_III"} /\ inst.op \notin Control
     /\ is_mem_dst /\ ~t.indirect
     /\ Execute2(IF t.write THEN "ST_MEM_WRITE" ELSE "ST_WRITEBACK", Flagged(m, o.flags),
                 IF t.write THEN [t EXCEPT !.data = o.result] ELSE t)

JumpOfRead ==
  /\ inst.op = "CF_JMP"
  /\ Execute2("ST_WRITEBACK", PutPC(m, t.data + inst.to.disp2), [t EXCEPT !.indirect = FALSE])

\* JSR comes through this state twice.
CallOfRead ==
  /\ inst.op = "CF_JSR"
  /\ IF t.indirect
     THEN Execute2("ST_EXECUTE2", m,
                   [t EXCEPT !.indirect = FALSE, !.src = (t.data + inst.to.disp2) % WORD,
                             !.addr = (Reg(SP) - 4) % WORD, !.data = (m.pc + inst.len) % WORD])
     ELSE Execute2("ST_MEM_WRITE", m, t)

\* RET pops PC and AP, RETIU the PC and the PSW.
PopOfReturn ==
  LET first == t.step = IF inst.op = "CF_RET" THEN 2 ELSE 0
      next  == (t.addr + 4) % WORD
  IN /\ inst.op \in {"CF_RET", "CF_RETIU"}
     /\ IF first
        THEN Execute2("ST_MEM_READ", m, [t EXCEPT !.ret = t.data, !.addr = next, !.step = 1])
        ELSE IF inst.op = "CF_RET"
        THEN Execute2("ST_WRITEBACK", PutWord(m, AP, t.data),
                      [t EXCEPT !.addr = next, !.step = 0])
        ELSE Execute2("ST_WRITEBACK", m, [t EXCEPT !.psw = t.data])

\* DISPOSE, POP and RSR: FP, a register, the PC.
PopOfOne ==
  /\ inst.op \in {"CF_DISPOSE", "CF_POP", "CF_RSR"}
  /\ Execute2("ST_WRITEBACK",
       IF inst.op = "CF_DISPOSE" THEN PutWord(m, FP, t.data)
       ELSE IF inst.op = "CF_POP" /\ inst.to.mode = "Register"
       THEN PutWord(m, inst.to.reg, t.data)
       ELSE m,
       IF inst.op = "CF_RSR" THEN [t EXCEPT !.ret = t.data] ELSE t)

bitmap_lowest == Min(t.bitmap)

\* Faulty variant: registers are pushed in the order in which they are popped.
bitmap_first == bitmap_lowest

bitmap_highest == Max(t.bitmap)

PushNext ==
  /\ inst.op = "CF_PUSHM"
  /\ IF t.bitmap = {} THEN Execute2("ST_WRITEBACK", m, t)
     ELSE Execute2("ST_MEM_WRITE", m, [t EXCEPT !.reg = bitmap_highest])

PopNext ==
  /\ inst.op = "CF_POPM" /\ t.step = 0
  /\ IF t.bitmap = {} THEN Execute2("ST_WRITEBACK", m, t)
     ELSE Execute2("ST_MEM_READ", m, [t EXCEPT !.reg = bitmap_lowest, !.step = 1])

\* Faulty variant: the register stays in the list.
StillListed(l) == [l EXCEPT !.addr = (@ + 4) % WORD, !.step = 0]

Popped(l) == [l EXCEPT !.bitmap = @ \ {l.reg}, !.addr = (@ + 4) % WORD, !.step = 0]

\* Of the PSW the lower half is taken.
PopOfList ==
  /\ inst.op = "CF_POPM" /\ t.step = 1
  /\ Execute2("ST_EXECUTE2",
       IF t.reg = PSW_BIT THEN [m EXCEPT !.psw = SetReg(@, 2, t.data)]
       ELSE PutWord(m, t.reg, t.data), Popped(t))

\* Format II: the first operand was read, or what is taken for it.
FpOfFirst ==
  LET o == Fpu(inst.op, t.data, Reg(inst.to.reg), Codes)
      l == [t EXCEPT !.fpsrc = t.data, !.phase = 1]
  IN /\ inst.format = "FMT_II" /\ t.phase = 0
     /\ IF is_mem_dst
        THEN Execute2(IF inst.op \in FpMoves THEN "ST_MEM_WRITE" ELSE "ST_MEM_READ", m,
                      [l EXCEPT !.addr = t.addr2])
        ELSE Execute2("ST_WRITEBACK",
                      Flagged(IF inst.op = "FP_CMPF" THEN m
                              ELSE PutWord(m, inst.to.reg, o.val), o.flags), l)

FpOfSecond ==
  LET o == Fpu(inst.op, t.fpsrc, t.data, Codes)
  IN /\ inst.format = "FMT_II" /\ t.phase = 1
     /\ Execute2(IF inst.op = "FP_CMPF" THEN "ST_WRITEBACK" ELSE "ST_MEM_WRITE",
                 Flagged(m, o.flags), [t EXCEPT !.data = o.val, !.addr = t.addr2])

-----------------------------------------------------------------------------
(* ST_WRITEBACK                                                            *)

Retire(q) == Go("ST_WRITEBACK", "ST_DECODE", q, t)
NextPC(q) == PutPC(q, m.pc + inst.len)

RetireJump == inst.op = "CF_JMP" /\ Retire(m)

RetireCall == inst.op \in {"CF_JSR", "CF_BSR"} /\ Retire(PutPC(PutWord(m, SP, t.addr), t.src))

\* Faulty variant: the stack pointer written is that of the PSW restored.
RestoreFirst(sp) == PutWord([m EXCEPT !.psw = t.psw], SP, sp)

\* RETIU: the stack pointer written is that of the PSW before.
Restore(sp) == [PutWord(m, SP, sp) EXCEPT !.psw = t.psw]

RetireReturn ==
  LET q == CASE inst.op = "CF_RSR"   -> PutWord(m, SP, (t.addr + 4) % WORD)
             [] inst.op = "CF_RET"   -> PutWord(m, SP, (t.addr + t.src) % WORD)
             [] inst.op = "CF_RETIU" -> Restore((t.addr + 4 + t.src) % WORD)
  IN /\ inst.op \in {"CF_RSR", "CF_RET", "CF_RETIU"}
     /\ Retire(PutPC(q, t.ret))

\* PREPARE: the first time round FP is written, the second time SP.
RetirePrepare ==
  /\ inst.op = "CF_PREPARE"
  /\ IF t.step > 0
     THEN Go("ST_WRITEBACK", "ST_WRITEBACK", PutWord(m, FP, t.addr), [t EXCEPT !.step = @ - 1])
     ELSE Retire(NextPC(PutWord(m, SP, (t.addr - t.src) % WORD)))

RetireStack ==
  LET sp == IF inst.op \in {"CF_DISPOSE", "CF_POP"} THEN t.addr + 4 ELSE t.addr
  IN /\ inst.op \in {"CF_DISPOSE", "CF_PUSH", "CF_POP", "CF_PUSHM", "CF_POPM"}
     /\ Retire(NextPC(PutWord(m, SP, sp % WORD)))

\* TB has the condition that is never met.
RetireLoop ==
  LET n    == Reg(inst.to.reg)
      left == (n - 1) % WORD
      to   == m.pc + inst.disp
  IN /\ inst.op = "CF_DBCC"
     /\ IF Conditions[inst.cond + 1] = "CC_NOP"
        THEN Retire(IF n = 0 THEN PutPC(m, to) ELSE NextPC(m))
        ELSE LET q == PutWord(m, inst.to.reg, left)
             IN  Retire(IF left # 0 /\ Taken THEN PutPC(q, to) ELSE NextPC(q))

\* The register of an auto-increment is written from the address used.
Incremented(q) ==
  IF inst.format = "FMT_II"
  THEN IF inst.src.mode = "Autoincrement" THEN PutWord(q, inst.src.reg, (t.addr + 4) % WORD)
       ELSE IF inst.to.mode = "Autoincrement" THEN PutWord(q, inst.to.reg, (t.addr2 + 4) % WORD)
       ELSE q
  ELSE IF (is_mem_src \/ is_mem_dst) /\ Operand.mode = "Autoincrement"
  THEN PutWord(q, Operand.reg, (t.addr + Length(inst.size)) % WORD)
  ELSE q

RetireOther ==
  /\ inst.op \notin Control
  /\ Retire(IF inst.op = "BRANCH" /\ Taken THEN m ELSE NextPC(Incremented(m)))

Execute ==
  \/ ExecuteAlu \/ ExecuteSystem \/ ExecuteSingle \/ ExecuteNothing \/ ExecuteBranch
  \/ ExecuteMemory \/ ExecuteJump \/ ExecuteCall \/ ExecutePush \/ ExecutePop
  \/ ExecuteList \/ ExecuteFp \/ ExecuteFpMemory

Access == ReadMemory \/ WriteMemory \/ WriteFpResult \/ WriteOfList

ExecuteAgain ==
  \/ FollowPointer \/ AluOfRead \/ SystemOfRead \/ ChangeRead \/ JumpOfRead \/ CallOfRead
  \/ PopOfReturn \/ PopOfOne \/ PushNext \/ PopNext \/ PopOfList \/ FpOfFirst \/ FpOfSecond

Writeback ==
  \/ RetireJump \/ RetireCall \/ RetireReturn \/ RetirePrepare \/ RetireStack
  \/ RetireLoop \/ RetireOther

Next == Decode \/ Halt \/ Execute \/ Access \/ ExecuteAgain \/ Writeback

\* The state machine is clocked: an instruction that can go on does.
Spec == Init /\ [][Next]_vars /\ WF_vars(Execute \/ Access \/ ExecuteAgain \/ Writeback)

-----------------------------------------------------------------------------
(* Properties                                                              *)

\* Everything is of its type: a latch never holds more than a word, and a list of
\* registers is empty when its instruction is over.
TypeOK ==
  /\ state \in {"ST_DECODE", "ST_EXECUTE", "ST_EXECUTE2", "ST_MEM_READ", "ST_MEM_WRITE",
                "ST_WRITEBACK", "ST_HALT"}
  /\ m.reg \in [0 .. SP - 1 -> Word] /\ m.pc \in Word /\ m.psw \in Word
  /\ m.preg \in [PrivilegedRegisters -> Word] /\ m.mem \in Memory
  /\ {t.addr, t.addr2, t.data, t.src, t.ret, t.psw, t.fpsrc} \subseteq Word
  /\ t.phase \in {0, 1} /\ t.step \in 0 .. 2 /\ t.reg \in 0 .. SP
  /\ t.bitmap \subseteq 0 .. WordBits - 1
  /\ state = "ST_DECODE" => t.bitmap = {} /\ ~t.indirect /\ ~t.write

\* The state of the reference that m stands for.  It keeps the stack pointer in use
\* as a register, and not with the privileged ones.
View(q) ==
  [q EXCEPT !.reg = [n \in 0 .. SP |-> IF n = SP THEN q.preg[StackOf(q.psw)] ELSE q.reg[n]]]
Seen(r) == [r EXCEPT !.preg[StackOf(r.psw)] = 0]

Same(o, p) == o.mode \in AMAuto /\ p.mode = "Register" /\ o.reg = p.reg
OfSP(i)    == i.to.mode = "Register" /\ i.to.reg = SP

\* Where the core is known to leave another state than the reference: two operands.
TwoOperandsDepart(i, r) ==
  LET src  == InMemory(i.src)
      dst  == InMemory(i.to)
      sys  == i.op \in SysOps
      auto == i.src.mode \in AMAuto
      preg == IF i.op = "SYS_STPR" THEN ReadAM(r, i.src, 4).val ELSE ReadAM(r, i.to, 4).val
  IN \* A byte or half word for the stack pointer is written as a word.
     \/ i.op \notin RefCompares /\ OfSP(i) /\ i.dst # "SZ_WORD"
     \* MOVEA of an indirect operand is what lies there, not its address.
     \/ /\ i.op = "SYS_MOVEA"
        /\ Indirect(i.src) \/ (i.src.mode = "Autodecrement" /\ ~Same(i.src, i.to))
     \* The increment is written after the result.
     \/ /\ i.src.mode = "Autoincrement" /\ Same(i.src, i.to)
        /\ i.op \notin RefCompares \cup {"SYS_UPDPSW"}
     \* The other operand is read after the decrement.
     \/ /\ i.src.mode = "Autodecrement" /\ Same(i.src, i.to)
        /\ i.op \in RefCompares \cup {"SYS_UPDPSW"}
     \/ i.to.mode = "Autodecrement" /\ Same(i.to, i.src) /\ i.op \notin Direct
     \* The step is the size of the other operand.
     \/ auto /\ i.op \in RefShifts /\ i.size # "SZ_BYTE"
     \/ i.to.mode \in AMAuto /\ i.dst # i.size
     \* A system instruction to memory writes the source, or nothing, and keeps OV.
     \/ dst /\ i.op \in {"SYS_SETF", "SYS_STPR", "SYS_MOVEA", "SYS_UPDPSW", "SYS_LDPR"}
     \/ dst /\ sys /\ Indirect(i.to)
     \/ dst /\ i.op = "SYS_MOVT" /\ CopyOperand(r, i).psw # r.psw
     \* A quick constant is not read.
     \/ i.src.mode = "ImmediateQuick" /\ i.op \in {"SYS_MOVSH", "SYS_MOVZH", "SYS_MOVT"}
     \* LDPR from memory loads what lies there, not its address.
     \/ i.op = "SYS_LDPR" /\ src
     \* The reference keeps the stack pointer in use in two places.
     \/ i.op \in {"SYS_LDPR", "SYS_STPR"} /\ preg \notin PrivilegedRegisters \ {StackOf(r.psw)}

\* Floating point.
FpDeparts(i) ==
  LET src == InMemory(i.src)
      dst == InMemory(i.to)
  IN \* The second operand is looked for with the first one's register.
     \/ ~src /\ dst
     \* The first operand is written unconverted.
     \/ src /\ dst /\ i.op \in {"FP_CVTWS", "FP_CVTSW"}
     \* A pointer is not followed.
     \/ Indirect(i.src) \/ Indirect(i.to)
     \* The half word of SCLF is stepped over as a word.
     \/ i.op = "FP_SCLF" /\ i.src.mode \in AMAuto
     \* The address is that of the second operand when the first is incremented.
     \/ i.src.mode = "Autoincrement" /\ (dst \/ Same(i.src, i.to))
     \* One register is decremented; the second address is taken before that.
     \/ /\ i.src.mode = "Autodecrement" /\ dst
        /\ i.to.reg = i.src.reg \/ i.to.mode = "Autodecrement"

\* One operand, or none.
ControlDeparts(i, r) ==
  LET dst  == InMemory(i.to)
      auto == i.to.mode \in AMAuto
  IN \* Registers that a jump steps stay; an operand in memory is not read.
     \/ i.op \in {"CF_JMP", "CF_JSR"} /\ auto
     \/ i.op \in {"CF_PUSH", "CF_POP", "CF_PUSHM", "CF_POPM", "CF_PREPARE", "CF_RET",
                  "CF_RETIU"} /\ dst
     \/ i.op = "CF_PREPARE" /\ i.to.mode = "Register" /\ i.to.reg # FP
     \* The stack pointer popped is overwritten.
     \/ i.op = "CF_POP" /\ OfSP(i)
     \* A half word of a register is not cut off.
     \/ i.op = "CF_RETIU" /\ i.to.mode = "Register" /\ r.reg[i.to.reg] >= BYTE ^ 2
     \* GETPSW to memory writes back what it read.
     \/ i.op = "GETPSW" /\ dst
     \/ i.op \in {"ALU_INC", "ALU_DEC", "SYS_TASI"} /\ OfSP(i) /\ i.size # "SZ_WORD"

Departs(i, r) ==
  CASE i.format = "FMT_I"  -> TwoOperandsDepart(i, r)
    [] i.format = "FMT_II" -> FpDeparts(i)
    [] OTHER               -> ControlDeparts(i, r)

Over == state = "ST_DECODE" /\ inst # NoInst

\* An instruction leaves registers, memory, PSW and PC as the reference does in all
\* but the cases listed, whatever modes its operands have and in however many states
\* the state machine reads and writes them.
LikeReference ==
  Over => \/ Departs(inst, View(before))
          \/ Seen(View(m)) = Seen(RefInstruction(View(before), inst))

\* What was saved is found again: the return address and the stack pointer behind a
\* call, FP and SP behind a frame, a register behind PUSH, all the registers and the
\* lower half of the PSW that a list names behind PUSHM.
RoundTrip ==
  LET p   == past.inst
      old == View(past.m)
      new == View(m)
  IN Over /\ past # NoPast =>
       /\ p.op \in {"CF_JSR", "CF_BSR"} /\ inst.op = "CF_RSR" =>
            new = [old EXCEPT !.pc = (@ + p.len) % WORD, !.mem = new.mem]
       /\ p.op = "CF_PREPARE" /\ inst.op = "CF_DISPOSE" => new.reg = old.reg
       /\ /\ p.op = "CF_PUSH" /\ ~InMemory(p.to)
          /\ inst.op = "CF_POP" /\ inst.to.mode = "Register" /\ ~OfSP(inst)
          => new.reg = [old.reg EXCEPT ![inst.to.reg] =
                         IF p.to.mode = "Register" THEN old.reg[p.to.reg] ELSE p.to.disp]
       /\ /\ p.op = "CF_PUSHM" /\ inst.op = "CF_POPM"
          /\ inst.to = p.to /\ p.to.mode \in AMConstant
          => new.reg = old.reg /\ Cut(new.psw, 2) = Cut(old.psw, 2)

\* An instruction is over after finitely many states, however long its list of
\* registers is and however its operand is found.
InstructionEnds == (state = "ST_EXECUTE") ~> (state = "ST_DECODE")

=============================================================================
