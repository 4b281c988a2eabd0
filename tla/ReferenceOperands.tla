------------------------- MODULE ReferenceOperands -------------------------
(***************************************************************************)
(* The operands of the emulator the core is compared with                  *)
(* (mame/src/am1.hxx, am2.hxx, am3.hxx): the value of an operand, its      *)
(* address, or the writing of it, for every addressing mode, plain and     *)
(* indexed, and for operands that are strings of bits.                     *)
(*                                                                         *)
(* r is the emulator's state: its registers reg, of which the last ones    *)
(* are AP, FP and SP, and pc, mem.  An operand is its mode, its register,  *)
(* its displacements and the register of its index, if it has one.  The    *)
(* three sizes of a displacement, for which the source has a routine each, *)
(* are one.                                                                *)
(***************************************************************************)
EXTENDS Machine

CONSTANT SP   \* the number of the stack pointer, the last register; 31 in the code

NoIndex == -1

AMRegister == {"Register"}
AMConstant == {"Immediate", "ImmediateQuick"}
AMAuto     == {"Autoincrement", "Autodecrement"}
AMPlain    == {"RegisterIndirect", "Displacement", "DisplacementIndirect",
               "PCDisplacement", "PCDisplacementIndirect",
               "DirectAddress", "DirectAddressDeferred"}
AMDouble   == {"DoubleDisplacement", "PCDoubleDisplacement"}
AMMemory   == AMAuto \cup AMPlain \cup AMDouble
AMIndexed  == AMPlain

Operands ==
  [mode : AMRegister \cup AMConstant \cup AMMemory, reg : 0 .. SP,
   disp : Word, disp2 : Word, index : 0 .. SP \cup {NoIndex}]

-----------------------------------------------------------------------------
(* The address of a memory operand in two parts, `at' and `off': an        *)
(* operand of bytes lies at their sum, one of bits `off' bits from `at'.   *)

Parts(a, o) == [at |-> a, off |-> o]

\* The index counts operands of n bytes; n is 1 in an operand of bits.
Index(r, o) == r.reg[o.index]

\* am2RegisterIndirect, am2Autoincrement, am2Autodecrement (where the register
\* has been decremented).
RegisterParts(r, o) ==
  Parts(r.reg[o.reg], IF o.index = NoIndex THEN 0 ELSE Index(r, o))

\* am2Displacement8 ... bam2DisplacementIndexed32.
DisplacementParts(r, o) ==
  IF o.index = NoIndex THEN Parts(r.reg[o.reg], o.disp)
  ELSE Parts(r.reg[o.reg] + o.disp, Index(r, o))

\* am2PCDisplacement8 ... bam2PCDisplacementIndexed32.
PCDisplacementParts(r, o) ==
  IF o.index = NoIndex THEN Parts(r.pc, o.disp) ELSE Parts(r.pc + o.disp, Index(r, o))

\* am2DisplacementIndirect8 ... bam2DisplacementIndirectIndexed32.
IndirectParts(r, o) ==
  Parts(Load(r.mem, r.reg[o.reg] + o.disp, 4), IF o.index = NoIndex THEN 0 ELSE Index(r, o))

\* am2PCDisplacementIndirect8 ... bam2PCDisplacementIndirectIndexed32.
PCIndirectParts(r, o) ==
  Parts(Load(r.mem, r.pc + o.disp, 4), IF o.index = NoIndex THEN 0 ELSE Index(r, o))

\* am2DoubleDisplacement8 ... bam2DoubleDisplacement32.
DoubleParts(r, o) == Parts(Load(r.mem, r.reg[o.reg] + o.disp, 4), o.disp2)

\* am2PCDoubleDisplacement8 ... bam2PCDoubleDisplacement32.
PCDoubleParts(r, o) == Parts(Load(r.mem, r.pc + o.disp, 4), o.disp2)

\* am2DirectAddress ... bam2DirectAddressDeferredIndexed.
DirectParts(r, o) ==
  Parts(IF o.mode = "DirectAddress" THEN o.disp ELSE Load(r.mem, o.disp, 4),
        IF o.index = NoIndex THEN 0 ELSE Index(r, o))

\* s_AMTable2 and s_BAMTable2.
AddressParts(r, o) ==
  CASE o.mode = "Displacement"           -> DisplacementParts(r, o)
    [] o.mode = "PCDisplacement"         -> PCDisplacementParts(r, o)
    [] o.mode = "DisplacementIndirect"   -> IndirectParts(r, o)
    [] o.mode = "PCDisplacementIndirect" -> PCIndirectParts(r, o)
    [] o.mode = "DoubleDisplacement"     -> DoubleParts(r, o)
    [] o.mode = "PCDoubleDisplacement"   -> PCDoubleParts(r, o)
    [] o.mode \in {"DirectAddress", "DirectAddressDeferred"} -> DirectParts(r, o)
    [] OTHER                             -> RegisterParts(r, o)

\* Where an operand of n bytes lies.
AddressOf(r, o, n) ==
  LET p == AddressParts(r, o)
  IN  (p.at + p.off * (IF o.index = NoIndex THEN 1 ELSE n)) % WORD

-----------------------------------------------------------------------------
(* The automatic modes change their register by the size of the operand:   *)
(* after its use, or before it.                                            *)

Step(r, o, k) == [r EXCEPT !.reg[o.reg] = (@ + k) % WORD]

Before(r, o, n) == IF o.mode = "Autodecrement" THEN Step(r, o, -n) ELSE r
After(r, o, n)  == IF o.mode = "Autoincrement" THEN Step(r, o, n) ELSE r

-----------------------------------------------------------------------------
(* What an instruction asks for: the answer, and the state after it.       *)

\* ReadAM: the value.
ReadAM(r, o, n) ==
  LET b == Before(r, o, n)
  IN [val |-> CASE o.mode = "Register"    -> Cut(r.reg[o.reg], n)
                [] o.mode \in AMConstant  -> Cut(o.disp, n)
                [] OTHER                  -> Load(b.mem, AddressOf(b, o, n), n),
      r   |-> After(b, o, n)]

\* ReadAMAddress: the number of a register, an address, or the constant itself.
ReadAMAddress(r, o, n) ==
  LET b == Before(r, o, n)
  IN [flag |-> o.mode = "Register",
      val  |-> CASE o.mode = "Register"   -> o.reg
                 [] o.mode \in AMConstant -> Cut(o.disp, n)
                 [] OTHER                 -> AddressOf(b, o, n),
      r    |-> After(b, o, n)]

\* The index of a deferred address is not scaled when the operand is written.
WriteAddress(r, o, n) ==
  IF o.mode = "DirectAddressDeferred" THEN AddressOf(r, o, 1) ELSE AddressOf(r, o, n)

\* WriteAM: the state after writing v.
WriteAM(r, o, n, v) ==
  IF o.mode = "Register" THEN [r EXCEPT !.reg[o.reg] = SetReg(@, n, v)]
  ELSE LET b == Before(r, o, n)
       IN  After([b EXCEPT !.mem = Store(@, WriteAddress(b, o, n), n, v)], o, n)

\* An operand given by ReadAMAddress, read and written.
ReadFlag(r, a, n) ==
  IF a.flag THEN Cut(r.reg[a.val], n) ELSE Load(r.mem, a.val, n)
WriteFlag(r, a, n, v) ==
  IF a.flag THEN [r EXCEPT !.reg[a.val] = SetReg(@, n, v)]
  ELSE [r EXCEPT !.mem = Store(@, a.val, n, v)]

-----------------------------------------------------------------------------
(* Operands of bits: the instruction says by how much the automatic modes  *)
(* step, and registers have no bits to give.  (The source reads short      *)
(* displacements of bits without their sign when it asks for a value, and  *)
(* the second one of a pair of half words as a byte; they are small here.) *)

\* BitReadAM: the word that the bit lies in, and which of its bits it is.
BitReadAM(r, o, step) ==
  LET b == Before(r, o, step)
      p == AddressParts(b, o)
  IN [val |-> Load(b.mem, p.at + (Cut(p.off, 4) \div BYTE_BITS), 4),
      off |-> p.off % BYTE_BITS, r |-> After(b, o, step)]

\* BitReadAMAddress: the byte to count from, and the bits from there.
BitReadAMAddress(r, o, step) ==
  LET b == Before(r, o, step)
      p == AddressParts(b, o)
  IN [val |-> p.at % WORD, off |-> p.off, r |-> After(b, o, step)]
=============================================================================
