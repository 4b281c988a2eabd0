--------------------------- MODULE ReferenceDecode -------------------------
(***************************************************************************)
(* What the MAME V60 core, the repository's golden reference               *)
(* (mame/src/), takes the instruction at PC to be: its operands and its    *)
(* length, from the tables of opcodes and of addressing modes.  `prog' is  *)
(* memory from PC on.                                                      *)
(*                                                                         *)
(* dim is log2 of an operand's size in bytes, as in the source.            *)
(***************************************************************************)
EXTENDS Integers, Sequences, TLC

Mem8(prog, a) == prog[a]

MemBytes(prog, a, n) == [k \in 1 .. n |-> prog[a + k - 1]]

-----------------------------------------------------------------------------
(* Addressing modes.  "R" is an operand that is read, "A" one whose        *)
(* address is asked for, "W" one that is written.                          *)

\* A row of a table: the mode, and the displacements' number and size.
Mode(name, n, size) == [name |-> name, n |-> n, size |-> size]

AMError == Mode("Error", 0, 0)

\* s_AMTable[modm][modval >> 5]; the last entry of row 0 is Group7.
AMTable ==
  [modm \in BOOLEAN |->
     IF modm
     THEN << Mode("DoubleDisplacement", 2, 1), Mode("DoubleDisplacement", 2, 2),
             Mode("DoubleDisplacement", 2, 4), Mode("Register", 0, 0),
             Mode("Autoincrement", 0, 0), Mode("Autodecrement", 0, 0),
             Mode("Group6", 0, 0), AMError >>
     ELSE << Mode("Displacement", 1, 1), Mode("Displacement", 1, 2),
             Mode("Displacement", 1, 4), Mode("RegisterIndirect", 0, 0),
             Mode("DisplacementIndirect", 1, 1), Mode("DisplacementIndirect", 1, 2),
             Mode("DisplacementIndirect", 1, 4), Mode("Group7", 0, 0) >>]

\* s_AMTable_G7[modval & 31].
Group7Table ==
  [i \in 0 .. 15 |-> Mode("ImmediateQuick", 0, 0)] @@
  (16 :> Mode("PCDisplacement", 1, 1)) @@ (17 :> Mode("PCDisplacement", 1, 2)) @@
  (18 :> Mode("PCDisplacement", 1, 4)) @@ (19 :> Mode("DirectAddress", 1, 4)) @@
  (20 :> Mode("Immediate", 0, 0)) @@
  (24 :> Mode("PCDisplacementIndirect", 1, 1)) @@
  (25 :> Mode("PCDisplacementIndirect", 1, 2)) @@
  (26 :> Mode("PCDisplacementIndirect", 1, 4)) @@
  (27 :> Mode("DirectAddressDeferred", 1, 4)) @@
  (28 :> Mode("PCDoubleDisplacement", 2, 1)) @@
  (29 :> Mode("PCDoubleDisplacement", 2, 2)) @@
  (30 :> Mode("PCDoubleDisplacement", 2, 4)) @@
  [i \in 21 .. 31 |-> AMError]

\* The operand whose mod byte is at a.  An immediate is as long as the operand.
RefOperand(prog, a, modm, dim) ==
  LET modval == Mem8(prog, a)
      row == AMTable[modm][(modval \div 32) + 1]
      mode == IF row.name = "Group7" THEN Group7Table[modval % 32] ELSE row
      field(k) == MemBytes(prog, a + 1 + (k - 1) * mode.size, mode.size)
  IN [mode |-> mode.name,
      modval |-> modval,
      disps |-> IF mode.name = "Immediate"
                THEN << MemBytes(prog, a + 1, 2 ^ dim) >>
                ELSE [k \in 1 .. mode.n |-> field(k)],
      amlength |-> 1 + IF mode.name = "Immediate" THEN 2 ^ dim
                       ELSE mode.n * mode.size]

\* An operand the reference stops at: an illegal mode, or a constant where the
\* operand is written.
Fatal(operand, access) ==
  \/ operand.mode = "Error"
  \/ access = "W" /\ operand.mode \in {"Immediate", "ImmediateQuick"}

-----------------------------------------------------------------------------
(* Instructions.                                                           *)

InstFlag(prog, bit) == (Mem8(prog, 1) \div (2 ^ bit)) % 2 = 1

\* The register that byte 1 names: no bytes of its own.
RefRegister(prog) ==
  [mode |-> "Register", modval |-> Mem8(prog, 1), disps |-> <<>>, amlength |-> 0]

\* F12DecodeOperands, and F12DecodeFirstOperand with F12WriteSecondOperand, for
\* Format I: with D the second operand is a register, without it the first.
RefFmt1(prog, dim1, dim2, access2) ==
  LET D == InstFlag(prog, 5)
      mod == RefOperand(prog, 2, InstFlag(prog, 6), IF D THEN dim1 ELSE dim2)
  IN [defined |-> ~Fatal(mod, IF D THEN "R" ELSE access2),
      operands |-> IF D THEN << mod, RefRegister(prog) >> ELSE << RefRegister(prog), mod >>,
      length |-> 2 + mod.amlength]

\* F2DecodeFirstOperand and F2DecodeSecondOperand or F2WriteSecondOperand.
RefFmt2(prog, dim1, access2) ==
  LET op1 == RefOperand(prog, 2, InstFlag(prog, 6), dim1)
      op2 == RefOperand(prog, 2 + op1.amlength, InstFlag(prog, 5), 2)
  IN [defined |-> ~Fatal(op1, "R") /\ ~Fatal(op2, access2),
      operands |-> << op1, op2 >>,
      length |-> 2 + op1.amlength + op2.amlength]

RefFmt3(prog, dim, access) ==
  LET op == RefOperand(prog, 1, Mem8(prog, 0) % 2 = 1, dim)
  IN [defined |-> ~Fatal(op, access),
      operands |-> << op >>,
      length |-> 1 + op.amlength]

RefFixed(len) == [defined |-> TRUE, operands |-> <<>>, length |-> len]

\* opUNHANDLED and the instructions that no hardware description here has.
RefUnhandled == [defined |-> FALSE, operands |-> <<>>, length |-> 0]

-----------------------------------------------------------------------------
(* What an opcode's routine asks for: the decoding routine, the operands'  *)
(* dims and what it does with the last one.                                *)

Routine(format, dim1, dim2, access) ==
  [format |-> format, dim1 |-> dim1, dim2 |-> dim2, access |-> access]

NoRoutine == Routine("none", 0, 0, "R")

\* The size of the operands of a row of s_OpCodeTable with B, H and W entries.
RowDim(op) == (op % 8) \div 2

\* opADDB, opMULB, ... opSHAW and opREMB ... opREMUW.
RefTwoOperand(op) ==
  CASE op \in {\h89, \h8B, \h8D, \h99, \h9B, \h9D, \hA9, \hAB, \hAD, \hB9, \hBB, \hBD} ->
         Routine("F1", 0, RowDim(op), "A")
    [] op \in {\hB8, \hBA, \hBC}  -> Routine("F1", RowDim(op), RowDim(op), "R")
    [] op % 8 <= 5                -> Routine("F1", RowDim(op), RowDim(op), "A")
    [] op \in {\h97, \hA7, \hB7}  -> Routine("F1", 2, 2, "A")
    [] op = \h87                  -> Routine("F1", 2, 2, "R")
    [] OTHER                      -> NoRoutine

\* opDECB ... opPUSH, opGETPSW, opTRAP, opRETIS.
RefOneOperand(op) ==
  CASE op \in (\hD0 .. \hD5) \cup (\hD8 .. \hDD)   -> Routine("F3", RowDim(op), 0, "A")
    [] op \in {\hD6, \hD7, \hE0, \hE1, \hE8, \hE9} -> Routine("F3", 0, 0, "A")
    [] op \in {\hEA, \hEB, \hFA, \hFB}             -> Routine("F3", 1, 0, "R")
    [] op \in {\hF8, \hF9}                         -> Routine("F3", 0, 0, "R")
    [] op \in {\hE6, \hE7, \hF6, \hF7}             -> Routine("F3", 2, 0, "W")
    [] OTHER                                       -> Routine("F3", 2, 0, "R")

\* s_Op5CTable and s_Op5FTable.
RefFp(op, subop) ==
  CASE op = \h5C /\ subop = 0                         -> Routine("F2", 2, 2, "R")
    [] op = \h5C /\ subop = 8                         -> Routine("F2", 2, 2, "W")
    [] op = \h5C /\ subop \in {9, 10, 24, 25, 26, 27} -> Routine("F2", 2, 2, "A")
    [] op = \h5C /\ subop = 16                        -> Routine("F2", 1, 2, "A")
    [] op = \h5F /\ subop \in {0, 1}                  -> Routine("F2", 2, 2, "W")
    [] OTHER                                          -> NoRoutine

\* Moves and system instructions.
RefMove(op) ==
  CASE op \in {\h09, \h08, \h47}       -> Routine("F1", 0, 0, "W")
    [] op = \h1B                       -> Routine("F1", 1, 1, "W")
    [] op \in {\h2D, \h2C, \h02, \h44} -> Routine("F1", 2, 2, "W")
    [] op \in {\h0A, \h0B}             -> Routine("F1", 0, 1, "W")
    [] op \in {\h0C, \h0D, \h40}       -> Routine("F1", 0, 2, "W")
    [] op \in {\h1C, \h1D, \h42}       -> Routine("F1", 1, 2, "W")
    [] op = \h19                       -> Routine("F1", 1, 0, "W")
    [] op = \h29                       -> Routine("F1", 2, 0, "W")
    [] op = \h2B                       -> Routine("F1", 2, 1, "W")
    [] op \in {\h12, \h13, \h4A}       -> Routine("F1", 2, 2, "R")
    [] op \in (\h38 .. \h3D)           -> Routine("F1", RowDim(op), RowDim(op), "W")
    [] OTHER                           -> NoRoutine

\* The lengths of the instructions without a mod field.
FixedLength ==
  [op \in {\h00, \hC8, \hC9, \hCA, \hCC, \hCD} |-> 1] @@
  [op \in (\h60 .. \h6F) \ {\h6B} |-> 2] @@
  [op \in ((\h70 .. \h7F) \ {\h7B}) \cup {\h48} |-> 3] @@
  [op \in {\hC6, \hC7} |-> 4]

\* s_OpCodeTable.
RefRoutine(op, subop) ==
  CASE op \in {\h5C, \h5F}                          -> RefFp(op, subop)
    [] op \in (\h80 .. \hBF) \cup (\h50 .. \h55)    -> RefTwoOperand(op)
    [] op \in (\hD0 .. \hEF) \cup (\hF6 .. \hFB)    -> RefOneOperand(op)
    [] OTHER                                        -> RefMove(op)

RefDecode(prog) ==
  LET op == Mem8(prog, 0)
      r == RefRoutine(op, Mem8(prog, 1) % 32)
  IN IF op \in DOMAIN FixedLength THEN RefFixed(FixedLength[op])
     ELSE CASE r.format = "F1" -> RefFmt1(prog, r.dim1, r.dim2, r.access)
            [] r.format = "F2" -> RefFmt2(prog, r.dim1, r.access)
            [] r.format = "F3" -> RefFmt3(prog, r.dim1, r.access)
            [] OTHER           -> RefUnhandled
=============================================================================
