---------------------------- MODULE MCAluProgram ----------------------------
(***************************************************************************)
(* AluProgram with bytes of 2 bits, half words of 4 and words of 8: every  *)
(* value of a byte, the values of a half word and of a word on both sides  *)
(* of their boundaries, the shift counts up to and over each width.        *)
(***************************************************************************)
EXTENDS AluProgram

MCWidth == [s \in Size |-> CASE s = "SZ_BYTE" -> 2 [] s = "SZ_HALF" -> 4 [] s = "SZ_WORD" -> 8]
MCHalf  == [s \in Size |-> CASE s = "SZ_BYTE" -> 2 [] s = "SZ_HALF" -> 8 [] s = "SZ_WORD" -> 128]

HalfValues == {0, 1, 2, 5, 7, 8, 9, 15}
WordValues == {0, 1, 6, 127, 128, 249, 255}

\* A narrow operand under bits that are not its own.
Values ==
  [s \in Size |-> CASE s = "SZ_BYTE" -> {0, 1, 2, 3, 169}
                    [] s = "SZ_HALF" -> HalfValues \cup {171}
                    [] s = "SZ_WORD" -> WordValues]
\* Floats with 4 bits of exponent and 3 of fraction: 1.0 is 56 and the whole numbers that are
\* exact, 0 to 15, are those from 56 to 87 with no bit below the point; the powers of two,
\* the denormal ones, the least normal ones and those around them, the largest, infinity and
\* no number.
Wholes == {0, 56, 64, 68, 72, 74, 76, 78} \cup 80 .. 87
Edges  == {1, 7, 8, 9, 15, 16, 23, 28, 47, 48, 55, 57, 63, 65, 88, 93, 103, 112, 118, 119, 120, 121}
Both(S) == S \cup {128 + x : x \in S}
MCFloats == Both(Wholes \cup Edges)
MCSources == {0, 7, 8, 9, 28, 48, 57, 63, 64, 65, 68, 74, 80, 83, 87, 103, 119, 120}
             \cup {128 + x : x \in {0, 8, 16, 56, 68, 76, 82, 87, 118}}

MCContents ==
  [s \in Destination |-> CASE s = "SZ_BYTE" -> {0, 1, 2, 3, 173, 174}
                    [] s = "SZ_HALF" -> {16 * (5 + (x % 3)) + x : x \in HalfValues}
                    [] s = "SZ_WORD" -> WordValues
                    [] s = "FLOAT" -> MCFloats]

Inst(ops, sizes, dsts, srcs, sps) ==
  [op : ops, size : sizes, dst : dsts, src : srcs, sp : sps]

\* Counts of 6 bits, the negative ones from 32 on.
Counts  == 0 .. 9 \cup {15, 16, 17, 31, 32, 33, 48} \cup 54 .. 63
Shifts  == {"ALU_SHL", "ALU_SHA", "ALU_ROT", "ALU_ROTC"}
BitOps  == {"ALU_SET1", "ALU_CLR1", "ALU_NOT1", "ALU_TEST1"}
Binary  == AluOps \ (Shifts \cup BitOps \cup {"ALU_RVBIT", "ALU_RVBYT"})

MCInstructions ==
  UNION {UNION {
    Inst(Binary, {s}, {s}, Values[s], {FALSE}),
    Inst(Shifts, {s}, {s}, Counts, {FALSE}),
    Inst(CountOps, {s}, {s}, {0}, {FALSE}),
    Inst({"ALU_ADD", "ALU_MOV"}, {s}, {s}, {3}, {TRUE})} : s \in Size}
  \cup Inst(BitOps, {"SZ_WORD"}, {"SZ_WORD"}, 0 .. 8, {FALSE})
  \cup Inst({"ALU_RVBIT"}, {"SZ_BYTE"}, {"SZ_BYTE"}, {0, 1, 2, 3, 169}, {FALSE})
  \cup Inst({"ALU_RVBYT"}, {"SZ_WORD"}, {"SZ_WORD"}, {0, 27, 228, 177, 255}, {FALSE})
  \cup Inst({"SYS_TASI"}, {"SZ_BYTE"}, {"SZ_BYTE"}, {0}, {FALSE})
  \cup Inst({"SYS_MOVSB", "SYS_MOVZB"}, {"SZ_BYTE"}, {"SZ_HALF", "SZ_WORD"},
            Values["SZ_BYTE"], {FALSE})
  \cup Inst({"SYS_MOVSH", "SYS_MOVZH"}, {"SZ_HALF"}, {"SZ_WORD"}, Values["SZ_HALF"], {FALSE})
  \cup Inst({"SYS_MOVT"}, {"SZ_HALF"}, {"SZ_BYTE"}, Values["SZ_HALF"], {FALSE})
  \cup Inst({"SYS_MOVT"}, {"SZ_WORD"}, {"SZ_BYTE", "SZ_HALF"},
            WordValues \cup {3, 8, 15, 16, 248, 252}, {FALSE})
  \cup Inst({"SYS_SETF"}, {"SZ_BYTE"}, {"SZ_BYTE"}, 0 .. 15, {FALSE})
  \cup Inst({"SYS_UPDPSW"}, {"SZ_WORD"}, {"SZ_WORD"}, 0 .. 15, {FALSE})
  \cup Inst({"FP_CMPF", "FP_ADDF", "FP_SUBF", "FP_MULF", "FP_DIVF"}, {"SZ_WORD"}, {"FLOAT"},
            MCSources, {FALSE})
  \cup Inst({"FP_SCLF"}, {"SZ_WORD"}, {"FLOAT"}, 0 .. 15 \cup {242}, {FALSE})
  \cup Inst({"FP_MOVF", "FP_NEGF", "FP_ABSF", "FP_CVTSW"}, {"SZ_WORD"}, {"SZ_WORD"},
            MCFloats, {FALSE})
  \cup Inst({"FP_CVTWS"}, {"SZ_WORD"}, {"SZ_WORD"},
            Both(0 .. 37) \cup {63, 64, 119, 120, 126, 127}, {FALSE})

\* A second digit of a byte or a half word, and an instruction of each kind that keeps the flags.
MCFollow ==
  UNION {Inst({"ALU_ADDC", "ALU_SUBC"}, {s}, {s},
              {0, Half[s] - 1, Half[s], Mod(s) - 1}, {FALSE}) : s \in {"SZ_BYTE", "SZ_HALF"}}
  \cup Inst({"ALU_MOV"}, {"SZ_BYTE"}, {"SZ_BYTE"}, {0}, {FALSE})
  \cup Inst({"SYS_SETF"}, {"SZ_BYTE"}, {"SZ_BYTE"}, {12}, {FALSE})
  \cup Inst({"FP_MOVF"}, {"SZ_WORD"}, {"SZ_WORD"}, {56}, {FALSE})

\* Signed divisions alone.
MCDivisions == UNION {Inst({"ALU_DIV"}, {s}, {s}, Values[s], {FALSE}) : s \in Size}
=============================================================================
