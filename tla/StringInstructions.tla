------------------------- MODULE StringInstructions -------------------------
(***************************************************************************)
(* The instructions on strings of characters, strings of bits, bit fields  *)
(* and packed decimals, the format VII of the V60.                         *)
(*                                                                         *)
(* An instruction has an operation, the operands `src' and `to', and one   *)
(* or two lengths, each a number or what a register holds.  Characters are *)
(* of `unit' bytes, 1 or 2; `fill', `stop' and `down' tell the variants of *)
(* one operation apart, and `want' a search from a skip, or a search for   *)
(* ones from one for zeros.  `size1' and `size2' are how many bytes each   *)
(* displacement of an operand takes.                                       *)
(***************************************************************************)
EXTENDS ReferenceOperands

CONSTANTS
  DIGIT,  \* the values of half a byte; 16 in the code
  RADIX   \* those of them that are decimal digits; 10 in the code

ASSUME StringsAssumption ==
  /\ DIGIT \in Nat \ {0} /\ DIGIT * DIGIT = BYTE /\ RADIX \in 2 .. DIGIT
  /\ SP \in Nat /\ SP >= 5

Searches  == {"SEARCH", "SCHBS"}
Extracts  == {"EXTBFZ", "EXTBFS", "EXTBFL"}
Inserts   == {"INSBFR", "INSBFL"}
Decimals  == {"ADDDC", "SUBDC", "SUBRDC", "CVTDPZ", "CVTDZP"}
StringOps == {"CMPC", "MOVC", "MOVBS"} \cup Searches \cup Extracts \cup Inserts \cup Decimals

\* The registers the instructions use besides their operands.
R26 == SP - 5
R27 == SP - 4
R28 == SP - 3

WORD_BITS == 4 * BYTE_BITS

\* What a program may say: the length, if reg, is what the register n holds.
Length == [reg : {TRUE}, n : 0 .. SP] \cup [reg : {FALSE}, n : Nat]
Instruction ==
  [op : StringOps, unit : {1, 2}, fill : BOOLEAN, stop : BOOLEAN, down : BOOLEAN,
   want : BOOLEAN, src : Operands, size1 : {1, 2, 4}, len1 : Length,
   to : Operands, size2 : {1, 2, 4}, len2 : Length]

\* The condition codes, and the state a program starts in.
ConditionCodes == [z : BOOLEAN, s : BOOLEAN, ov : BOOLEAN, cy : BOOLEAN]
Core == [reg : [0 .. SP -> Word], pc : Word, codes : ConditionCodes, mem : Memory]
=============================================================================
