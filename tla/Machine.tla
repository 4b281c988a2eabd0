------------------------------ MODULE Machine ------------------------------
(***************************************************************************)
(* What a program sees: memory as bytes, registers as words of four bytes, *)
(* the lowest byte first (mame/src/mame_stubs.h, rtl/v60_regfile.sv).      *)
(*                                                                         *)
(* A byte is a number below BYTE.  An address is taken modulo MEM, the     *)
(* number of bytes there are, which divides a word.                        *)
(***************************************************************************)
EXTENDS Integers, FiniteSetsExt

CONSTANTS
  BYTE,  \* the values of a byte; 256 in the code
  MEM    \* the bytes of memory; 2^20 in the test bench, 2^24 in the reference

ASSUME MachineAssumption ==
  /\ BYTE \in Nat \ {0, 1} /\ \E n \in 1 .. BYTE : 2 ^ n = BYTE
  /\ MEM \in Nat \ {0}
  /\ (BYTE * BYTE * BYTE * BYTE) % MEM = 0

\* How many values n bytes have.
Values(n) == <<BYTE, BYTE * BYTE, BYTE * BYTE * BYTE, BYTE * BYTE * BYTE * BYTE>>[n]

\* What a one is worth in the byte k of a number.
Weight(k) == IF k = 0 THEN 1 ELSE Values(k)

WORD == Values(4)
BYTE_BITS == CHOOSE n \in 1 .. BYTE : 2 ^ n = BYTE
Word == 0 .. WORD - 1
Memory == [0 .. MEM - 1 -> 0 .. BYTE - 1]

\* Numbers of n bytes, without and with a sign.
Cut(v, n)  == v % Values(n)
Negative(v, n) == 2 * Cut(v, n) >= Values(n)
Number(v, n) == IF Negative(v, n) THEN Cut(v, n) - Values(n) ELSE Cut(v, n)

\* read_byte, read_word, read_dword and their unaligned forms.
Load(mem, a, n) ==
  LET byte(k) == mem[(a + k) % MEM]
      half(k) == byte(k) + byte(k + 1) * BYTE
  IN  CASE n = 1 -> byte(0) [] n = 2 -> half(0) [] n = 4 -> half(0) + half(2) * Values(2)

\* write_byte, write_word, write_dword.
Store(mem, a, n, v) ==
  [b \in DOMAIN mem |->
     LET k == (b - a) % MEM
     IN  IF k < n THEN (v \div Weight(k)) % BYTE ELSE mem[b]]

\* SETREG8, SETREG16, or the whole register.
SetReg(old, n, v) == (old - Cut(old, n)) + Cut(v, n)
=============================================================================
