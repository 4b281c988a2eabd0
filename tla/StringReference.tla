--------------------------- MODULE StringReference --------------------------
(***************************************************************************)
(* The instructions on strings beside what the emulator makes of them.     *)
(***************************************************************************)
EXTENDS StringMemory, ReferenceStrings

\* What the routine makes of an operand of n bytes, or of bits: it steps no register, ...
AtAddress(o, a) == [o EXCEPT !.mode = "DirectAddress", !.disp = a % WORD, !.index = NoIndex]
Unstepped(r, o, n) ==
  CASE o.mode = "Autoincrement" -> AtAddress(o, r.reg[o.reg])
    [] o.mode = "Autodecrement" -> AtAddress(o, r.reg[o.reg] - n)
    [] OTHER                    -> o

\* ... does not step down to bits, adds bytes to a register where the reference counts
\* bits, and leaves out the second one of two displacements.
OfBits(r, o) ==
  CASE o.mode = "Displacement"       -> AtAddress(o, r.reg[o.reg] + o.disp)
    [] o.mode = "DoubleDisplacement" -> [o EXCEPT !.mode = "DisplacementIndirect"]
    [] OTHER                         -> Unstepped(r, o, 0)

\* The instruction that the reference has to carry out to do what the routine does: a
\* search for a bit goes by the old R28 to put its result away.
AsCarriedOut(r, i) ==
  LET With(a, b) == [i EXCEPT !.src = a, !.to = b]
      Sized(n1, n2) == With(Unstepped(r, i.src, n1), Unstepped(r, i.to, n2))
  IN CASE i.op = "CMPC"       -> Sized(1, 1)
       [] i.op \in {"MOVC", "SEARCH"} -> Sized(i.unit, i.unit)
       [] i.op = "SCHBS"      ->
            With(OfBits(r, i.src),
                 IF i.to.mode = "Register" THEN i.to
                 ELSE AtAddress(i.to, AddressOf(r, Unstepped(r, i.to, 4), 4)))
       [] i.op = "MOVBS"      -> With(OfBits(r, i.src), OfBits(r, i.to))
       [] i.op \in Extracts   -> With(OfBits(r, i.src), Unstepped(r, i.to, 4))
       [] i.op \in Inserts    -> With(Unstepped(r, i.src, 4), OfBits(r, i.to))
       [] i.op = "CVTDPZ"     -> Sized(1, 2)
       [] i.op = "CVTDZP"     -> Sized(2, 1)
       [] OTHER               -> Sized(1, 1)

\* The reference stops at operands of bits that are in a register or the instruction.
Refused(i) ==
  \/ i.op \in {"SCHBS", "MOVBS"} \cup Extracts /\ i.src.mode \in {"Register", "Immediate"}
  \/ i.op \in {"MOVBS"} \cup Inserts /\ i.to.mode = "Register"

\* A sum or difference of invalid digits that a byte does not hold.
InvalidDigits(i, r) ==
  LET src == Digits(ReadAM(r, i.src, 1).val)
      dst == Digits(ReadFlag(r, ReadAMAddress(r, i.to, 1), 1))
      c   == IF r.codes.cy THEN 1 ELSE 0
      Held(v) == Number(v, 1) = v
  IN CASE i.op = "ADDDC"  -> src + dst + c >= BYTE
       [] i.op = "SUBDC"  -> ~Held(dst - src - c)
       [] i.op = "SUBRDC" -> ~Held(src - dst - c)
       [] OTHER           -> FALSE

\* The work registers of strings of bits: R28 stays where a search began, and both are
\* left at the bytes of the bits behind the last one moved, not of that bit.
Left(r, i, q) ==
  LET n == CountOf(r, i.len1)
      At(o) == BitReadAMAddress(r, o, 1).val
      past == IF ~i.down THEN n \div BYTE_BITS ELSE IF n > 0 THEN -1 ELSE 0
  IN CASE i.op = "SCHBS" /\ n > 0 /\ ~(i.to.mode = "Register" /\ i.to.reg = R28) ->
            [q EXCEPT !.reg[R28] = At(i.src)]
       [] i.op = "MOVBS" -> WorkRegisters(q, At(i.src) + past, At(i.to) + past)
       [] OTHER          -> q

\* The bytes of a second displacement that the routine does not count.
Uncounted(i) ==
  IF i.op \in Extracts /\ i.src.mode = "DoubleDisplacement" THEN i.size1 ELSE 0

Over == state = "ST_DECODE" /\ inst # NoInst

\* An instruction, or what the routine takes it for, leaves the registers, PC, the condition codes and the memory the
\* routine sees as the reference does, whatever lengths, overlap and stop characters its
\* strings have, in all but the cases listed; and in these, but for decimals that are none
\* and operands at which the reference stops, exactly what the definitions say.
LikeReference ==
  Over => \E j \in Taken(inst) : \E i \in {AsCarriedOut(before, j)} :
            \/ Refused(j) \/ InvalidDigits(i, before)
            \/ \E r \in {Left(before, i, Effect(before, i))} :
                 /\ m.reg = r.reg /\ m.codes = r.codes /\ shadow = r.mem
                 /\ m.pc = (before.pc + InstLength(j) - Uncounted(j)) % WORD
=============================================================================
