-------------------------- MODULE ReferenceStrings --------------------------
(***************************************************************************)
(* What the emulator the core is compared with makes of the instructions   *)
(* on strings of characters, strings of bits, bit fields and packed        *)
(* decimals (mame/src/op7a.hxx): the state after one as a function of the  *)
(* state before it.  A state is [reg, pc, codes, mem].                      *)
(***************************************************************************)
EXTENDS StringInstructions

LOCAL INSTANCE Bitwise

CountOf(r, l) == IF l.reg THEN r.reg[l.n] ELSE l.n

-----------------------------------------------------------------------------
(* The operands.                                                           *)

\* F7aDecodeOperands: two strings, each with its length.
Strings(r, i, n) ==
  LET a == ReadAMAddress(r, i.src, n)
      b == ReadAMAddress(a.r, i.to, n)
  IN [op1 |-> a.val, len1 |-> CountOf(a.r, i.len1),
      op2 |-> b.val, len2 |-> CountOf(b.r, i.len2), r |-> b.r]

\* F7bDecodeFirstOperand: the operand `a' as it was read, and then its length.
FirstOperand(i, a) == [a |-> a, len |-> CountOf(a.r, i.len1), r |-> a.r]

\* F7cDecodeOperands: a value, then a place, of bits in an insertion, then a length or
\* a pattern of bits.
ValueAndPlace(r, i, n1, n2) ==
  LET a == ReadAM(r, i.src, n1)
      b == IF i.op \in Inserts THEN BitReadAMAddress(a.r, i.to, n2)
           ELSE ReadAMAddress(a.r, i.to, n2)
  IN  [op1 |-> a.val, b |-> b, len |-> CountOf(b.r, i.len1), r |-> b.r]

-----------------------------------------------------------------------------
(* Strings of characters.                                                  *)

First(S, none) == IF S = {} THEN none ELSE Min(S)
Last(S, none)  == IF S = {} THEN none ELSE Max(S)

Char(mem, a, k, u) == Load(mem, a + k * u, u)

\* The character c written n times from a on.
Fill(mem, a, n, u, c) ==
  [b \in DOMAIN mem |->
     LET d == (b - a) % MEM IN IF d < n * u THEN (c \div BYTE ^ (d % u)) % BYTE ELSE mem[b]]

WorkRegisters(r, x28, x27) == [r EXCEPT !.reg[R28] = x28 % WORD, !.reg[R27] = x27 % WORD]

\* opCMPSTRB, opCMPSTRH: the work registers get lengths, not addresses.
Compare(i, d) ==
  LET u     == i.unit
      least == Min({d.len1, d.len2})
      most  == Max({d.len1, d.len2})
      c     == Cut(d.r.reg[R26], u)
      mem   == IF i.fill
               THEN Fill(d.r.mem, (IF d.len1 < d.len2 THEN d.op1 ELSE d.op2) + least * u,
                         most - least, u, c)
               ELSE d.r.mem
      One(k) == Char(mem, d.op1, k, u)
      Two(k) == Char(mem, d.op2, k, u)
      k     == First({j \in 0 .. least - 1 :
                        One(j) # Two(j) \/ (i.stop /\ c \in {One(j), Two(j)})}, least)
      end   == k = least
  IN [WorkRegisters(d.r, d.len1 + k * u, d.len2 + k * u) EXCEPT
        !.mem = mem,
        !.codes.s = IF end THEN d.len1 > d.len2 ELSE One(k) > Two(k),
        !.codes.z = end /\ d.len1 = d.len2,
        !.codes.cy = IF i.stop THEN end \/ One(k) # Two(k) ELSE @]

\* opMOVSTRUB, opMOVSTRUH, opMOVSTRDB, opMOVSTRDH.  Characters are moved one after the
\* other; those that fill the string go behind it, or before it in MOVSTRDH.
MoveString(i, d) ==
  LET u     == i.unit
      least == Min({d.len1, d.len2})
      c     == Cut(d.r.reg[R26], u)
      Nth(k) == IF i.down THEN least - k - 1 ELSE k
      after[k \in 0 .. least] ==
        IF k = 0 THEN d.r.mem
        ELSE Store(after[k - 1], d.op2 + Nth(k - 1) * u, u,
                   Char(after[k - 1], d.op1, Nth(k - 1), u))
      k     == First({j \in 0 .. least - 1 :
                        i.stop /\ Char(after[j], d.op1, Nth(j), u) = c}, least)
      fills == i.fill /\ d.len1 < d.len2
      moved == after[IF k < least THEN k + 1 ELSE k]
      mem   == IF fills
               THEN Fill(moved, IF i.down /\ u = 2 THEN d.op2 ELSE d.op2 + least * u,
                         d.len2 - least, u, c)
               ELSE moved
      done  == IF fills THEN d.len2 ELSE k
  IN [(IF i.down THEN WorkRegisters(d.r, d.op1 + (d.len1 - k - 1) * u,
                                         d.op2 + (d.len2 - done - 1) * u)
       ELSE WorkRegisters(d.r, d.op1 + k * u, d.op2 + done * u)) EXCEPT !.mem = mem]

\* opSEARCHUB, opSEARCHUH, opSEARCHDB, opSEARCHDH: downwards, a search of bytes starts
\* behind the string.
Search(r, i) ==
  LET u   == i.unit
      f   == FirstOperand(i, ReadAMAddress(r, i.src, u))
      v   == ReadAM(f.r, i.to, u)
      ok  == {j \in 0 .. IF i.down /\ u = 1 THEN f.len ELSE f.len - 1 :
                (Char(v.r.mem, f.a.val, j, u) = v.val) = i.want}
      k   == IF i.down THEN Last(ok, -1) ELSE First(ok, f.len)
  IN [WorkRegisters(v.r, f.a.val + k * u, k) EXCEPT !.codes.z = k = f.len]

-----------------------------------------------------------------------------
(* Strings of bits.                                                        *)

BitOf(v, b)     == (v \div 2 ^ b) % 2
PutBit(v, b, x) == v + (x - BitOf(v, b)) * 2 ^ b

\* opSCHBS: R28 follows the search, and may then be part of where its result goes.
SearchBits(r, i) ==
  LET f    == FirstOperand(i, BitReadAMAddress(r, i.src, 1))
      from == Cut(f.a.off, 4)
      At(j) == f.a.val + (from + j) \div BYTE_BITS
      k    == First({j \in 0 .. f.len - 1 :
                       (BitOf(f.r.mem[At(j) % MEM], (from + j) % BYTE_BITS) = 1) = i.want},
                    f.len)
      seen == IF f.len = 0 THEN f.r
              ELSE [f.r EXCEPT !.reg[R28] = At(Min({k, f.len - 1})) % WORD]
  IN [WriteAM(seen, i.to, 4, k) EXCEPT !.codes.z = k = f.len]

\* One bit from one byte to another, the bits of which come in the order of the move.
MoveBit(l, down) ==
  LET full  == IF down THEN 0 ELSE BYTE_BITS - 1
      empty == BYTE_BITS - 1 - full
      step  == IF down THEN -1 ELSE 1
      end1  == l.bit1 = full
      end2  == l.bit2 = full
      dst   == PutBit(l.dst, l.bit2, BitOf(l.src, l.bit1))
      Into(mem) == IF end2 THEN [mem EXCEPT ![l.at2 % MEM] = dst] ELSE mem
      From(mem, a) == mem[a % MEM]
  IN [at1  |-> IF end1 THEN l.at1 + step ELSE l.at1,
      at2  |-> IF end2 THEN l.at2 + step ELSE l.at2,
      bit1 |-> IF end1 THEN empty ELSE l.bit1 + step,
      bit2 |-> IF end2 THEN empty ELSE l.bit2 + step,
      src  |-> IF end1 THEN From(l.mem, l.at1 + step) ELSE l.src,
      dst  |-> IF end2 THEN From(Into(l.mem), l.at2 + step) ELSE dst,
      mem  |-> Into(l.mem)]

\* The first n of the bits moved.
BitMoves(i, f, b) ==
  LET Start(a) == Cut(a.off + (IF i.down THEN f.len - 1 ELSE 0), 4)
      at1 == f.a.val + Start(f.a) \div BYTE_BITS
      at2 == b.val + Start(b) \div BYTE_BITS
      l[n \in 0 .. f.len] ==
        IF n = 0
        THEN [at1 |-> at1, at2 |-> at2, bit1 |-> Start(f.a) % BYTE_BITS,
              bit2 |-> Start(b) % BYTE_BITS, src |-> b.r.mem[at1 % MEM],
              dst |-> b.r.mem[at2 % MEM], mem |-> b.r.mem]
        ELSE MoveBit(l[n - 1], i.down)
  IN l

\* opMOVBSU, opMOVBSD: bits are gathered in a byte, which is written when it is full;
\* a byte of the source is read when its first bit is.
MoveBits(i, n, r, moves) ==
  LET end  == moves[n]
      seen == IF n = 0 THEN r ELSE WorkRegisters(r, moves[n - 1].at1, moves[n - 1].at2)
  IN [seen EXCEPT !.mem = IF end.bit2 = (IF i.down THEN BYTE_BITS - 1 ELSE 0) THEN end.mem
                          ELSE [end.mem EXCEPT ![end.at2 % MEM] = end.dst]]

-----------------------------------------------------------------------------
(* Bit fields of 1 to WORD_BITS - 1 bits.                                  *)

\* opEXTBFZ, opEXTBFS, opEXTBFL.
ExtractField(r, i) ==
  LET f    == FirstOperand(i, BitReadAM(r, i.src, 4))
      n    == f.len
      bits == (f.a.val \div 2 ^ f.a.off) % 2 ^ n
  IN WriteAM(f.r, i.to, 4,
       CASE i.op = "EXTBFZ" -> bits
         [] i.op = "EXTBFS" -> IF BitOf(bits, n - 1) = 1 THEN bits + WORD - 2 ^ n ELSE bits
         [] i.op = "EXTBFL" -> bits * 2 ^ (WORD_BITS - n))

\* opINSBFR, opINSBFL: bits that leave the word are lost.
InsertField(i, d) ==
  LET n    == d.len
      bits == (IF i.op = "INSBFL" THEN d.op1 \div 2 ^ (WORD_BITS - n) ELSE d.op1) % 2 ^ n
      at   == d.b.val + Cut(d.b.off, 4) \div BYTE_BITS
      off  == d.b.off % BYTE_BITS
      old  == Load(d.r.mem, at, 4)
      rest == old - ((old \div 2 ^ off) % 2 ^ n) * 2 ^ off
  IN [d.r EXCEPT !.mem = Store(@, at, 4, rest + bits * 2 ^ off)]

-----------------------------------------------------------------------------
(* Packed decimals: two digits in a byte, one of which may be invalid.     *)

High(v)   == (v \div DIGIT) % DIGIT
Low(v)    == v % DIGIT
Digits(v) == High(v) * RADIX + Low(v)

\* The digits of a number in a byte, as C divides: a negative remainder covers all.
Pack(v) ==
  LET q == IF v < 0 THEN -((-v) \div RADIX) ELSE v \div RADIX
      d == v - q * RADIX
  IN  (IF d < 0 THEN d ELSE q * DIGIT + d) % BYTE

\* opADDDC, opSUBDC, opSUBRDC: a sum is a byte without a sign, a difference one with it.
Decimal(i, d) ==
  LET src == Digits(d.op1)
      dst == Digits(ReadFlag(d.r, d.b, 1))
      c   == IF d.r.codes.cy THEN 1 ELSE 0
      v   == CASE i.op = "ADDDC"  -> Cut(src + dst + c, 1)
               [] i.op = "SUBDC"  -> Number(dst - src - c, 1)
               [] i.op = "SUBRDC" -> Number(src - dst - c, 1)
      cy  == IF i.op = "ADDDC" THEN v >= RADIX ^ 2 ELSE v < 0
      res == IF ~cy THEN v ELSE IF i.op = "ADDDC" THEN v - RADIX ^ 2 ELSE v + RADIX ^ 2
  IN [WriteFlag(d.r, d.b, 1, Pack(res)) EXCEPT
        !.codes.cy = cy, !.codes.z = @ /\ res = 0 /\ ~cy]

\* opCVTDPZ: each digit becomes a byte, with the bits of the pattern.
PackedToZoned(i, d) ==
  LET p == Cut(d.len, 2)
      v == (High(d.op1) + Low(d.op1) * BYTE) | p | Cut(p * BYTE, 2)
  IN [WriteFlag(d.r, d.b, 2, v) EXCEPT !.codes.z = @ /\ d.op1 = 0]

\* opCVTDZP.
ZonedToPacked(i, d) ==
  LET v == Low(d.op1 \div BYTE) + Low(d.op1) * DIGIT
  IN [WriteFlag(d.r, d.b, 1, v) EXCEPT !.codes.z = @ /\ v = 0]

-----------------------------------------------------------------------------
(* The length of an instruction.                                           *)

\* How many bytes an operand of n bytes takes with displacements of `size' bytes.
AmLength(o, size, n) ==
  (IF o.index = NoIndex THEN 1 ELSE 2)
  + CASE o.mode = "Immediate"  -> n
      [] o.mode \in AMDouble   -> 2 * size
      [] o.mode \in {"DirectAddress", "DirectAddressDeferred"} -> 4
      [] o.mode \in {"ImmediateQuick", "RegisterIndirect"} \cup AMRegister \cup AMAuto -> 0
      [] OTHER                 -> size

\* F7AEND, F7BEND, F7CEND.
InstLength(i) ==
  LET n1 == CASE i.op \in Inserts -> 4 [] i.op = "CVTDZP" -> 2 [] OTHER -> 1
  IN AmLength(i.src, i.size1, n1) + AmLength(i.to, i.size2, i.unit)
     + (IF i.op \in {"CMPC", "MOVC"} THEN 4 ELSE 3)

-----------------------------------------------------------------------------
\* op58, op5A, op5B, op5D, op59, all but the step of InstLength bytes to the next
\* instruction.
Effect(r, i) ==
  CASE i.op = "CMPC"   -> Compare(i, Strings(r, i, 1))
    [] i.op = "MOVC"   -> MoveString(i, Strings(r, i, i.unit))
    [] i.op = "SEARCH" -> Search(r, i)
    [] i.op = "SCHBS"  -> SearchBits(r, i)
    [] i.op = "MOVBS"  ->
         LET f == FirstOperand(i, BitReadAMAddress(r, i.src, 1))
             b == BitReadAMAddress(f.r, i.to, 1)
         IN  MoveBits(i, f.len, b.r, BitMoves(i, f, b))
    [] i.op \in Extracts -> ExtractField(r, i)
    [] i.op \in Inserts  -> InsertField(i, ValueAndPlace(r, i, 4, 4))
    [] i.op \in {"ADDDC", "SUBDC", "SUBRDC"} ->
         Decimal(i, ValueAndPlace(r, i, 1, 1))
    [] i.op = "CVTDPZ" -> PackedToZoned(i, ValueAndPlace(r, i, 1, 2))
    [] i.op = "CVTDZP" -> ZonedToPacked(i, ValueAndPlace(r, i, 2, 1))
=============================================================================
