----------------------------- MODULE StringDpi -----------------------------
(***************************************************************************)
(* What the core's simulation makes of the instructions on strings, bits   *)
(* and packed decimals: v60_string_exec (sim/v60_string.cpp), which the    *)
(* state machine calls once per instruction.                               *)
(*                                                                         *)
(* It reads and writes a copy of memory of its own, `mem' below, keeps     *)
(* what it writes in a buffer of WRITES bytes for the test bench to write  *)
(* into the memory of the core, and answers with the registers to write,   *)
(* the condition codes and the length of the instruction.  `full' are the  *)
(* addresses written when the buffer was full, `touched' all that were:    *)
(* the code keeps neither.                                                 *)
(*                                                                         *)
(* It decodes the operands itself.  Some modes it has no case for: it says *)
(* so and makes an address of 0 of them, and a length of 1, or of 2 if     *)
(* they are indexed.  Instructions with them are left out (Understood).    *)
(* Others it takes for something else and says nothing: these are modelled *)
(* (Taken), and where the bytes it then goes on with are not the ones the  *)
(* program meant, they may be any of `Tails'.                              *)
(***************************************************************************)
EXTENDS StringInstructions, Sequences

CONSTANTS
  WRITES,  \* the bytes the buffer holds; 65536 in the code
  Tails    \* [disp, len1, to, size2, len2]: what may be read behind a wrong place

ASSUME WritesAssumption ==
  /\ WRITES \in Nat \ {0}
  /\ \A t \in Tails : /\ t.disp \in Word /\ t.len1 \in Length /\ t.to \in Operands
                      /\ t.size2 \in {1, 2, 4} /\ t.len2 \in Length

\* v60_string_exec is given the registers by the test bench (get_gpr), PC and PSW.
Called(m, shadow, writes) ==
  [reg |-> m.reg, pc |-> m.pc, codes |-> m.codes, mem |-> shadow,
   writes |-> writes, touched |-> {}, full |-> {}, regs |-> <<>>]

\* A byte to write to memory, and a word to write to a register.
MemWrite == [addr : 0 .. MEM - 1, data : 0 .. BYTE - 1]
RegWrite == [idx : 0 .. SP, val : Word]

-----------------------------------------------------------------------------
(* Memory and registers.                                                   *)

rb(d, a)    == d.mem[a % MEM]
rh(d, a)    == rb(d, a) + rb(d, a + 1) * BYTE
rw(d, a)    == rh(d, a) + rh(d, a + 2) * Values(2)
read(d, a, n) == CASE n = 1 -> rb(d, a) [] n = 2 -> rh(d, a) [] n = 4 -> rw(d, a)
gpr(d, n)   == d.reg[n]

\* The byte v at the address a, and in the buffer.
Written(d, a, v) ==
  [d EXCEPT !.mem[a] = v, !.touched = @ \cup {a},
            !.writes = Append(@, [addr |-> a, data |-> v])]

\* The same when the buffer is full.
Dropped(d, a, v) ==
  [d EXCEPT !.mem[a] = v, !.touched = @ \cup {a}, !.full = @ \cup {a}]

\* Faulty variant: the buffer is taken to be as long as need be.
wbUnbounded(d, a, v) == Written(d, a % MEM, Cut(v, 1))

wb(d, a, v) ==
  IF Len(d.writes) < WRITES THEN Written(d, a % MEM, Cut(v, 1))
  ELSE Dropped(d, a % MEM, Cut(v, 1))

wh(d, a, v) == wb(wb(d, a, v), a + 1, v \div BYTE)
ww(d, a, v) == wh(wh(d, a, v), a + 2, v \div Values(2))
write(d, a, n, v) == CASE n = 1 -> wb(d, a, v) [] n = 2 -> wh(d, a, v) [] n = 4 -> ww(d, a, v)

add_wr(d, n, v) ==
  IF Len(d.regs) < 3 THEN [d EXCEPT !.regs = Append(@, [idx |-> n, val |-> v % WORD])] ELSE d

fill_char(d, n) == Cut(gpr(d, R26), n)
work(d, x28, x27) == add_wr(add_wr(d, R28, x28), R27, x27)

\* for (i = from; i < to; i++) d = Body(d, i)
For(d, from, to, Body(_, _)) ==
  LET n == IF to > from THEN to - from ELSE 0
      rounds[k \in 0 .. n] == IF k = 0 THEN d ELSE Body(rounds[k - 1], from + (k - 1))
  IN rounds[n]

\* v / n in C.
quotient(v, n) == IF v < 0 THEN -((-v) \div n) ELSE v \div n

\* The i at which a loop from 0 to n is left.
Until(n, P(_)) == LET S == {j \in 0 .. n - 1 : P(j)} IN IF S = {} THEN n ELSE Min(S)

-----------------------------------------------------------------------------
(* The operands.                                                           *)

HasRegister(o) ==
  o.mode \in AMAuto \cup {"RegisterIndirect", "Displacement", "DisplacementIndirect",
                          "DoubleDisplacement"}

Addressable(o) ==
  IF o.index # NoIndex THEN o.mode \in {"Displacement", "PCDisplacement", "DirectAddress"}
  ELSE o.mode \in AMRegister \cup AMAuto \cup AMPlain \cup {"DoubleDisplacement"}
Readable(o) == Addressable(o) \/ o.mode \in AMConstant
BitReadable(o) ==
  /\ o.mode \in AMAuto \cup {"RegisterIndirect", "Displacement", "DoubleDisplacement",
                           "DirectAddress", "Immediate"}
  /\ o.index = NoIndex
BitAddressable(o) ==
  /\ o.mode \in {"Register", "Autoincrement", "RegisterIndirect", "Displacement",
                 "DirectAddress"}
  /\ o.index = NoIndex

\* What decode_read_am and decode_read_am_address find in memory; an automatic mode
\* leaves its register alone.
EffectiveAddress(d, o, n) ==
  LET base == IF HasRegister(o) THEN gpr(d, o.reg) ELSE d.pc
      x    == IF o.index = NoIndex THEN 0 ELSE gpr(d, o.index) * n
  IN CASE o.mode \in {"RegisterIndirect", "Autoincrement"} -> base
       [] o.mode = "Autodecrement"                         -> base - n
       [] o.mode \in {"Displacement", "PCDisplacement"}    -> base + o.disp + x
       [] o.mode \in {"DisplacementIndirect", "PCDisplacementIndirect"} -> rw(d, base + o.disp)
       [] o.mode = "DoubleDisplacement"    -> rw(d, base + o.disp) + o.disp2
       [] o.mode = "DirectAddress"         -> o.disp + x
       [] o.mode = "DirectAddressDeferred" -> rw(d, o.disp)

decode_read_am(d, o, n) ==
  CASE o.mode = "Register"   -> Cut(gpr(d, o.reg), n)
    [] o.mode \in AMConstant -> Cut(o.disp, n)
    [] OTHER                 -> read(d, EffectiveAddress(d, o, n), n)

decode_read_am_address(d, o, n) ==
  [flag  |-> o.mode = "Register",
   value |-> IF o.mode = "Register" THEN o.reg ELSE EffectiveAddress(d, o, n) % WORD]

\* The displacement counts bytes, and the bit is always the first one of its byte; the
\* second one of two displacements does not count, the number of a register does.
BitAddress(d, o) ==
  CASE o.mode = "Register"                         -> o.reg
    [] o.mode \in AMAuto \cup {"RegisterIndirect"} -> gpr(d, o.reg)
    [] o.mode = "Displacement"                     -> gpr(d, o.reg) + o.disp
    [] o.mode = "DoubleDisplacement"               -> rw(d, gpr(d, o.reg) + o.disp)
    [] o.mode = "DirectAddress"                    -> o.disp

decode_bit_read_am(d, o) ==
  IF o.mode = "Immediate" THEN o.disp ELSE rw(d, BitAddress(d, o))
decode_bit_read_am_address(d, o) == BitAddress(d, o) % WORD

\* The lengths they give an operand of n bytes.
am_length(o, size, n) ==
  CASE o.mode = "Immediate"          -> 1 + n
    [] o.mode = "DoubleDisplacement" -> 1 + 2 * size
    [] o.mode \in {"Displacement", "DisplacementIndirect", "PCDisplacement",
                   "PCDisplacementIndirect"} ->
         IF o.index = NoIndex THEN 1 + size ELSE 2 + size
    [] o.mode \in {"DirectAddress", "DirectAddressDeferred"} ->
         IF o.index = NoIndex THEN 5 ELSE 6
    [] OTHER                         -> 1

bit_am_length(o, size) ==
  CASE o.mode \in {"Displacement", "DoubleDisplacement"} -> 1 + size
    [] o.mode \in {"DirectAddress", "Immediate"}         -> 5
    [] OTHER                                             -> 1

decode_len_byte(d, l) == IF l.reg THEN gpr(d, l.n) ELSE l.n

f7a_decode(d, i, n) ==
  [op1 |-> decode_read_am_address(d, i.src, n).value, lenop1 |-> decode_len_byte(d, i.len1),
   op2 |-> decode_read_am_address(d, i.to, n).value,  lenop2 |-> decode_len_byte(d, i.len2)]

\* What f7a_decode, f7b_decode and f7c_decode answer.
ilen(i) ==
  CASE i.op \in {"CMPC", "MOVC"} ->
         am_length(i.src, i.size1, 1) + am_length(i.to, i.size2, 1) + 4
    [] i.op \in Extracts ->
         bit_am_length(i.src, i.size1) + am_length(i.to, i.size2, 4) + 3
    [] i.op \in Inserts ->
         am_length(i.src, i.size1, 4) + bit_am_length(i.to, i.size2) + 3
    [] i.op \in Decimals ->
         am_length(i.src, i.size1, IF i.op = "CVTDZP" THEN 2 ELSE 1)
         + am_length(i.to, i.size2, 1) + 3
    [] i.op = "MOVBS" -> bit_am_length(i.src, i.size1) + bit_am_length(i.to, i.size2) + 3
    [] OTHER -> bit_am_length(i.src, i.size1) + am_length(i.to, i.size2, i.unit) + 3

\* The operands the operations below take from f7b_decode and f7c_decode.
Understood(i) ==
  /\ CASE i.op \in {"CMPC", "MOVC"}   -> Addressable(i.src) /\ Addressable(i.to)
       [] i.op = "SEARCH"  -> BitAddressable(i.src) /\ Readable(i.to)
       [] i.op = "SCHBS"   -> BitAddressable(i.src) /\ Addressable(i.to)
       [] i.op = "MOVBS"   -> BitAddressable(i.src) /\ BitAddressable(i.to)
       [] i.op \in Extracts -> BitReadable(i.src) /\ Addressable(i.to)
       [] i.op \in Inserts  -> Readable(i.src) /\ BitAddressable(i.to)
       [] i.op \in Decimals -> Readable(i.src) /\ Addressable(i.to)
  \* A shift by the length of the word, or by more, is undefined.
  /\ i.op \in Extracts \cup Inserts => ~i.len1.reg /\ i.len1.n \in 1 .. WORD_BITS - 1

\* With an index, a bit of the number of the register is taken for the one that tells
\* PC-relative and direct addresses, whatever the mode: [R16] .. [R19] and the words that
\* displacements from them point at are taken for those.
R16 == (SP + 1) \div 2
Misread(o) ==
  /\ o.index # NoIndex /\ o.mode \in {"RegisterIndirect", "DisplacementIndirect"}
  /\ o.reg \in R16 .. R16 + 3
MisreadSize(o) == <<1, 2, 4, 4>>[o.reg - R16 + 1]
MisreadAs(o, disp) ==
  [o EXCEPT !.mode = IF o.reg = R16 + 3 THEN "DirectAddress" ELSE "PCDisplacement",
            !.disp = disp]
\* Its length, and so what comes behind it, is right all the same.
Fits(o, size) == o.mode = "DisplacementIndirect" /\ size = MisreadSize(o)

\* The instructions the routine may take i for.  Only of a bit field does it read
\* a pair of displacements short; the length of a bit field or of a decimal is behind both
\* operands, that of a string behind it.
Taken(i) ==
  LET Own(o) == [disp |-> o.disp, len1 |-> i.len1, to |-> i.to, size2 |-> i.size2,
                 len2 |-> i.len2]
      Behind(o, size) == IF Fits(o, size) THEN {Own(o)} ELSE Tails
      S == IF Misread(i.src)
           THEN {[i EXCEPT !.src = MisreadAs(@, t.disp), !.size1 = MisreadSize(i.src),
                           !.len1 = t.len1, !.to = t.to, !.size2 = t.size2, !.len2 = t.len2] :
                   t \in Behind(i.src, i.size1)}
           ELSE IF i.op \in Extracts /\ i.src.mode = "DoubleDisplacement"
           THEN {[i EXCEPT !.len1 = t.len1, !.to = t.to, !.size2 = t.size2] : t \in Tails}
           ELSE IF Misread(i.to)
           THEN {[i EXCEPT !.to = MisreadAs(@, t.disp), !.size2 = MisreadSize(i.to),
                           !.len1 = IF i.op \in Inserts \cup Decimals THEN t.len1 ELSE @,
                           !.len2 = t.len2] : t \in Behind(i.to, i.size2)}
           ELSE {i}
  IN {j \in S : Understood(j)}

-----------------------------------------------------------------------------
(* Strings of characters.                                                  *)

\* The characters from one number to another of a string at base, `step' bytes from each
\* other, become the fill character of u bytes.
fill(d, from, to, base, step, u) ==
  For(d, from, to, LAMBDA x, j : write(x, base + j * step, u, fill_char(d, u)))

\* op_cmpstr_b, op_cmpstr_h
op_cmpstr(d, i, s) ==
  LET u == i.unit
      dest == IF s.lenop1 < s.lenop2 THEN s.lenop1 ELSE s.lenop2
      filled ==
        IF ~i.fill THEN d
        ELSE IF s.lenop1 < s.lenop2 THEN fill(d, s.lenop1, s.lenop2, s.op1, u, u)
        ELSE fill(d, s.lenop2, s.lenop1, s.op2, u, u)
      c1(j) == read(filled, s.op1 + j * u, u)
      c2(j) == read(filled, s.op2 + j * u, u)
      stops(j) == i.stop /\ (c1(j) = fill_char(d, u) \/ c2(j) = fill_char(d, u))
      k == Until(dest, LAMBDA j : c1(j) > c2(j) \/ c2(j) > c1(j) \/ stops(j))
      q == work(filled, s.lenop1 + k * u, s.lenop2 + k * u)
  IN IF k = dest
     THEN [q EXCEPT !.codes.s = s.lenop1 > s.lenop2, !.codes.z = s.lenop1 = s.lenop2,
                    !.codes.cy = i.stop \/ @]
     ELSE [q EXCEPT !.codes.s = c1(k) > c2(k), !.codes.z = FALSE,
                    !.codes.cy = IF i.stop THEN c1(k) # c2(k) ELSE @]

\* Faulty variant: the characters are moved from the first one on, whichever way.
MovedUp(d, i, s, dest) ==
  LET Body(x, j) == [x EXCEPT !.i = j + 1, !.d = write(@, s.op2 + j * i.unit, i.unit,
                                                       read(@, s.op1 + j * i.unit, i.unit))]
  IN For([d |-> d, over |-> FALSE, i |-> 0], 0, dest, Body)

\* Characters moved until the stop character was; i is how many before it.
Moved(d, i, s, dest) ==
  LET u == i.unit
      at(j) == (IF i.down THEN dest - j - 1 ELSE j) * u
      Body(x, j) ==
        IF x.over THEN x
        ELSE LET c1 == read(x.d, s.op1 + at(j), u)
             IN [d    |-> write(x.d, s.op2 + at(j), u, c1),
                 over |-> i.stop /\ c1 = fill_char(d, u),
                 i    |-> IF i.stop /\ c1 = fill_char(d, u) THEN j ELSE j + 1]
  IN For([d |-> d, over |-> FALSE, i |-> 0], 0, dest, Body)

\* op_movstr_ub, op_movstr_uh
op_movstr_up(d, i, s) ==
  LET u == i.unit
      dest == IF s.lenop1 < s.lenop2 THEN s.lenop1 ELSE s.lenop2
      l == Moved(d, i, s, dest)
  IN IF i.fill /\ s.lenop1 < s.lenop2
     THEN work(fill(l.d, l.i, s.lenop2, s.op2, u, u), s.op1 + l.i * u, s.op2 + s.lenop2 * u)
     ELSE work(l.d, s.op1 + l.i * u, s.op2 + l.i * u)

\* op_movstr_db, op_movstr_dh: they fill different places.
op_movstr_down(d, i, s) ==
  LET u == i.unit
      dest == IF s.lenop1 < s.lenop2 THEN s.lenop1 ELSE s.lenop2
      l == Moved(d, i, s, dest)
      base == IF u = 1 THEN s.op2 + dest ELSE s.op2
  IN IF i.fill /\ s.lenop1 < s.lenop2
     THEN work(fill(l.d, l.i, s.lenop2, base + (s.lenop2 - 1) * u, -u, u),
               s.op1 + (s.lenop1 - l.i - 1) * u, s.op2 - u)
     ELSE work(l.d, s.op1 + (s.lenop1 - l.i - 1) * u, s.op2 + (s.lenop2 - l.i - 1) * u)

\* op_search_ub, op_search_uh
op_search_up(d, i) ==
  LET u == i.unit
      op1 == decode_bit_read_am_address(d, i.src)
      n == decode_len_byte(d, i.len1)
      op2 == decode_read_am(d, i.to, u)
      k == Until(n, LAMBDA j : IF read(d, op1 + j * u, u) = op2 THEN i.want ELSE ~i.want)
  IN [work(d, op1 + k * u, k) EXCEPT !.codes.z = k = n]

\* op_search_db, op_search_dh: -1 is where they end if nothing is found.
op_search_down(d, i) ==
  LET u == i.unit
      op1 == decode_bit_read_am_address(d, i.src)
      n == decode_len_byte(d, i.len1)
      op2 == decode_read_am(d, i.to, u)
      start == IF u = 1 THEN n ELSE n - 1
      k == start - Until(start + 1, LAMBDA j :
             IF read(d, op1 + (start - j) * u, u) = op2 THEN i.want ELSE ~i.want)
  IN [work(d, op1 + k * u, k) EXCEPT !.codes.z = k = n]

-----------------------------------------------------------------------------
(* Strings of bits.                                                        *)

bit(v, b) == (v \div 2 ^ b) % 2 = 1
with_bit(v, b, x) ==
  IF bit(v, b) = x THEN v ELSE IF x THEN v + 2 ^ b ELSE v - 2 ^ b

\* The result goes to a register, behind the others, or to memory.
PutWordResult(d, o, v) ==
  LET am2 == decode_read_am_address(d, o, 4)
  IN IF am2.flag THEN add_wr(d, am2.value, v) ELSE ww(d, am2.value, v)

\* op_schbs: R28 is the byte the search began in, however far it went.
op_schbs(d, i) ==
  LET op1 == decode_bit_read_am_address(d, i.src)
      n == decode_len_byte(d, i.len1)
      k == Until(n, LAMBDA j : bit(rb(d, op1 + j \div BYTE_BITS), j % BYTE_BITS) = i.want)
      q == IF n > 0 THEN add_wr(d, R28, op1) ELSE d
  IN [PutWordResult(q, i.to, k) EXCEPT !.codes.z = k = n]

\* op_movbsu: both strings start at the first bit of a byte.
op_movbsu(d, i) ==
  LET n == decode_len_byte(d, i.len1)
      op1 == decode_bit_read_am_address(d, i.src)
      op2 == decode_bit_read_am_address(d, i.to)
      Body(x, j) ==
        LET b    == j % BYTE_BITS
            last == b = BYTE_BITS - 1
            dst  == with_bit(x.dst, b, bit(x.src, b))
            q    == IF last THEN wb(x.d, x.op2, dst) ELSE x.d
        IN [d   |-> q,
            op1 |-> IF last THEN x.op1 + 1 ELSE x.op1,
            op2 |-> IF last THEN x.op2 + 1 ELSE x.op2,
            src |-> IF last THEN rb(x.d, x.op1 + 1) ELSE x.src,
            dst |-> IF last THEN rb(q, x.op2 + 1) ELSE dst]
      l == For([d |-> d, op1 |-> op1, op2 |-> op2, src |-> rb(d, op1), dst |-> rb(d, op2)],
               0, n, Body)
  IN work(IF n % BYTE_BITS # 0 THEN wb(l.d, l.op2, l.dst) ELSE l.d, l.op1, l.op2)

\* op_movbsd: it starts at the last bit, of none the one before the first, and ends
\* before the first one.
op_movbsd(d, i) ==
  LET n == decode_len_byte(d, i.len1)
      from == Number(n - 1, 4)
      op1 == decode_bit_read_am_address(d, i.src) + quotient(from, BYTE_BITS)
      op2 == decode_bit_read_am_address(d, i.to) + quotient(from, BYTE_BITS)
      Body(x, j) ==
        LET b    == (from - j) % BYTE_BITS
            dst  == with_bit(x.dst, b, bit(x.src, b))
            q    == IF b = 0 THEN wb(x.d, x.op2, dst) ELSE x.d
        IN [d   |-> q,
            op1 |-> IF b = 0 THEN x.op1 - 1 ELSE x.op1,
            op2 |-> IF b = 0 THEN x.op2 - 1 ELSE x.op2,
            src |-> IF b = 0 THEN rb(x.d, x.op1 - 1) ELSE x.src,
            dst |-> IF b = 0 THEN rb(q, x.op2 - 1) ELSE dst]
      l == For([d |-> d, op1 |-> op1, op2 |-> op2, src |-> rb(d, op1), dst |-> rb(d, op2)],
               0, n, Body)
  IN work(IF (from - n) % BYTE_BITS # BYTE_BITS - 1 THEN wb(l.d, l.op2, l.dst) ELSE l.d,
          l.op1, l.op2)

-----------------------------------------------------------------------------
(* Bit fields.                                                             *)

\* 1u << n, which is 2 ^ n; of that the provers know only that it is an integer.
shifted(n) == For(1, 0, n, LAMBDA v, b : 2 * v)

\* The lowest n bits of v, as `& mask' leaves them.
low(v, n) == v % shifted(n)

\* op_extbfz, op_extbfs, op_extbfl
op_extbf(d, i) ==
  LET n == i.len1.n
      v == low(decode_bit_read_am(d, i.src), n)
      r == CASE i.op = "EXTBFZ" -> v
             [] i.op = "EXTBFS" -> IF bit(v, n - 1) THEN v + (WORD - shifted(n)) ELSE v
             [] i.op = "EXTBFL" -> v * shifted(WORD_BITS - n)
  IN PutWordResult(d, i.to, r)

\* op_insbfr, op_insbfl
op_insbf(d, i) ==
  LET n == i.len1.n
      op1 == decode_read_am(d, i.src, 4)
      at == decode_bit_read_am_address(d, i.to)
      v == IF i.op = "INSBFR" THEN op1 ELSE op1 \div shifted(WORD_BITS - n)
      old == rw(d, at)
  IN ww(d, at, (old - low(old, n)) + low(v, n))

-----------------------------------------------------------------------------
(* Decimals.                                                               *)

value(b) == (b \div DIGIT) * RADIX + (b % DIGIT)

PutResult(d, am2, n, v) ==
  IF am2.flag THEN add_wr(d, am2.value, SetReg(gpr(d, am2.value), n, v))
  ELSE write(d, am2.value, n, v)

\* x | y of half words.
or(x, y) ==
  For(0, 0, 2 * BYTE_BITS, LAMBDA v, b : IF bit(x, b) \/ bit(y, b) THEN v + 2 ^ b ELSE v)

\* Digits put together with `|'.
digits(v) ==
  LET q == quotient(v, RADIX)
      x == v - q * RADIX
  IN  (IF x < 0 THEN x ELSE q * DIGIT + x) % BYTE

\* op_adddc, op_subdc, op_subrdc
op_decimal(d, i) ==
  LET op1 == decode_read_am(d, i.src, 1)
      am2 == decode_read_am_address(d, i.to, 1)
      src == value(op1)
      dst == value(IF am2.flag THEN gpr(d, am2.value) % BYTE ELSE rb(d, am2.value))
      cy == IF d.codes.cy THEN 1 ELSE 0
      r == CASE i.op = "ADDDC"  -> src + dst + cy
             [] i.op = "SUBDC"  -> dst - src - cy
             [] i.op = "SUBRDC" -> src - dst - cy
      most == RADIX * RADIX
      carry == IF i.op = "ADDDC" THEN r >= most ELSE r < 0
      result == IF ~carry THEN r ELSE IF i.op = "ADDDC" THEN r - most ELSE r + most
  IN [PutResult(d, am2, 1, digits(result)) EXCEPT
        !.codes.cy = carry, !.codes.z = IF result # 0 \/ carry THEN FALSE ELSE @]

op_cvtdpz(d, i) ==
  LET op1 == decode_read_am(d, i.src, 1)
      am2 == decode_read_am_address(d, i.to, 2)
      n == Cut(decode_len_byte(d, i.len1), 2)
      v == or(or((op1 \div DIGIT) + (op1 % DIGIT) * BYTE, n), Cut(n * BYTE, 2))
  IN [PutResult(d, am2, 2, v) EXCEPT !.codes.z = IF op1 # 0 THEN FALSE ELSE @]

op_cvtdzp(d, i) ==
  LET op1 == decode_read_am(d, i.src, 2)
      am2 == decode_read_am_address(d, i.to, 1)
      v == ((op1 \div BYTE) % DIGIT) + (op1 % DIGIT) * DIGIT
  IN [PutResult(d, am2, 1, v) EXCEPT !.codes.z = IF v # 0 THEN FALSE ELSE @]

-----------------------------------------------------------------------------
v60_string_exec(d, i) ==
  CASE i.op = "CMPC"   -> op_cmpstr(d, i, f7a_decode(d, i, 1))
    [] i.op = "MOVC"   -> LET s == f7a_decode(d, i, i.unit)
                          IN  IF i.down THEN op_movstr_down(d, i, s) ELSE op_movstr_up(d, i, s)
    [] i.op = "SEARCH" -> IF i.down THEN op_search_down(d, i) ELSE op_search_up(d, i)
    [] i.op = "SCHBS"  -> op_schbs(d, i)
    [] i.op = "MOVBS"  -> IF i.down THEN op_movbsd(d, i) ELSE op_movbsu(d, i)
    [] i.op \in Extracts -> op_extbf(d, i)
    [] i.op \in Inserts  -> op_insbf(d, i)
    [] i.op = "CVTDPZ"   -> op_cvtdpz(d, i)
    [] i.op = "CVTDZP"   -> op_cvtdzp(d, i)
    [] OTHER             -> op_decimal(d, i)
=============================================================================
