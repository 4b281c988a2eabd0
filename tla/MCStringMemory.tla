--------------------------- MODULE MCStringMemory ---------------------------
(***************************************************************************)
(* StringReference with bytes of 4 bits, 32 of them, binary digits in      *)
(* place of decimal ones, 8 registers and a buffer of 8 bytes.             *)
(***************************************************************************)
EXTENDS StringReference, TLC

Op(mode, reg, d, d2, x) == [mode |-> mode, reg |-> reg, disp |-> d, disp2 |-> d2, index |-> x]
R(n)   == Op("Register", n, 0, 0, NoIndex)
Imm(v) == Op("Immediate", 0, v, 0, NoIndex)
At(n)  == Op("RegisterIndirect", n, 0, 0, NoIndex)
Direct(a)  == Op("DirectAddress", 0, a, 0, NoIndex)
Past(n, d) == Op("Displacement", n, d, 0, NoIndex)
Up(n)   == Op("Autoincrement", n, 0, 0, NoIndex)
Down(n) == Op("Autodecrement", n, 0, 0, NoIndex)

\* Every mode the routine understands but for operands of bits.
Everywhere ==
  {At(0), Direct(7), Past(0, 2), Past(0, 65535), Up(0), Up(2), Down(0), Down(5),
   Op("PCDisplacement", 0, 3, 0, NoIndex), Op("DisplacementIndirect", 0, 1, 0, NoIndex),
   Op("PCDisplacementIndirect", 0, 2, 0, NoIndex),
   Op("DirectAddressDeferred", 0, 9, 0, NoIndex), Op("DoubleDisplacement", 1, 4, 3, NoIndex),
   Op("Displacement", 1, 2, 0, 6), Op("PCDisplacement", 0, 5, 0, 6),
   Op("DirectAddress", 0, 11, 0, 6)}

Lit(n) == [reg |-> FALSE, n |-> n]
Reg(n) == [reg |-> TRUE, n |-> n]
None   == Lit(0)

Inst(op, src, l1, to, l2) ==
  [op |-> op, unit |-> 1, fill |-> FALSE, stop |-> FALSE, down |-> FALSE, want |-> TRUE,
   src |-> src, size1 |-> 1, len1 |-> l1, to |-> to, size2 |-> 2, len2 |-> l2]

\* Lengths, one of them 9 in a register, and strings that overlap either way or not.
LengthPairs ==
  {<<Lit(0), Lit(3)>>, <<Lit(3), Lit(3)>>, <<Lit(5), Lit(2)>>, <<Lit(2), Lit(5)>>,
   <<Reg(5), Lit(1)>>, <<Lit(4), Reg(5)>>}
Places == {<<At(0), At(1)>>, <<At(0), Past(0, 1)>>, <<Past(0, 1), At(0)>>, <<At(0), At(0)>>}

TwoStrings(op, places, lengths) ==
  {Inst(op, p[1], l[1], p[2], l[2]) : p \in places, l \in lengths}
Unit(S) == {[i EXCEPT !.unit = u] : i \in S, u \in {1, 2}}
Size1(S) == {[i EXCEPT !.size1 = n] : i \in S, n \in {1, 2, 4}}
Size2(S) == {[i EXCEPT !.size2 = n] : i \in S, n \in {1, 2, 4}}
Fills(S) == {[i EXCEPT !.fill = TRUE] : i \in S}
Stops(S) == {[i EXCEPT !.stop = TRUE] : i \in S}
Downs(S) == {[i EXCEPT !.down = TRUE] : i \in S}
Both(S)  == S \cup {[i EXCEPT !.want = FALSE] : i \in S}

Characters ==
  LET all     == TwoStrings("CMPC", Places, LengthPairs)
      moves   == TwoStrings("MOVC", Places, LengthPairs)
      modes   == {<<o, At(1)>> : o \in Everywhere} \cup {<<At(0), o>> : o \in Everywhere}
                 \cup {<<R(6), At(1)>>}
  IN Unit(all \cup Fills(all) \cup Stops(all))
     \cup Unit(moves \cup Fills(moves) \cup Stops(moves) \cup Downs(moves \cup Fills(moves)))
     \cup Unit(TwoStrings("MOVC", modes, {<<Lit(2), Reg(5)>>}))

Searching ==
  LET S == {Inst("SEARCH", o, l, v, None) :
              o \in {At(0), Past(0, 65535), Direct(9), Up(0), R(6)},
              v \in {R(2), Imm(3), At(1), Down(1)}, l \in {Lit(0), Lit(3), Reg(5)}}
  IN  Unit(Both(S \cup Downs(S)))

Bits ==
  LET places == {At(0), Up(0), Direct(9), Past(0, 65535), Past(0, 2), R(6)}
      moves  == {Inst("MOVBS", p, l, q, None) :
                   p \in places, q \in {At(1), At(0), Past(0, 1), Direct(5), Up(1)},
                   l \in {Lit(0), Lit(1), Lit(4), Lit(6), Reg(5)}}
  IN Both({Inst("SCHBS", p, l, o, None) :
             p \in places, o \in {R(1), R(4), At(1), At(4), Up(1), Down(1), Past(1, 3)},
             l \in {Lit(0), Lit(3), Lit(7), Reg(5)}})
     \cup moves \cup Downs(moves)

Fields ==
  {Inst(op, p, Lit(n), o, None) :
     op \in Extracts, p \in {At(0), Up(0), Down(0), Direct(9), Past(0, 0), Past(0, 65535),
                            Imm(40961)},
     o \in {R(1), R(0), At(1), Up(1), Past(1, 3)}, n \in {1, 3, 8, 15}}
  \cup Size1({Inst(op, Op("DoubleDisplacement", 1, 4, 3, NoIndex), Lit(8), R(1), None) :
                op \in Extracts})
  \cup {Inst(op, v, Lit(n), o, None) :
     op \in Inserts, v \in {R(2), Imm(40961), At(1), Down(1)},
     o \in {At(0), Up(0), Direct(9), Past(0, 0), Past(0, 1), R(6)}, n \in {1, 3, 8, 15}}

Packed ==
  {Inst(op, v, None, o, None) :
     op \in {"ADDDC", "SUBDC", "SUBRDC"}, v \in {Imm(k) : k \in 0 .. 15},
     o \in {R(n) : n \in 0 .. 7} \cup {Direct(k) : k \in {0, 3, 5, 6}}}
  \cup {Inst(op, v, l, o, None) :
     op \in {"CVTDPZ", "CVTDZP"}, v \in {Imm(0), Imm(6), Imm(81), Imm(17), R(1), Down(0)},
     o \in {R(2), At(1), Up(1)}, l \in {Lit(0), Lit(4), Reg(5)}}
  \cup {Inst(op, v, None, R(1), None) : op \in {"ADDDC", "SUBDC"}, v \in Everywhere}

\* Indexed modes that are taken for others, with what may be read behind them.
Misreadings ==
  LET modes == {Op("RegisterIndirect", n, 0, 0, 6) : n \in 4 .. 7}
               \cup {Op("DisplacementIndirect", n, 3, 0, 6) : n \in 4 .. 7}
  IN Size1({Inst("MOVC", o, Lit(2), At(1), Lit(3)) : o \in modes}
           \cup {Inst(op, o, Lit(3), At(1), None) :
                    op \in {"ADDDC", "CVTDZP", "INSBFR"}, o \in modes})
     \cup Size2({Inst("MOVC", At(0), Lit(2), o, Lit(3)) : o \in modes}
                \cup {Inst(op, At(0), Lit(3), o, None) :
                         op \in {"SUBDC", "CVTDPZ", "EXTBFS"}, o \in modes})
MCTails ==
  {[disp |-> 3, len1 |-> Lit(2), to |-> At(1), size2 |-> 1, len2 |-> Lit(5)],
   [disp |-> 65535, len1 |-> Lit(12), to |-> R(3), size2 |-> 4, len2 |-> Reg(5)],
   [disp |-> 6, len1 |-> Reg(5), to |-> Past(1, 2), size2 |-> 2, len2 |-> Lit(0)]}

\* What reads again what was moved, or moves it back.
MCLater ==
  {Inst("MOVC", At(1), Lit(4), At(0), Lit(4)), Inst("CMPC", At(0), Lit(4), At(1), Lit(4)),
   Inst("MOVBS", At(1), Lit(6), Direct(5), None)}
MCInstructions == Characters \cup Searching \cup Bits \cup Fields \cup Packed \cup Misreadings

MCContinues(i) == i.op \in {"MOVC", "MOVBS"} /\ i.src = At(0) /\ i.to = At(1)

Codes(b) == [c \in {"z", "s", "ov", "cy"} |-> b]
MCMachines ==
  {[reg |-> [n \in 0 .. 7 |-> <<8, 18, 3, 31, 20, 9, 5, 40000>>[n + 1]], pc |-> 9,
    codes |-> Codes(b), mem |-> [a \in 0 .. 31 |-> f[a]]] :
     b \in BOOLEAN,
     f \in {[a \in 0 .. 31 |-> (a * a + 3 * (a \div 3)) % 16],
            [a \in 0 .. 31 |-> IF a % 7 = 5 THEN 3 ELSE IF a % 5 = 3 THEN 1 ELSE 0]}}

MCStores == {[addr |-> 9, data |-> 6], [addr |-> 18, data |-> 3]}
=============================================================================
