--------------------------- MODULE MCDecodeWindow --------------------------
(***************************************************************************)
(* DecodeWindow on instructions of every format, each with every           *)
(* addressing mode the decoder has.                                        *)
(***************************************************************************)
EXTENDS DecodeWindow

\* One mod byte of each mode of m = 0 and of m = 1, without the modes the
\* hardware description leaves out (indexed ones, mod[7:5] = 6 with m = 1).
ModBytes(m) ==
  IF m THEN {\h01, \h22, \h43, \h64, \h85, \hA6}
  ELSE {\h01, \h22, \h43, \h64, \h85, \hA6, \hC7, \hE5,
        \hF0, \hF1, \hF2, \hF3, \hF4, \hF8, \hF9, \hFA, \hFB, \hFC, \hFD, \hFE}

Flag(m, i) == IF m THEN 2 ^ i ELSE 0

\* ADD.W, SHL.H and MOVTWB, with bit 7 of byte 1 clear, in every mode.
Fmt1Heads ==
  UNION {{<<op, Flag(m, 6) + Flag(d, 5) + 7, b>> : b \in ModBytes(m), d \in BOOLEAN} :
           m \in BOOLEAN, op \in {\h84, \hAB, \h29}}

\* INC.W, RET, TRAP and RETIU, in every mode; an immediate only where the
\* operand is read.
Fmt3Heads ==
  UNION {{<<op + Flag(m, 0), b>> :
            b \in ModBytes(m) \ (IF op \in {\hDC} THEN {\hF4} ELSE {})} :
           m \in BOOLEAN, op \in {\hDC, \hE2, \hF8, \hEA}}

\* SCLF, whose operands differ in size, the second mod byte behind the first operand.
FpHead(op, subop, m1, m2, b1, b2) ==
  LET first == ModField((2 :> b1), 2, m1, FpDim(op, subop))
      base == 2 + first.len
  IN [k \in 1 .. base + 1 |->
        CASE k = 1 -> op
          [] k = 2 -> Flag(m1, 6) + Flag(m2, 5) + subop
          [] k = 3 -> b1
          [] k = base + 1 -> b2
          [] OTHER -> 128 + k]

\* A short mod field and two long ones.
OneOfEach(m) == IF m THEN {\h43} ELSE {\h01, \hF4}

FpPairs(m1, m2) ==
  ((ModBytes(m1) \X OneOfEach(m2)) \cup (OneOfEach(m1) \X ModBytes(m2)))
    \ {p \in {\h43, \hFE} \X {\h43, \hFE} :
          /\ p[1] = (IF m1 THEN \h43 ELSE \hFE)
          /\ p[2] = (IF m2 THEN \h43 ELSE \hFE)}

\* All but the pairs of nine bytes each, which do not fit into the window.
FpHeads ==
  UNION {{FpHead(f[1], f[2], m1, m2, p[1], p[2]) : p \in FpPairs(m1, m2)} :
           f \in {<<\h5C, 16>>}, m1 \in BOOLEAN, m2 \in BOOLEAN}

\* Every opcode: Format I with a constant, which is as long as the operand, and
\* the others with a 16-bit displacement.  UPDPSW.H, whose constant mask the
\* decoder takes to be two bytes and the reference four, is left out; for floating
\* point see above.
EveryOpcode ==
  {<<op, Flag(d, 5) + 7, \hF4>> : op \in Fmt1Ops \ {\h4A}, d \in BOOLEAN} \cup
  {<<op, \h25>> : op \in (0 .. 255) \ (Fmt1Ops \cup FpOps)}

MCHeads == Fmt1Heads \cup Fmt3Heads \cup FpHeads \cup EveryOpcode
=============================================================================
