---------------------------- MODULE DecodeWindow ---------------------------
(***************************************************************************)
(* The decoder beside the prefetch window that fills up under it: the      *)
(* bytes of an instruction arrive a few at a time over whatever the buffer *)
(* held, ST_DECODE (rtl/v60_control.sv) latches the decoded instruction as *)
(* soon as decode_valid says so, and the window goes on filling until the  *)
(* instruction retires.  The instruction is a jump to itself, or one that  *)
(* is reached again: a flush empties the window and its bytes come back.   *)
(*                                                                         *)
(* What is latched is compared with what the reference takes the           *)
(* instruction to be.                                                      *)
(***************************************************************************)
EXTENDS Decode, Windowed

CONSTANTS
  Heads,         \* what instructions begin with: sequences of bytes
  StaleBytes,    \* what the buffer may hold before
  Pushes         \* the numbers of bytes a bus response may bring

ASSUME DecodeWindowAssumption ==
  /\ FETCH_WINDOW \in Nat \ {0}
  /\ Pushes \subseteq Nat \ {0}
  /\ Heads \subseteq Seq(0 .. 255)
  /\ StaleBytes \subseteq 0 .. 255

VARIABLES
  head,     \* the instruction's first bytes
  window,   \* ibuf_data
  count,    \* ibuf_valid_count
  state,    \* ST_DECODE, or ST_EXECUTE for all that follow
  inst_r    \* the instruction latched

windowVars == <<head, window, count, state, inst_r>>

\* Memory from the instruction with head h on: behind its head, bytes that
\* differ from one another.
program(h) == [i \in 0 .. FETCH_WINDOW + 3 |-> IF i < Len(h) THEN h[i + 1] ELSE (160 + i) % 256]

Reference == INSTANCE ReferenceDecode

\* What the reference takes each instruction to be.
References == [h \in Heads |-> Reference!RefDecode(program(h))]

Ref == References[head]

StaleWindows == {[i \in 0 .. FETCH_WINDOW - 1 |-> s] : s \in StaleBytes}

WindowInit ==
  /\ head \in Heads
  /\ window \in StaleWindows
  /\ count = 0
  /\ state = "ST_DECODE"
  /\ inst_r = Short(0)

\* A faulty variant: the count is not limited to the window.
ArriveUncapped(n) ==
  /\ count < FETCH_WINDOW
  /\ count' = count + n
  /\ window' = [i \in DOMAIN window |->
                  IF count <= i /\ i < count + n THEN program(head)[i] ELSE window[i]]
  /\ UNCHANGED <<head, state, inst_r>>

\* n more bytes; the window shows no more than it has room for.
Arrive(n) ==
  /\ count < FETCH_WINDOW
  /\ LET upto == IF count + n > FETCH_WINDOW THEN FETCH_WINDOW ELSE count + n
     IN /\ count' = upto
        /\ window' = [i \in DOMAIN window |->
                        IF count <= i /\ i < upto THEN program(head)[i] ELSE window[i]]
  /\ UNCHANGED <<head, state, inst_r>>

\* ST_DECODE: the decoded instruction goes to inst_r.
Latch ==
  /\ state = "ST_DECODE"
  /\ decode_valid(window, count)
  /\ inst_r' = decoded(window)
  /\ state' = "ST_EXECUTE"
  /\ UNCHANGED <<head, window, count>>

\* ST_DECODE: bytes are missing.
Wait ==
  /\ state = "ST_DECODE"
  /\ ~decode_valid(window, count)
  /\ UNCHANGED windowVars

\* The instruction has jumped to itself: both pointers return to the buffer's
\* first slot, and the window shows what is left there.
FlushWindow ==
  /\ state = "ST_EXECUTE"
  /\ state' = "ST_DECODE"
  /\ count' = 0
  /\ window' \in StaleWindows
  /\ UNCHANGED <<head, inst_r>>

WindowNext == Latch \/ Wait \/ FlushWindow \/ \E n \in Pushes : Arrive(n)

\* Bytes keep arriving while there is room for them, and the processor runs on
\* every clock edge.
Fairness == WF_windowVars(\E n \in Pushes : Arrive(n)) /\ WF_windowVars(Latch)

WindowSpec == WindowInit /\ [][WindowNext]_windowVars /\ Fairness

-----------------------------------------------------------------------------
(* The decoder's form of an operand of the reference.                      *)

DecodedMode(r) ==
  LET wide == r.disps /= <<>> /\ Len(r.disps[1]) = 4
      reg == IF wide THEN "AM_DISP32_REG" ELSE "AM_DISP16_REG"
      pc == IF wide THEN "AM_PC_DISP32" ELSE "AM_PC_DISP16"
  IN CASE r.mode = "Register"               -> <<"AM_REGISTER", FALSE>>
       [] r.mode = "Autoincrement"          -> <<"AM_REG_INDIRECT_INC", FALSE>>
       [] r.mode = "Autodecrement"          -> <<"AM_REG_INDIRECT_DEC", FALSE>>
       [] r.mode = "RegisterIndirect"       -> <<"AM_REG_INDIRECT", FALSE>>
       [] r.mode = "Displacement"           -> <<reg, FALSE>>
       [] r.mode = "DisplacementIndirect"   -> <<reg, TRUE>>
       [] r.mode = "DoubleDisplacement"     -> <<reg, TRUE>>
       [] r.mode = "PCDisplacement"         -> <<pc, FALSE>>
       [] r.mode = "PCDisplacementIndirect" -> <<pc, TRUE>>
       [] r.mode = "PCDoubleDisplacement"   -> <<pc, TRUE>>
       [] r.mode = "DirectAddress"          -> <<"AM_DIRECT_ADDR", FALSE>>
       [] r.mode = "DirectAddressDeferred"  -> <<"AM_DIRECT_ADDR", TRUE>>
       [] r.mode = "Immediate"              -> <<"AM_IMMEDIATE", FALSE>>
       [] r.mode = "ImmediateQuick"         -> <<"AM_IMM_QUICK", FALSE>>
       [] OTHER                             -> <<"none", FALSE>>

OfRegister(am) ==
  am \in {"AM_REGISTER", "AM_REG_INDIRECT", "AM_REG_INDIRECT_INC",
          "AM_REG_INDIRECT_DEC", "AM_DISP16_REG", "AM_DISP32_REG"}

SameOperand(o, r) ==
  /\ <<o.am, o.indirect>> = DecodedMode(r)
  /\ OfRegister(o.am) => o.reg = r.modval % 32
  /\ o.len = r.amlength
  /\ IF o.am = "AM_IMM_QUICK" THEN o.imm = << r.modval % 16 >>
     ELSE /\ o.imm = (IF r.disps = <<>> THEN <<>> ELSE r.disps[1])
          /\ o.imm2 = (IF Len(r.disps) < 2 THEN <<>> ELSE r.disps[2])

OperandsOf(inst) ==
  CASE inst.format \in {"FMT_I", "FMT_II"} -> << inst.src, inst.dst >>
    [] inst.format = "FMT_III"             -> << inst.dst >>
    [] OTHER                               -> <<>>

-----------------------------------------------------------------------------
(* Properties.                                                             *)

\* The window and what has been latched are of their types.
WindowOK ==
  /\ head \in Seq(0 .. 255)
  /\ window \in [0 .. FETCH_WINDOW - 1 -> 0 .. 255]
  /\ count \in 0 .. FETCH_WINDOW
  /\ state \in {"ST_DECODE", "ST_EXECUTE"}
  /\ state = "ST_EXECUTE" => inst_r.len \in 1 .. count

\* inst is what the reference, ref, takes the instruction to be: of the same length and
\* with the same operands, made of the same bytes.
Like(inst, ref) ==
  ref.defined =>
    LET operands == OperandsOf(inst)
    IN /\ inst.len = ref.length
       /\ Len(operands) = Len(ref.operands)
       /\ \A k \in DOMAIN operands : SameOperand(operands[k], ref.operands[k])

\* The instruction latched is the instruction the reference executes, so that the next
\* one is found where it begins, however few of its bytes had arrived and whatever the
\* rest of the window held.
LikeReference == state = "ST_EXECUTE" => Like(inst_r, Ref)

\* The window when all of it has arrived.
Whole == [i \in 0 .. FETCH_WINDOW - 1 |-> program(head)[i]]

\* The decoder and the reference agree on the instruction in a window that is full: on
\* the length of every format and on every addressing mode.
WholeLikeReference == decode_valid(Whole, FETCH_WINDOW) => Like(decoded(Whole), Ref)

\* An instruction that has been said to be complete stays what it is while the
\* bytes behind it arrive: no stale byte was part of it.
DecodedHeld ==
  [][count' > count /\ decode_valid(window, count) =>
       /\ decode_valid(window', count')
       /\ decoded(window') = decoded(window)]_windowVars

\* An instruction that fits into the window is decoded in the end: the decoder
\* does not wait for bytes that are behind it.
Decodes ==
  (state = "ST_DECODE" /\ LET ref == Ref IN ref.defined => ref.length <= FETCH_WINDOW)
    ~> (state = "ST_EXECUTE")
=============================================================================
