--------------------------- MODULE InterruptProofs --------------------------
(***************************************************************************)
(* The stacks of interrupted programs stay in order however deep handlers  *)
(* interrupt handlers, for every bound on their number, and no NMI edge is *)
(* lost.                                                                   *)
(*                                                                         *)
(* The properties are not inductive: they speak of the frames on the       *)
(* stacks, which only stay there because the stack pointers of all that    *)
(* was interrupted later lie above them (Above), and of the last context,  *)
(* which only is what the last handler goes back to because each context   *)
(* was interrupted with the pointers its predecessor's handler had         *)
(* (Chain).  Enter and Leave say what the latches of the state machine     *)
(* hold between the steps of an entry and a return.                        *)
(***************************************************************************)
EXTENDS Interrupt, SequenceTheorems, TLAPS

-----------------------------------------------------------------------------
(* The NMI.                                                                *)

LatchOK == nmi_prev \in BOOLEAN /\ nmi_pending \in BOOLEAN /\ owed \in BOOLEAN

\* An acknowledge of the pending NMI is one that answers it.
LEMMA Acknowledged ==
  ASSUME NEW lines \in SUBSET Lines, Core(lines), int_ack, nmi_pending
  PROVE  saved_vector' = 2
  BY DEF Core, int_ack, Instruction, HaltInstruction, Trap, Brkv, Retiu, Running, Halt,
         IntCheck, IntAck, Push, Vector, Pop, Writeback, int_vector

\* The NMI's latches are Boolean, and an edge that is owed an answer is pending.
LEMMA Latches == Spec => [](LatchOK /\ NmiKept)
<1>1. Init => LatchOK /\ NmiKept
  BY DEF Init, LatchOK, NmiKept
<1>2. LatchOK /\ NmiKept /\ [Next]_vars => (LatchOK /\ NmiKept)'
  <2> SUFFICES ASSUME LatchOK, NmiKept, [Next]_vars PROVE (LatchOK /\ NmiKept)'
    OBVIOUS
  <2>1. CASE UNCHANGED vars
    BY <2>1 DEF vars, LatchOK, NmiKept
  <2>2. ASSUME NEW nmi_n \in BOOLEAN, NEW lines \in SUBSET Lines,
               Core(lines), NmiLatch(nmi_n)
        PROVE  (LatchOK /\ NmiKept)'
    <3>1. int_ack /\ nmi_pending => saved_vector' = 2
      BY <2>2, Acknowledged
    <3>2. nmi_prev' \in BOOLEAN /\ nmi_pending' \in BOOLEAN /\ owed' \in BOOLEAN
      BY <2>2 DEF LatchOK, NmiLatch, is_nmi
    <3>3. owed' => nmi_pending'
      BY <2>2, <3>1, Zenon DEF LatchOK, NmiKept, NmiLatch, is_nmi
    <3> QED  BY <3>2, <3>3 DEF LatchOK, NmiKept
  <2> QED  BY <2>1, <2>2 DEF Next
<1> QED  BY <1>1, <1>2, PTL DEF Spec

\* An NMI edge is remembered until the NMI is answered after it, whatever else is
\* acknowledged in between (v60_interrupt.sv nmi_pending).
THEOREM EdgeKept == Spec => []NmiKept
<1> QED  BY Latches, PTL

-----------------------------------------------------------------------------
(* The stacks.                                                             *)

Top == frames[Len(frames)]

\* The stack pointers while the handler that interrupted f runs.
During(f) == [f.sp EXCEPT ![HandlerStack(f)] = HandlerTop(f)]

\* Each pointer points into its own stack, and a context has as many words on
\* them as the handlers before it can have put there.
Stacks ==
  /\ \A k \in 1 .. Len(frames) : \A s \in Stack :
       frames[k].sp[s].stack = s /\ frames[k].sp[s].depth <= 4 * (k - 1)
  /\ \A s \in Stack : sp[s].stack = s

\* What a handler interrupts is the handler before it, and what runs now is the
\* last one, with the pointers this leaves.
Chain ==
  /\ \A j, k \in 1 .. Len(frames) : k = j + 1 =>
       frames[k].sp = During(frames[j]) /\ Selected(frames[k].psw) = HandlerStack(frames[j])
  /\ ~Entering /\ frames # << >> =>
       sp = During(Top) /\ Selected(psw) = HandlerStack(Top)
  /\ ~Entering /\ frames = << >> => \A s \in Stack : sp[s].depth = 0

\* A frame lies under the pointers of all the contexts after it.
Above ==
  \A j, k \in 1 .. Len(frames) : j < k =>
    HandlerTop(frames[j]).depth <= frames[k].sp[HandlerStack(frames[j])].depth

\* How far the last handler is entered.
Enter ==
  Entering =>
    /\ frames # << >>
    /\ sp = Top.sp /\ psw = HandlerPsw(Top)
    /\ saved_psw = Top.psw /\ return_addr = Top.pc /\ int_type = Top.type
    /\ state = "ST_INT_ACK" => multi_step = 0
    /\ state = "PUSH" =>
         /\ multi_step <= 1 + FrameWords(Top.type)
         /\ temp_addr = [stack |-> HandlerStack(Top),
                         depth |-> Top.sp[HandlerStack(Top)].depth + 1 + multi_step]
         /\ multi_step = 1 + FrameWords(Top.type) =>
              At(Up(HandlerTop(Top), 1)) = PswWord(Top.psw)
    /\ state = "VECTOR" =>
         /\ temp_addr = HandlerTop(Top)
         /\ At(HandlerTop(Top)) = PcWord(Top.pc)
         /\ At(Up(HandlerTop(Top), 1)) = PswWord(Top.psw)

\* How far the last handler is left.
Leave ==
  /\ state = "POP" =>
       /\ frames # << >> /\ temp_src = FrameWords(Top.type)
       /\ \/ multi_step = 0 /\ temp_addr = HandlerTop(Top)
          \/ multi_step = 1 /\ temp_addr = Up(HandlerTop(Top), 1) /\ return_addr = Top.pc
  /\ state = "ST_WRITEBACK" =>
       /\ frames # << >> /\ temp_src = FrameWords(Top.type)
       /\ temp_addr = Up(HandlerTop(Top), 1)
       /\ return_addr = Top.pc /\ saved_psw = Top.psw

Bounded == state \in {"ST_HALT", "ST_INT_CHECK"} => Room

\* The types of all but the NMI's latches.
CoreOK ==
  /\ state \in {"RUN", "ST_HALT", "ST_INT_CHECK", "ST_INT_ACK", "PUSH", "VECTOR", "POP",
               "ST_WRITEBACK"}
  /\ pc \in Code /\ psw \in Psw
  /\ sp \in [Stack -> Address]
  /\ mem \in [Stack -> [1 .. MAX_WORDS -> Words]]
  /\ saved_psw \in Psw /\ return_addr \in Code
  /\ saved_vector \in 0 .. 255 /\ int_type \in {"HW", "TRAP", "BRKV"}
  /\ multi_step \in 0 .. 3
  /\ temp_addr \in Address /\ temp_src \in 0 .. 2
  /\ frames \in Seq(Frame) /\ Len(frames) <= MAX_FRAMES

IInv == CoreOK /\ Stacks /\ Chain /\ Above /\ Enter /\ Leave /\ Bounded /\ FramesInMemory

-----------------------------------------------------------------------------
(* Facts about sequences, contexts and stack pointers.                     *)

LEMMA Appended ==
  ASSUME NEW S, NEW s \in Seq(S), NEW e \in S
  PROVE  /\ Append(s, e) \in Seq(S) /\ Append(s, e) # << >>
         /\ Len(Append(s, e)) = Len(s) + 1 /\ Append(s, e)[Len(s) + 1] = e
         /\ \A k \in 1 .. Len(s) : Append(s, e)[k] = s[k]
  BY AppendProperties

LEMMA Dropped ==
  ASSUME NEW S, NEW s \in Seq(S), s # << >>
  PROVE  /\ SubSeq(s, 1, Len(s) - 1) \in Seq(S)
         /\ Len(SubSeq(s, 1, Len(s) - 1)) = Len(s) - 1
         /\ \A k \in 1 .. Len(s) - 1 : SubSeq(s, 1, Len(s) - 1)[k] = s[k]
<1>1. Len(s) \in Nat \ {0}
  BY EmptySeq
<1>2. \A k \in 1 .. Len(s) - 1 : s[k] \in S
  BY <1>1, ElementOfSeq
<1> DEFINE n == Len(s) - 1
           t == SubSeq(s, 1, n)
<1>3. \A k \in 1 .. n : s[k] \in S
  BY <1>2
<1>4. n \in Int /\ 1 \in Int /\ n >= 0
  BY <1>1
<1> HIDE DEF n, t
<1>5. t \in Seq(S) /\ Len(t) = (IF 1 <= n THEN n - 1 + 1 ELSE 0)
      /\ \A k \in 1 .. n - 1 + 1 : t[k] = s[1 + k - 1]
  BY <1>3, <1>4, SubSeqProperties DEF t
<1>6. t \in Seq(S) /\ Len(t) = n /\ \A k \in 1 .. n : t[k] = s[k]
  BY <1>4, <1>5
<1> QED  BY <1>6 DEF n, t

LEMMA SelectedStack == \A p \in Psw : Selected(p) \in Stack
  BY DEF Selected, Stack

\* A handler's frame is on top of the stack it selects.
LEMMA FrameFacts ==
  ASSUME NEW f \in Frame
  PROVE  /\ HandlerPsw(f) \in Psw /\ Selected(HandlerPsw(f)) = HandlerStack(f)
         /\ HandlerStack(f) \in Stack /\ FrameWords(f.type) \in 0 .. 2
         /\ HandlerTop(f).stack = HandlerStack(f)
         /\ HandlerTop(f).depth = f.sp[HandlerStack(f)].depth + 2 + FrameWords(f.type)
         /\ f.sp[HandlerStack(f)].depth \in Nat /\ HandlerTop(f).depth \in Nat
<1>1. f.type \in {"HW", "TRAP", "BRKV"} /\ f.psw \in Psw /\ f.sp \in [Stack -> Address]
  BY DEF Frame
<1>2. HandlerPsw(f) \in Psw
  BY <1>1 DEF HandlerPsw, Psw
<1>3. HandlerStack(f) \in Stack
  BY <1>2, SelectedStack DEF HandlerStack
<1>4. FrameWords(f.type) \in 0 .. 2
  BY <1>1 DEF FrameWords
<1>5. f.sp[HandlerStack(f)].depth \in Nat
  BY <1>1, <1>3, InterruptAssumption DEF Address, MAX_WORDS
<1> QED  BY <1>2, <1>3, <1>4, <1>5 DEF HandlerStack, HandlerTop

LEMMA DuringFacts ==
  ASSUME NEW f \in Frame
  PROVE  /\ DOMAIN During(f) = Stack
         /\ During(f)[HandlerStack(f)] = HandlerTop(f)
         /\ \A s \in Stack : s # HandlerStack(f) => During(f)[s] = f.sp[s]
         /\ \A s \in Stack : During(f)[s].depth \in Nat
         /\ \A s \in Stack : f.sp[s].depth <= During(f)[s].depth
         /\ \A s \in Stack : During(f)[s].depth <= f.sp[s].depth + 4
<1>1. f.sp \in [Stack -> Address]
  BY DEF Frame
<1>2. /\ DOMAIN During(f) = Stack
      /\ During(f)[HandlerStack(f)] = HandlerTop(f)
      /\ \A s \in Stack : s # HandlerStack(f) => During(f)[s] = f.sp[s]
  BY <1>1, FrameFacts DEF During
<1>3. \A s \in Stack : f.sp[s].depth \in Nat
  BY <1>1, InterruptAssumption DEF Address, MAX_WORDS
<1>4. /\ HandlerTop(f).depth = f.sp[HandlerStack(f)].depth + 2 + FrameWords(f.type)
      /\ FrameWords(f.type) \in 0 .. 2 /\ HandlerStack(f) \in Stack
  BY FrameFacts
<1>5. ASSUME NEW s \in Stack
      PROVE  /\ During(f)[s].depth \in Nat /\ f.sp[s].depth <= During(f)[s].depth
             /\ During(f)[s].depth <= f.sp[s].depth + 4
  <2>1. CASE s = HandlerStack(f)
    BY <2>1, <1>2, <1>3, <1>4
  <2>2. CASE s # HandlerStack(f)
    BY <2>2, <1>2, <1>3
  <2> QED  BY <2>1, <2>2
<1> QED  BY <1>2, <1>5

LEMMA FrameOf ==
  ASSUME CoreOK
  PROVE  /\ Len(frames) \in Nat /\ \A k \in 1 .. Len(frames) : frames[k] \in Frame
         /\ frames # << >> => Len(frames) \in 1 .. Len(frames) /\ Top \in Frame
         /\ MAX_WORDS \in Nat /\ 4 * Len(frames) <= MAX_WORDS
<1>1. frames \in Seq(Frame) /\ Len(frames) \in Nat /\ Len(frames) <= MAX_FRAMES
  BY LenProperties DEF CoreOK
<1>2. \A k \in 1 .. Len(frames) : frames[k] \in Frame
  BY <1>1, ElementOfSeq
<1>3. frames # << >> => Len(frames) \in 1 .. Len(frames)
  BY <1>1, EmptySeq
<1> QED  BY <1>1, <1>2, <1>3, InterruptAssumption DEF Top, MAX_WORDS

\* Where the pointers are when no handler is being entered.
LEMMA Pointers ==
  ASSUME IInv, ~Entering
  PROVE  /\ \A s \in Stack : sp[s].depth <= 4 * Len(frames)
         /\ \A j \in 1 .. Len(frames) :
              HandlerTop(frames[j]).depth <= sp[HandlerStack(frames[j])].depth
<1> USE DEF IInv
<1>1. CASE frames = << >>
  BY <1>1, EmptySeq DEF Chain
<1>2. CASE frames # << >>
  <2>1. sp = During(Top) /\ Top \in Frame /\ Top = frames[Len(frames)]
    BY <1>2, FrameOf DEF Chain, Top
  <2>2. \A s \in Stack : Top.sp[s].depth <= 4 * (Len(frames) - 1) /\ Top.sp[s].depth \in Nat
    BY <2>1, <1>2, FrameOf, InterruptAssumption DEF Stacks, Frame, Address, MAX_WORDS
  <2>3. \A s \in Stack : sp[s].depth <= Top.sp[s].depth + 4 /\ sp[s].depth \in Nat
                         /\ Top.sp[s].depth <= sp[s].depth
    BY <2>1, DuringFacts
  <2>4. \A s \in Stack : sp[s].depth <= 4 * Len(frames)
    BY <2>2, <2>3, FrameOf
  <2>5. ASSUME NEW j \in 1 .. Len(frames)
        PROVE  HandlerTop(frames[j]).depth <= sp[HandlerStack(frames[j])].depth
    <3>1. /\ HandlerStack(frames[j]) \in Stack
          /\ HandlerTop(frames[j]).depth \in Nat
      BY FrameOf, FrameFacts
    <3>2. CASE j = Len(frames)
      BY <3>2, <3>1, <2>1, DuringFacts
    <3>3. CASE j < Len(frames)
      <4>1. HandlerTop(frames[j]).depth <= Top.sp[HandlerStack(frames[j])].depth
        BY <3>3, <2>1, FrameOf, <1>2 DEF Above
      <4> QED  BY <4>1, <3>1, <2>2, <2>3
    <3> QED  BY <3>2, <3>3, FrameOf
  <2> QED  BY <2>4, <2>5
<1> QED  BY <1>1, <1>2

-----------------------------------------------------------------------------
(* The initial state, and steps in which no handler is entered or left.    *)

LEMMA InitIInv == Init => IInv
<1> SUFFICES ASSUME Init PROVE IInv
  OBVIOUS
<1>1. frames = << >> /\ Len(frames) = 0 /\ frames \in Seq(Frame)
  BY EmptySeq DEF Init
<1>2. CoreOK
  <2>1. psw \in InitPsw /\ InitPsw \subseteq Psw /\ CodeWord \in Words
    BY DEF Init, InitPsw, Psw, Words
  <2>2. sp \in [Stack -> Address] /\ temp_addr \in Address
    BY InterruptAssumption DEF Init, Address, Stack, MAX_WORDS
  <2> QED  BY <1>1, <2>1, <2>2, InterruptAssumption DEF Init, CoreOK
<1>3. Stacks /\ Chain /\ Above
  BY <1>1 DEF Init, Stacks, Chain, Above
<1>4. Enter /\ Leave /\ Bounded /\ FramesInMemory
  BY <1>1 DEF Init, Entering, Entered, Enter, Leave, Bounded, FramesInMemory
<1> QED  BY <1>2, <1>3, <1>4 DEF IInv

LEMMA SameContexts ==
  ASSUME IInv, UNCHANGED <<frames, sp>>
  PROVE  Stacks' /\ Above' /\ Top' = Top
  BY DEF IInv, Stacks, Above, Top

LEMMA SameFrames ==
  ASSUME IInv, UNCHANGED <<frames, mem>>, Entered' = Entered
  PROVE  FramesInMemory'
  BY DEF IInv, FramesInMemory, At

\* What stays when neither the selected stack nor the pointers change.
LEMMA Quiet ==
  ASSUME IInv, UNCHANGED <<frames, sp, mem>>, Selected(psw)' = Selected(psw),
         ~Entering, ~Entering'
  PROVE  Stacks' /\ Chain' /\ Above' /\ Enter' /\ FramesInMemory' /\ Top' = Top
<1>1. Stacks' /\ Above' /\ Top' = Top
  BY SameContexts
<1>2. FramesInMemory'
  <2>1. Entered' = Entered
    BY DEF Entered
  <2> QED  BY <2>1, SameFrames
<1>3. Chain'
  BY <1>1 DEF IInv, Chain
<1> QED  BY <1>1, <1>2, <1>3 DEF Enter

LEMMA InstructionStep == ASSUME IInv, Instruction PROVE IInv'
<1> USE DEF Instruction, Running
<1>1. PICK id \in BOOLEAN : psw' = [psw EXCEPT !.ID = id]
  OBVIOUS
<1>2. psw' \in Psw /\ Selected(psw)' = Selected(psw)
  BY <1>1 DEF IInv, CoreOK, Psw, Selected
<1>3. ~Entering /\ ~Entering'
  BY DEF Entering
<1>4. CoreOK'
  BY <1>2 DEF IInv, CoreOK, latches
<1>5. Leave' /\ Bounded'
  BY DEF Leave, Bounded
<1> QED  BY <1>2, <1>3, <1>4, <1>5, Quiet DEF IInv

LEMMA HaltStep ==
  ASSUME IInv, NEW lines \in SUBSET Lines, HaltInstruction \/ Halt(lines)
  PROVE  IInv'
<1> USE DEF HaltInstruction, Halt, Running
<1>1. Selected(psw)' = Selected(psw)
  OBVIOUS
<1>2. ~Entering /\ ~Entering' /\ state' \in {"ST_HALT", "ST_INT_CHECK"}
  BY DEF Entering
<1>3. CoreOK'
  BY <1>2 DEF IInv, CoreOK, latches
<1>4. Leave' /\ Bounded'
  BY <1>2 DEF IInv, Leave, Bounded, Room
<1> QED  BY <1>1, <1>2, <1>3, <1>4, Quiet DEF IInv

LEMMA RetiuStep == ASSUME IInv, Retiu PROVE IInv'
<1> USE DEF Retiu, Running
<1>1. Selected(psw)' = Selected(psw)
  OBVIOUS
<1>2. ~Entering /\ ~Entering'
  BY DEF Entering
<1>3. Stacks' /\ Chain' /\ Above' /\ Enter' /\ FramesInMemory' /\ Top' = Top
  BY <1>1, <1>2, Quiet
<1>4. Top \in Frame /\ Selected(psw) \in Stack
  BY FrameOf, SelectedStack DEF IInv, CoreOK
<1>5. temp_addr' = HandlerTop(Top)
  BY <1>2, <1>4, DuringFacts DEF IInv, Chain, current_sp
<1>6. temp_src' = FrameWords(Top.type) /\ temp_src' \in 0 .. 2
  BY <1>4, FrameFacts DEF Top
<1>7. CoreOK'
  BY <1>4, <1>6 DEF IInv, CoreOK, current_sp
<1>8. Leave' /\ Bounded'
  BY <1>3, <1>5, <1>6 DEF Leave, Bounded
<1> QED  BY <1>3, <1>7, <1>8 DEF IInv

-----------------------------------------------------------------------------
(* Entering a handler.                                                     *)

\* A context is interrupted: the handler's own stack and its latches are set.
LEMMA Interrupts ==
  ASSUME IInv, ~Entering, Room, UNCHANGED <<sp, mem>>, state' = "ST_INT_ACK",
         NEW type \in {"HW", "TRAP", "BRKV"}, NEW a \in Code, Interrupted(type, a),
         psw' = [psw EXCEPT !.EL = 0, !.ID = FALSE, !.IS = @ \/ type = "HW"],
         saved_psw' = psw, return_addr' = a, int_type' = type, multi_step' = 0
  PROVE  /\ frames' \in Seq(Frame) /\ Len(frames') <= MAX_FRAMES
         /\ Stacks' /\ Chain' /\ Above' /\ Enter' /\ Leave' /\ Bounded' /\ FramesInMemory'
<1> DEFINE f == [type |-> type, pc |-> a, psw |-> psw, sp |-> sp]
           n == Len(frames)
<1>1. f \in Frame
  BY DEF IInv, CoreOK, Frame
<1>2. frames \in Seq(Frame) /\ n \in Nat
  BY FrameOf DEF IInv, CoreOK
<1>3. /\ frames' \in Seq(Frame) /\ frames' # << >> /\ Len(frames') = n + 1
      /\ frames'[n + 1] = f
      /\ \A k \in 1 .. n : frames'[k] = frames[k]
  BY <1>1, <1>2, Appended DEF Interrupted
<1>4. Len(frames') <= MAX_FRAMES
  BY <1>2, <1>3, InterruptAssumption DEF Room
<1>5. Entering' /\ Top' = f
  BY <1>3 DEF Entering, Top
<1> HIDE DEF f, n
<1>6. f.sp = sp /\ f.psw = psw /\ f.pc = a /\ f.type = type
  BY DEF f
<1>7. \A k \in 1 .. n : frames[k] \in Frame
  BY FrameOf DEF IInv, n
<1>8. Stacks'
  <2> SUFFICES ASSUME NEW k \in 1 .. n + 1, NEW s \in Stack
               PROVE  frames'[k].sp[s].stack = s /\ frames'[k].sp[s].depth <= 4 * (k - 1)
    BY <1>3 DEF IInv, Stacks
  <2>1. CASE k = n + 1
    BY <2>1, <1>2, <1>3, <1>6, Pointers DEF IInv, Stacks, n
  <2>2. CASE k \in 1 .. n
    BY <2>2, <1>3 DEF IInv, Stacks, n
  <2> QED  BY <1>2, <2>1, <2>2
<1>9. Chain'
  <2> SUFFICES ASSUME NEW j \in 1 .. n + 1, NEW k \in 1 .. n + 1, k = j + 1
               PROVE  /\ frames'[k].sp = During(frames'[j])
                      /\ Selected(frames'[k].psw) = HandlerStack(frames'[j])
    BY <1>3, <1>5 DEF Chain
  <2>1. j \in 1 .. n /\ frames'[j] = frames[j]
    BY <1>2, <1>3
  <2>2. CASE k = n + 1
    <3>1. frames # << >> /\ Top = frames[j]
      BY <2>1, <2>2, <1>2, EmptySeq DEF n, Top
    <3> QED  BY <3>1, <2>1, <2>2, <1>3, <1>6 DEF IInv, Chain
  <2>3. CASE k \in 1 .. n
    BY <2>1, <2>3, <1>3 DEF IInv, Chain, n
  <2> QED  BY <1>2, <2>2, <2>3
<1>10. Above'
  <2> SUFFICES ASSUME NEW j \in 1 .. n + 1, NEW k \in 1 .. n + 1, j < k
               PROVE  HandlerTop(frames'[j]).depth
                        <= frames'[k].sp[HandlerStack(frames'[j])].depth
    BY <1>3 DEF Above
  <2>1. j \in 1 .. n /\ frames'[j] = frames[j]
    BY <1>2, <1>3
  <2>2. CASE k = n + 1
    BY <2>1, <2>2, <1>3, <1>6, Pointers DEF n
  <2>3. CASE k \in 1 .. n
    BY <2>1, <2>3, <1>3 DEF IInv, Above, n
  <2> QED  BY <1>2, <2>2, <2>3
<1>11. Enter'
  <2>1. psw' = HandlerPsw(f)
    BY <1>6 DEF HandlerPsw
  <2> QED  BY <2>1, <1>3, <1>5, <1>6 DEF Enter
<1>12. Leave' /\ Bounded'
  BY DEF Leave, Bounded
<1>13. FramesInMemory'
  <2>1. Entered' = 1 .. n /\ Entered = 1 .. n
    BY <1>2, <1>3, <1>5 DEF Entered, n
  <2> QED  BY <2>1, <1>3 DEF IInv, FramesInMemory, At
<1> QED  BY <1>3, <1>4, <1>8, <1>9, <1>10, <1>11, <1>12, <1>13

LEMMA EnterStep ==
  ASSUME IInv, NEW lines \in SUBSET Lines, Trap \/ Brkv \/ IntCheck(lines)
  PROVE  IInv'
<1>1. After(pc) \in Code /\ pc \in Code
  BY InterruptAssumption DEF IInv, CoreOK, Code, After
<1>2. ~Entering /\ Room
  BY DEF IInv, Bounded, Trap, Brkv, IntCheck, Running, Entering
<1>3. CASE Trap \/ Brkv
  <2> USE DEF Trap, Brkv, Running, exc_new_psw
  <2>1. psw' = [psw EXCEPT !.EL = 0, !.ID = FALSE] /\ psw' \in Psw
    BY <1>3 DEF IInv, CoreOK, Psw
  <2>2. PICK type \in {"TRAP", "BRKV"} : Interrupted(type, After(pc)) /\ int_type' = type
    BY <1>3
  <2>3. psw' = [psw EXCEPT !.EL = 0, !.ID = FALSE, !.IS = @ \/ type = "HW"]
    BY <2>1 DEF IInv, CoreOK, Psw
  <2>4. /\ frames' \in Seq(Frame) /\ Len(frames') <= MAX_FRAMES
        /\ Stacks' /\ Chain' /\ Above' /\ Enter' /\ Leave' /\ Bounded' /\ FramesInMemory'
    BY <1>1, <1>2, <1>3, <2>2, <2>3, Interrupts
  <2>5. CoreOK'
    BY <1>1, <1>3, <2>1, <2>4 DEF IInv, CoreOK
  <2> QED  BY <2>4, <2>5 DEF IInv
<1>4. CASE IntCheck(lines)
  <2> USE DEF IntCheck, exc_hw_psw, exc_new_psw
  <2>1. psw' \in Psw /\ psw' = [psw EXCEPT !.EL = 0, !.ID = FALSE, !.IS = @ \/ "HW" = "HW"]
    BY <1>4 DEF IInv, CoreOK, Psw
  <2>2. /\ frames' \in Seq(Frame) /\ Len(frames') <= MAX_FRAMES
        /\ Stacks' /\ Chain' /\ Above' /\ Enter' /\ Leave' /\ Bounded' /\ FramesInMemory'
    BY <1>1, <1>2, <1>4, <2>1, Interrupts
  <2>3. saved_vector' \in 0 .. 255
    <3>1. lines \subseteq 0 .. 3
      BY InterruptAssumption
    <3>2. lines # {} => \E i \in lines : \A j \in lines : j <= i
      BY <3>1
    <3> QED  BY <1>4, <3>1, <3>2 DEF int_vector, irq_any
  <2>4. CoreOK'
    BY <1>1, <1>4, <2>1, <2>2, <2>3 DEF IInv, CoreOK
  <2> QED  BY <2>2, <2>4 DEF IInv
<1> QED  BY <1>3, <1>4

\* Where the frame that is being entered or left lies.
LEMMA FrameRoom ==
  ASSUME IInv, frames # << >>
  PROVE  /\ Top \in Frame /\ Len(frames) \in Nat \ {0}
         /\ Top.sp[HandlerStack(Top)].depth \in Nat
         /\ Top.sp[HandlerStack(Top)].depth + 4 <= MAX_WORDS /\ MAX_WORDS \in Nat
         /\ HandlerTop(Top) \in Address /\ HandlerTop(Top).depth \in 1 .. MAX_WORDS
         /\ Up(HandlerTop(Top), 1) \in Address
         /\ Up(HandlerTop(Top), 1).stack = HandlerStack(Top)
         /\ Up(HandlerTop(Top), 1).depth = HandlerTop(Top).depth - 1
         /\ Up(HandlerTop(Top), 1).depth \in 1 .. MAX_WORDS
<1>1. /\ Top \in Frame /\ Len(frames) \in Nat \ {0} /\ Top = frames[Len(frames)]
      /\ 4 * Len(frames) <= MAX_WORDS /\ MAX_WORDS \in Nat
  BY FrameOf, EmptySeq DEF IInv, CoreOK, Top
<1>2. /\ HandlerStack(Top) \in Stack /\ FrameWords(Top.type) \in 0 .. 2
      /\ HandlerTop(Top).depth = Top.sp[HandlerStack(Top)].depth + 2 + FrameWords(Top.type)
      /\ Top.sp[HandlerStack(Top)].depth \in Nat
  BY <1>1, FrameFacts
<1>3. Top.sp[HandlerStack(Top)].depth <= 4 * (Len(frames) - 1)
  BY <1>1, <1>2 DEF IInv, Stacks
<1>4. /\ Top.sp[HandlerStack(Top)].depth + 4 <= MAX_WORDS
      /\ HandlerTop(Top).depth \in 2 .. MAX_WORDS
  <2> DEFINE d == Top.sp[HandlerStack(Top)].depth
             t == HandlerTop(Top).depth
             w == FrameWords(Top.type)
             n == Len(frames)
  <2>1. /\ d \in Nat /\ w \in 0 .. 2 /\ n \in Nat /\ t = d + 2 + w /\ MAX_WORDS \in Nat
        /\ d <= 4 * (n - 1) /\ 4 * n <= MAX_WORDS
    BY <1>1, <1>2, <1>3
  <2> HIDE DEF d, t, w, n
  <2>2. d + 4 <= MAX_WORDS /\ t \in 2 .. MAX_WORDS
    BY <2>1
  <2> QED  BY <2>2 DEF d, t
<1>5. HandlerTop(Top) \in Address
  BY <1>2, <1>4, <1>1 DEF HandlerTop, Address
<1>6. /\ Up(HandlerTop(Top), 1) \in Address
      /\ Up(HandlerTop(Top), 1).stack = HandlerStack(Top)
      /\ Up(HandlerTop(Top), 1).depth = HandlerTop(Top).depth - 1
  BY <1>1, <1>2, <1>4, <1>5, FrameFacts DEF Up, Address
<1> QED  BY <1>1, <1>2, <1>4, <1>5, <1>6

LEMMA IntAckStep == ASSUME IInv, IntAck PROVE IInv'
<1> USE DEF IntAck
<1>1. Entering /\ Entering' /\ frames # << >> /\ Entered' = Entered
  BY DEF IInv, Enter, Entering, Entered
<1>2. /\ Selected(psw) = HandlerStack(Top) /\ HandlerStack(Top) \in Stack /\ sp = Top.sp
      /\ sp[HandlerStack(Top)] \in Address
      /\ sp[HandlerStack(Top)].stack = HandlerStack(Top)
  BY <1>1, FrameRoom, FrameFacts DEF IInv, Enter, CoreOK, Stacks
<1>3. temp_addr' = [stack |-> HandlerStack(Top),
                    depth |-> Top.sp[HandlerStack(Top)].depth + 1]
  BY <1>2 DEF current_sp, Down, Up, Address
<1>4. temp_addr' \in Address
  BY <1>1, <1>2, <1>3, FrameRoom DEF Address
<1>5. CoreOK'
  BY <1>4 DEF IInv, CoreOK
<1>6. Stacks' /\ Above' /\ Top' = Top /\ FramesInMemory'
  BY <1>1, SameContexts, SameFrames
<1>7. Chain'
  BY <1>1, <1>6 DEF IInv, Chain
<1>8. Enter'
  <2>1. multi_step = 0
    BY <1>1 DEF IInv, Enter
  <2>2. FrameWords(Top.type) \in 0 .. 2
    BY <1>1, FrameRoom, FrameFacts
  <2>3. temp_addr' = [stack |-> HandlerStack(Top),
                      depth |-> Top.sp[HandlerStack(Top)].depth + 1 + multi_step]
    BY <1>1, <1>3, <2>1, FrameRoom
  <2>4. multi_step <= 1 + FrameWords(Top.type) /\ multi_step # 1 + FrameWords(Top.type)
    BY <2>1, <2>2
  <2> QED  BY <1>1, <1>6, <2>3, <2>4 DEF IInv, Enter
<1>9. Leave' /\ Bounded'
  BY DEF Leave, Bounded
<1> QED  BY <1>5, <1>6, <1>7, <1>8, <1>9 DEF IInv

\* A frame of a handler before the last one is under what the last one pushes.
LEMMA OldFrame ==
  ASSUME IInv, NEW k \in 1 .. Len(frames) - 1
  PROVE  /\ k \in 1 .. Len(frames) /\ frames[k] \in Frame
         /\ HandlerStack(frames[k]) \in Stack
         /\ HandlerTop(frames[k]).stack = HandlerStack(frames[k])
         /\ HandlerTop(frames[k]).depth \in 2 .. MAX_WORDS
         /\ HandlerTop(frames[k]).depth <= Top.sp[HandlerStack(frames[k])].depth
         /\ Up(HandlerTop(frames[k]), 1).stack = HandlerStack(frames[k])
         /\ Up(HandlerTop(frames[k]), 1).depth = HandlerTop(frames[k]).depth - 1
<1>1. /\ k \in 1 .. Len(frames) /\ k < Len(frames) /\ frames[k] \in Frame
      /\ Len(frames) \in 1 .. Len(frames) /\ Top = frames[Len(frames)] /\ Top \in Frame
  BY FrameOf, EmptySeq DEF IInv, CoreOK, Top
<1>2. /\ HandlerStack(frames[k]) \in Stack
      /\ HandlerTop(frames[k]).stack = HandlerStack(frames[k])
      /\ HandlerTop(frames[k]).depth
           = frames[k].sp[HandlerStack(frames[k])].depth + 2 + FrameWords(frames[k].type)
      /\ frames[k].sp[HandlerStack(frames[k])].depth \in Nat
      /\ FrameWords(frames[k].type) \in 0 .. 2
  BY <1>1, FrameFacts
<1>3. HandlerTop(frames[k]).depth <= Top.sp[HandlerStack(frames[k])].depth
  BY <1>1 DEF IInv, Above
<1>4. Top.sp[HandlerStack(frames[k])].depth \in 0 .. MAX_WORDS /\ MAX_WORDS \in Nat
  BY <1>1, <1>2, FrameOf DEF IInv, Frame, Address
<1>5. HandlerTop(frames[k]).depth \in 2 .. MAX_WORDS
  <2> DEFINE t == HandlerTop(frames[k]).depth
             d == frames[k].sp[HandlerStack(frames[k])].depth
             e == Top.sp[HandlerStack(frames[k])].depth
             w == FrameWords(frames[k].type)
  <2>1. t = d + 2 + w /\ d \in Nat /\ w \in 0 .. 2 /\ t <= e /\ e \in 0 .. MAX_WORDS
        /\ MAX_WORDS \in Nat
    BY <1>2, <1>3, <1>4
  <2> HIDE DEF t, d, e, w
  <2>2. t \in 2 .. MAX_WORDS
    BY <2>1
  <2> QED  BY <2>2 DEF t
<1>6. /\ Up(HandlerTop(frames[k]), 1).stack = HandlerStack(frames[k])
      /\ Up(HandlerTop(frames[k]), 1).depth = HandlerTop(frames[k]).depth - 1
  BY <1>2 DEF Up, HandlerTop
<1> QED  BY <1>1, <1>2, <1>3, <1>5, <1>6

\* One word is pushed: where it goes, what it is, and what stays.
LEMMA Pushed ==
  ASSUME IInv, Push
  PROVE  /\ frames # << >> /\ Entered = 1 .. Len(frames) - 1
         /\ PushWord \in Words
         /\ mem' \in [Stack -> [1 .. MAX_WORDS -> Words]]
         /\ \A s \in Stack, x \in 1 .. MAX_WORDS :
              mem'[s][x] = IF s = HandlerStack(Top)
                              /\ x = Top.sp[HandlerStack(Top)].depth + 1 + multi_step
                           THEN PushWord ELSE mem[s][x]
         /\ multi_step = FrameWords(Top.type) => PushWord = PswWord(Top.psw)
         /\ multi_step = 1 + FrameWords(Top.type) => PushWord = PcWord(Top.pc)
<1>1. Entering /\ frames # << >> /\ Entered = 1 .. Len(frames) - 1 /\ state = "PUSH"
  BY DEF IInv, Enter, Push, Entering, Entered
<1>2. /\ temp_addr = [stack |-> HandlerStack(Top),
                      depth |-> Top.sp[HandlerStack(Top)].depth + 1 + multi_step]
      /\ multi_step \in 0 .. 3 /\ multi_step <= 1 + FrameWords(Top.type)
      /\ int_type = Top.type /\ return_addr = Top.pc /\ saved_psw = Top.psw
  BY <1>1 DEF IInv, Enter, CoreOK
<1>3. FrameWords(Top.type) \in 0 .. 2 /\ HandlerStack(Top) \in Stack
  BY <1>1, FrameRoom, FrameFacts
<1>4. PushWord \in {PcWord(pc), CodeWord, PswWord(saved_psw), PcWord(return_addr)}
  BY <1>2, <1>3 DEF PushWord
<1>5. PushWord \in Words
  BY <1>4 DEF IInv, CoreOK, Words
<1>6. mem \in [Stack -> [1 .. MAX_WORDS -> Words]]
  BY DEF IInv, CoreOK
<1>7. mem' = [mem EXCEPT ![HandlerStack(Top)]
                           [Top.sp[HandlerStack(Top)].depth + 1 + multi_step] = PushWord]
  BY <1>2 DEF Push, Put
<1>8. /\ mem' \in [Stack -> [1 .. MAX_WORDS -> Words]]
      /\ \A s \in Stack, x \in 1 .. MAX_WORDS :
           mem'[s][x] = IF s = HandlerStack(Top)
                           /\ x = Top.sp[HandlerStack(Top)].depth + 1 + multi_step
                        THEN PushWord ELSE mem[s][x]
  BY <1>3, <1>5, <1>6, <1>7
<1>9. /\ multi_step = FrameWords(Top.type) => PushWord = PswWord(Top.psw)
      /\ multi_step = 1 + FrameWords(Top.type) => PushWord = PcWord(Top.pc)
  BY <1>2, <1>3 DEF PushWord
<1> QED  BY <1>1, <1>5, <1>8, <1>9

LEMMA PushStep == ASSUME IInv, Push PROVE IInv'
<1> DEFINE h == HandlerStack(Top)
           d == Top.sp[h].depth
           w == FrameWords(Top.type)
<1>1. frames # << >> /\ Entering /\ Entering' /\ Entered' = Entered
  BY Pushed DEF Push, Entering, Entered
<1>2. /\ h \in Stack /\ w \in 0 .. 2 /\ d \in Nat /\ d + 4 <= MAX_WORDS /\ MAX_WORDS \in Nat
      /\ HandlerTop(Top).stack = h /\ HandlerTop(Top).depth = d + 2 + w
      /\ Up(HandlerTop(Top), 1).stack = h /\ Up(HandlerTop(Top), 1).depth = d + 1 + w
  <2>1. HandlerTop(Top).depth = d + 2 + w /\ d \in Nat /\ w \in 0 .. 2
    BY <1>1, FrameRoom, FrameFacts
  <2>2. Up(HandlerTop(Top), 1).depth = HandlerTop(Top).depth - 1
    BY <1>1, FrameRoom
  <2>3. Up(HandlerTop(Top), 1).depth = d + 1 + w
    BY <2>1, <2>2
  <2> QED  BY <1>1, <2>1, <2>3, FrameRoom, FrameFacts
<1>3. /\ temp_addr = [stack |-> h, depth |-> d + 1 + multi_step] /\ int_type = Top.type
      /\ multi_step \in 0 .. 3 /\ multi_step <= 1 + w
      /\ multi_step = 1 + w => mem[h][d + 1 + w] = PswWord(Top.psw)
  BY <1>1, <1>2 DEF Push, IInv, Enter, CoreOK, At
<1>4. /\ \A x \in 1 .. MAX_WORDS :
           mem'[h][x] = IF x = d + 1 + multi_step THEN PushWord ELSE mem[h][x]
      /\ multi_step = w => PushWord = PswWord(Top.psw)
      /\ multi_step = 1 + w => PushWord = PcWord(Top.pc)
  BY <1>2, Pushed
<1>5. Stacks' /\ Above' /\ Top' = Top
  BY SameContexts DEF Push
<1>6. Chain'
  BY <1>1, <1>5 DEF Push, IInv, Chain
<1>7. Leave' /\ Bounded'
  BY DEF Push, Leave, Bounded
<1>8. FramesInMemory'
  <2> SUFFICES ASSUME NEW k \in 1 .. Len(frames) - 1
               PROVE  /\ At(HandlerTop(frames[k]))' = PcWord(frames[k].pc)
                      /\ At(Up(HandlerTop(frames[k]), 1))' = PswWord(frames[k].psw)
    BY <1>1, Pushed DEF FramesInMemory, Push, At
  <2> DEFINE s == HandlerStack(frames[k])
             t == HandlerTop(frames[k]).depth
  <2>1. /\ s \in Stack /\ HandlerTop(frames[k]).stack = s /\ t \in 2 .. MAX_WORDS
        /\ t <= Top.sp[s].depth
        /\ Up(HandlerTop(frames[k]), 1).stack = s /\ Up(HandlerTop(frames[k]), 1).depth = t - 1
    BY OldFrame
  <2>2. mem[s][t] = PcWord(frames[k].pc) /\ mem[s][t - 1] = PswWord(frames[k].psw)
    BY <2>1, Pushed DEF IInv, FramesInMemory, At
  <2> HIDE DEF s, t, h, d
  <2>3. mem'[s][t] = mem[s][t] /\ mem'[s][t - 1] = mem[s][t - 1]
    <3>1. CASE s = h
      <4>1. t <= d
        BY <2>1, <3>1 DEF d, h
      <4>2. t \in 1 .. MAX_WORDS /\ t - 1 \in 1 .. MAX_WORDS
            /\ t # d + 1 + multi_step /\ t - 1 # d + 1 + multi_step
        BY <4>1, <2>1, <1>2, <1>3
      <4> QED  BY <3>1, <4>2, <1>4
    <3>2. CASE s # h
      <4>1. t \in 1 .. MAX_WORDS /\ t - 1 \in 1 .. MAX_WORDS
        BY <2>1, <1>2
      <4> QED  BY <3>2, <2>1, <4>1, Pushed DEF h
    <3> QED  BY <3>1, <3>2
  <2> QED  BY <2>1, <2>2, <2>3 DEF At, Push, t, s
<1> HIDE DEF h, d, w
<1>9. CASE int_push_done
  <2>1. multi_step = 1 + w
    BY <1>3, <1>9 DEF int_push_done, w
  <2>2. /\ state' = "VECTOR" /\ temp_addr' = temp_addr
        /\ multi_step' = multi_step
    BY <1>9 DEF Push
  <2>3. temp_addr' = HandlerTop(Top)
    <3>1. d + 1 + multi_step = d + 2 + w
      BY <2>1, <1>2, <1>3
    <3> QED  BY <3>1, <2>2, <1>3, <1>2 DEF HandlerTop, h, d, w
  <2>4. mem'[h][d + 2 + w] = PcWord(Top.pc) /\ mem'[h][d + 1 + w] = PswWord(Top.psw)
    <3>1. /\ d + 2 + w \in 1 .. MAX_WORDS /\ d + 1 + w \in 1 .. MAX_WORDS
          /\ d + 2 + w = d + 1 + multi_step /\ d + 1 + w # d + 1 + multi_step
      BY <1>2, <2>1
    <3> QED  BY <3>1, <2>1, <1>3, <1>4
  <2>5. At(HandlerTop(Top))' = PcWord(Top.pc) /\ At(Up(HandlerTop(Top), 1))' = PswWord(Top.psw)
    BY <2>4, <1>2, <1>5 DEF At, HandlerTop, Push
  <2>6. Enter'
    BY <1>1, <1>5, <2>2, <2>3, <2>5 DEF IInv, Enter, Push
  <2>7. CoreOK'
    BY <2>2, Pushed DEF IInv, CoreOK, Push
  <2> QED  BY <1>5, <1>6, <1>7, <1>8, <2>6, <2>7 DEF IInv
<1>10. CASE ~int_push_done
  <2>1. multi_step <= w
    BY <1>2, <1>3, <1>10 DEF int_push_done, w
  <2>2. state' = "PUSH" /\ multi_step' = multi_step + 1 /\ temp_addr' = Down(temp_addr)
    BY <1>10 DEF Push
  <2>3. temp_addr' = [stack |-> h, depth |-> d + 1 + multi_step']
    BY <1>2, <1>3, <2>2 DEF Down, Up
  <2>4. multi_step' = 1 + w => mem'[h][d + 1 + w] = PswWord(Top.psw)
    <3> SUFFICES ASSUME multi_step' = 1 + w PROVE mem'[h][d + 1 + w] = PswWord(Top.psw)
      OBVIOUS
    <3>1. multi_step = w /\ d + 1 + w \in 1 .. MAX_WORDS
      BY <2>2, <1>2, <1>3
    <3> QED  BY <3>1, <1>4
  <2>5. multi_step' = 1 + w => At(Up(HandlerTop(Top), 1))' = PswWord(Top.psw)
    BY <2>4, <1>2, <1>5 DEF At, HandlerTop, Push, Up
  <2>6. Enter'
    BY <1>1, <1>2, <1>3, <1>5, <2>1, <2>2, <2>3, <2>5 DEF IInv, Enter, Push, h, d, w
  <2>7. multi_step' \in 0 .. 3 /\ temp_addr' \in Address
    BY <1>2, <1>3, <2>1, <2>2, <2>3 DEF Address
  <2>8. CoreOK'
    BY <2>2, <2>7, Pushed DEF IInv, CoreOK, Push
  <2> QED  BY <1>5, <1>6, <1>7, <1>8, <2>6, <2>8 DEF IInv
<1> QED  BY <1>9, <1>10

LEMMA VectorStep == ASSUME IInv, Vector PROVE IInv'
<1>1. /\ frames # << >> /\ Entering /\ ~Entering' /\ frames' = frames /\ mem' = mem
      /\ Top' = Top /\ Top \in Frame /\ psw' = psw
  BY FrameRoom DEF Vector, IInv, Enter, Entering, Top
<1>2. /\ Selected(psw) = HandlerStack(Top) /\ HandlerStack(Top) \in Stack /\ sp = Top.sp
      /\ temp_addr = HandlerTop(Top) /\ HandlerTop(Top) \in Address
  BY <1>1, FrameRoom, FrameFacts DEF Vector, IInv, Enter
<1>3. sp' = During(Top)
  BY <1>2 DEF Vector, During
<1>4. CoreOK'
  BY <1>2 DEF IInv, CoreOK, Vector, latches
<1>5. Stacks'
  <2>1. \A s \in Stack : sp'[s].stack = s
    BY <1>1, <1>2, <1>3, DuringFacts, FrameFacts DEF IInv, Stacks
  <2> QED  BY <2>1, <1>1 DEF IInv, Stacks
<1>6. Chain'
  BY <1>1, <1>2, <1>3 DEF IInv, Chain
<1>7. Above'
  BY <1>1 DEF IInv, Above
<1>8. FramesInMemory'
  <2>1. /\ Len(frames) \in Nat \ {0} /\ Entered = 1 .. Len(frames) - 1
        /\ Entered' = 1 .. Len(frames)
    BY <1>1, FrameRoom DEF Entered
  <2> SUFFICES ASSUME NEW k \in 1 .. Len(frames)
               PROVE  /\ At(HandlerTop(frames[k])) = PcWord(frames[k].pc)
                      /\ At(Up(HandlerTop(frames[k]), 1)) = PswWord(frames[k].psw)
    BY <1>1, <2>1 DEF FramesInMemory, At
  <2>2. CASE k = Len(frames)
    BY <2>2, <1>1 DEF IInv, Enter, Vector, Top
  <2>3. CASE k # Len(frames)
    BY <2>1, <2>3 DEF IInv, FramesInMemory
  <2> QED  BY <2>2, <2>3
<1>9. Enter' /\ Leave' /\ Bounded'
  BY <1>1 DEF Vector, Enter, Leave, Bounded
<1> QED  BY <1>4, <1>5, <1>6, <1>7, <1>8, <1>9 DEF IInv

-----------------------------------------------------------------------------
(* Leaving a handler.                                                      *)

\* What the last handler finds on its stack.
LEMMA TopInMemory ==
  ASSUME IInv, frames # << >>, ~Entering
  PROVE  /\ At(HandlerTop(Top)) = PcWord(Top.pc)
         /\ At(Up(HandlerTop(Top), 1)) = PswWord(Top.psw)
<1>1. Len(frames) \in Entered
  BY FrameRoom DEF Entered
<1> QED  BY <1>1 DEF IInv, FramesInMemory, Top

LEMMA PopStep == ASSUME IInv, Pop PROVE IInv'
<1> USE DEF Pop
<1>1. /\ frames # << >> /\ ~Entering /\ ~Entering' /\ Selected(psw)' = Selected(psw)
  BY DEF IInv, Leave, Entering
<1>2. Stacks' /\ Chain' /\ Above' /\ Enter' /\ FramesInMemory' /\ Top' = Top
  BY <1>1, Quiet
<1>3. /\ temp_src = FrameWords(Top.type) /\ temp_src \in 0 .. 2
      /\ Top \in Frame /\ Up(HandlerTop(Top), 1) \in Address
  BY <1>1, FrameRoom DEF IInv, CoreOK, Leave
<1>4. CASE multi_step = 0
  <2>1. temp_addr = HandlerTop(Top)
    BY <1>4 DEF IInv, Leave
  <2>2. return_addr' = Top.pc
    BY <1>1, <1>4, <2>1, TopInMemory DEF PcWord
  <2>3. temp_addr' = Up(HandlerTop(Top), 1) /\ multi_step' = 1
    BY <1>4, <2>1
  <2>4. CoreOK'
    BY <1>3, <1>4, <2>2, <2>3 DEF IInv, CoreOK, Frame
  <2>5. Leave' /\ Bounded'
    BY <1>1, <1>2, <1>3, <1>4, <2>2, <2>3 DEF Leave, Bounded
  <2> QED  BY <1>2, <2>4, <2>5 DEF IInv
<1>5. CASE multi_step # 0
  <2>1. temp_addr = Up(HandlerTop(Top), 1) /\ return_addr = Top.pc
    BY <1>5 DEF IInv, Leave
  <2>2. saved_psw' = Top.psw
    BY <1>1, <1>5, <2>1, TopInMemory DEF PswWord
  <2>3. CoreOK'
    BY <1>3, <1>5, <2>2 DEF IInv, CoreOK, Frame
  <2>4. Leave' /\ Bounded'
    BY <1>1, <1>2, <1>3, <1>5, <2>1, <2>2 DEF Leave, Bounded
  <2> QED  BY <1>2, <2>3, <2>4 DEF IInv
<1> QED  BY <1>4, <1>5

\* Both words and the rest of the frame dropped, the pointers are the old ones.
LEMMA Unwinds ==
  ASSUME IInv, Writeback
  PROVE  frames # << >> /\ Top \in Frame
         /\ pc' = Top.pc /\ psw' = Top.psw /\ sp' = Top.sp
<1>1. /\ frames # << >> /\ ~Entering /\ temp_src = FrameWords(Top.type)
      /\ temp_addr = Up(HandlerTop(Top), 1) /\ return_addr = Top.pc /\ saved_psw = Top.psw
      /\ sp = During(Top) /\ Selected(psw) = HandlerStack(Top)
  BY DEF IInv, Writeback, Leave, Entering, Chain
<1>2. /\ Top \in Frame /\ Top.sp \in [Stack -> Address] /\ HandlerStack(Top) \in Stack
      /\ Top.sp[HandlerStack(Top)].stack = HandlerStack(Top)
      /\ Top.sp[HandlerStack(Top)].depth \in Nat /\ FrameWords(Top.type) \in 0 .. 2
  BY <1>1, FrameRoom, FrameFacts DEF IInv, Stacks, Frame, Top
<1>3. Unwound = Top.sp[HandlerStack(Top)]
  <2> DEFINE a == Top.sp[HandlerStack(Top)]
             w == FrameWords(Top.type)
  <2>1. HandlerTop(Top) = [stack |-> HandlerStack(Top), depth |-> a.depth + 2 + w]
    BY DEF HandlerTop
  <2>2. a \in Address /\ a.stack = HandlerStack(Top) /\ a.depth \in Nat /\ w \in 0 .. 2
    BY <1>2
  <2>3. Unwound = Up(Up(HandlerTop(Top), 1), 1 + w)
    BY <1>1 DEF Unwound
  <2> HIDE DEF a, w
  <2>4. Unwound = [stack |-> HandlerStack(Top), depth |-> ((a.depth + 2 + w) - 1) - (1 + w)]
    <3>1. Up(HandlerTop(Top), 1) = [stack |-> HandlerStack(Top), depth |-> (a.depth + 2 + w) - 1]
      BY <2>1 DEF Up
    <3>2. Unwound = [stack |-> HandlerStack(Top),
                     depth |-> Up(HandlerTop(Top), 1).depth - (1 + w)]
      BY <2>3, <3>1 DEF Up
    <3> QED  BY <3>1, <3>2
  <2>5. ((a.depth + 2 + w) - 1) - (1 + w) = a.depth
    BY <2>2
  <2> QED  BY <2>2, <2>4, <2>5 DEF a, Address
<1>4. sp' = [During(Top) EXCEPT ![HandlerStack(Top)] = Top.sp[HandlerStack(Top)]]
  BY <1>1, <1>3 DEF Writeback
<1>5. sp' = Top.sp
  BY <1>2, <1>4 DEF During
<1> QED  BY <1>1, <1>2, <1>5 DEF Writeback

LEMMA WritebackStep == ASSUME IInv, Writeback PROVE IInv'
<1> DEFINE n == Len(frames)
<1>1. /\ frames # << >> /\ Top \in Frame /\ Top = frames[n] /\ n \in Nat \ {0}
      /\ psw' = Top.psw /\ pc' = Top.pc /\ sp' = Top.sp /\ sp' \in [Stack -> Address]
      /\ frames \in Seq(Frame) /\ ~Entering /\ ~Entering' /\ state' = "RUN"
  BY Unwinds, FrameRoom DEF IInv, CoreOK, Frame, Top, Writeback, Entering
<1>2. /\ frames' \in Seq(Frame) /\ Len(frames') = n - 1
      /\ \A k \in 1 .. n - 1 : frames'[k] = frames[k]
  <2>1. frames' = SubSeq(frames, 1, Len(frames) - 1)
    BY DEF Writeback
  <2> QED  BY <1>1, <2>1, Dropped
<1> HIDE DEF n
<1>3. \A s \in Stack, x \in 1 .. MAX_WORDS :
        mem'[s][x] = IF x <= Top.sp[s].depth THEN mem[s][x] ELSE CodeWord
  BY <1>1 DEF Writeback, Below
<1>4. mem' \in [Stack -> [1 .. MAX_WORDS -> Words]]
  <2>1. mem \in [Stack -> [1 .. MAX_WORDS -> Words]] /\ CodeWord \in Words
    BY DEF IInv, CoreOK, Words
  <2> QED  BY <2>1 DEF Writeback, Below
<1>5. CoreOK'
  <2>1. Top.pc \in Code /\ Top.psw \in Psw
    BY <1>1 DEF Frame
  <2>2. Len(frames') <= MAX_FRAMES
    BY <1>1, <1>2, InterruptAssumption DEF IInv, CoreOK, n
  <2>3. UNCHANGED latches
    BY DEF Writeback
  <2> QED  BY <1>1, <1>2, <1>4, <2>1, <2>2, <2>3 DEF IInv, CoreOK, latches
<1>6. Stacks'
  <2>1. n \in 1 .. n /\ n - 1 \in Nat
    BY <1>1
  <2>2. \A k \in 1 .. n : \A s \in Stack :
          frames[k].sp[s].stack = s /\ frames[k].sp[s].depth <= 4 * (k - 1)
    BY DEF IInv, Stacks, n
  <2>3. \A k \in 1 .. n - 1 : \A s \in Stack :
          frames'[k].sp[s].stack = s /\ frames'[k].sp[s].depth <= 4 * (k - 1)
    BY <2>1, <2>2, <1>2
  <2>4. \A s \in Stack : sp'[s].stack = s
    BY <2>1, <2>2, <1>1
  <2> QED  BY <2>3, <2>4, <1>2 DEF Stacks
<1>7. Above'
  BY <1>1, <1>2 DEF IInv, Above, n
<1>8. Chain'
  <2>1. ASSUME NEW j \in 1 .. n - 1, NEW k \in 1 .. n - 1, k = j + 1
        PROVE  /\ frames'[k].sp = During(frames'[j])
               /\ Selected(frames'[k].psw) = HandlerStack(frames'[j])
    BY <2>1, <1>1, <1>2 DEF IInv, Chain, n
  <2>2. CASE n = 1
    <3>1. frames' = << >>
      BY <2>2, <1>2, EmptySeq
    <3>2. \A s \in Stack : Top.sp[s].depth = 0
      <4>1. \A s \in Stack : Top.sp[s].depth <= 4 * (n - 1) /\ Top.sp[s].depth \in Nat
        BY <1>1, FrameOf, InterruptAssumption DEF IInv, Stacks, Frame, Address, MAX_WORDS, n
      <4> QED  BY <4>1, <2>2
    <3> QED  BY <3>1, <3>2, <2>1, <1>1, <1>2 DEF Chain
  <2>3. CASE n # 1
    <3>1. n - 1 \in 1 .. n /\ n \in 1 .. n /\ n = (n - 1) + 1
      BY <1>1, <2>3
    <3>2. Top.sp = During(frames[n - 1]) /\ Selected(Top.psw) = HandlerStack(frames[n - 1])
      BY <3>1, <1>1 DEF IInv, Chain, n
    <3>3. Top' = frames[n - 1] /\ frames' # << >>
      BY <3>1, <1>1, <1>2, <2>3, EmptySeq DEF Top
    <3> QED  BY <3>2, <3>3, <2>1, <1>1, <1>2 DEF Chain
  <2> QED  BY <2>2, <2>3
<1>9. FramesInMemory'
  <2>1. Entered' = 1 .. n - 1 /\ Entered = 1 .. n
    BY <1>1, <1>2 DEF Entered, n
  <2> SUFFICES ASSUME NEW k \in 1 .. n - 1
               PROVE  /\ At(HandlerTop(frames[k]))' = PcWord(frames[k].pc)
                      /\ At(Up(HandlerTop(frames[k]), 1))' = PswWord(frames[k].psw)
    BY <2>1, <1>2 DEF FramesInMemory, At, HandlerTop, HandlerStack, HandlerPsw, Up
  <2> DEFINE s == HandlerStack(frames[k])
             t == HandlerTop(frames[k]).depth
             e == Top.sp[s].depth
  <2>2. /\ s \in Stack /\ HandlerTop(frames[k]).stack = s /\ t \in 2 .. MAX_WORDS /\ t <= e
        /\ Up(HandlerTop(frames[k]), 1).stack = s /\ Up(HandlerTop(frames[k]), 1).depth = t - 1
    BY OldFrame DEF n
  <2>3. mem[s][t] = PcWord(frames[k].pc) /\ mem[s][t - 1] = PswWord(frames[k].psw)
    BY <2>1, <2>2, <1>1 DEF IInv, FramesInMemory, At
  <2>4. e \in Nat /\ MAX_WORDS \in Nat
    BY <1>1, <2>2, FrameOf DEF IInv, CoreOK, Address
  <2> HIDE DEF s, t, e
  <2>5. t \in 1 .. MAX_WORDS /\ t - 1 \in 1 .. MAX_WORDS /\ t <= e /\ t - 1 <= e
    BY <2>2, <2>4
  <2>6. mem'[s][t] = mem[s][t] /\ mem'[s][t - 1] = mem[s][t - 1]
    BY <2>2, <2>5, <1>3 DEF e
  <2>7. frames'[k] = frames[k]
    BY <1>2
  <2> QED  BY <2>2, <2>3, <2>6, <2>7 DEF At, s, t
<1>10. Enter' /\ Leave' /\ Bounded'
  BY <1>1 DEF Enter, Leave, Bounded
<1> QED  BY <1>5, <1>6, <1>7, <1>8, <1>9, <1>10 DEF IInv

-----------------------------------------------------------------------------
(* The theorems.                                                           *)

LEMMA Invariant == Spec => []IInv
<1>1. IInv /\ [Next]_vars => IInv'
  <2> SUFFICES ASSUME IInv, [Next]_vars PROVE IInv'
    OBVIOUS
  <2>1. CASE UNCHANGED vars
    <3> USE <2>1 DEF vars, latches
    <3>1. CoreOK' /\ Stacks' /\ Above' /\ Bounded' /\ Top' = Top
      BY DEF IInv, CoreOK, Stacks, Above, Bounded, Room, Top
    <3>2. Chain' /\ Enter' /\ Leave'
      BY <3>1 DEF IInv, Chain, Enter, Leave, Entering, At
    <3>3. FramesInMemory'
      BY DEF IInv, FramesInMemory, Entered, Entering, At
    <3> QED  BY <3>1, <3>2, <3>3 DEF IInv
  <2>2. CASE Next
    <3>1. PICK lines \in SUBSET Lines : Core(lines)
      BY <2>2 DEF Next
    <3>2. CASE Instruction
      BY <3>2, InstructionStep
    <3>3. CASE HaltInstruction \/ Halt(lines)
      BY <3>3, HaltStep
    <3>4. CASE Trap \/ Brkv \/ IntCheck(lines)
      BY <3>4, EnterStep
    <3>5. CASE Retiu
      BY <3>5, RetiuStep
    <3>6. CASE IntAck
      BY <3>6, IntAckStep
    <3>7. CASE Push
      BY <3>7, PushStep
    <3>8. CASE Vector
      BY <3>8, VectorStep
    <3>9. CASE Pop
      BY <3>9, PopStep
    <3>10. CASE Writeback
      BY <3>10, WritebackStep
    <3> QED  BY <3>1, <3>2, <3>3, <3>4, <3>5, <3>6, <3>7, <3>8, <3>9, <3>10 DEF Core
  <2> QED  BY <2>1, <2>2
<1> QED  BY InitIInv, <1>1, PTL DEF Spec

\* Every variable stays in its type: no stack outgrows its words, though handlers of
\* every kind interrupt one another (v60_control.sv push chain, v60_interrupt.sv).
THEOREM Typing == Spec => []TypeOK
<1>1. IInv /\ LatchOK => TypeOK
  BY DEF IInv, CoreOK, LatchOK, TypeOK
<1> QED  BY <1>1, Invariant, Latches, PTL

\* The frames of all the handlers entered stay intact on their stacks, however many
\* handlers there are (v60_control.sv push chain).
THEOREM FramesKept == Spec => []FramesInMemory
  BY Invariant, PTL DEF IInv

\* Every handler is left with the context restored that it interrupted
\* (v60_control.sv CF_RETIU).
THEOREM ReturnsRestored == Spec => ReturnRestores
<1>1. IInv /\ [Next]_vars =>
        [state = "ST_WRITEBACK" =>
           LET f == frames[Len(frames)] IN pc' = f.pc /\ psw' = f.psw /\ sp' = f.sp]_vars
  <2> SUFFICES ASSUME IInv, Next, state = "ST_WRITEBACK"
               PROVE  pc' = Top.pc /\ psw' = Top.psw /\ sp' = Top.sp
    BY DEF Top
  <2>1. Writeback
    BY DEF Next, Core, Instruction, HaltInstruction, Trap, Brkv, Retiu, Running, Halt,
           IntCheck, IntAck, Push, Vector, Pop
  <2> QED  BY <2>1, Unwinds
<1> QED  BY <1>1, Invariant, PTL DEF Spec, ReturnRestores
=============================================================================
