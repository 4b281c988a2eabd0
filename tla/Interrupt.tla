------------------------------ MODULE Interrupt -----------------------------
(***************************************************************************)
(* Interrupts and exceptions: the interrupt unit (rtl/v60_interrupt.sv),   *)
(* the way the main FSM enters a handler from ST_HALT, TRAP and BRKV and   *)
(* leaves it by RETIU or RETIS (rtl/v60_control.sv), and the stack         *)
(* pointers they switch between (rtl/v60_regfile.sv).                      *)
(*                                                                         *)
(* Each step is a clock edge; the bus's part of an access is left out (it  *)
(* is in CpuBus), so that a push or a pop takes one step.  An address of a *)
(* stack is a pair: the stack, and how many words below its base.          *)
(***************************************************************************)
EXTENDS Integers, Sequences

CONSTANTS
  CODE,       \* number of addresses the program counter takes
  MAX_FRAMES, \* handlers entered and not left (bounded for TLC)
  Lines       \* maskable interrupt lines in use, of 0..3

ASSUME InterruptAssumption ==
  /\ CODE \in Nat \ {0}
  /\ MAX_FRAMES \in Nat
  /\ Lines \subseteq 0 .. 3

\* Words a stack holds: a frame has at most four.
MAX_WORDS == 4 * MAX_FRAMES

Code     == 0 .. CODE - 1
After(a) == (a + 1) % CODE   \* the next instruction, whatever its length

VARIABLES
  nmi_prev, nmi_pending,  \* edge detector and latch of the NMI
  state,                  \* state of the main FSM
  pc, psw, sp,            \* program counter, status word, stack pointers
  mem,                    \* the words of the stacks
  saved_psw, return_addr, saved_vector, int_type, multi_step,
  temp_addr, temp_src,    \* latches of the main FSM
  frames,                 \* history: the contexts interrupted
  owed                    \* history: an NMI edge not answered yet

latches == <<saved_psw, return_addr, saved_vector, int_type, multi_step, temp_addr,
             temp_src>>
vars == <<nmi_prev, nmi_pending, state, pc, psw, sp, mem, latches, frames, owed>>

-----------------------------------------------------------------------------
(* The status word and the stack it selects.                               *)

\* IS selects the interrupt stack, EL the execution level, ID enables the
\* maskable interrupts.
Psw   == [IS : BOOLEAN, EL : {0, 3}, ID : BOOLEAN]
Stack == {"isp", "l0sp", "l3sp"}

Selected(p) == IF p.IS THEN "isp" ELSE IF p.EL = 0 THEN "l0sp" ELSE "l3sp"
current_sp  == sp[Selected(psw)]

exc_new_psw == [psw EXCEPT !.EL = 0, !.ID = FALSE]
exc_hw_psw  == [exc_new_psw EXCEPT !.IS = TRUE]

\* n words above (n > 0) or below an address.
Up(a, n) == [a EXCEPT !.depth = @ - n]
Down(a)  == Up(a, -1)

\* Words of memory, tagged with what they stand for.
PcWord(a)  == <<"pc", a>>
PswWord(p) == <<"psw", p>>
CodeWord   == <<"exc_code", 0>>

At(a) == mem[a.stack][a.depth]
Put(a, w) == mem' = [mem EXCEPT ![a.stack][a.depth] = w]

-----------------------------------------------------------------------------
(* The interrupt unit.                                                     *)

irq_any(lines) == psw.ID /\ lines # {}

is_nmi             == nmi_pending

\* A faulty variant: the NMI is masked like the others.
int_pending_masked(lines) == psw.ID /\ (nmi_pending \/ lines # {})

int_pending(lines) == nmi_pending \/ irq_any(lines)
int_ack            == state = "ST_INT_CHECK"

\* 8'h02 is the NMI's vector, 8'h1C + i that of line i.
int_vector(lines) ==
  IF nmi_pending THEN 2
  ELSE IF irq_any(lines) THEN 28 + (CHOOSE i \in lines : \A j \in lines : j <= i)
  ELSE 0

\* A faulty variant: of an edge and an acknowledge on one clock the latter wins.
NmiLatchAckFirst(nmi_n) ==
  LET nmi_edge == nmi_prev /\ ~nmi_n
  IN  /\ nmi_prev' = nmi_n
      /\ nmi_pending' = IF int_ack /\ is_nmi THEN FALSE ELSE nmi_edge \/ nmi_pending
      /\ owed' = (nmi_edge \/ (owed /\ ~(int_ack /\ saved_vector' = 2)))

\* The edge detector, and the latch that an edge sets and an acknowledge clears.
NmiLatch(nmi_n) ==
  LET nmi_edge == nmi_prev /\ ~nmi_n
  IN  /\ nmi_prev' = nmi_n
      /\ nmi_pending' = IF nmi_edge THEN TRUE
                        ELSE IF int_ack /\ is_nmi THEN FALSE ELSE nmi_pending
      /\ owed' = (nmi_edge \/ (owed /\ ~(int_ack /\ saved_vector' = 2)))

-----------------------------------------------------------------------------
(* Software, between two instructions.                                     *)

Running == state = "RUN"

\* Words a handler of this type finds between the saved status word and the
\* stack of the interrupted program.
FrameWords(type) == CASE type = "HW" -> 0 [] type = "TRAP" -> 1 [] type = "BRKV" -> 2

\* The context a handler interrupts.
Interrupted(type, a) ==
  frames' = Append(frames, [type |-> type, pc |-> a, psw |-> psw, sp |-> sp])

Room == Len(frames) < MAX_FRAMES

\* Any instruction that leaves the stack as it is; UPDPSW may set ID.
Instruction ==
  /\ Running
  /\ pc' \in Code
  /\ \E id \in BOOLEAN : psw' = [psw EXCEPT !.ID = id]
  /\ UNCHANGED <<state, sp, mem, latches, frames>>

\* ST_DECODE of a HALT: the program counter stays at it.
HaltInstruction ==
  /\ Running /\ Room
  /\ state' = "ST_HALT"
  /\ UNCHANGED <<pc, psw, sp, mem, latches, frames>>

\* ST_EXECUTE of a TRAP whose condition holds.
Trap ==
  /\ Running /\ Room
  /\ state' = "ST_INT_ACK"
  /\ psw' = exc_new_psw
  /\ saved_psw' = psw
  /\ saved_vector' = 48 /\ int_type' = "TRAP" /\ multi_step' = 0
  /\ return_addr' = After(pc)
  /\ Interrupted("TRAP", After(pc))
  /\ UNCHANGED <<pc, sp, mem, temp_addr, temp_src>>

\* ST_EXECUTE of BRKV, which pushes its own address, too.
Brkv ==
  /\ Running /\ Room
  /\ state' = "ST_INT_ACK"
  /\ psw' = exc_new_psw
  /\ saved_psw' = psw
  /\ saved_vector' = 21 /\ int_type' = "BRKV" /\ multi_step' = 0
  /\ return_addr' = After(pc)
  /\ Interrupted("BRKV", After(pc))
  /\ UNCHANGED <<pc, sp, mem, temp_addr, temp_src>>

\* ST_EXECUTE of RETIU or RETIS at the end of a handler, which asks for the
\* frame of the handler's type to be dropped.
Retiu ==
  /\ Running
  /\ frames # << >>
  /\ state' = "POP"
  /\ temp_addr' = current_sp
  /\ temp_src' = FrameWords(frames[Len(frames)].type)
  /\ multi_step' = 0
  /\ UNCHANGED <<pc, psw, sp, mem, saved_psw, return_addr, saved_vector, int_type,
                 frames>>

-----------------------------------------------------------------------------
(* The main FSM.                                                           *)

Halt(lines) ==
  /\ state = "ST_HALT"
  /\ state' = IF int_pending(lines) THEN "ST_INT_CHECK" ELSE "ST_HALT"
  /\ UNCHANGED <<pc, psw, sp, mem, latches, frames>>

IntCheck(lines) ==
  /\ state = "ST_INT_CHECK"
  /\ state' = "ST_INT_ACK"
  /\ psw' = exc_hw_psw
  /\ saved_psw' = psw /\ saved_vector' = int_vector(lines) /\ return_addr' = pc
  /\ int_type' = "HW" /\ multi_step' = 0
  /\ Interrupted("HW", pc)
  /\ UNCHANGED <<pc, sp, mem, temp_addr, temp_src>>

IntAck ==
  /\ state = "ST_INT_ACK"
  /\ state' = "PUSH"
  /\ temp_addr' = Down(current_sp)
  /\ UNCHANGED <<pc, psw, sp, mem, saved_psw, return_addr, saved_vector, int_type,
                 multi_step, temp_src, frames>>

\* The last push of each type.
int_push_done == multi_step = 1 + FrameWords(int_type)

\* A faulty variant: address and status word the other way round.
PushWordSwapped ==
  LET fromLast == 1 + FrameWords(int_type) - multi_step
  IN  CASE fromLast = 3 -> PcWord(pc)
        [] fromLast = 2 -> CodeWord
        [] fromLast = 1 -> PcWord(return_addr)
        [] fromLast = 0 -> PswWord(saved_psw)

\* The word that is pushed in step multi_step (temp_data): BRKV's own address,
\* the exception code, the status word, the address to return to.
PushWord ==
  LET fromLast == 1 + FrameWords(int_type) - multi_step
  IN  CASE fromLast = 3 -> PcWord(pc)
        [] fromLast = 2 -> CodeWord
        [] fromLast = 1 -> PswWord(saved_psw)
        [] fromLast = 0 -> PcWord(return_addr)

\* ST_MEM_WRITE and ST_MEM_WRITE_WAIT of a push.
Push ==
  /\ state = "PUSH"
  /\ Put(temp_addr, PushWord)
  /\ IF int_push_done
     THEN /\ state' = "VECTOR"
          /\ UNCHANGED <<multi_step, temp_addr>>
     ELSE /\ multi_step' = multi_step + 1
          /\ temp_addr' = Down(temp_addr)
          /\ UNCHANGED state
  /\ UNCHANGED <<pc, psw, sp, saved_psw, return_addr, saved_vector, int_type, temp_src,
                 frames>>

\* ST_MEM_READ and ST_MEM_READ_WAIT of the vector.
Vector ==
  /\ state = "VECTOR"
  /\ state' = "RUN"
  /\ pc' \in Code
  /\ sp' = [sp EXCEPT ![Selected(psw)] = temp_addr]   \* latched in temp_src
  /\ UNCHANGED <<psw, mem, latches, frames>>

\* ST_MEM_READ, ST_MEM_READ_WAIT and ST_EXECUTE2 of a pop.
Pop ==
  /\ state = "POP"
  /\ IF multi_step = 0
     THEN /\ return_addr' = At(temp_addr)[2]
          /\ temp_addr' = Up(temp_addr, 1)
          /\ multi_step' = 1
          /\ UNCHANGED <<state, saved_psw>>
     ELSE /\ saved_psw' = At(temp_addr)[2]
          /\ state' = "ST_WRITEBACK"
          /\ UNCHANGED <<return_addr, temp_addr, multi_step>>
  /\ UNCHANGED <<pc, psw, sp, mem, saved_vector, int_type, temp_src, frames>>

\* Memory without the words beyond the stack pointers, which are not read again.
Below(pointers) ==
  [s \in Stack |-> [d \in 1 .. MAX_WORDS |->
     IF d <= pointers[s].depth THEN mem[s][d] ELSE CodeWord]]

\* Faulty variants: one word too few, or too many, is dropped.
UnwoundTooLittle == Up(temp_addr, temp_src)
UnwoundTooMuch   == Up(temp_addr, 2 + temp_src)

\* The stack pointer after the status word, under temp_addr, and the rest of the
\* frame are dropped.
Unwound == Up(temp_addr, 1 + temp_src)

\* ST_WRITEBACK of RETIU: all at once, the stack pointer to the stack that was
\* selected until now.
Writeback ==
  /\ state = "ST_WRITEBACK"
  /\ state' = "RUN"
  /\ pc' = return_addr
  /\ psw' = saved_psw
  /\ sp' = [sp EXCEPT ![Selected(psw)] = Unwound]
  /\ frames' = SubSeq(frames, 1, Len(frames) - 1)
  /\ mem' = Below(sp')
  /\ UNCHANGED latches

\* One edge of the core, with the maskable lines that are low.
Core(lines) ==
  \/ Instruction \/ HaltInstruction \/ Trap \/ Brkv \/ Retiu
  \/ Halt(lines) \/ IntCheck(lines)
  \/ IntAck \/ Push \/ Vector \/ Pop \/ Writeback

\* After reset the interrupt stack is selected; a program runs at level 3.
InitPsw == {[IS |-> TRUE, EL |-> 0, ID |-> FALSE], [IS |-> FALSE, EL |-> 3, ID |-> TRUE]}

Init ==
  /\ nmi_prev = TRUE /\ nmi_pending = FALSE
  /\ state = "RUN"
  /\ pc \in Code /\ psw \in InitPsw
  /\ sp = [s \in Stack |-> [stack |-> s, depth |-> 0]]
  /\ mem = [s \in Stack |-> [d \in 1 .. MAX_WORDS |-> CodeWord]]
  /\ saved_psw = psw /\ return_addr = pc
  /\ saved_vector = 0 /\ int_type = "HW" /\ multi_step = 0
  /\ temp_addr = sp["isp"] /\ temp_src = 0
  /\ frames = << >> /\ owed = FALSE

Next == \E nmi_n \in BOOLEAN, lines \in SUBSET Lines : Core(lines) /\ NmiLatch(nmi_n)

\* The clock runs.
Spec == Init /\ [][Next]_vars /\ WF_vars(Next)

-----------------------------------------------------------------------------
(* Properties.                                                             *)

Address == [stack : Stack, depth : 0 .. MAX_WORDS]
Words   == {PcWord(a) : a \in Code} \cup {PswWord(p) : p \in Psw} \cup {CodeWord}
Frame   == [type : {"HW", "TRAP", "BRKV"}, pc : Code, psw : Psw, sp : [Stack -> Address]]

TypeOK ==
  /\ nmi_prev \in BOOLEAN /\ nmi_pending \in BOOLEAN
  /\ state \in {"RUN", "ST_HALT", "ST_INT_CHECK", "ST_INT_ACK", "PUSH", "VECTOR", "POP",
               "ST_WRITEBACK"}
  /\ pc \in Code /\ psw \in Psw
  /\ sp \in [Stack -> Address]
  /\ mem \in [Stack -> [1 .. MAX_WORDS -> Words]]
  /\ saved_psw \in Psw /\ return_addr \in Code
  /\ saved_vector \in 0 .. 255 /\ int_type \in {"HW", "TRAP", "BRKV"}
  /\ multi_step \in 0 .. 3
  /\ temp_addr \in Address /\ temp_src \in 0 .. 2
  /\ frames \in Seq(Frame) /\ Len(frames) <= MAX_FRAMES
  /\ owed \in BOOLEAN

\* The handlers whose frames are on a stack: all that were entered, but for one
\* that is being entered.
Entering == state \in {"ST_INT_ACK", "PUSH", "VECTOR"}
Entered  == 1 .. Len(frames) - (IF Entering THEN 1 ELSE 0)

\* The stack of handler k, and its stack pointer on entry.
HandlerPsw(f)   == [f.psw EXCEPT !.EL = 0, !.ID = FALSE, !.IS = @ \/ f.type = "HW"]
HandlerStack(f) == Selected(HandlerPsw(f))
HandlerTop(f)   ==
  [stack |-> HandlerStack(f), depth |-> f.sp[HandlerStack(f)].depth + 2 + FrameWords(f.type)]

\* Every handler entered and not left has the context it interrupted on its own
\* stack, however many others interrupted it and on whichever stacks: address
\* below status word (v60_control.sv push chain).
FramesInMemory ==
  \A k \in Entered :
    /\ At(HandlerTop(frames[k])) = PcWord(frames[k].pc)
    /\ At(Up(HandlerTop(frames[k]), 1)) = PswWord(frames[k].psw)

\* Leaving a handler brings back the program counter, the status word and every
\* stack pointer as they were when it was entered (v60_control.sv CF_RETIU).
ReturnRestores ==
  [][state = "ST_WRITEBACK" =>
       LET f == frames[Len(frames)]
       IN  pc' = f.pc /\ psw' = f.psw /\ sp' = f.sp]_vars

\* An NMI edge is remembered until an NMI is acknowledged after it: neither an
\* acknowledge on the same clock nor a maskable interrupt swallows it
\* (v60_interrupt.sv nmi_pending).
NmiKept == owed => nmi_pending

\* A halted processor answers the NMI (v60_control.sv ST_HALT).
NmiAnswered ==
  state = "ST_HALT" /\ nmi_pending ~> state = "ST_INT_ACK" /\ saved_vector = 2
=============================================================================
