---------------------------- MODULE StringMemory ----------------------------
(***************************************************************************)
(* The instructions on strings in the state machine (rtl/v60_control.sv,   *)
(* FMT_VII), between the routine in C++ that carries them out, StringDpi,  *)
(* and the test bench that carries its writes to the memory of the core    *)
(* (sim/sim_main.cpp).                                                     *)
(*                                                                         *)
(* There are two memories: that of the core, which all other instructions  *)
(* read and write (StoreInstruction stands for them), and the copy of it   *)
(* the routine uses, made before the core leaves reset.  The routine's     *)
(* writes reach the first after the clock edge they were made at; nothing  *)
(* carries the others to the second.                                       *)
(*                                                                         *)
(* The variables before, last, stored and lost are history the properties  *)
(* are stated over.                                                        *)
(***************************************************************************)
EXTENDS StringDpi

CONSTANTS
  Instructions,  \* what a program may begin with
  Later,         \* what may come later in it, ...
  Continues(_),  \* ... after these instructions
  Stores,        \* [addr, data]: what ordinary instructions may store
  Machines,      \* [reg, pc, codes, mem]: where a program may start
  INSTRUCTIONS,  \* bound: instructions on strings in a program
  STORES         \* bound: ordinary stores in a program

ASSUME StringMemoryAssumption ==
  /\ \A i \in Instructions \cup Later : i \in Instruction /\ Taken(i) # {}
  /\ Stores \subseteq MemWrite
  /\ Machines \subseteq Core
  /\ INSTRUCTIONS \in Nat /\ STORES \in Nat

VARIABLES
  state,   \* of the state machine; ST_FETCH is part of ST_DECODE
  inst,    \* inst_r: the instruction, or the one before
  m,       \* the registers, PC, condition codes and memory of the core
  shadow,  \* shadow_mem
  writes,  \* mem_writes: what the test bench has to write
  str,     \* str_*: what the routine answered
  count,   \* instructions on strings, and stores, so far
  before,  \* m when the instruction began, with the memory the routine sees
  last,    \* the last value an instruction meant each byte of memory to have
  stored,  \* the bytes that an ordinary instruction wrote last
  lost     \* the bytes whose last write the buffer had no room for

vars == <<state, inst, m, shadow, writes, str, count, before, last, stored, lost>>

NoInst == [op |-> "none"]

\* load_binary, setup_reset_vector and v60_string_sync_mem, in this order.
Init ==
  /\ m \in Machines
  /\ shadow = m.mem
  /\ state = "ST_DECODE" /\ inst = NoInst /\ writes = <<>>
  /\ str = [regs |-> <<>>, codes |-> m.codes, len |-> 0, step |-> 0]
  /\ count = [strings |-> 0, stores |-> 0]
  /\ before = m /\ last = m.mem /\ stored = {} /\ lost = {}

-----------------------------------------------------------------------------
\* An ordinary instruction writes memory: the copy is not told.
StoreInstruction ==
  /\ state = "ST_DECODE" /\ count.stores < STORES
  /\ \E s \in Stores :
       /\ m' = [m EXCEPT !.mem[s.addr] = s.data]
       /\ last' = [last EXCEPT ![s.addr] = s.data]
       /\ stored' = stored \cup {s.addr}
       /\ lost' = lost \ {s.addr}
  /\ count' = [count EXCEPT !.stores = @ + 1]
  /\ UNCHANGED <<state, inst, shadow, writes, str, before>>

\* ST_DECODE
Decode ==
  /\ state = "ST_DECODE" /\ count.strings < INSTRUCTIONS
  /\ IF inst = NoInst THEN inst' \in Instructions ELSE Continues(inst) /\ inst' \in Later
  /\ state' = "ST_EXECUTE"
  /\ before' = [m EXCEPT !.mem = shadow]
  /\ count' = [count EXCEPT !.strings = @ + 1]
  /\ UNCHANGED <<m, shadow, writes, str, last, stored, lost>>

\* ST_EXECUTE: the routine does all of the instruction but the registers.
Execute ==
  /\ state = "ST_EXECUTE"
  /\ \E i \in Taken(inst) : \E d \in {v60_string_exec(Called(m, shadow, writes), i)} :
       /\ shadow' = d.mem /\ writes' = d.writes
       /\ str' = [regs |-> d.regs, codes |-> d.codes, len |-> ilen(i), step |-> 0]
       /\ last' = [a \in DOMAIN last |-> IF a \in d.touched THEN d.mem[a] ELSE last[a]]
       /\ stored' = stored \ d.touched
       /\ lost' = (lost \ d.touched) \cup d.full
  /\ state' = "ST_STRING_LOOP"
  /\ UNCHANGED <<inst, m, count, before>>

\* Faulty variant: the last write is applied first.
ApplyAll(mem) ==
  [a \in DOMAIN mem |->
     LET S == {k \in DOMAIN writes : writes[k].addr = a}
     IN  IF S = {} THEN mem[a] ELSE writes[Min(S)].data]

\* The main loop of the test bench writes the bytes in the order of the buffer.
Applied(mem) ==
  [a \in DOMAIN mem |->
     LET S == {k \in DOMAIN writes : writes[k].addr = a}
     IN  IF S = {} THEN mem[a] ELSE writes[Max(S)].data]

Apply ==
  /\ writes # <<>>
  /\ m' = [m EXCEPT !.mem = Applied(@)]
  /\ writes' = <<>>
  /\ UNCHANGED <<state, inst, shadow, str, count, before, last, stored, lost>>

\* ST_STRING_LOOP: one register is written at a time.
StringLoop ==
  /\ state = "ST_STRING_LOOP"
  /\ IF str.step < Len(str.regs)
     THEN LET w == str.regs[str.step + 1]
          IN /\ m' = [m EXCEPT !.reg[w.idx] = w.val]
             /\ str' = [str EXCEPT !.step = @ + 1]
             /\ UNCHANGED state
     ELSE state' = "ST_WRITEBACK" /\ UNCHANGED <<m, str>>
  /\ UNCHANGED <<inst, shadow, writes, count, before, last, stored, lost>>

\* ST_WRITEBACK
Writeback ==
  /\ state = "ST_WRITEBACK"
  /\ m' = [m EXCEPT !.pc = (@ + str.len) % WORD, !.codes = str.codes]
  /\ state' = "ST_DECODE"
  /\ UNCHANGED <<inst, shadow, writes, str, count, before, last, stored, lost>>

\* The clock waits for the test bench.
Clocked == StoreInstruction \/ Decode \/ Execute \/ StringLoop \/ Writeback

Next == Apply \/ (writes = <<>> /\ Clocked)

Spec == Init /\ [][Next]_vars

-----------------------------------------------------------------------------
(* Properties                                                              *)

\* Everything is of its type: the buffer is never overrun, the routine never answers
\* with more registers than there are latches for, and the test bench has written the
\* buffer's bytes before the state machine goes on.
TypeOK ==
  /\ state \in {"ST_DECODE", "ST_EXECUTE", "ST_STRING_LOOP", "ST_WRITEBACK"}
  /\ inst = NoInst => state = "ST_DECODE"
  /\ inst # NoInst => inst \in Instruction /\ Taken(inst) # {}
  /\ m \in Core /\ before \in Core /\ shadow \in Memory /\ last \in Memory
  /\ writes \in Seq(MemWrite) /\ Len(writes) <= WRITES
  /\ writes # <<>> => state = "ST_STRING_LOOP"
  /\ str \in [regs : Seq(RegWrite), codes : ConditionCodes, len : Nat, step : Nat]
  /\ str.step <= Len(str.regs) /\ Len(str.regs) <= 3
  /\ count \in [strings : 0 .. INSTRUCTIONS, stores : 0 .. STORES]
  /\ stored \cup lost \subseteq 0 .. MEM - 1

\* Between instructions every byte of memory is what was last written to it, by an
\* instruction on strings or another, unless the buffer was full; and the routine
\* sees something else only where another instruction wrote last, or it was full.
MemoryKept ==
  state = "ST_DECODE" =>
    \A a \in DOMAIN shadow :
      /\ a \notin lost => m.mem[a] = last[a]
      /\ shadow[a] # m.mem[a] => a \in stored \cup lost
=============================================================================
