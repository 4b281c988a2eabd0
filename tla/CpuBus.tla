-------------------------------- MODULE CpuBus ------------------------------
(***************************************************************************)
(* The processor around its bus: the bus interface (BusIf), the prefetch   *)
(* unit (FetchUnit), the arbiter between them and the core's data port     *)
(* (rtl/v60_cpu.sv), and the main state machine that drives the data port, *)
(* the flush and the consume wires (rtl/v60_control.sv).                   *)
(*                                                                         *)
(* An instruction is reduced to what those wires show of it:               *)
(*   len      - bytes it takes in the instruction stream                   *)
(*   kind     - "JSR" (with a pointer in memory), "PREPARE", "PUSHM",      *)
(*              "POPM", "STRING", "HALT", the instructions that take a     *)
(*              path of their own, or "other"                              *)
(*   accesses - its data accesses, in order                                *)
(*   flush    - the state that sends the prefetch unit elsewhere, or       *)
(*              "none" if the instruction is consumed in ST_WRITEBACK      *)
(*   target   - where to                                                   *)
(*   entry    - the accesses that enter an interrupt or exception handler: *)
(*              the pushes and then the read of its vector; << >> if none  *)
(***************************************************************************)
EXTENDS BusIf, FetchUnit, Sequences

CONSTANTS
  Instructions, \* the instructions of this instance
  ResetRead,    \* the read of the reset vector
  AddrOf(_)     \* the address a word read as a vector stands for

Instruction ==
  [len : 1 .. IBUF_SIZE,
   kind : {"JSR", "PREPARE", "PUSHM", "POPM", "STRING", "HALT", "other"},
   accesses : Seq(Request), flush : {"none", "ST_EXECUTE", "ST_EXECUTE2", "ST_WRITEBACK"},
   target : Addr, entry : Seq(Request)]

ASSUME InstructionAssumption ==
  /\ Instructions \subseteq Instruction
  /\ ResetRead \in Request /\ ResetRead.type = "BUS_READ"
  /\ \A w \in Word : AddrOf(w) \in Addr

VARIABLES
  response_to_data, \* the transaction on the bus is the data port's
  state,            \* state of the main FSM
  inst,             \* the instruction being executed (inst_r)
  todo,             \* accesses it has left; the first is the one at the data port
  multi_step,       \* step counter of PREPARE, POPM and the string writes
  indirect_active,  \* JSR is reading its pointer
  int_active,       \* an interrupt or exception is being entered
  pc,               \* program counter
  dirty             \* history: locations stored to since the last jump

arbVars  == <<response_to_data>>
coreVars == <<state, inst, todo, multi_step, indirect_active, int_active>>
vars == <<mem, bus_ready, bifVars, fetchVars, arbVars, coreVars, pc, dirty>>

-----------------------------------------------------------------------------
(* The wires between the parts.                                            *)

data_bus_req ==
  CASE state = "ST_RESET_VEC" -> ResetRead
    [] state \in {"ST_MEM_READ", "ST_MEM_WRITE"} -> Head(todo)
    [] OTHER -> NoReq

data_bus_active == data_bus_req # NoReq

fetch_bus_req ==
  IF Requesting
  THEN [type |-> "BUS_READ", addr |-> aligned_fetch_addr,
        size |-> IF BUS_BYTES = 2 THEN "SZ_HALF" ELSE "SZ_WORD", wdata |-> ZeroWord]
  ELSE NoReq

\* The data port goes before the prefetch unit.
arb_bus_req == IF data_bus_active THEN data_bus_req ELSE fetch_bus_req

\* The response goes to whoever submitted the request.
fetch_bus_valid == resp_valid /\ ~response_to_data
data_bus_valid  == resp_valid /\ response_to_data

\* A faulty variant: the prefetch unit does not see the data port's request.
fetch_bus_busy_late == busy

fetch_bus_busy  == busy \/ data_bus_active

bus_rdata == ReadLanes(BusCycle.addr)

-----------------------------------------------------------------------------
(* One clock edge of everything but the main FSM.                          *)

\* A faulty variant: the owner of the transaction is not latched.
ArbitrateUnlatched == response_to_data' = data_bus_active

Arbitrate == response_to_data' = IF busy THEN response_to_data ELSE data_bus_active

Devices == MemClock(BusCycle) /\ BifClock(arb_bus_req, bus_ready, bus_rdata) /\ Arbitrate

Stored2Mem == {a \in Addr : mem'[a] # mem[a]}

\* The core consumes n bytes, or (n = 0) none.
Run(n) ==
  /\ Devices
  /\ FetchClock(fetch_bus_busy, fetch_bus_valid, [l \in Lane |-> resp_rdata[l]], n)
  /\ pc' = (pc + n) % ADDR_SPACE
  /\ dirty' = dirty \cup Stored2Mem

\* The core jumps: the program counter and the prefetch unit go to t.
JumpTo(t) ==
  /\ Devices
  /\ Flush(t)
  /\ pc' = t
  /\ dirty' = {}

Init ==
  /\ MemInit /\ BifInit /\ FetchInit
  /\ response_to_data = FALSE
  /\ state = "ST_RESET"
  /\ inst \in Instructions   \* any: inst_r is not looked at before ST_DECODE
  /\ todo = << >> /\ multi_step = 0 /\ indirect_active = FALSE /\ int_active = FALSE
  /\ pc = 0 /\ dirty = {}

-----------------------------------------------------------------------------
(* The states of the main FSM.                                             *)

Goto(s) == state' = s

\* The state that performs the first of the accesses as.
AccessState(as) == IF Head(as).type = "BUS_READ" THEN "ST_MEM_READ" ELSE "ST_MEM_WRITE"

Reset ==
  /\ state = "ST_RESET"
  /\ Goto("ST_RESET_VEC")
  /\ Run(0)
  /\ UNCHANGED <<inst, todo, multi_step, indirect_active, int_active>>

ResetVec ==
  /\ state = "ST_RESET_VEC"
  /\ Goto(IF busy THEN "ST_RESET_VEC" ELSE "ST_RESET_VEC_WAIT")
  /\ Run(0)
  /\ UNCHANGED <<inst, todo, multi_step, indirect_active, int_active>>

ResetVecWait ==
  /\ state = "ST_RESET_VEC_WAIT"
  /\ IF data_bus_valid THEN Goto("ST_FETCH") /\ JumpTo(AddrOf(resp_rdata))
                       ELSE Goto("ST_RESET_VEC_WAIT") /\ Run(0)
  /\ UNCHANGED <<inst, todo, multi_step, indirect_active, int_active>>

FetchState ==
  /\ state = "ST_FETCH"
  /\ Goto(IF ibuf_valid_count >= 1 THEN "ST_DECODE" ELSE "ST_FETCH")
  /\ inst' \in IF ibuf_valid_count >= 1 THEN Instructions ELSE {inst}
  /\ Run(0)
  /\ UNCHANGED <<todo, multi_step, indirect_active, int_active>>

\* A faulty variant: the last byte may be missing.
decode_valid_early == ibuf_valid_count + 1 >= inst.len

\* decode_valid: the window holds the whole instruction.
decode_valid == ibuf_valid_count >= inst.len

Decode ==
  /\ state = "ST_DECODE"
  /\ Goto(IF ~decode_valid THEN "ST_DECODE"
          ELSE IF inst.kind = "HALT" THEN "ST_HALT" ELSE "ST_EXECUTE")
  /\ Run(0)
  /\ UNCHANGED <<inst, todo, multi_step, indirect_active, int_active>>

\* Where an instruction goes when it has the accesses as left: to the next of
\* them, into a handler, or to its end.
Onward(as) ==
  IF as # << >> THEN AccessState(as)
  ELSE IF inst.entry # << >> THEN "ST_INT_ACK" ELSE "ST_WRITEBACK"

Execute ==
  /\ state = "ST_EXECUTE"
  /\ Goto(CASE inst.kind \in {"PUSHM", "POPM"} -> "ST_EXECUTE2"
            [] inst.kind = "STRING" -> "ST_STRING_LOOP"
            [] OTHER -> Onward(inst.accesses))
  /\ todo' = inst.accesses
  /\ multi_step' \in CASE inst.kind = "PREPARE" -> {1}
                       [] inst.kind = "STRING" -> 0 .. 3
                       [] OTHER -> {0}
  /\ indirect_active' = (inst.kind = "JSR")
  /\ IF inst.flush = "ST_EXECUTE" THEN JumpTo(inst.target) ELSE Run(0)
  /\ UNCHANGED <<inst, int_active>>

\* ST_MEM_READ and ST_MEM_WRITE: the access is at the data port until the bus
\* interface takes it.
MemRead ==
  /\ state = "ST_MEM_READ"
  /\ Goto(IF busy THEN "ST_MEM_READ" ELSE "ST_MEM_READ_WAIT")
  /\ Run(0)
  /\ UNCHANGED <<inst, todo, multi_step, indirect_active, int_active>>

MemWrite ==
  /\ state = "ST_MEM_WRITE"
  /\ Goto(IF busy THEN "ST_MEM_WRITE" ELSE "ST_MEM_WRITE_WAIT")
  /\ Run(0)
  /\ UNCHANGED <<inst, todo, multi_step, indirect_active, int_active>>

MemWait ==
  /\ state \in {"ST_MEM_READ_WAIT", "ST_MEM_WRITE_WAIT"}
  /\ ~data_bus_valid
  /\ Run(0)
  /\ UNCHANGED coreVars

\* The word read is the vector of the handler, or an operand.
MemReadDone ==
  /\ state = "ST_MEM_READ_WAIT"
  /\ data_bus_valid
  /\ IF int_active THEN Goto("ST_FETCH") /\ JumpTo(AddrOf(resp_rdata))
                   ELSE Goto("ST_EXECUTE2") /\ Run(0)
  /\ int_active' = FALSE
  /\ todo' = Tail(todo)
  /\ UNCHANGED <<inst, multi_step, indirect_active>>

MemWriteDone ==
  /\ state = "ST_MEM_WRITE_WAIT"
  /\ data_bus_valid
  /\ Goto(IF int_active THEN AccessState(Tail(todo))
          ELSE IF inst.kind = "PUSHM" THEN "ST_EXECUTE2" ELSE "ST_WRITEBACK")
  /\ todo' = Tail(todo)
  /\ Run(0)
  /\ UNCHANGED <<inst, multi_step, indirect_active, int_active>>

\* POPM comes here twice for each register: with the word it has popped
\* (multi_step = 1) and to look for the next; JSR comes here twice with its
\* pointer.
Execute2 ==
  /\ state = "ST_EXECUTE2"
  /\ LET popped == inst.kind = "POPM" /\ multi_step = 1
     IN  /\ Goto(IF popped \/ indirect_active THEN "ST_EXECUTE2" ELSE Onward(todo))
         /\ multi_step' = IF inst.kind = "POPM" /\ ~popped /\ todo # << >> THEN 1
                          ELSE IF popped THEN 0 ELSE multi_step
  /\ indirect_active' = FALSE
  /\ IF inst.flush = "ST_EXECUTE2" THEN JumpTo(inst.target) ELSE Run(0)
  /\ UNCHANGED <<inst, todo, int_active>>

StringLoop ==
  /\ state = "ST_STRING_LOOP"
  /\ Goto(IF multi_step > 0 THEN "ST_STRING_LOOP" ELSE "ST_WRITEBACK")
  /\ multi_step' = IF multi_step > 0 THEN multi_step - 1 ELSE 0
  /\ Run(0)
  /\ UNCHANGED <<inst, todo, indirect_active, int_active>>

\* PREPARE comes here twice: to write FP and to write SP and end.
Writeback ==
  /\ state = "ST_WRITEBACK"
  /\ IF inst.kind = "PREPARE" /\ multi_step > 0
     THEN Goto("ST_WRITEBACK") /\ Run(0) /\ multi_step' = multi_step - 1
     ELSE /\ Goto("ST_FETCH")
          /\ UNCHANGED multi_step
          /\ CASE inst.flush = "ST_WRITEBACK" -> JumpTo(inst.target)
               [] inst.flush = "none" -> Run(inst.len)
               [] OTHER -> Run(0)
  /\ UNCHANGED <<inst, todo, indirect_active, int_active>>

Halt(int_pending) ==
  /\ state = "ST_HALT"
  /\ Goto(IF int_pending THEN "ST_INT_CHECK" ELSE "ST_HALT")
  /\ Run(0)
  /\ UNCHANGED <<inst, todo, multi_step, indirect_active, int_active>>

IntCheck ==
  /\ state = "ST_INT_CHECK"
  /\ Goto("ST_INT_ACK")
  /\ Run(0)
  /\ UNCHANGED <<inst, todo, multi_step, indirect_active, int_active>>

IntAck ==
  /\ state = "ST_INT_ACK"
  /\ Goto("ST_MEM_WRITE")
  /\ todo' = inst.entry
  /\ int_active' = TRUE
  /\ Run(0)
  /\ UNCHANGED <<inst, multi_step, indirect_active>>

Next ==
  \/ Reset \/ ResetVec \/ ResetVecWait
  \/ FetchState \/ Decode
  \/ Execute \/ Execute2 \/ StringLoop \/ Writeback
  \/ MemRead \/ MemWrite \/ MemWait \/ MemReadDone \/ MemWriteDone
  \/ \E int_pending \in BOOLEAN : Halt(int_pending)
  \/ IntCheck \/ IntAck

\* The clock runs, and the device answers every strobe in the end.
Answered == Next /\ (BusCycle.strobe => bus_ready')

Spec == Init /\ [][Next]_vars /\ WF_vars(Answered)
-----------------------------------------------------------------------------
(* Properties.                                                             *)

State == {"ST_RESET", "ST_RESET_VEC", "ST_RESET_VEC_WAIT", "ST_FETCH", "ST_DECODE",
          "ST_EXECUTE", "ST_EXECUTE2", "ST_MEM_READ", "ST_MEM_READ_WAIT",
          "ST_MEM_WRITE", "ST_MEM_WRITE_WAIT", "ST_STRING_LOOP", "ST_WRITEBACK",
          "ST_HALT", "ST_INT_CHECK", "ST_INT_ACK"}

CoreTypeOK ==
  /\ response_to_data \in BOOLEAN
  /\ state \in State
  /\ inst \in Instructions
  /\ todo \in Seq(Request)
  /\ multi_step \in 0 .. 3
  /\ indirect_active \in BOOLEAN
  /\ int_active \in BOOLEAN
  /\ pc \in Addr
  /\ dirty \subseteq Addr

TypeOK == MemTypeOK /\ BifTypeOK /\ FetchTypeOK /\ CoreTypeOK

\* The request the bus interface has latched.
Latched == [type |-> lat_type, addr |-> lat_addr, size |-> lat_size, wdata |-> lat_wdata]

DataWait == state \in {"ST_RESET_VEC_WAIT", "ST_MEM_READ_WAIT", "ST_MEM_WRITE_WAIT"}

\* The access the core waits for.
Awaited == IF state = "ST_RESET_VEC_WAIT" THEN ResetRead ELSE Head(todo)

\* The core waits exactly while the transaction on the bus is its own, and then
\* for the access it asked for: no response goes astray, and none is taken for
\* another, whatever the prefetch unit has under way (v60_cpu.sv
\* response_to_data).
DataRouted ==
  /\ DataWait <=> busy /\ response_to_data
  /\ DataWait => Latched = Awaited

\* The prefetch unit waits only for its own read, of the address it will store
\* from (v60_cpu.sv fetch_bus_valid; v60_fetch_unit.sv FS_WAIT).
FetchRouted ==
  fstate = "FS_WAIT" =>
    /\ busy /\ ~response_to_data
    /\ lat_type = "BUS_READ" /\ lat_addr = aligned_fetch_addr

\* An instruction in execution stays in the window until it is consumed or the
\* unit is flushed: ST_WRITEBACK never consumes more than there is
\* (v60_control.sv fetch_consume_count).
Flushed == inst.flush \in {"ST_EXECUTE", "ST_EXECUTE2"}
InstructionHeld ==
  state \in {"ST_EXECUTE", "ST_WRITEBACK"} /\ ~(state = "ST_WRITEBACK" /\ Flushed)
    => ibuf_valid_count >= inst.len

\* Prefetch unit, arbiter and bus interface together are the bus that
\* FetchSystem assumes, and the core is the core it assumes.
Owner == IF ~busy THEN "none" ELSE IF response_to_data THEN "data" ELSE "fetch"
Prefetch == INSTANCE FetchSystem WITH
              owner       <- Owner,
              flight_addr <- IF Owner = "fetch" THEN lat_addr ELSE 0,
              MaxLen      <- FETCH_WINDOW,
              ConsumeLens <- 1 .. FETCH_WINDOW,
              JumpTargets <- Addr,
              Images      <- [Addr -> Byte]
ImplementsPrefetch == Prefetch!Spec

\* An instruction that has been fetched in part is executed in the end: neither
\* the bus, shared with its own accesses, nor the window starves it
\* (v60_control.sv ST_DECODE).
Executes == state = "ST_DECODE" ~> state \in {"ST_FETCH", "ST_HALT"}

\* The prefetch unit, which yields to the data port, gets the bus in the end
\* (v60_cpu.sv arb_bus_req).
FetchServed == Requesting ~> ~Requesting
=============================================================================
