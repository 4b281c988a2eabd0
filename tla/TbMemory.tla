------------------------------ MODULE TbMemory ------------------------------
(***************************************************************************)
(* The memory on the external bus (tb/tb_memory.sv): a byte array with     *)
(* byte enables, read combinationally and written at the clock edge, and a *)
(* ready flag that is one clock behind the address strobe.                 *)
(*                                                                         *)
(* A bus cycle is a record of the pins the processor drives:               *)
(*   strobe  - bus_as_n is low                                             *)
(*   write   - bus_wr_n is low (the read pins matter to no other state)    *)
(*   addr    - the word-aligned address                                    *)
(*   wdata   - one byte per lane                                           *)
(*   be      - the enabled lanes                                           *)
(***************************************************************************)
EXTENDS BusTypes

CONSTANTS
  InitMem,     \* memory images the test bench may load before reset
  MAY_STALL    \* TRUE: the device may also answer later than tb_memory does

ASSUME MemoryAssumption ==
  /\ InitMem \subseteq [Addr -> Byte]
  /\ MAY_STALL \in BOOLEAN

VARIABLES
  mem,         \* the cells
  bus_ready    \* the ready flag

MemInit ==
  /\ mem \in InitMem
  /\ bus_ready = FALSE

\* The lanes a read of the aligned address a returns.
ReadLanes(a) == [l \in Lane |-> mem[(a + l) % ADDR_SPACE]]

\* Memory after a write of the enabled lanes at the aligned address a.
WriteLanes(m, a, wdata, be) ==
  [b \in Addr |->
     LET l == (b + ADDR_SPACE - a) % ADDR_SPACE
     IN  IF l \in be THEN wdata[l] ELSE m[b]]

\* One clock edge of the memory while the processor drives the pins of cycle.
MemClock(cycle) ==
  /\ mem' = IF cycle.strobe /\ cycle.write
            THEN WriteLanes(mem, cycle.addr, cycle.wdata, cycle.be)
            ELSE mem
  /\ bus_ready' \in {cycle.strobe} \cup (IF MAY_STALL THEN {FALSE} ELSE {})

MemTypeOK ==
  /\ mem \in [Addr -> Byte]
  /\ bus_ready \in BOOLEAN
=============================================================================
