---------------------------- MODULE MemorySystem ----------------------------
(***************************************************************************)
(* The bus interface (rtl/v60_bus_if.sv) connected to the memory           *)
(* (tb/tb_memory.sv) the way rtl/v60_cpu.sv and tb/tb_v60_top.sv connect   *)
(* them, driven by any sequence of requests.  Every step is one clock edge *)
(* of both.                                                                *)
(***************************************************************************)
EXTENDS BusIf

CONSTANT
  CoreRequests   \* the requests the core makes in this instance

ASSUME RequestAssumption == CoreRequests \subseteq Request

vars == <<mem, bus_ready, bifVars>>

Init == MemInit /\ BifInit

\* The clock edge on which the core presents req.
Clock(req) ==
  /\ BifClock(req, bus_ready, ReadLanes(BusCycle.addr))
  /\ MemClock(BusCycle)

\* A request is only looked at while the interface is idle.
Next ==
  \/ ~busy /\ \E req \in CoreRequests : Clock(req)
  \/ Clock(NoReq)

\* The clock runs, and a device that may stall does not stall for ever.
Answer   == Clock(NoReq) /\ (BusCycle.strobe => bus_ready')
Fairness == WF_vars(Answer)

Spec == Init /\ [][Next]_vars /\ Fairness

-----------------------------------------------------------------------------
(* The refinement: a write takes effect in the memory when its first bus   *)
(* cycle does, a read when its response is on the wires.                   *)

\* Memory as it will be once the second half of a started write is done.
SettledMem ==
  IF /\ lat_type = "BUS_WRITE" /\ need_second
     /\ bif_state \in {"BIF_CYCLE1_WAIT", "BIF_CYCLE2"}
  THEN [b \in Addr |->
          LET k == (b + ADDR_SPACE - (lat_addr % ADDR_SPACE)) % ADDR_SPACE
          IN  IF k \in (BUS_BYTES - (lat_addr % BUS_BYTES)) .. ReqBytes(lat_size) - 1
              THEN lat_wdata[k] ELSE mem[b]]
  ELSE mem

Performed ==
  IF lat_type = "BUS_WRITE" THEN bif_state \notin {"BIF_IDLE", "BIF_CYCLE1"}
                            ELSE bif_state = "BIF_DONE"

Atomic == INSTANCE AtomicMemory WITH
  mem     <- SettledMem,
  phase   <- IF ~busy THEN "idle" ELSE IF Performed THEN "performed" ELSE "pending",
  req     <- IF ~busy THEN NoReq
             ELSE [type |-> lat_type, addr |-> lat_addr,
                   size |-> lat_size, wdata |-> lat_wdata],
  answer  <- IF busy /\ Performed /\ lat_type = "BUS_READ" THEN resp_rdata ELSE "none",
  Request <- CoreRequests

\* Every request behaves as one atomic access to exactly the bytes it names
\* (v60_bus_if.sv: the FSM, the lane extraction and the write lanes), and
\* every request taken is answered.
AtomicAccess == Atomic!Spec

\* When a write is answered, memory holds every byte of it: the answer never
\* overtakes the second bus cycle although bus_ready is still high from the
\* first (v60_bus_if.sv BIF_CYCLE2_WAIT and the write lanes).
WriteExact ==
  resp_valid /\ lat_type = "BUS_WRITE" =>
    \A k \in 0 .. ReqBytes(lat_size) - 1 : mem[(lat_addr + k) % ADDR_SPACE] = lat_wdata[k]

\* When a read is answered, the response is the bytes from the requested
\* address up, zero-extended (v60_bus_if.sv lane extraction and resp_rdata).
ReadExact ==
  resp_valid /\ lat_type = "BUS_READ" =>
    resp_rdata = Masked([k \in 0 .. 3 |-> mem[(lat_addr + k) % ADDR_SPACE]], lat_size)

TypeOK == MemTypeOK /\ BifTypeOK
=============================================================================
