-------------------------------- MODULE BusIf -------------------------------
(***************************************************************************)
(* The bus interface (rtl/v60_bus_if.sv): it takes one request at a time   *)
(* from the core and turns it into one or two cycles of the external bus.  *)
(***************************************************************************)
EXTENDS TbMemory

VARIABLES
  bif_state,   \* state of the transfer FSM
  lat_type, lat_addr, lat_size, lat_wdata,   \* the latched request
  read_accum,  \* bytes read so far
  need_second  \* a second bus cycle follows

bifVars == <<bif_state, lat_type, lat_addr, lat_size, lat_wdata, read_accum,
             need_second>>

BifState == {"BIF_IDLE", "BIF_CYCLE1", "BIF_CYCLE1_WAIT", "BIF_CYCLE2",
             "BIF_CYCLE2_WAIT", "BIF_DONE"}

\* Does the request take a second bus cycle?
SecondNeeded(size, a) ==
  IF BUS_BYTES = 2
  THEN size = "SZ_WORD" \/ (size = "SZ_HALF" /\ a % 2 = 1)
  ELSE (size = "SZ_WORD" /\ a % 4 # 0) \/ (size = "SZ_HALF" /\ a % 4 = 3)

-----------------------------------------------------------------------------
(* Outputs.                                                                *)

busy       == bif_state # "BIF_IDLE"
resp_valid == bif_state = "BIF_DONE"

\* The response, masked to the size of the request.
Masked(w, size) == [k \in 0 .. 3 |-> IF k < ReqBytes(size) THEN w[k] ELSE ZeroByte]
resp_rdata == Masked(read_accum, lat_size)

\* The aligned address of the first and of the second bus cycle.
FirstAddr(a)  == (a - (a % BUS_BYTES)) % ADDR_SPACE
SecondAddr(a) == (FirstAddr(a) + BUS_BYTES) % ADDR_SPACE

InFirst  == bif_state \in {"BIF_CYCLE1", "BIF_CYCLE1_WAIT"}
InSecond == bif_state \in {"BIF_CYCLE2", "BIF_CYCLE2_WAIT"}

\* A faulty variant: a byte fills the bus, too.
FirstWriteLanesOfWholeBus == [be |-> Lane, wdata |-> [l \in Lane |-> lat_wdata[l]]]

\* Lanes of the first write cycle: a byte goes to its own lane of a 16-bit
\* bus, everything else fills the bus from the lowest lane.
FirstWriteLanes ==
  IF BUS_BYTES = 2 /\ lat_size = "SZ_BYTE"
  THEN [be |-> {lat_addr % 2}, wdata |-> [l \in Lane |-> lat_wdata[0]]]
  ELSE [be |-> Lane, wdata |-> [l \in Lane |-> lat_wdata[l]]]

\* A faulty variant: the lower half word again.
SecondWriteLanesOfLowerHalf ==
  [be |-> Lane, wdata |-> [l \in Lane |-> lat_wdata[l]]]

\* Lanes of the second write cycle: the upper half word on a 16-bit bus, the
\* whole word again on a 32-bit bus.
SecondWriteLanes ==
  [be |-> Lane,
   wdata |-> [l \in Lane |-> lat_wdata[IF BUS_BYTES = 2 THEN l + 2 ELSE l]]]

\* The pins driven on the external bus.
BusCycle ==
  LET lanes == IF InFirst THEN FirstWriteLanes ELSE SecondWriteLanes
  IN  [strobe |-> InFirst \/ InSecond,
       write  |-> (InFirst \/ InSecond) /\ lat_type = "BUS_WRITE",
       addr   |-> IF InFirst THEN FirstAddr(lat_addr) ELSE SecondAddr(lat_addr),
       be     |-> lanes.be,
       wdata  |-> lanes.wdata]

-----------------------------------------------------------------------------
(* State transitions, one per state of the FSM.                            *)

BifInit ==
  /\ bif_state = "BIF_IDLE"
  /\ lat_type = "BUS_IDLE" /\ lat_addr = 0 /\ lat_size = "SZ_BYTE"
  /\ lat_wdata = ZeroWord
  /\ read_accum = ZeroWord
  /\ need_second = FALSE

\* A faulty variant: the lanes are the accumulator.
AfterFirstReadOfLanes(rdata) == rdata

\* Bytes of the accumulator after the first read cycle returned rdata.
AfterFirstRead(rdata) ==
  LET odd == lat_addr % 2
  IN IF BUS_BYTES = 4 THEN [k \in 0 .. 3 |-> rdata[k]]
     ELSE IF lat_size = "SZ_BYTE" \/ (lat_size = "SZ_HALF" /\ odd = 1)
          THEN [read_accum EXCEPT ![0] = rdata[odd]]
          ELSE [read_accum EXCEPT ![0] = rdata[0], ![1] = rdata[1]]

\* A faulty variant: the second half word replaces the first.
AfterSecondReadOverFirst(rdata) == [read_accum EXCEPT ![0] = rdata[0], ![1] = rdata[1]]

\* Bytes of the accumulator after the second read cycle returned rdata.
AfterSecondRead(rdata) ==
  IF BUS_BYTES = 2 /\ lat_size = "SZ_HALF"
  THEN [read_accum EXCEPT ![1] = rdata[0]]
  ELSE [read_accum EXCEPT ![2] = rdata[0], ![3] = rdata[1]]

keepRequest == UNCHANGED <<lat_type, lat_addr, lat_size, lat_wdata, need_second>>

\* BIF_IDLE: latch a request, or stay.
BifAccept(req) ==
  /\ bif_state = "BIF_IDLE"
  /\ req # NoReq
  /\ bif_state' = "BIF_CYCLE1"
  /\ lat_type' = req.type /\ lat_addr' = req.addr
  /\ lat_size' = req.size /\ lat_wdata' = req.wdata
  /\ need_second' = SecondNeeded(req.size, req.addr)
  /\ read_accum' = ZeroWord

BifIdle(req) ==
  /\ bif_state = "BIF_IDLE"
  /\ req = NoReq
  /\ UNCHANGED bifVars

\* BIF_CYCLE1 and BIF_CYCLE2: the address phase takes one clock.
BifAddress ==
  /\ bif_state \in {"BIF_CYCLE1", "BIF_CYCLE2"}
  /\ bif_state' = IF bif_state = "BIF_CYCLE1" THEN "BIF_CYCLE1_WAIT"
                                              ELSE "BIF_CYCLE2_WAIT"
  /\ keepRequest
  /\ UNCHANGED read_accum

\* BIF_CYCLE1_WAIT and BIF_CYCLE2_WAIT without bus_ready: a wait state.
BifWait(ready) ==
  /\ bif_state \in {"BIF_CYCLE1_WAIT", "BIF_CYCLE2_WAIT"}
  /\ ~ready
  /\ UNCHANGED bifVars

BifFirstDone(ready, rdata) ==
  /\ bif_state = "BIF_CYCLE1_WAIT"
  /\ ready
  /\ bif_state' = IF need_second THEN "BIF_CYCLE2" ELSE "BIF_DONE"
  /\ read_accum' = IF lat_type = "BUS_READ" THEN AfterFirstRead(rdata)
                                            ELSE read_accum
  /\ keepRequest

\* A faulty variant: the second cycle is followed by another, like the first.
BifSecondDoneAgain(ready, rdata) ==
  /\ bif_state = "BIF_CYCLE2_WAIT"
  /\ ready
  /\ bif_state' = IF need_second THEN "BIF_CYCLE2" ELSE "BIF_DONE"
  /\ read_accum' = IF lat_type = "BUS_READ" THEN AfterSecondRead(rdata)
                                            ELSE read_accum
  /\ keepRequest

BifSecondDone(ready, rdata) ==
  /\ bif_state = "BIF_CYCLE2_WAIT"
  /\ ready
  /\ bif_state' = "BIF_DONE"
  /\ read_accum' = IF lat_type = "BUS_READ" THEN AfterSecondRead(rdata)
                                            ELSE read_accum
  /\ keepRequest

\* BIF_DONE: the response is on the wires for this one clock.
BifDone ==
  /\ bif_state = "BIF_DONE"
  /\ bif_state' = "BIF_IDLE"
  /\ keepRequest
  /\ UNCHANGED read_accum

\* One clock edge, with the core's request and the bus's inputs sampled.
BifClock(req, ready, rdata) ==
  \/ BifAccept(req)
  \/ BifIdle(req)
  \/ BifAddress
  \/ BifWait(ready)
  \/ BifFirstDone(ready, rdata)
  \/ BifSecondDone(ready, rdata)
  \/ BifDone

BifTypeOK ==
  /\ bif_state \in BifState
  /\ lat_type \in {"BUS_IDLE", "BUS_READ", "BUS_WRITE"}
  /\ lat_addr \in Nat
  /\ lat_size \in DataSize
  /\ lat_wdata \in Word
  /\ read_accum \in Word
  /\ need_second \in BOOLEAN
=============================================================================
