---------------------------- MODULE CpuBusProofs ----------------------------
(***************************************************************************)
(* The two masters of the bus never take one another's answers, and an     *)
(* instruction stays in the window while it is executed, for every size of *)
(* the buffer and the window, both bus widths and any instructions whose   *)
(* handlers are entered by pushing before the vector is read (Handlers).   *)
(*                                                                         *)
(* The proof has two halves.  BusEdge is all a clock edge can do to the    *)
(* transaction on the bus, whatever the core does on it; each state of the *)
(* main FSM then keeps the invariant because of what it asks of the bus.   *)
(***************************************************************************)
EXTENDS CpuBus, SequenceTheorems, TLAPS

\* A handler is entered by pushes, and then its vector is read. HALT waits for one.
Handlers ==
  \A i \in Instructions :
    /\ i.kind = "HALT" => i.entry # << >>
    /\ i.entry # << >> => /\ Head(i.entry).type = "BUS_WRITE"
                          /\ i.entry[Len(i.entry)].type = "BUS_READ"

-----------------------------------------------------------------------------
(* The invariant.                                                          *)

AccessStates == {"ST_MEM_READ", "ST_MEM_READ_WAIT", "ST_MEM_WRITE", "ST_MEM_WRITE_WAIT"}
Waiting      == {"ST_RESET", "ST_RESET_VEC", "ST_RESET_VEC_WAIT", "ST_FETCH", "ST_DECODE"}

\* There is an access at the data port when there should be, and a handler that is
\* being entered has its vector still to read.
Accessing ==
  /\ state \in AccessStates => todo # << >>
  /\ int_active => /\ state \in AccessStates
                   /\ todo[Len(todo)].type = "BUS_READ"
                   /\ state \in {"ST_MEM_WRITE", "ST_MEM_WRITE_WAIT"} =>
                        Head(todo).type = "BUS_WRITE"
  /\ state \in {"ST_HALT", "ST_INT_CHECK", "ST_INT_ACK"} => inst.entry # << >>

\* A request that is being served is a request.
Serving == busy => Latched \in Request

\* What the prefetch unit has under way, even if nobody waits for it any more, is an
\* aligned read that takes one bus cycle, answered with memory as it is.
FetchOwned ==
  busy /\ ~response_to_data =>
    /\ lat_type = "BUS_READ" /\ lat_addr \in Addr /\ lat_addr % BUS_BYTES = 0
    /\ lat_size = IF BUS_BYTES = 2 THEN "SZ_HALF" ELSE "SZ_WORD"
    /\ ~need_second /\ ~InSecond
    /\ resp_valid => \A l \in Lane : read_accum[l] = mem[(lat_addr + l) % ADDR_SPACE]

\* A read is only asked for when there is room for it.
RoomKept == fstate # "FS_IDLE" => fill_level + BUS_BYTES <= IBUF_SIZE

\* The instruction is in the window from its decoding to its end.
Held ==
  /\ state = "ST_EXECUTE" => ibuf_valid_count >= inst.len
  /\ state \notin Waiting /\ ~Flushed => ibuf_valid_count >= inst.len

IInv ==
  /\ TypeOK /\ Accessing /\ Serving /\ FetchOwned /\ DataRouted /\ FetchRouted
  /\ RoomKept /\ Held

-----------------------------------------------------------------------------
(* Requests.                                                               *)

LEMMA Sizes ==
  /\ BUS_BYTES \in {2, 4} /\ Lane \subseteq 0 .. 3 /\ 0 \in Lane /\ 1 \in Lane
  /\ Lane = 0 .. BUS_BYTES - 1
  /\ ADDR_SPACE \in Nat \ {0} /\ ZeroByte \in Byte
  /\ IBUF_SIZE \in Nat \ {0} /\ FETCH_WINDOW \in 1 .. IBUF_SIZE
  /\ PTR_MOD \in Nat \ {0} /\ PTR_MOD >= IBUF_SIZE + BUS_BYTES
  BY BusAssumption, FetchAssumption DEF Lane

LEMMA ZeroWordTyped == ZeroWord \in Word
  BY Sizes DEF ZeroWord, Word

LEMMA Requests ==
  \A r \in Request :
    /\ r # NoReq /\ r.type \in {"BUS_READ", "BUS_WRITE"} /\ r.addr \in Nat
    /\ r.size \in DataSize /\ r.wdata \in Word
    /\ r = [type |-> r.type, addr |-> r.addr, size |-> r.size, wdata |-> r.wdata]
  BY DEF Request, NoReq

\* What the core asks of the bus in each state.
LEMMA DataRequest ==
  ASSUME IInv
  PROVE  /\ data_bus_active <=> state \in {"ST_RESET_VEC", "ST_MEM_READ", "ST_MEM_WRITE"}
         /\ data_bus_active => data_bus_req \in Request
         /\ state = "ST_RESET_VEC" => data_bus_req = ResetRead
         /\ state \in {"ST_MEM_READ", "ST_MEM_WRITE"} => data_bus_req = Head(todo)
<1>1. ResetRead \in Request
  BY InstructionAssumption
<1>2. state \in {"ST_MEM_READ", "ST_MEM_WRITE"} => Head(todo) \in Request
  BY DEF IInv, TypeOK, CoreTypeOK, Accessing, AccessStates
<1>3. /\ state = "ST_RESET_VEC" => data_bus_req = ResetRead
      /\ state \in {"ST_MEM_READ", "ST_MEM_WRITE"} => data_bus_req = Head(todo)
      /\ state \notin {"ST_RESET_VEC", "ST_MEM_READ", "ST_MEM_WRITE"} => data_bus_req = NoReq
  BY DEF data_bus_req
<1> QED BY <1>1, <1>2, <1>3, Requests DEF data_bus_active

\* What the prefetch unit asks of it.
LEMMA FetchRequested ==
  ASSUME IInv
  PROVE  /\ aligned_fetch_addr \in Addr /\ aligned_fetch_addr % BUS_BYTES = 0
         /\ ~Requesting => fetch_bus_req = NoReq
         /\ Requesting =>
              /\ fetch_bus_req \in Request
              /\ fetch_bus_req.type = "BUS_READ" /\ fetch_bus_req.addr = aligned_fetch_addr
              /\ fetch_bus_req.size = IF BUS_BYTES = 2 THEN "SZ_HALF" ELSE "SZ_WORD"
              /\ ~SecondNeeded(fetch_bus_req.size, fetch_bus_req.addr)
<1>1. fetch_addr \in 0 .. ADDR_SPACE - 1 /\ BUS_BYTES \in {2, 4} /\ ADDR_SPACE \in Nat
  BY Sizes DEF IInv, TypeOK, FetchTypeOK, Addr
<1>2. /\ aligned_fetch_addr \in Addr /\ aligned_fetch_addr \in Nat
      /\ aligned_fetch_addr % BUS_BYTES = 0
  <2>1. CASE BUS_BYTES = 2
    BY <1>1, <2>1 DEF aligned_fetch_addr, Addr
  <2>2. CASE BUS_BYTES = 4
    BY <1>1, <2>2 DEF aligned_fetch_addr, Addr
  <2> QED BY <1>1, <2>1, <2>2
<1>3. ASSUME Requesting
      PROVE  /\ fetch_bus_req \in Request
             /\ fetch_bus_req.type = "BUS_READ" /\ fetch_bus_req.addr = aligned_fetch_addr
             /\ fetch_bus_req.size = IF BUS_BYTES = 2 THEN "SZ_HALF" ELSE "SZ_WORD"
  BY <1>2, <1>3, ZeroWordTyped DEF fetch_bus_req, Request, DataSize
<1>4. ASSUME Requesting
      PROVE  ~SecondNeeded(fetch_bus_req.size, fetch_bus_req.addr)
  BY <1>1, <1>2, <1>3, <1>4 DEF SecondNeeded
<1> QED BY <1>2, <1>3, <1>4 DEF fetch_bus_req

-----------------------------------------------------------------------------
(* The edge of the bus, whatever the core does.                            *)

\* What becomes of the transaction on the bus.
Granted  == ~busy /\ data_bus_active /\ busy' /\ response_to_data' /\ Latched' = data_bus_req
Fetching == /\ ~busy /\ ~data_bus_active /\ Requesting
            /\ busy' /\ ~response_to_data' /\ Latched' = fetch_bus_req
Free     == ~busy /\ ~data_bus_active /\ ~Requesting /\ ~busy'
Pending  == /\ busy /\ ~resp_valid /\ busy'
            /\ response_to_data' = response_to_data /\ Latched' = Latched
Ended    == busy /\ resp_valid /\ ~busy'

BusEdge == Granted \/ Fetching \/ Free \/ Pending \/ Ended

\* The bytes a write leaves are bytes.
LEMMA MemoryTyped ==
  ASSUME IInv, MemClock(BusCycle)
  PROVE  MemTypeOK'
<1>1. mem \in [Addr -> Byte] /\ bus_ready' \in BOOLEAN
  BY DEF IInv, TypeOK, MemTypeOK, MemClock, BusCycle, InFirst, InSecond
<1>2. CASE ~(BusCycle.strobe /\ BusCycle.write)
  BY <1>1, <1>2 DEF MemClock, MemTypeOK
<1>3. CASE BusCycle.strobe /\ BusCycle.write
  <2>1. lat_wdata \in [0 .. 3 -> Byte] /\ lat_addr \in Nat
    BY DEF IInv, TypeOK, BifTypeOK, Word
  <2>2. \A l \in FirstWriteLanes.be : FirstWriteLanes.wdata[l] \in Byte
    <3>1. lat_addr % 2 \in {0, 1}
      BY <2>1
    <3>2. CASE BUS_BYTES = 2 /\ lat_size = "SZ_BYTE"
      BY <2>1, <3>1, <3>2, Sizes DEF FirstWriteLanes
    <3>3. CASE ~(BUS_BYTES = 2 /\ lat_size = "SZ_BYTE")
      BY <2>1, <3>3, Sizes DEF FirstWriteLanes
    <3> QED BY <3>2, <3>3
  <2>3. \A l \in SecondWriteLanes.be : SecondWriteLanes.wdata[l] \in Byte
    <3>1. \A l \in Lane : (IF BUS_BYTES = 2 THEN l + 2 ELSE l) \in 0 .. 3
      BY Sizes
    <3> QED BY <2>1, <3>1 DEF SecondWriteLanes
  <2>4. \A l \in BusCycle.be : BusCycle.wdata[l] \in Byte
    BY <2>2, <2>3 DEF BusCycle
  <2>5. mem' = WriteLanes(mem, BusCycle.addr, BusCycle.wdata, BusCycle.be)
    BY <1>3 DEF MemClock
  <2> QED BY <1>1, <2>4, <2>5 DEF WriteLanes, MemTypeOK
<1> QED BY <1>2, <1>3

\* Only the core's own transaction changes memory, and not on its last clock.
LEMMA Stores ==
  ASSUME IInv, MemClock(BusCycle), mem' # mem
  PROVE  busy /\ ~resp_valid /\ response_to_data
<1>1. (InFirst \/ InSecond) /\ lat_type = "BUS_WRITE"
  BY DEF MemClock, BusCycle
<1>2. busy /\ ~resp_valid
  BY <1>1 DEF busy, resp_valid, InFirst, InSecond
<1> QED BY <1>1, <1>2 DEF IInv, FetchOwned, TypeOK, CoreTypeOK

LEMMA LanesTyped ==
  ASSUME IInv
  PROVE  /\ bus_rdata \in [Lane -> Byte]
         /\ AfterFirstRead(bus_rdata) \in Word
         /\ AfterSecondRead(bus_rdata) \in Word
<1>1. BusCycle.addr \in Int
  <2>1. lat_addr \in Nat
    BY DEF IInv, TypeOK, BifTypeOK
  <2>2. FirstAddr(lat_addr) \in Int /\ SecondAddr(lat_addr) \in Int
    BY <2>1, Sizes DEF FirstAddr, SecondAddr
  <2> QED BY <2>2 DEF BusCycle
<1>2. \A l \in Lane : (BusCycle.addr + l) % ADDR_SPACE \in Addr
  BY <1>1, Sizes DEF Addr
<1>3. bus_rdata \in [Lane -> Byte]
  BY <1>2 DEF bus_rdata, ReadLanes, IInv, TypeOK, MemTypeOK
<1>4. read_accum \in [0 .. 3 -> Byte] /\ lat_addr % 2 \in {0, 1}
  BY DEF IInv, TypeOK, BifTypeOK, Word
<1>5. AfterFirstRead(bus_rdata) \in Word
  <2>1. CASE BUS_BYTES = 4
    BY <1>3, <2>1, Sizes DEF AfterFirstRead, Word
  <2>2. CASE BUS_BYTES = 2
    BY <1>3, <1>4, <2>2, Sizes DEF AfterFirstRead, Word
  <2> QED BY <2>1, <2>2, Sizes
<1>6. AfterSecondRead(bus_rdata) \in Word
  BY <1>3, <1>4, Sizes DEF AfterSecondRead, Word
<1> QED BY <1>3, <1>5, <1>6

\* The bus interface takes a request when it is idle, ...
LEMMA AcceptEdge ==
  ASSUME IInv, BifAccept(arb_bus_req), MemClock(BusCycle), Arbitrate
  PROVE  BusEdge /\ BifTypeOK' /\ Serving' /\ FetchOwned' /\ response_to_data' \in BOOLEAN
<1>1. ~busy /\ busy' /\ ~InSecond' /\ ~resp_valid' /\ arb_bus_req # NoReq
      /\ lat_type' = arb_bus_req.type /\ lat_addr' = arb_bus_req.addr
      /\ lat_size' = arb_bus_req.size /\ lat_wdata' = arb_bus_req.wdata
      /\ need_second' = SecondNeeded(arb_bus_req.size, arb_bus_req.addr)
      /\ read_accum' = ZeroWord /\ bif_state' = "BIF_CYCLE1"
  BY DEF BifAccept, busy, InSecond, resp_valid
<1>2. response_to_data' = data_bus_active /\ data_bus_active \in BOOLEAN
  BY <1>1 DEF Arbitrate, data_bus_active
<1>3. arb_bus_req \in Request /\ (~data_bus_active => Requesting)
  BY <1>1, DataRequest, FetchRequested DEF arb_bus_req
<1>4. Latched' = arb_bus_req
  BY <1>1, <1>3, Requests DEF Latched
<1>5. BusEdge
  BY <1>1, <1>2, <1>3, <1>4 DEF BusEdge, Granted, Fetching, arb_bus_req
<1>6. need_second' \in BOOLEAN
  BY <1>1 DEF SecondNeeded
<1>7. BifTypeOK'
  BY <1>1, <1>3, <1>6, Requests, ZeroWordTyped DEF BifTypeOK, BifState
<1>8. FetchOwned'
  <2> SUFFICES ASSUME ~data_bus_active PROVE FetchOwned'
    BY <1>2 DEF FetchOwned
  <2>1. arb_bus_req = fetch_bus_req /\ Requesting
    BY <1>3 DEF arb_bus_req
  <2> QED BY <1>1, <2>1, FetchRequested DEF FetchOwned
<1> QED BY <1>2, <1>3, <1>4, <1>5, <1>7, <1>8 DEF Serving

\* ... or waits for one, ...
LEMMA IdleEdge ==
  ASSUME IInv, BifIdle(arb_bus_req), MemClock(BusCycle), Arbitrate
  PROVE  BusEdge /\ BifTypeOK' /\ Serving' /\ FetchOwned' /\ response_to_data' \in BOOLEAN
<1>1. ~busy /\ ~busy' /\ arb_bus_req = NoReq /\ UNCHANGED bifVars
  BY DEF BifIdle, busy, bifVars
<1>2. ~data_bus_active /\ ~Requesting
  BY <1>1, FetchRequested, Requests DEF arb_bus_req, data_bus_active
<1>3. BusEdge
  BY <1>1, <1>2 DEF BusEdge, Free
<1>4. BifTypeOK'
  BY <1>1 DEF bifVars, IInv, TypeOK, BifTypeOK
<1>5. response_to_data' \in BOOLEAN
  BY <1>1, <1>2 DEF Arbitrate, data_bus_active
<1> QED BY <1>1, <1>3, <1>4, <1>5 DEF Serving, FetchOwned

\* What all the states of a transfer but the last have in common.
LEMMA PendingEdge ==
  ASSUME IInv, busy, ~resp_valid, busy', keepRequest, Arbitrate
  PROVE  BusEdge /\ Serving' /\ response_to_data' = response_to_data
<1>1. response_to_data' = response_to_data
  BY DEF Arbitrate
<1>2. Latched' = Latched
  BY DEF keepRequest, Latched
<1> QED BY <1>1, <1>2 DEF BusEdge, Pending, Serving, IInv

LEMMA TransferEdge ==
  ASSUME IInv, MemClock(BusCycle), Arbitrate, BifAddress \/ BifWait(bus_ready)
  PROVE  BusEdge /\ BifTypeOK' /\ Serving' /\ FetchOwned' /\ response_to_data' \in BOOLEAN
<1>1. /\ busy /\ ~resp_valid /\ busy' /\ ~resp_valid' /\ keepRequest
      /\ read_accum' = read_accum /\ bif_state' \in BifState
      /\ InSecond' => InSecond
  BY DEF BifAddress, BifWait, bifVars, keepRequest, busy, resp_valid, InSecond, BifState
<1>2. BusEdge /\ Serving' /\ response_to_data' = response_to_data
  BY <1>1, PendingEdge
<1>3. BifTypeOK'
  BY <1>1 DEF keepRequest, IInv, TypeOK, BifTypeOK
<1>4. FetchOwned'
  <2> SUFFICES ASSUME ~response_to_data PROVE FetchOwned'
    BY <1>2 DEF FetchOwned
  <2>1. ~InSecond
    BY <1>1 DEF IInv, FetchOwned
  <2> QED BY <1>1, <2>1 DEF IInv, FetchOwned, keepRequest
<1> QED BY <1>2, <1>3, <1>4 DEF IInv, TypeOK, CoreTypeOK

\* The answer to the prefetch unit is there after its one bus cycle, and then it is
\* what memory holds.
LEMMA FirstDoneEdge ==
  ASSUME IInv, MemClock(BusCycle), Arbitrate, BifFirstDone(bus_ready, bus_rdata)
  PROVE  BusEdge /\ BifTypeOK' /\ Serving' /\ FetchOwned' /\ response_to_data' \in BOOLEAN
<1>1. /\ busy /\ ~resp_valid /\ busy' /\ keepRequest /\ InFirst
      /\ bif_state' = IF need_second THEN "BIF_CYCLE2" ELSE "BIF_DONE"
      /\ read_accum' = IF lat_type = "BUS_READ" THEN AfterFirstRead(bus_rdata)
                                                ELSE read_accum
  BY DEF BifFirstDone, busy, resp_valid, InFirst
<1>2. BusEdge /\ Serving' /\ response_to_data' = response_to_data
  BY <1>1, PendingEdge
<1>3. read_accum' \in Word
  BY <1>1, LanesTyped DEF IInv, TypeOK, BifTypeOK
<1>4. BifTypeOK'
  BY <1>1, <1>3 DEF keepRequest, IInv, TypeOK, BifTypeOK, BifState
<1>5. FetchOwned'
  <2> SUFFICES ASSUME ~response_to_data PROVE FetchOwned'
    BY <1>2 DEF FetchOwned
  <2>1. /\ lat_type = "BUS_READ" /\ lat_addr \in Addr /\ lat_addr % BUS_BYTES = 0
        /\ lat_size = IF BUS_BYTES = 2 THEN "SZ_HALF" ELSE "SZ_WORD"
        /\ ~need_second
    BY <1>1 DEF IInv, FetchOwned
  <2>2. mem' = mem
    BY <2>1, Stores DEF IInv
  <2>3. BusCycle.addr = lat_addr
    BY <1>1, <2>1, Sizes DEF BusCycle, FirstAddr, Addr
  <2>4. \A l \in Lane : bus_rdata[l] = mem[(lat_addr + l) % ADDR_SPACE]
    BY <2>3 DEF bus_rdata, ReadLanes
  <2>5. \A l \in Lane : read_accum'[l] = bus_rdata[l]
    <3>1. read_accum' = AfterFirstRead(bus_rdata) /\ read_accum \in [0 .. 3 -> Byte]
      BY <1>1, <2>1 DEF IInv, TypeOK, BifTypeOK, Word
    <3>2. CASE BUS_BYTES = 4
      BY <3>1, <3>2, Sizes DEF AfterFirstRead
    <3>3. CASE BUS_BYTES = 2
      <4>1. AfterFirstRead(bus_rdata)
              = [read_accum EXCEPT ![0] = bus_rdata[0], ![1] = bus_rdata[1]]
        BY <2>1, <3>3 DEF AfterFirstRead
      <4> QED BY <3>1, <3>3, <4>1, Sizes
    <3> QED BY <3>2, <3>3, Sizes
  <2>6. ~InSecond'
    BY <1>1, <2>1 DEF InSecond
  <2> QED BY <1>1, <2>1, <2>2, <2>4, <2>5, <2>6 DEF FetchOwned, keepRequest
<1> QED BY <1>2, <1>4, <1>5 DEF IInv, TypeOK, CoreTypeOK

LEMMA SecondDoneEdge ==
  ASSUME IInv, MemClock(BusCycle), Arbitrate, BifSecondDone(bus_ready, bus_rdata)
  PROVE  BusEdge /\ BifTypeOK' /\ Serving' /\ FetchOwned' /\ response_to_data' \in BOOLEAN
<1>1. /\ busy /\ ~resp_valid /\ busy' /\ keepRequest /\ InSecond
      /\ bif_state' = "BIF_DONE"
      /\ read_accum' = IF lat_type = "BUS_READ" THEN AfterSecondRead(bus_rdata)
                                                ELSE read_accum
  BY DEF BifSecondDone, busy, resp_valid, InSecond
<1>2. BusEdge /\ Serving' /\ response_to_data' = response_to_data
  BY <1>1, PendingEdge
<1>3. read_accum' \in Word
  BY <1>1, LanesTyped DEF IInv, TypeOK, BifTypeOK
<1>4. BifTypeOK'
  BY <1>1, <1>3 DEF keepRequest, IInv, TypeOK, BifTypeOK, BifState
<1>5. FetchOwned'
  BY <1>1, <1>2 DEF IInv, FetchOwned
<1> QED BY <1>2, <1>4, <1>5 DEF IInv, TypeOK, CoreTypeOK

\* ... until it answers.
LEMMA EndEdge ==
  ASSUME IInv, MemClock(BusCycle), Arbitrate, BifDone
  PROVE  BusEdge /\ BifTypeOK' /\ Serving' /\ FetchOwned' /\ response_to_data' \in BOOLEAN
<1>1. busy /\ resp_valid /\ ~busy' /\ keepRequest /\ read_accum' = read_accum
      /\ bif_state' = "BIF_IDLE"
  BY DEF BifDone, busy, resp_valid
<1>2. BifTypeOK'
  BY <1>1 DEF keepRequest, IInv, TypeOK, BifTypeOK, BifState
<1>3. response_to_data' \in BOOLEAN
  BY <1>1 DEF Arbitrate, IInv, TypeOK, CoreTypeOK
<1> QED BY <1>1, <1>2, <1>3 DEF BusEdge, Ended, Serving, FetchOwned

\* All there is to know of an edge of the bus.
LEMMA DevicesEdge ==
  ASSUME IInv, Devices
  PROVE  /\ BusEdge /\ MemTypeOK' /\ BifTypeOK' /\ Serving' /\ FetchOwned'
         /\ response_to_data' \in BOOLEAN
         /\ mem' # mem => busy /\ ~resp_valid /\ response_to_data
  BY MemoryTyped, Stores, AcceptEdge, IdleEdge, TransferEdge, FirstDoneEdge, SecondDoneEdge,
     EndEdge DEF Devices, BifClock

-----------------------------------------------------------------------------
(* The edge of the prefetch unit.                                          *)

\* The unit's part of the invariant, and that bytes stay in the window.
FetchKept(n) ==
  /\ FetchTypeOK' /\ RoomKept' /\ FetchRouted'
  /\ n = 0 => ibuf_valid_count' >= ibuf_valid_count

LEMMA Counts ==
  ASSUME IInv
  PROVE  /\ fill_level \in 0 .. IBUF_SIZE /\ rd_ptr \in Slot /\ wr_ptr \in Slot
         /\ ibuf_valid_count \in 0 .. FETCH_WINDOW /\ ibuf_valid_count <= fill_level
  BY Sizes DEF IInv, TypeOK, FetchTypeOK, ibuf_valid_count

\* Consuming n bytes and storing k.
LEMMA AccountKept ==
  ASSUME IInv, NEW n \in Nat, n <= ibuf_valid_count, NEW k \in Nat,
         fill_level + k <= IBUF_SIZE, Account(n, k)
  PROVE  /\ rd_ptr' \in Slot /\ fill_level' \in 0 .. IBUF_SIZE
         /\ fill_level' = fill_level - n + k
         /\ n = 0 => ibuf_valid_count' >= ibuf_valid_count
<1>1. /\ fill_level \in 0 .. IBUF_SIZE /\ rd_ptr \in Nat /\ n <= fill_level
      /\ IBUF_SIZE \in Nat \ {0} /\ FETCH_WINDOW \in Nat
      /\ PTR_MOD \in Nat \ {0} /\ PTR_MOD > IBUF_SIZE
  BY Counts, Sizes DEF Slot
<1>2. fill_level' = fill_level - n + k
  <2>1. fill_level - n + k \in 0 .. PTR_MOD - 1
    BY <1>1
  <2> QED BY <1>1, <2>1 DEF Account, Ptr
<1>3. rd_ptr' \in Slot
  <2>1. Ptr(rd_ptr + n) \in Int
    BY <1>1 DEF Ptr
  <2> QED BY <1>1, <2>1 DEF Account, Slot
<1>4. n = 0 => fill_level' >= fill_level
  BY <1>1, <1>2
<1>5. ibuf_valid_count' = IF fill_level' > FETCH_WINDOW THEN FETCH_WINDOW ELSE fill_level'
  BY DEF ibuf_valid_count
<1> QED BY <1>1, <1>2, <1>3, <1>4, <1>5 DEF ibuf_valid_count

LEMMA FetchIdleEdge ==
  ASSUME IInv, NEW n \in Nat, n <= ibuf_valid_count, FetchIdle(fetch_bus_busy, n)
  PROVE  FetchKept(n)
<1>1. /\ fstate' \in {"FS_IDLE", "FS_REQUEST"} /\ UNCHANGED <<buffer, wr_ptr, fetch_addr>>
      /\ fstate' # "FS_IDLE" => room >= BUS_BYTES
  BY DEF FetchIdle, CanFetch
<1>2. /\ fill_level \in 0 .. IBUF_SIZE /\ fill_level + 0 <= IBUF_SIZE
      /\ IBUF_SIZE \in Nat /\ PTR_MOD \in Nat \ {0} /\ PTR_MOD > IBUF_SIZE /\ BUS_BYTES \in Nat
  BY Counts, Sizes
<1>3. /\ rd_ptr' \in Slot /\ fill_level' \in 0 .. IBUF_SIZE
      /\ fill_level' = fill_level - n + 0
      /\ n = 0 => ibuf_valid_count' >= ibuf_valid_count
  <2>1. Account(n, 0)
    BY DEF FetchIdle
  <2> QED BY <1>2, <2>1, AccountKept
<1>4. room = IBUF_SIZE - fill_level
  BY <1>2 DEF room, Ptr
<1>5. FetchTypeOK'
  BY <1>1, <1>3 DEF IInv, TypeOK, FetchTypeOK
<1>6. RoomKept'
  BY <1>1, <1>2, <1>3, <1>4 DEF RoomKept
<1> QED BY <1>1, <1>3, <1>5, <1>6 DEF FetchKept, FetchRouted

LEMMA FetchRequestEdge ==
  ASSUME IInv, BusEdge, NEW n \in Nat, n <= ibuf_valid_count, FetchRequest(fetch_bus_busy, n)
  PROVE  FetchKept(n)
<1>1. /\ fstate = "FS_REQUEST" /\ fstate' \in {"FS_REQUEST", "FS_WAIT"}
      /\ UNCHANGED <<buffer, wr_ptr, fetch_addr>>
      /\ fstate' = "FS_WAIT" => ~fetch_bus_busy
  BY DEF FetchRequest
<1>2. /\ fill_level \in 0 .. IBUF_SIZE /\ fill_level + 0 <= IBUF_SIZE
      /\ IBUF_SIZE \in Nat /\ BUS_BYTES \in Nat
  BY Counts, Sizes
<1>3. /\ rd_ptr' \in Slot /\ fill_level' \in 0 .. IBUF_SIZE
      /\ fill_level' = fill_level - n + 0
      /\ n = 0 => ibuf_valid_count' >= ibuf_valid_count
  <2>1. Account(n, 0)
    BY DEF FetchRequest
  <2> QED BY <1>2, <2>1, AccountKept
<1>4. FetchTypeOK'
  BY <1>1, <1>3 DEF IInv, TypeOK, FetchTypeOK
<1>5. RoomKept'
  BY <1>1, <1>2, <1>3 DEF IInv, RoomKept
<1>6. FetchRouted'
  <2> SUFFICES ASSUME fstate' = "FS_WAIT" PROVE FetchRouted'
    BY DEF FetchRouted
  <2>1. busy' /\ ~response_to_data' /\ Latched' = fetch_bus_req
    BY <1>1 DEF fetch_bus_busy, BusEdge, Granted, Fetching, Free, Pending, Ended, Requesting
  <2>2. fetch_bus_req.type = "BUS_READ" /\ fetch_bus_req.addr = aligned_fetch_addr
    BY <1>1, FetchRequested DEF Requesting
  <2>3. lat_type' = Latched'.type /\ lat_addr' = Latched'.addr
    BY DEF Latched
  <2>4. aligned_fetch_addr' = aligned_fetch_addr
    BY <1>1 DEF aligned_fetch_addr
  <2> QED BY <2>1, <2>2, <2>3, <2>4 DEF FetchRouted
<1> QED BY <1>3, <1>4, <1>5, <1>6 DEF FetchKept

LEMMA FetchWaitEdge ==
  ASSUME IInv, BusEdge, NEW n \in Nat, n <= ibuf_valid_count, FetchWait(fetch_bus_valid, n)
  PROVE  FetchKept(n)
<1>1. /\ fstate = "FS_WAIT" /\ ~fetch_bus_valid
      /\ UNCHANGED <<buffer, wr_ptr, fetch_addr, fstate>>
  BY DEF FetchWait
<1>2. /\ fill_level \in 0 .. IBUF_SIZE /\ fill_level + 0 <= IBUF_SIZE
      /\ IBUF_SIZE \in Nat /\ BUS_BYTES \in Nat
  BY Counts, Sizes
<1>3. /\ rd_ptr' \in Slot /\ fill_level' \in 0 .. IBUF_SIZE
      /\ fill_level' = fill_level - n + 0
      /\ n = 0 => ibuf_valid_count' >= ibuf_valid_count
  <2>1. Account(n, 0)
    BY DEF FetchWait
  <2> QED BY <1>2, <2>1, AccountKept
<1>4. FetchTypeOK'
  BY <1>1, <1>3 DEF IInv, TypeOK, FetchTypeOK
<1>5. RoomKept'
  BY <1>1, <1>2, <1>3 DEF IInv, RoomKept
<1>6. busy /\ ~response_to_data /\ lat_type = "BUS_READ" /\ lat_addr = aligned_fetch_addr
  BY <1>1 DEF IInv, FetchRouted
<1>7. busy' /\ ~response_to_data' /\ Latched' = Latched
  BY <1>1, <1>6 DEF fetch_bus_valid, BusEdge, Granted, Fetching, Free, Pending, Ended
<1>8. lat_type' = lat_type /\ lat_addr' = lat_addr
  BY <1>7 DEF Latched
<1>9. aligned_fetch_addr' = aligned_fetch_addr
  BY <1>1 DEF aligned_fetch_addr
<1> QED BY <1>3, <1>4, <1>5, <1>6, <1>7, <1>8, <1>9 DEF FetchKept, FetchRouted

LEMMA FetchFillEdge ==
  ASSUME IInv, NEW n \in Nat, n <= ibuf_valid_count,
         FetchFill(fetch_bus_valid, [l \in Lane |-> resp_rdata[l]], n)
  PROVE  FetchKept(n)
<1>1. fstate = "FS_WAIT" /\ fstate' = "FS_IDLE"
  BY DEF FetchFill
<1>2. /\ fetch_addr \in Nat /\ wr_ptr \in Nat /\ buffer \in [Slot -> Byte]
      /\ fill_level \in 0 .. IBUF_SIZE /\ IBUF_SIZE \in Nat \ {0} /\ BUS_BYTES \in {2, 4}
      /\ fill_level + BUS_BYTES <= IBUF_SIZE /\ wr_ptr \in 0 .. IBUF_SIZE - 1
      /\ PTR_MOD \in Nat \ {0} /\ ADDR_SPACE \in Nat \ {0}
  BY <1>1, Sizes DEF IInv, TypeOK, FetchTypeOK, RoomKept, Slot, Addr
<1>3. FirstLane \in {0, 1} /\ Stored \in 1 .. BUS_BYTES /\ FirstLane + Stored = BUS_BYTES
  BY <1>2 DEF FirstLane, Stored
<1>4. /\ rd_ptr' \in Slot /\ fill_level' \in 0 .. IBUF_SIZE
      /\ n = 0 => ibuf_valid_count' >= ibuf_valid_count
  <2>1. Account(n, Stored) /\ Stored \in Nat /\ fill_level + Stored <= IBUF_SIZE
    BY <1>2, <1>3 DEF FetchFill
  <2> QED BY <2>1, AccountKept
<1>5. buffer' \in [Slot -> Byte]
  <2>1. \A l \in Lane : resp_rdata[l] \in Byte
    BY Sizes DEF resp_rdata, Masked, IInv, TypeOK, BifTypeOK, Word
  <2>2. ASSUME NEW s \in Slot, NEW j, j = (s + IBUF_SIZE - wr_ptr) % IBUF_SIZE, j < Stored
        PROVE  FirstLane + j \in Lane
    <3>1. j \in Nat
      BY <1>2, <2>2 DEF Slot
    <3> QED BY <1>2, <1>3, <2>2, <3>1, Sizes
  <2> QED BY <1>2, <2>1, <2>2 DEF FetchFill
<1>6. wr_ptr' \in Slot /\ fetch_addr' \in Addr
  <2>1. Ptr(wr_ptr + Stored) \in Int
    BY <1>2, <1>3 DEF Ptr
  <2> QED BY <1>2, <1>3, <2>1 DEF FetchFill, Slot, Addr
<1>7. FetchTypeOK'
  BY <1>1, <1>4, <1>5, <1>6 DEF FetchTypeOK
<1> QED BY <1>1, <1>4, <1>7 DEF FetchKept, RoomKept, FetchRouted

\* The unit's part holds after an edge on which the core consumes n bytes, ...
LEMMA RunKept ==
  ASSUME IInv, NEW n \in Nat, n <= ibuf_valid_count, Run(n)
  PROVE  FetchKept(n)
<1>1. BusEdge
  BY DevicesEdge DEF Run
<1>2. FetchClock(fetch_bus_busy, fetch_bus_valid, [l \in Lane |-> resp_rdata[l]], n)
  BY DEF Run
<1> QED BY <1>1, <1>2, FetchIdleEdge, FetchRequestEdge, FetchWaitEdge, FetchFillEdge
        DEF FetchClock

\* ... and after a jump.
LEMMA JumpKept ==
  ASSUME IInv, NEW t \in Addr, JumpTo(t)
  PROVE  FetchTypeOK' /\ RoomKept' /\ FetchRouted'
  BY Sizes DEF JumpTo, Flush, FetchTypeOK, RoomKept, FetchRouted, Slot, IInv, TypeOK

\* The rest of what an edge keeps whatever the core does: the core's part follows.
Around == MemTypeOK' /\ BifTypeOK' /\ FetchTypeOK' /\ Serving' /\ FetchOwned' /\ FetchRouted'
          /\ RoomKept' /\ response_to_data' \in BOOLEAN /\ pc' \in Addr /\ dirty' \subseteq Addr

LEMMA RunAround ==
  ASSUME IInv, NEW n \in Nat, n <= ibuf_valid_count, Run(n)
  PROVE  /\ Around /\ BusEdge
         /\ n = 0 => ibuf_valid_count' >= ibuf_valid_count
<1>1. FetchKept(n)
  BY RunKept
<1>2. pc' \in Addr
  BY Sizes DEF Run, Addr, IInv, TypeOK, CoreTypeOK
<1>3. dirty' \subseteq Addr
  BY DEF Run, Stored2Mem, IInv, TypeOK, CoreTypeOK
<1> QED BY <1>1, <1>2, <1>3, DevicesEdge DEF Run, Around, FetchKept

LEMMA JumpAround ==
  ASSUME IInv, NEW t \in Addr, JumpTo(t)
  PROVE  Around /\ BusEdge
  BY JumpKept, DevicesEdge DEF JumpTo, Around

-----------------------------------------------------------------------------
(* The core's part of the invariant.                                       *)

CoreKept ==
  /\ Accessing' /\ Held' /\ DataRouted'
  /\ state' \in State /\ inst' \in Instructions /\ todo' \in Seq(Request)
  /\ multi_step' \in 0 .. 3 /\ indirect_active' \in BOOLEAN /\ int_active' \in BOOLEAN

LEMMA Together ==
  ASSUME Around, CoreKept
  PROVE  IInv'
  BY DEF Around, CoreKept, IInv, TypeOK, CoreTypeOK

LEMMA Core ==
  ASSUME IInv
  PROVE  /\ inst \in Instructions /\ inst.len \in 1 .. IBUF_SIZE
         /\ inst.target \in Addr /\ inst.accesses \in Seq(Request) /\ inst.entry \in Seq(Request)
         /\ todo \in Seq(Request) /\ state \in State
         /\ multi_step \in 0 .. 3 /\ indirect_active \in BOOLEAN /\ int_active \in BOOLEAN
         /\ ibuf_valid_count \in Nat /\ 0 <= ibuf_valid_count
<1>1. inst \in Instruction
  BY InstructionAssumption DEF IInv, TypeOK, CoreTypeOK
<1>2. ibuf_valid_count \in Nat
  BY Counts, Sizes
<1> QED BY <1>1, <1>2 DEF Instruction, IInv, TypeOK, CoreTypeOK

\* The word that answers the core is a word.
LEMMA AnswerTyped ==
  ASSUME IInv
  PROVE  resp_rdata \in Word
  BY Sizes DEF resp_rdata, Masked, IInv, TypeOK, BifTypeOK, Word

\* What becomes of the core's transaction: granted when it asks and the bus is free,
\* then its own until it is answered; otherwise the bus is not the core's.
LEMMA Routing ==
  ASSUME IInv, BusEdge
  PROVE  /\ state \in {"ST_RESET_VEC", "ST_MEM_READ", "ST_MEM_WRITE"} =>
              /\ ~busy => busy' /\ response_to_data' /\ Latched' = data_bus_req
              /\ busy => ~(busy' /\ response_to_data')
         /\ DataWait =>
              /\ ~data_bus_valid => busy' /\ response_to_data' /\ Latched' = Latched
              /\ data_bus_valid => ~busy'
         /\ state \notin {"ST_RESET_VEC", "ST_MEM_READ", "ST_MEM_WRITE"} /\ ~DataWait =>
              ~(busy' /\ response_to_data')
<1>1. DataWait <=> busy /\ response_to_data
  BY DEF IInv, DataRouted
<1>2. data_bus_active <=> state \in {"ST_RESET_VEC", "ST_MEM_READ", "ST_MEM_WRITE"}
  BY DataRequest
<1>3. data_bus_active => ~DataWait
  BY <1>2 DEF DataWait
<1> QED
  BY <1>1, <1>2, <1>3 DEF BusEdge, Granted, Fetching, Free, Pending, Ended, data_bus_valid

LEMMA Accesses ==
  ASSUME NEW as \in Seq(Request), as # << >>
  PROVE  /\ Len(as) \in Nat \ {0} /\ Head(as) = as[1] /\ Head(as) \in Request
         /\ as[Len(as)] \in Request
         /\ Tail(as) \in Seq(Request) /\ Len(Tail(as)) = Len(as) - 1
         /\ Tail(as) # << >> => Tail(as)[Len(Tail(as))] = as[Len(as)]
<1>1. Len(as) \in Nat \ {0}
  BY EmptySeq
<1>2. /\ Head(as) \in Request /\ Tail(as) \in Seq(Request) /\ Len(Tail(as)) = Len(as) - 1
      /\ \A i \in 1 .. Len(Tail(as)) : Tail(as)[i] = as[i + 1]
  BY HeadTailProperties
<1>3. Head(as) = as[1]
  OBVIOUS
<1>4. as[Len(as)] \in Request
  <2>1. \A k : k \in Nat \ {0} => k \in 1 .. k
    OBVIOUS
  <2>2. Len(as) \in 1 .. Len(as)
    BY ONLY <1>1, <2>1, Zenon
  <2> QED BY <2>2, ElementOfSeq, Zenon
<1>5. ASSUME Tail(as) # << >>
      PROVE  Tail(as)[Len(Tail(as))] = as[Len(as)]
  <2>1. Len(Tail(as)) \in Nat \ {0}
    BY <1>2, <1>5, EmptySeq
  <2>2. \A k, m : k \in Nat \ {0} /\ m \in Nat /\ k = m - 1 => k \in 1 .. k /\ k + 1 = m
    OBVIOUS
  <2>3. Len(Tail(as)) \in 1 .. Len(Tail(as)) /\ Len(Tail(as)) + 1 = Len(as)
    BY ONLY <1>1, <1>2, <2>1, <2>2, Zenon
  <2> QED BY <1>2, <2>3, Zenon
<1> QED BY <1>1, <1>2, <1>3, <1>4, <1>5

-----------------------------------------------------------------------------
(* One lemma for each state of the main FSM.                               *)

LEMMA ResetKept ==
  ASSUME IInv, Reset
  PROVE  IInv'
<1>1. Around /\ BusEdge
  BY RunAround, Core DEF Reset
<1>2. DataRouted'
  BY <1>1, Routing DEF Reset, Goto, DataWait, DataRouted
<1>3. CoreKept
  BY <1>2, Core DEF CoreKept, Reset, Goto, State, Accessing, AccessStates, Held, Waiting, IInv
<1> QED BY <1>1, <1>3, Together

LEMMA ResetVecKept ==
  ASSUME IInv, ResetVec
  PROVE  IInv'
<1>1. Around /\ BusEdge
  BY RunAround, Core DEF ResetVec
<1>2. data_bus_req = ResetRead
  BY DataRequest DEF ResetVec
<1>3. DataRouted'
  BY <1>1, <1>2, Routing DEF ResetVec, Goto, DataWait, DataRouted, Awaited
<1>4. CoreKept
  BY <1>3, Core DEF CoreKept, ResetVec, Goto, State, Accessing, AccessStates, Held, Waiting, IInv
<1> QED BY <1>1, <1>4, Together

LEMMA ResetVecWaitKept ==
  ASSUME IInv, ResetVecWait
  PROVE  IInv'
<1>1. AddrOf(resp_rdata) \in Addr
  BY AnswerTyped, InstructionAssumption
<1>2. Around /\ BusEdge
  <2>1. CASE data_bus_valid
    BY <1>1, <2>1, JumpAround DEF ResetVecWait
  <2>2. CASE ~data_bus_valid
    BY <2>2, RunAround, Core DEF ResetVecWait
  <2> QED BY <2>1, <2>2
<1>3. DataWait /\ Awaited = ResetRead /\ Latched = ResetRead
  BY DEF ResetVecWait, DataWait, Awaited, IInv, DataRouted
<1>4. DataRouted'
  BY <1>2, <1>3, Routing DEF ResetVecWait, Goto, DataWait, DataRouted, Awaited
<1>5. CoreKept
  BY <1>4, Core DEF CoreKept, ResetVecWait, Goto, State, Accessing, AccessStates, Held,
                    Waiting, IInv
<1> QED BY <1>2, <1>5, Together

LEMMA FetchStateKept ==
  ASSUME IInv, FetchState
  PROVE  IInv'
<1>1. Around /\ BusEdge
  BY RunAround, Core DEF FetchState
<1>2. DataRouted'
  BY <1>1, Routing DEF FetchState, Goto, DataWait, DataRouted
<1>3. inst' \in Instructions
  BY Core DEF FetchState
<1>4. CoreKept
  BY <1>2, <1>3, Core DEF CoreKept, FetchState, Goto, State, Accessing, AccessStates, Held,
                          Waiting, IInv
<1> QED BY <1>1, <1>4, Together

\* HALT waits for a handler.
LEMMA DecodeKept ==
  ASSUME Handlers, IInv, Decode
  PROVE  IInv'
<1>1. Around /\ BusEdge /\ ibuf_valid_count' >= ibuf_valid_count
  BY RunAround, Core DEF Decode
<1>2. DataRouted'
  BY <1>1, Routing DEF Decode, Goto, DataWait, DataRouted
<1>3. inst.kind = "HALT" => inst.entry # << >>
  BY Core DEF Handlers
<1>4. Held'
  <2>1. state' # "ST_DECODE" => ibuf_valid_count >= inst.len
    BY DEF Decode, Goto, decode_valid
  <2>2. ibuf_valid_count \in Nat /\ ibuf_valid_count' \in Nat /\ inst.len \in Nat
    BY <1>1, Core, Sizes DEF Around, FetchTypeOK, ibuf_valid_count
  <2>3. state' # "ST_DECODE" => ibuf_valid_count' >= inst.len
    BY <1>1, <2>1, <2>2
  <2> QED BY <2>3 DEF Decode, Held, Waiting
<1>5. CoreKept
  BY <1>2, <1>3, <1>4, Core DEF CoreKept, Decode, Goto, State, Accessing, AccessStates, IInv
<1> QED BY <1>1, <1>5, Together

\* The first of the accesses as is put at the data port, or there is none.
LEMMA OnwardTo ==
  ASSUME IInv, NEW as \in Seq(Request)
  PROVE  /\ Onward(as) \in {"ST_MEM_READ", "ST_MEM_WRITE", "ST_INT_ACK", "ST_WRITEBACK"}
         /\ Onward(as) \in {"ST_MEM_READ", "ST_MEM_WRITE"} <=> as # << >>
         /\ Onward(as) = "ST_INT_ACK" => inst.entry # << >>
  BY DEF Onward, AccessState

LEMMA ExecuteKept ==
  ASSUME IInv, Execute
  PROVE  IInv'
<1>1. inst.len \in Nat /\ ibuf_valid_count \in Nat /\ state = "ST_EXECUTE"
      /\ ibuf_valid_count >= inst.len
  BY Core DEF Execute, IInv, Held
<1>2. /\ Around /\ BusEdge
      /\ inst.flush # "ST_EXECUTE" => ibuf_valid_count' >= ibuf_valid_count
  <2>1. CASE inst.flush = "ST_EXECUTE"
    BY <2>1, JumpAround, Core DEF Execute
  <2>2. CASE inst.flush # "ST_EXECUTE"
    BY <2>2, RunAround, Core DEF Execute
  <2> QED BY <2>1, <2>2
<1>3. state' \in {"ST_EXECUTE2", "ST_STRING_LOOP", Onward(inst.accesses)}
  BY DEF Execute, Goto
<1>4. DataRouted'
  BY <1>1, <1>2, <1>3, Routing, OnwardTo, Core DEF DataWait, DataRouted
<1>5. Held'
  <2>1. ibuf_valid_count' \in Nat
    BY <1>2, Sizes DEF Around, FetchTypeOK, ibuf_valid_count
  <2>2. inst.flush # "ST_EXECUTE" => ibuf_valid_count' >= inst.len
    BY <1>1, <1>2, <2>1
  <2>3. inst' = inst /\ state' # "ST_EXECUTE"
    BY <1>3, OnwardTo, Core DEF Execute
  <2> QED BY <2>2, <2>3 DEF Held, Flushed
<1>6. multi_step' \in 0 .. 3
  BY DEF Execute
<1>7. ~int_active /\ int_active' = int_active /\ todo' = inst.accesses /\ inst' = inst
      /\ indirect_active' \in BOOLEAN
  BY <1>1, Core DEF Execute, IInv, Accessing, AccessStates
<1>8. CoreKept
  BY <1>3, <1>4, <1>5, <1>6, <1>7, OnwardTo, Core DEF CoreKept, State, Accessing, AccessStates
<1> QED BY <1>2, <1>8, Together

\* The window still holds the instruction after an edge that consumes nothing; one
\* that has sent the prefetch unit elsewhere needs nothing of it.
LEMMA HeldOn ==
  ASSUME IInv, Around, inst' = inst, state \notin Waiting, state' # "ST_EXECUTE",
         ~Flushed => ibuf_valid_count' >= ibuf_valid_count
  PROVE  Held'
<1>1. inst.len \in Nat /\ ibuf_valid_count \in Nat /\ ibuf_valid_count' \in Nat
  BY Core, Sizes DEF Around, FetchTypeOK, ibuf_valid_count
<1>2. Flushed' <=> Flushed
  BY DEF Flushed
<1>3. ~Flushed => ibuf_valid_count >= inst.len
  BY DEF IInv, Held
<1> QED BY <1>1, <1>2, <1>3 DEF Held

\* The states that wait for the bus to take an access.
LEMMA AskKept ==
  ASSUME IInv, MemRead \/ MemWrite
  PROVE  IInv'
<1>1. Around /\ BusEdge /\ ibuf_valid_count' >= ibuf_valid_count
  BY RunAround, Core DEF MemRead, MemWrite
<1>2. /\ state \in {"ST_MEM_READ", "ST_MEM_WRITE"} /\ UNCHANGED <<inst, todo>>
      /\ state' = IF busy THEN state
                 ELSE IF state = "ST_MEM_READ" THEN "ST_MEM_READ_WAIT" ELSE "ST_MEM_WRITE_WAIT"
      /\ UNCHANGED <<multi_step, indirect_active, int_active>>
  BY DEF MemRead, MemWrite, Goto
<1>3. data_bus_req = Head(todo)
  BY <1>2, DataRequest
<1>4. DataRouted'
  BY <1>1, <1>2, <1>3, Routing DEF DataWait, DataRouted, Awaited
<1>5. Held'
  BY <1>1, <1>2, HeldOn DEF Waiting
<1>6. CoreKept
  BY <1>2, <1>4, <1>5, Core DEF CoreKept, State, Accessing, AccessStates, IInv
<1> QED BY <1>1, <1>6, Together

LEMMA MemWaitKept ==
  ASSUME IInv, MemWait
  PROVE  IInv'
<1>1. Around /\ BusEdge /\ ibuf_valid_count' >= ibuf_valid_count
  BY RunAround, Core DEF MemWait
<1>2. /\ state \in {"ST_MEM_READ_WAIT", "ST_MEM_WRITE_WAIT"} /\ ~data_bus_valid
      /\ UNCHANGED <<state, inst, todo, multi_step, indirect_active, int_active>>
  BY DEF MemWait, coreVars
<1>3. DataRouted'
  <2>1. DataWait /\ Latched = Awaited
    BY <1>2 DEF DataWait, IInv, DataRouted
  <2> QED BY <1>1, <1>2, <2>1, Routing DEF DataWait, DataRouted, Awaited
<1>4. Held'
  BY <1>1, <1>2, HeldOn DEF Waiting
<1>5. CoreKept
  BY <1>2, <1>3, <1>4, Core DEF CoreKept, Accessing, IInv
<1> QED BY <1>1, <1>5, Together

LEMMA MemReadDoneKept ==
  ASSUME IInv, MemReadDone
  PROVE  IInv'
<1>1. /\ state = "ST_MEM_READ_WAIT" /\ data_bus_valid /\ DataWait /\ todo # << >>
      /\ inst' = inst /\ todo' = Tail(todo) /\ int_active' = FALSE
      /\ multi_step' = multi_step /\ indirect_active' = indirect_active
  BY DEF MemReadDone, DataWait, IInv, Accessing, AccessStates
<1>2. AddrOf(resp_rdata) \in Addr
  BY AnswerTyped, InstructionAssumption
<1>3. CASE int_active
  <2>1. Around /\ BusEdge /\ state' = "ST_FETCH"
    BY <1>2, <1>3, JumpAround DEF MemReadDone, Goto
  <2>2. DataRouted' /\ Held' /\ Accessing'
    BY <1>1, <2>1, Routing
       DEF DataWait, DataRouted, Held, Waiting, Accessing, AccessStates
  <2>3. CoreKept
    BY <1>1, <2>1, <2>2, Core, Accesses DEF CoreKept, State
  <2> QED BY <2>1, <2>3, Together
<1>4. CASE ~int_active
  <2>1. /\ Around /\ BusEdge /\ state' = "ST_EXECUTE2"
        /\ ibuf_valid_count' >= ibuf_valid_count
    BY <1>4, RunAround, Core DEF MemReadDone, Goto
  <2>2. DataRouted' /\ Accessing'
    BY <1>1, <2>1, Routing DEF DataWait, DataRouted, Accessing, AccessStates
  <2>3. Held'
    BY <1>1, <2>1, HeldOn DEF Waiting
  <2>4. CoreKept
    BY <1>1, <2>1, <2>2, <2>3, Core, Accesses DEF CoreKept, State
  <2> QED BY <2>1, <2>4, Together
<1> QED BY <1>3, <1>4, Core

\* A push of a handler's entry leaves the read of the vector still to do.
LEMMA MemWriteDoneKept ==
  ASSUME IInv, MemWriteDone
  PROVE  IInv'
<1>1. Around /\ BusEdge /\ ibuf_valid_count' >= ibuf_valid_count
  BY RunAround, Core DEF MemWriteDone
<1>2. /\ state = "ST_MEM_WRITE_WAIT" /\ data_bus_valid /\ DataWait /\ todo # << >>
      /\ todo' = Tail(todo)
      /\ UNCHANGED <<inst, multi_step, indirect_active, int_active>>
      /\ state' = IF int_active THEN AccessState(Tail(todo))
                 ELSE IF inst.kind = "PUSHM" THEN "ST_EXECUTE2" ELSE "ST_WRITEBACK"
  BY DEF MemWriteDone, Goto, DataWait, IInv, Accessing, AccessStates
<1>3. /\ Tail(todo) \in Seq(Request) /\ Len(todo) \in Nat \ {0} /\ Head(todo) = todo[1]
      /\ Len(Tail(todo)) = Len(todo) - 1
      /\ Tail(todo) # << >> => Tail(todo)[Len(Tail(todo))] = todo[Len(todo)]
  BY <1>2, Core, Accesses
<1>4. int_active => /\ Tail(todo) # << >>
                    /\ Tail(todo)[Len(Tail(todo))].type = "BUS_READ"
  <2> SUFFICES ASSUME int_active
               PROVE  Tail(todo) # << >>
    BY <1>3 DEF IInv, Accessing
  <2>1. todo[1].type = "BUS_WRITE" /\ todo[Len(todo)].type = "BUS_READ"
    BY <1>2, <1>3 DEF IInv, Accessing
  <2>2. Len(todo) # 1
    BY <2>1
  <2>3. \A k : k \in Nat \ {0} /\ k # 1 => k - 1 # 0
    OBVIOUS
  <2>4. Len(Tail(todo)) # 0
    BY ONLY <1>3, <2>2, <2>3, Zenon
  <2> QED BY <2>4, EmptySeq, Zenon
<1>5. /\ state' \in {"ST_MEM_READ", "ST_MEM_WRITE", "ST_EXECUTE2", "ST_WRITEBACK"}
      /\ state' \in {"ST_MEM_READ", "ST_MEM_WRITE"} <=> int_active
      /\ state' = "ST_MEM_WRITE" => Head(Tail(todo)).type = "BUS_WRITE"
  <2>1. CASE int_active
    <3>1. Head(Tail(todo)) \in Request
      BY <1>3, <1>4, <2>1, Accesses
    <3>2. Head(Tail(todo)).type \in {"BUS_READ", "BUS_WRITE"}
      BY <3>1, Requests
    <3> QED BY <1>2, <2>1, <3>2 DEF AccessState
  <2>2. CASE ~int_active
    BY <1>2, <2>2
  <2> QED BY <2>1, <2>2
<1>6. DataRouted'
  BY <1>1, <1>2, <1>5, Routing DEF DataWait, DataRouted
<1>7. Accessing'
  BY <1>2, <1>4, <1>5 DEF Accessing, AccessStates
<1>8. Held'
  BY <1>1, <1>2, <1>5, HeldOn DEF Waiting
<1>9. CoreKept
  BY <1>2, <1>3, <1>5, <1>6, <1>7, <1>8, Core DEF CoreKept, State
<1> QED BY <1>1, <1>9, Together

LEMMA Execute2Kept ==
  ASSUME IInv, Execute2
  PROVE  IInv'
<1>1. /\ state = "ST_EXECUTE2" /\ state' \in {"ST_EXECUTE2", Onward(todo)}
      /\ UNCHANGED <<inst, todo, int_active>> /\ indirect_active' = FALSE
      /\ multi_step' \in {0, 1, multi_step}
  BY DEF Execute2, Goto
<1>2. /\ Around /\ BusEdge
      /\ ~Flushed => ibuf_valid_count' >= ibuf_valid_count
  <2>1. CASE inst.flush = "ST_EXECUTE2"
    BY <2>1, JumpAround, Core DEF Execute2, Flushed
  <2>2. CASE inst.flush # "ST_EXECUTE2"
    BY <2>2, RunAround, Core DEF Execute2
  <2> QED BY <2>1, <2>2
<1>3. DataRouted'
  BY <1>1, <1>2, Routing, OnwardTo, Core DEF DataWait, DataRouted
<1>4. ~int_active
  BY <1>1 DEF IInv, Accessing, AccessStates
<1>5. Accessing'
  BY <1>1, <1>4, OnwardTo, Core DEF Accessing, AccessStates
<1>6. state' # "ST_EXECUTE" /\ state' \in State
  BY <1>1, OnwardTo, Core DEF State
<1>7. Held'
  BY <1>1, <1>2, <1>6, HeldOn DEF Waiting
<1>8. multi_step' \in 0 .. 3
  <2>1. 0 \in 0 .. 3 /\ 1 \in 0 .. 3
    OBVIOUS
  <2> QED BY <1>1, <2>1, Core
<1>9. CoreKept
  BY <1>1, <1>3, <1>5, <1>6, <1>7, <1>8, Core DEF CoreKept
<1> QED BY <1>2, <1>9, Together

LEMMA StringLoopKept ==
  ASSUME IInv, StringLoop
  PROVE  IInv'
<1>1. Around /\ BusEdge /\ ibuf_valid_count' >= ibuf_valid_count
  BY RunAround, Core DEF StringLoop
<1>2. /\ state = "ST_STRING_LOOP" /\ state' \in {"ST_STRING_LOOP", "ST_WRITEBACK"}
      /\ UNCHANGED <<inst, todo, indirect_active, int_active>>
      /\ multi_step' = IF multi_step > 0 THEN multi_step - 1 ELSE 0
  BY DEF StringLoop, Goto
<1>3. multi_step' \in 0 .. 3
  BY <1>2, Core
<1>4. DataRouted'
  BY <1>1, <1>2, Routing DEF DataWait, DataRouted
<1>5. Accessing'
  BY <1>2 DEF IInv, Accessing, AccessStates
<1>6. Held'
  BY <1>1, <1>2, HeldOn DEF Waiting
<1>7. CoreKept
  BY <1>2, <1>3, <1>4, <1>5, <1>6, Core DEF CoreKept, State
<1> QED BY <1>1, <1>7, Together

\* An instruction is consumed only if the window holds the whole of it.
LEMMA WritebackKept ==
  ASSUME IInv, Writeback
  PROVE  IInv'
<1>1. state = "ST_WRITEBACK" /\ UNCHANGED <<inst, todo, indirect_active, int_active>>
  BY DEF Writeback
<1>2. ~int_active
  BY <1>1 DEF IInv, Accessing, AccessStates
<1>3. CASE inst.kind = "PREPARE" /\ multi_step > 0
  <2>1. Around /\ BusEdge /\ ibuf_valid_count' >= ibuf_valid_count
    BY <1>3, RunAround, Core DEF Writeback
  <2>2. state' = "ST_WRITEBACK" /\ multi_step' \in 0 .. 3
    BY <1>3, Core DEF Writeback, Goto
  <2>3. DataRouted' /\ Accessing'
    BY <1>1, <1>2, <2>1, <2>2, Routing DEF DataWait, DataRouted, Accessing, AccessStates
  <2>4. Held'
    BY <1>1, <2>1, <2>2, HeldOn DEF Waiting
  <2>5. CoreKept
    BY <1>1, <2>2, <2>3, <2>4, Core DEF CoreKept
  <2> QED BY <2>1, <2>5, Together
<1>4. CASE ~(inst.kind = "PREPARE" /\ multi_step > 0)
  <2>1. Around /\ BusEdge
    <3>1. CASE inst.flush = "ST_WRITEBACK"
      BY <1>4, <3>1, JumpAround, Core DEF Writeback
    <3>2. CASE inst.flush = "none"
      <4>1. inst.len <= ibuf_valid_count /\ inst.len \in Nat
        BY <1>1, <3>2, Core DEF IInv, Held, Flushed, Waiting
      <4>2. Run(inst.len)
        BY <1>4, <3>2 DEF Writeback
      <4> QED BY <4>1, <4>2, RunAround
    <3>3. CASE inst.flush \notin {"none", "ST_WRITEBACK"}
      BY <1>4, <3>3, RunAround, Core DEF Writeback
    <3> QED BY <3>1, <3>2, <3>3
  <2>2. state' = "ST_FETCH" /\ multi_step' = multi_step
    BY <1>4 DEF Writeback, Goto
  <2>3. DataRouted' /\ Accessing' /\ Held'
    BY <1>1, <1>2, <2>1, <2>2, Routing
       DEF DataWait, DataRouted, Accessing, AccessStates, Held, Waiting
  <2>4. CoreKept
    BY <1>1, <2>2, <2>3, Core DEF CoreKept, State
  <2> QED BY <2>1, <2>4, Together
<1> QED BY <1>3, <1>4

\* From HALT to the handler that ends it.
LEMMA HaltKept ==
  ASSUME IInv, (\E int_pending \in BOOLEAN : Halt(int_pending)) \/ IntCheck
  PROVE  IInv'
<1>1. Around /\ BusEdge /\ ibuf_valid_count' >= ibuf_valid_count
  BY RunAround, Core DEF Halt, IntCheck
<1>2. /\ state \in {"ST_HALT", "ST_INT_CHECK"}
      /\ state' \in {"ST_HALT", "ST_INT_CHECK", "ST_INT_ACK"}
      /\ UNCHANGED <<inst, todo, multi_step, indirect_active, int_active>>
  BY DEF Halt, IntCheck, Goto
<1>3. DataRouted'
  BY <1>1, <1>2, Routing DEF DataWait, DataRouted
<1>4. Accessing'
  BY <1>2 DEF IInv, Accessing, AccessStates
<1>5. Held'
  BY <1>1, <1>2, HeldOn DEF Waiting
<1>6. CoreKept
  BY <1>2, <1>3, <1>4, <1>5, Core DEF CoreKept, State
<1> QED BY <1>1, <1>6, Together

LEMMA IntAckKept ==
  ASSUME Handlers, IInv, IntAck
  PROVE  IInv'
<1>1. Around /\ BusEdge /\ ibuf_valid_count' >= ibuf_valid_count
  BY RunAround, Core DEF IntAck
<1>2. /\ state = "ST_INT_ACK" /\ state' = "ST_MEM_WRITE" /\ todo' = inst.entry
      /\ int_active' = TRUE /\ UNCHANGED <<inst, multi_step, indirect_active>>
  BY DEF IntAck, Goto
<1>3. DataRouted'
  BY <1>1, <1>2, Routing DEF DataWait, DataRouted
<1>4. /\ inst.entry # << >> /\ Head(inst.entry).type = "BUS_WRITE"
      /\ inst.entry[Len(inst.entry)].type = "BUS_READ"
  BY <1>2, Core DEF IInv, Accessing, Handlers
<1>5. Accessing'
  BY <1>2, <1>4 DEF Accessing, AccessStates
<1>6. Held'
  BY <1>1, <1>2, HeldOn DEF Waiting
<1>7. CoreKept
  BY <1>2, <1>3, <1>5, <1>6, Core DEF CoreKept, State
<1> QED BY <1>1, <1>7, Together

-----------------------------------------------------------------------------
(* The theorems.                                                           *)

LEMMA Invariance ==
  ASSUME Handlers
  PROVE  Spec => []IInv
<1>1. Init => IInv
  <2> SUFFICES ASSUME Init PROVE IInv
    OBVIOUS
  <2>1. MemTypeOK
    BY MemoryAssumption DEF Init, MemInit, MemTypeOK
  <2>2. BifTypeOK /\ ~busy
    BY ZeroWordTyped DEF Init, BifInit, BifTypeOK, BifState, DataSize, busy
  <2>3. FetchTypeOK /\ fstate = "FS_IDLE"
    BY Sizes DEF Init, FetchInit, FetchTypeOK, Slot, Addr
  <2>4. CoreTypeOK /\ state = "ST_RESET"
    <3>1. << >> \in Seq(Request)
      BY EmptySeq
    <3>2. 0 \in Addr /\ 0 \in 0 .. 3
      BY Sizes DEF Addr
    <3> QED BY <3>1, <3>2 DEF Init, CoreTypeOK, State
  <2>5. Accessing /\ Serving /\ FetchOwned /\ DataRouted /\ FetchRouted /\ RoomKept /\ Held
    BY <2>2, <2>3, <2>4 DEF Init, Accessing, AccessStates, Serving, FetchOwned, DataRouted,
       DataWait, FetchRouted, RoomKept, Held, Waiting
  <2> QED BY <2>1, <2>2, <2>3, <2>4, <2>5 DEF IInv, TypeOK
<1>2. IInv /\ [Next]_vars => IInv'
  <2> SUFFICES ASSUME IInv, [Next]_vars PROVE IInv'
    OBVIOUS
  <2>1. CASE Next
    BY <2>1, ResetKept, ResetVecKept, ResetVecWaitKept, FetchStateKept, DecodeKept,
       ExecuteKept, Execute2Kept, StringLoopKept, WritebackKept, AskKept, MemWaitKept,
       MemReadDoneKept, MemWriteDoneKept, HaltKept, IntAckKept DEF Next
  <2>2. CASE UNCHANGED vars
    <3>1. /\ UNCHANGED <<mem, bus_ready, response_to_data, state, inst, todo, multi_step,
                         indirect_active, int_active, pc, dirty>>
          /\ UNCHANGED bifVars /\ UNCHANGED fetchVars
      BY <2>2 DEF vars, arbVars, coreVars
    <3> QED BY <3>1 DEF bifVars, fetchVars, IInv, TypeOK, MemTypeOK, BifTypeOK, FetchTypeOK,
          CoreTypeOK, Accessing, Serving, FetchOwned, DataRouted, FetchRouted, RoomKept, Held,
          busy, Latched, InSecond, resp_valid, DataWait, Awaited, aligned_fetch_addr, Flushed,
          ibuf_valid_count
  <2> QED BY <2>1, <2>2
<1> QED BY <1>1, <1>2, PTL DEF Spec

\* Every part of the processor around its bus stays in its type: in particular the fill
\* level never passes the size of the buffer (v60_fetch_unit.sv fill_level).
THEOREM TypesKept ==
  ASSUME Handlers
  PROVE  Spec => []TypeOK
<1>1. IInv => TypeOK
  BY DEF IInv
<1> QED BY <1>1, Invariance, PTL

\* The core waits exactly while the transaction on the bus is its own, and for the access
\* it asked for (v60_cpu.sv response_to_data).
THEOREM DataAnswered ==
  ASSUME Handlers
  PROVE  Spec => []DataRouted
<1>1. IInv => DataRouted
  BY DEF IInv
<1> QED BY <1>1, Invariance, PTL

\* The prefetch unit waits only for its own read, of the address it will store from
\* (v60_cpu.sv fetch_bus_valid).
THEOREM FetchAnswered ==
  ASSUME Handlers
  PROVE  Spec => []FetchRouted
<1>1. IInv => FetchRouted
  BY DEF IInv
<1> QED BY <1>1, Invariance, PTL

\* No instruction is consumed before it has been fetched as a whole (v60_control.sv
\* fetch_consume_count).
THEOREM HeldUntilConsumed ==
  ASSUME Handlers
  PROVE  Spec => []InstructionHeld
<1>1. IInv => InstructionHeld
  BY DEF IInv, Held, InstructionHeld, Waiting, Flushed
<1> QED BY <1>1, Invariance, PTL

-----------------------------------------------------------------------------
(* The prefetch unit, the arbiter, the bus interface and memory, driven by *)
(* the main FSM, implement FetchSystem: what FetchProofs shows of every    *)
(* bus and core that FetchSystem allows holds of these.  An edge that      *)
(* consumes is Advance, or Store if it changes memory; an edge that jumps  *)
(* is Jump.                                                                *)

\* Who owns the bus, from the two flags of the code.
LEMMA Owners ==
  ASSUME IInv
  PROVE  /\ Owner = "none" <=> ~busy
         /\ Owner = "data" <=> busy /\ response_to_data
         /\ Owner = "fetch" <=> busy /\ ~response_to_data
         /\ resp_valid => busy
  BY DEF Owner, busy, resp_valid

\* Every edge of the bus is one of the abstract bus.
LEMMA BusMaps ==
  ASSUME IInv, BusEdge
  PROVE  Prefetch!Bus(data_bus_active, resp_valid)
<1>1. /\ Owner = IF ~busy THEN "none" ELSE IF response_to_data THEN "data" ELSE "fetch"
      /\ Owner' = IF ~busy' THEN "none" ELSE IF response_to_data' THEN "data" ELSE "fetch"
  BY DEF Owner
<1>2. Latched' = Latched => lat_addr' = lat_addr
  BY DEF Latched
<1>3. ASSUME Requesting, Latched' = fetch_bus_req
      PROVE  lat_addr' = aligned_fetch_addr
  BY <1>3, FetchRequested DEF Latched
<1>4. Prefetch!Requesting <=> Requesting
  BY DEF Prefetch!Requesting, Requesting
<1>5. Prefetch!aligned_fetch_addr = aligned_fetch_addr
  BY DEF Prefetch!aligned_fetch_addr, aligned_fetch_addr
<1>6. CASE Granted
  BY <1>1, <1>6 DEF Granted, Prefetch!Bus
<1>7. CASE Fetching
  BY <1>1, <1>3, <1>4, <1>5, <1>7 DEF Fetching, Prefetch!Bus
<1>8. CASE Free
  BY <1>1, <1>4, <1>8 DEF Free, Prefetch!Bus
<1>9. CASE Pending
  BY <1>1, <1>2, <1>9 DEF Pending, Prefetch!Bus
<1>10. CASE Ended
  BY <1>1, <1>10 DEF Ended, Prefetch!Bus
<1> QED BY <1>6, <1>7, <1>8, <1>9, <1>10 DEF BusEdge

\* An edge of the unit is one of the abstract unit, which sees the same wires and, when
\* it is answered, the same bytes: those memory holds.
LEMMA ClockMaps ==
  ASSUME IInv, NEW n \in Nat,
         FetchClock(fetch_bus_busy, fetch_bus_valid, [l \in Lane |-> resp_rdata[l]], n)
  PROVE  Prefetch!FetchClock(Prefetch!BusBusy(data_bus_active), Prefetch!ValidFor(resp_valid),
                             Prefetch!rdata, n)
<1>1. /\ Prefetch!BusBusy(data_bus_active) <=> fetch_bus_busy
      /\ Prefetch!ValidFor(resp_valid) <=> fetch_bus_valid
  BY Owners DEF Prefetch!BusBusy, Prefetch!ValidFor, fetch_bus_busy, fetch_bus_valid
<1>2. ASSUME fetch_bus_valid
      PROVE  [l \in Lane |-> resp_rdata[l]] = Prefetch!rdata
  <2>1. /\ busy /\ ~response_to_data /\ Owner = "fetch"
        /\ lat_size = IF BUS_BYTES = 2 THEN "SZ_HALF" ELSE "SZ_WORD"
        /\ \A l \in Lane : read_accum[l] = mem[(lat_addr + l) % ADDR_SPACE]
    BY <1>2, Owners DEF fetch_bus_valid, IInv, FetchOwned
  <2>2. \A l \in Lane : resp_rdata[l] = read_accum[l]
    <3>1. ReqBytes(lat_size) = BUS_BYTES
      BY <2>1, Sizes DEF ReqBytes
    <3>2. \A l \in Lane : l \in 0 .. 3 /\ l < BUS_BYTES
      BY Sizes
    <3> QED BY <3>1, <3>2 DEF resp_rdata, Masked
  <2> QED BY <2>1, <2>2 DEF Prefetch!rdata, Lane, Prefetch!Lane
<1>3. ASSUME NEW k \in Nat, Account(n, k)
      PROVE  Prefetch!Account(n, k)
  BY <1>3 DEF Account, Prefetch!Account, Ptr, Prefetch!Ptr
<1>4. CASE FetchIdle(fetch_bus_busy, n)
  <2>1. Prefetch!FetchIdle(Prefetch!BusBusy(data_bus_active), n)
    BY <1>1, <1>3, <1>4 DEF FetchIdle, Prefetch!FetchIdle, CanFetch, Prefetch!CanFetch,
       room, Prefetch!room, Ptr, Prefetch!Ptr
  <2> QED BY <2>1 DEF Prefetch!FetchClock
<1>5. CASE FetchRequest(fetch_bus_busy, n)
  <2>1. Prefetch!FetchRequest(Prefetch!BusBusy(data_bus_active), n)
    BY <1>1, <1>3, <1>5 DEF FetchRequest, Prefetch!FetchRequest
  <2> QED BY <2>1 DEF Prefetch!FetchClock
<1>6. CASE FetchWait(fetch_bus_valid, n)
  <2>1. Prefetch!FetchWait(Prefetch!ValidFor(resp_valid), n)
    BY <1>1, <1>3, <1>6 DEF FetchWait, Prefetch!FetchWait
  <2> QED BY <2>1 DEF Prefetch!FetchClock
<1>7. CASE FetchFill(fetch_bus_valid, [l \in Lane |-> resp_rdata[l]], n)
  <2>1. [l \in Lane |-> resp_rdata[l]] = Prefetch!rdata
    BY <1>2, <1>7 DEF FetchFill
  <2>2. FetchFill(fetch_bus_valid, Prefetch!rdata, n)
    BY <1>7, <2>1
  <2>3. Prefetch!FetchFill(Prefetch!ValidFor(resp_valid), Prefetch!rdata, n)
    BY <1>1, <2>2, Zenon DEF FetchFill, Prefetch!FetchFill, Stored, Prefetch!Stored, FirstLane,
       Prefetch!FirstLane, Account, Prefetch!Account, Ptr, Prefetch!Ptr, Slot, Prefetch!Slot
  <2> QED BY <2>3 DEF Prefetch!FetchClock
<1> QED BY <1>4, <1>5, <1>6, <1>7 DEF FetchClock

-----------------------------------------------------------------------------
(* What the core does on an edge.                                          *)

\* The core consumes only what the window holds, and neither consumes nor jumps while
\* it waits for an access of its own.
Consumes(n) == Run(n) /\ n <= ibuf_valid_count /\ (n > 0 => ~DataWait)
Jumps(t)    == JumpTo(t) /\ (DataWait => data_bus_valid)

LEMMA CoreSteps ==
  ASSUME IInv, Next
  PROVE  \/ \E n \in 0 .. FETCH_WINDOW : Consumes(n)
         \/ \E t \in Addr : Jumps(t)
<1>1. ASSUME Run(0)
      PROVE  \E n \in 0 .. FETCH_WINDOW : Consumes(n)
  <2>1. 0 \in 0 .. FETCH_WINDOW /\ Consumes(0)
    BY <1>1, Core, Sizes DEF Consumes
  <2> QED BY <2>1
<1>2. CASE Reset \/ ResetVec \/ FetchState \/ Decode \/ StringLoop \/ MemRead \/ MemWrite
           \/ MemWait \/ MemWriteDone \/ (\E int_pending \in BOOLEAN : Halt(int_pending))
           \/ IntCheck \/ IntAck
  BY <1>1, <1>2 DEF Reset, ResetVec, FetchState, Decode, StringLoop, MemRead, MemWrite, MemWait,
     MemWriteDone, Halt, IntCheck, IntAck
<1>3. CASE ResetVecWait \/ MemReadDone
  <2>1. AddrOf(resp_rdata) \in Addr
    BY AnswerTyped, InstructionAssumption
  <2>2. Run(0) \/ (JumpTo(AddrOf(resp_rdata)) /\ data_bus_valid)
    BY <1>3 DEF ResetVecWait, MemReadDone
  <2> QED BY <1>1, <2>1, <2>2 DEF Jumps
<1>4. CASE Execute \/ Execute2
  <2>1. ~DataWait /\ (Run(0) \/ JumpTo(inst.target))
    BY <1>4 DEF Execute, Execute2, DataWait
  <2> QED BY <1>1, <2>1, Core DEF Jumps
<1>5. CASE Writeback
  <2>1. ~DataWait /\ state = "ST_WRITEBACK"
    BY <1>5 DEF Writeback, DataWait
  <2>2. \/ Run(0)
        \/ JumpTo(inst.target)
        \/ Run(inst.len) /\ inst.flush = "none"
    BY <1>5 DEF Writeback
  <2>3. ASSUME Run(inst.len), inst.flush = "none"
        PROVE  \E n \in 0 .. FETCH_WINDOW : Consumes(n)
    <3>1. inst.len <= ibuf_valid_count /\ inst.len \in Nat
      BY <2>1, <2>3, Core DEF IInv, Held, Flushed, Waiting
    <3>2. ibuf_valid_count \in 0 .. FETCH_WINDOW /\ FETCH_WINDOW \in Nat
      BY Counts, Sizes
    <3>3. inst.len \in 0 .. FETCH_WINDOW
      BY <3>1, <3>2
    <3>4. Consumes(inst.len)
      BY <2>1, <2>3, <3>1 DEF Consumes
    <3> QED BY <3>3, <3>4
  <2> QED BY <1>1, <2>1, <2>2, <2>3, Core DEF Jumps
<1> QED BY <1>2, <1>3, <1>4, <1>5 DEF Next

\* Memory changes while the core waits, and then it is the core's store.
LEMMA ConsumesMaps ==
  ASSUME IInv, NEW n \in 0 .. FETCH_WINDOW, Consumes(n)
  PROVE  Prefetch!Next
<1>1. /\ n \in Nat /\ n <= ibuf_valid_count /\ (n > 0 => ~DataWait) /\ Run(n) /\ Devices
      /\ pc' = (pc + n) % ADDR_SPACE /\ dirty' = dirty \cup Stored2Mem
      /\ BusEdge /\ MemTypeOK'
  BY Sizes, DevicesEdge DEF Consumes, Run
<1>2. Prefetch!FetchClock(Prefetch!BusBusy(data_bus_active), Prefetch!ValidFor(resp_valid),
                          Prefetch!rdata, n)
  BY <1>1, ClockMaps DEF Run
<1>3. Prefetch!Bus(data_bus_active, resp_valid)
  BY <1>1, BusMaps
<1>4. DataWait <=> Owner = "data"
  BY Owners DEF IInv, DataRouted
<1>5. CASE mem' = mem
  <2>1. dirty' = dirty
    BY <1>1, <1>5 DEF Stored2Mem
  <2>2. Prefetch!ibuf_valid_count = ibuf_valid_count
    BY DEF Prefetch!ibuf_valid_count, ibuf_valid_count
  <2>3. Prefetch!Advance(n, data_bus_active, resp_valid)
    BY <1>1, <1>2, <1>3, <1>4, <1>5, <2>1, <2>2 DEF Prefetch!Advance, Prefetch!CoreRuns
  <2>4. data_bus_active \in BOOLEAN /\ resp_valid \in BOOLEAN
        /\ n \in (1 .. FETCH_WINDOW) \cup {0}
    BY Sizes DEF data_bus_active, resp_valid
  <2> QED BY <2>3, <2>4 DEF Prefetch!Next
<1>6. CASE mem' # mem
  <2>1. busy /\ ~resp_valid /\ response_to_data
    BY <1>1, <1>6, DevicesEdge
  <2>2. Owner = "data" /\ DataWait /\ ~(n > 0)
    BY <1>1, <1>4, <2>1, Owners
  <2>3. n = 0
    BY <1>1, <2>2
  <2>4. pc' = pc
    BY <1>1, <2>3, Sizes DEF IInv, TypeOK, CoreTypeOK, Addr
  <2>5. Owner' = Owner /\ (IF Owner' = "fetch" THEN lat_addr' ELSE 0)
                           = IF Owner = "fetch" THEN lat_addr ELSE 0
    BY <1>3, <2>1, <2>2 DEF Prefetch!Bus
  <2>6. Prefetch!FetchClock(TRUE, FALSE, Prefetch!rdata, 0)
    <3>1. Prefetch!BusBusy(data_bus_active) = TRUE /\ Prefetch!ValidFor(resp_valid) = FALSE
      BY <2>1, <2>2 DEF Prefetch!BusBusy, Prefetch!ValidFor
    <3> QED BY <1>2, <2>3, <3>1
  <2>7. mem' \in [Prefetch!Addr -> Byte]
    BY <1>1 DEF MemTypeOK, Addr, Prefetch!Addr
  <2>8. Prefetch!Store
    BY <1>1, <2>2, <2>4, <2>5, <2>6, <2>7 DEF Prefetch!Store, Stored2Mem, Addr, Prefetch!Addr,
       MemTypeOK
  <2> QED BY <2>8 DEF Prefetch!Next
<1> QED BY <1>5, <1>6

LEMMA JumpsMaps ==
  ASSUME IInv, NEW t \in Addr, Jumps(t)
  PROVE  Prefetch!Next
<1>1. /\ Devices /\ Flush(t) /\ pc' = t /\ dirty' = {} /\ (DataWait => data_bus_valid)
      /\ BusEdge
  BY DevicesEdge DEF Jumps, JumpTo
<1>2. Prefetch!Bus(data_bus_active, resp_valid)
  BY <1>1, BusMaps
<1>3. DataWait <=> Owner = "data"
  BY Owners DEF IInv, DataRouted
<1>4. mem' = mem
  <2>1. mem' # mem => busy /\ ~resp_valid /\ response_to_data
    BY <1>1, DevicesEdge
  <2> QED BY <1>1, <1>3, <2>1, Owners DEF data_bus_valid
<1>5. Prefetch!CoreRuns(resp_valid)
  BY <1>1, <1>3 DEF Prefetch!CoreRuns, data_bus_valid
<1>6. Prefetch!Flush(t)
  BY <1>1 DEF Flush, Prefetch!Flush
<1>7. Prefetch!Jump(t, data_bus_active, resp_valid)
  BY <1>1, <1>2, <1>4, <1>5, <1>6 DEF Prefetch!Jump
<1>8. data_bus_active \in BOOLEAN /\ resp_valid \in BOOLEAN /\ t \in Addr
  BY DEF data_bus_active, resp_valid
<1> QED BY <1>7, <1>8 DEF Prefetch!Next

LEMMA PrefetchInit == Init => Prefetch!Init
<1> SUFFICES ASSUME Init PROVE Prefetch!Init
  OBVIOUS
<1>1. Prefetch!FetchInit
  BY DEF Init, FetchInit, Prefetch!FetchInit, Slot, Prefetch!Slot
<1>2. Owner = "none"
  BY DEF Init, BifInit, Owner, busy
<1>3. mem \in [Addr -> Byte] /\ pc = 0 /\ dirty = {}
  BY MemoryAssumption DEF Init, MemInit
<1> QED BY <1>1, <1>2, <1>3 DEF Prefetch!Init

\* The processor around its bus implements the prefetch unit between any bus that
\* answers one transaction at a time and any core that waits for its own (v60_cpu.sv:
\* the arbiter is what the prefetch unit takes it for).
THEOREM Implements ==
  ASSUME Handlers
  PROVE  Spec => ImplementsPrefetch
<1>1. IInv /\ [Next]_vars => [Prefetch!Next]_(Prefetch!vars)
  <2> SUFFICES ASSUME IInv, [Next]_vars PROVE [Prefetch!Next]_(Prefetch!vars)
    OBVIOUS
  <2>1. CASE Next
    BY <2>1, CoreSteps, ConsumesMaps, JumpsMaps
  <2>2. CASE UNCHANGED vars
    <3>1. UNCHANGED <<mem, response_to_data, pc, dirty>> /\ UNCHANGED bifVars
          /\ UNCHANGED fetchVars
      BY <2>2 DEF vars, arbVars
    <3>2. Owner' = Owner /\ lat_addr' = lat_addr
      BY <3>1 DEF Owner, busy, bifVars
    <3>3. UNCHANGED Prefetch!fetchVars
      BY <3>1 DEF fetchVars, Prefetch!fetchVars
    <3> QED BY <3>1, <3>2, <3>3 DEF Prefetch!vars
  <2> QED BY <2>1, <2>2
<1>2. Spec => []IInv
  BY Invariance
<1> QED BY <1>1, <1>2, PrefetchInit, PTL DEF Spec, ImplementsPrefetch, Prefetch!Spec
=============================================================================
