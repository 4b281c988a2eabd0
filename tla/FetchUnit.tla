------------------------------ MODULE FetchUnit -----------------------------
(***************************************************************************)
(* The prefetch unit (rtl/v60_fetch_unit.sv): a circular buffer of         *)
(* IBUF_SIZE bytes, filled sequentially from memory, from which the        *)
(* decoder sees a window of FETCH_WINDOW bytes.                            *)
(*                                                                         *)
(* The pointers are `logic [4:0]'; PTR_MOD is the number of values such a  *)
(* vector has, so the sum of a 5-bit pointer and a 5-bit operand is taken  *)
(* modulo PTR_MOD before it is taken modulo IBUF_SIZE.                     *)
(***************************************************************************)
EXTENDS BusTypes, Windowed

CONSTANTS
  IBUF_SIZE,     \* slots of the buffer (24)
  PTR_MOD        \* values of a 5-bit pointer (32)

ASSUME FetchAssumption ==
  /\ IBUF_SIZE \in Nat \ {0}
  /\ FETCH_WINDOW \in 1 .. IBUF_SIZE
  /\ PTR_MOD \in Nat /\ PTR_MOD >= IBUF_SIZE + BUS_BYTES
  /\ BUS_BYTES <= IBUF_SIZE
  /\ ADDR_SPACE >= IBUF_SIZE

VARIABLES
  buffer,      \* the slots
  wr_ptr,      \* next slot to write
  rd_ptr,      \* next slot to read
  fill_level,  \* bytes in the buffer
  fetch_addr,  \* next address to fetch
  fstate       \* FS_IDLE, FS_REQUEST or FS_WAIT

fetchVars == <<buffer, wr_ptr, rd_ptr, fill_level, fetch_addr, fstate>>

Slot == 0 .. IBUF_SIZE - 1

\* A value assigned to a `logic [4:0]'.
Ptr(x) == x % PTR_MOD

-----------------------------------------------------------------------------
(* Outputs.                                                                *)

room == Ptr(IBUF_SIZE - fill_level)

\* A faulty variant: one byte too few is enough.
CanFetchTooMuch(bus_busy) == room >= BUS_BYTES - 1 /\ ~bus_busy /\ fstate = "FS_IDLE"

CanFetch(bus_busy) == room >= BUS_BYTES /\ ~bus_busy /\ fstate = "FS_IDLE"

\* The slot of the i-th byte of the window.
WindowSlot(i) == Ptr(rd_ptr + i) % IBUF_SIZE

ibuf_data == [i \in 0 .. FETCH_WINDOW - 1 |-> buffer[WindowSlot(i)]]

ibuf_valid_count == IF fill_level > FETCH_WINDOW THEN FETCH_WINDOW ELSE fill_level

aligned_fetch_addr == fetch_addr - (fetch_addr % BUS_BYTES)

\* bus_req is BUS_READ, of aligned_fetch_addr, in this state only.
Requesting == fstate = "FS_REQUEST"

-----------------------------------------------------------------------------
(* One clock edge.                                                         *)

FetchInit ==
  /\ buffer = [s \in Slot |-> ZeroByte]
  /\ wr_ptr = 0 /\ rd_ptr = 0 /\ fill_level = 0
  /\ fetch_addr = 0
  /\ fstate = "FS_IDLE"

\* A faulty variant: the answer under way is still waited for.
FlushKeepsWaiting(t) ==
  /\ wr_ptr' = 0 /\ rd_ptr' = 0 /\ fill_level' = 0
  /\ fetch_addr' = t
  /\ UNCHANGED <<buffer, fstate>>

\* flush: restart at t, whatever was in flight.
Flush(t) ==
  /\ wr_ptr' = 0 /\ rd_ptr' = 0 /\ fill_level' = 0
  /\ fetch_addr' = t
  /\ fstate' = "FS_IDLE"
  /\ UNCHANGED buffer

\* A faulty variant: of a fill and a consume on one edge only the fill counts.
AccountFillOnly(n, k) ==
  /\ rd_ptr' = Ptr(rd_ptr + n) % IBUF_SIZE
  /\ fill_level' = Ptr(IF k > 0 THEN fill_level + k ELSE fill_level - n)

\* consume_count is n (0 while consume_valid is low) and k bytes are stored.
Account(n, k) ==
  /\ rd_ptr' = Ptr(rd_ptr + n) % IBUF_SIZE
  /\ fill_level' = Ptr(fill_level - n + k)

FetchIdle(bus_busy, n) ==
  /\ fstate = "FS_IDLE"
  /\ fstate' = IF CanFetch(bus_busy) THEN "FS_REQUEST" ELSE "FS_IDLE"
  /\ Account(n, 0)
  /\ UNCHANGED <<buffer, wr_ptr, fetch_addr>>

FetchRequest(bus_busy, n) ==
  /\ fstate = "FS_REQUEST"
  /\ fstate' = IF bus_busy THEN "FS_REQUEST" ELSE "FS_WAIT"
  /\ Account(n, 0)
  /\ UNCHANGED <<buffer, wr_ptr, fetch_addr>>

FetchWait(bus_valid, n) ==
  /\ fstate = "FS_WAIT"
  /\ ~bus_valid
  /\ Account(n, 0)
  /\ UNCHANGED <<buffer, wr_ptr, fetch_addr, fstate>>

\* A faulty variant: both lanes after a flush to an odd address.
FirstLaneZero == 0

\* The lanes that are stored: all of them, except after a flush to an odd
\* address on the 16-bit bus, which keeps the upper one.
FirstLane == IF BUS_BYTES = 2 THEN fetch_addr % 2 ELSE 0
Stored    == BUS_BYTES - FirstLane

FetchFill(bus_valid, rdata, n) ==
  /\ fstate = "FS_WAIT"
  /\ bus_valid
  /\ buffer' = [s \in Slot |->
                  LET j == (s + IBUF_SIZE - wr_ptr) % IBUF_SIZE
                  IN  IF j < Stored THEN rdata[FirstLane + j] ELSE buffer[s]]
  /\ wr_ptr' = Ptr(wr_ptr + Stored) % IBUF_SIZE
  /\ fetch_addr' = (fetch_addr + Stored) % ADDR_SPACE
  /\ fstate' = "FS_IDLE"
  /\ Account(n, Stored)

\* The edge without flush.
FetchClock(bus_busy, bus_valid, rdata, n) ==
  \/ FetchIdle(bus_busy, n)
  \/ FetchRequest(bus_busy, n)
  \/ FetchWait(bus_valid, n)
  \/ FetchFill(bus_valid, rdata, n)

FetchTypeOK ==
  /\ buffer \in [Slot -> Byte]
  /\ wr_ptr \in Slot
  /\ rd_ptr \in Slot
  /\ fill_level \in 0 .. IBUF_SIZE
  /\ fetch_addr \in Addr
  /\ fstate \in {"FS_IDLE", "FS_REQUEST", "FS_WAIT"}
=============================================================================
