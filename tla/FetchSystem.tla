----------------------------- MODULE FetchSystem ----------------------------
(***************************************************************************)
(* The prefetch unit between the core that jumps and consumes instructions *)
(* and a bus it shares with the core's data accesses.  The bus is reduced  *)
(* to what the unit can observe of rtl/v60_cpu.sv's arbiter and of         *)
(* rtl/v60_bus_if.sv: one transaction at a time, owned by the unit or by   *)
(* the core, answered after any delay and never withdrawn.                 *)
(***************************************************************************)
EXTENDS FetchUnit, Sequences

CONSTANTS
  MaxLen,      \* longest instruction the core consumes at once
  ConsumeLens, \* instruction lengths of this instance
  JumpTargets, \* addresses the core jumps to
  Images       \* contents memory may have

ASSUME SystemAssumption ==
  /\ MaxLen \in 1 .. FETCH_WINDOW
  /\ ConsumeLens \subseteq 1 .. MaxLen
  /\ JumpTargets \subseteq Addr
  /\ Images \subseteq [Addr -> Byte]

\* Under these the unit is correct: no sum of a pointer and an instruction
\* length leaves the 5-bit vector, and a 32-bit bus is entered at its width.
SafeLength   == IBUF_SIZE + MaxLen <= PTR_MOD
AlignedJumps == BUS_BYTES = 4 => \A t \in JumpTargets : t % 4 = 0

VARIABLES
  pc,          \* the core's program counter
  mem,         \* memory
  dirty,       \* history: locations stored to since the last jump
  owner,       \* who owns the transaction on the bus: "none", "fetch", "data"
  flight_addr  \* the aligned address the unit's transaction reads (else 0)

vars == <<fetchVars, pc, mem, dirty, owner, flight_addr>>

Init ==
  /\ FetchInit
  /\ pc = 0 /\ mem \in Images /\ dirty = {}
  /\ owner = "none" /\ flight_addr = 0

\* The bus on one edge, the core asking for it (wanted) or not: it takes a
\* request when it is free, the core's before the unit's, and ends (done) the
\* transaction it has.
Bus(wanted, done) ==
  \/ /\ owner = "none" /\ wanted
     /\ owner' = "data" /\ flight_addr' = 0
  \/ /\ owner = "none" /\ ~wanted /\ Requesting
     /\ owner' = "fetch" /\ flight_addr' = aligned_fetch_addr
  \/ /\ owner = "none" /\ ~wanted /\ ~Requesting
     /\ UNCHANGED <<owner, flight_addr>>
  \/ /\ owner # "none" /\ ~done
     /\ UNCHANGED <<owner, flight_addr>>
  \/ /\ owner # "none" /\ done
     /\ owner' = "none" /\ flight_addr' = 0

\* The unit's inputs: the bus is busy, the answer is the unit's.
BusBusy(wanted) == owner # "none" \/ wanted
ValidFor(done)  == owner = "fetch" /\ done
rdata           == [l \in Lane |-> mem[(flight_addr + l) % ADDR_SPACE]]

\* While its own transaction is under way the core waits for it.
CoreRuns(done) == owner = "data" => done

\* The core jumps to t.
Jump(t, wanted, done) ==
  /\ CoreRuns(done)
  /\ Flush(t)
  /\ pc' = t /\ dirty' = {}
  /\ Bus(wanted, done)
  /\ UNCHANGED mem

\* The core consumes n bytes the window holds, or (n = 0) none.
Advance(n, wanted, done) ==
  /\ n > 0 => CoreRuns(done) /\ n <= ibuf_valid_count
  /\ FetchClock(BusBusy(wanted), ValidFor(done), rdata, n)
  /\ pc' = (pc + n) % ADDR_SPACE
  /\ Bus(wanted, done)
  /\ UNCHANGED <<mem, dirty>>

\* The core's transaction stores to memory.
Store ==
  /\ owner = "data"
  /\ mem' \in Images
  /\ dirty' = dirty \cup {a \in Addr : mem'[a] # mem[a]}
  /\ FetchClock(TRUE, FALSE, rdata, 0)
  /\ UNCHANGED <<pc, owner, flight_addr>>

Next ==
  \/ \E wanted, done \in BOOLEAN :
       \/ \E t \in JumpTargets : Jump(t, wanted, done)
       \/ \E n \in ConsumeLens \cup {0} : Advance(n, wanted, done)
  \/ Store

Spec == Init /\ [][Next]_vars

-----------------------------------------------------------------------------
(* Properties.                                                             *)

TypeOK ==
  /\ FetchTypeOK
  /\ pc \in Addr
  /\ mem \in [Addr -> Byte]
  /\ dirty \subseteq Addr
  /\ owner \in {"none", "fetch", "data"}
  /\ flight_addr \in Addr

\* Byte b stands for location a of memory.
Current(b, a) == b = mem[a % ADDR_SPACE] \/ a % ADDR_SPACE \in dirty

\* The bytes of an instruction in the window are those of memory from the
\* program counter on, through every interleaving of consuming, filling,
\* flushing and bus traffic (v60_fetch_unit.sv ibuf_data).
InstructionBytes ==
  \A i \in 0 .. MaxLen - 1 :
    i < ibuf_valid_count => Current(ibuf_data[i], pc + i)

\* The same of every byte the unit offers the decoder.
WindowBytes ==
  \A i \in 0 .. FETCH_WINDOW - 1 :
    i < ibuf_valid_count => Current(ibuf_data[i], pc + i)

\* The unit waits only for a transaction it still owns and of the address it
\* is about to store from: an answer to a request made before a flush is never
\* taken for the next one (v60_fetch_unit.sv FS_WAIT and flush).
OwnAnswer ==
  fstate = "FS_WAIT" => owner = "fetch" /\ flight_addr = aligned_fetch_addr

\* The bytes in the buffer are those between the program counter and the fetch
\* address, and a read is only asked for when there is room for it
\* (v60_fetch_unit.sv fill_level, room).
Accounting ==
  /\ fetch_addr = (pc + fill_level) % ADDR_SPACE
  /\ fstate # "FS_IDLE" => fill_level + BUS_BYTES <= IBUF_SIZE

\* The unit implements the instruction stream.
Visible == IF ibuf_valid_count < MaxLen THEN ibuf_valid_count ELSE MaxLen
Stream  == INSTANCE InstructionStream WITH
             window <- [i \in 1 .. Visible |-> ibuf_data[i - 1]],
             Limit  <- MaxLen
ImplementsStream == Stream!Spec
=============================================================================
