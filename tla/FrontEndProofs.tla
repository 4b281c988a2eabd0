-------------------------- MODULE FrontEndProofs ---------------------------
(***************************************************************************)
(* Proofs about the way of an instruction from memory to inst_r: the       *)
(* prefetch unit (FetchSystem), and the decoder beside the window that     *)
(* fills up under it (DecodeWindow).                                       *)
(*                                                                         *)
(* The prefetch unit delivers the instruction stream, for every size of    *)
(* the buffer, the window, the pointers, the address space and the bus, as *)
(* long as no sum of a pointer and an instruction length leaves the        *)
(* pointer's vector (SafeLength).  The inductive invariant adds to the     *)
(* properties what ties the pointers to the fill level, and speaks of      *)
(* every byte in the buffer rather than of those in the window.            *)
(*                                                                         *)
(* The argument about the decoder is one of locality: the decoded          *)
(* instruction is a function of as many bytes as it is long                *)
(* (DecodedLocal), and decode_valid says that so many have arrived.  So    *)
(* the bytes behind them, stale or not, change nothing.                    *)
(***************************************************************************)
EXTENDS FetchSystem, DecodeWindow, SequenceTheorems, TLAPS

\* The write pointer is fill_level slots ahead of the read pointer.
Pointers == wr_ptr = (rd_ptr + fill_level) % IBUF_SIZE

\* Every byte in the buffer is current.
Contents ==
  \A i \in 0 .. fill_level - 1 : Current(buffer[(rd_ptr + i) % IBUF_SIZE], pc + i)

\* A 32-bit bus is never read from the middle of a word.
Aligned == BUS_BYTES = 4 => fetch_addr % 4 = 0

IInv == TypeOK /\ Pointers /\ Accounting /\ OwnAnswer /\ Contents /\ Aligned

-----------------------------------------------------------------------------
\* What the assumptions say of the sizes, without the bus's alignment.
LEMMA Sizes ==
  /\ IBUF_SIZE \in Nat \ {0} /\ FETCH_WINDOW \in 1 .. IBUF_SIZE
  /\ PTR_MOD \in Nat /\ PTR_MOD >= IBUF_SIZE + BUS_BYTES
  /\ BUS_BYTES \in {2, 4} /\ BUS_BYTES <= IBUF_SIZE
  /\ ADDR_SPACE \in Nat \ {0} /\ ADDR_SPACE >= IBUF_SIZE
  /\ BUS_BYTES = 4 => ADDR_SPACE % 4 = 0
  /\ ZeroByte \in Byte
  BY BusAssumption, FetchAssumption

USE DEF Addr, Lane

-----------------------------------------------------------------------------
(* Sums that wrap at most once.                                            *)

\* A sum below 2N is reduced by at most one N.
LEMMA WrapOnce ==
  ASSUME NEW N \in Nat \ {0}, NEW x \in Nat, x < 2 * N
  PROVE  /\ x % N = IF x < N THEN x ELSE x - N
         /\ x % N \in 0 .. N - 1
  BY SMTT(20)

\* Advancing by n and then by i is advancing by n + i.
LEMMA Shift ==
  ASSUME NEW N \in Nat \ {0}, NEW r \in 0 .. N - 1, NEW n \in Nat, NEW i \in Nat,
         n + i <= N
  PROVE  /\ (r + n) % N \in 0 .. N - 1
         /\ (((r + n) % N) + i) % N = (r + n + i) % N
  BY SMTT(30)

\* The distance from the slot f ahead of r to the slot p ahead of r.
LEMMA SlotDistance ==
  ASSUME NEW N \in Nat \ {0}, NEW r \in 0 .. N - 1, NEW f \in 0 .. N - 1,
         NEW p \in 0 .. N - 1
  PROVE  (((r + p) % N) + N - ((r + f) % N)) % N = IF p >= f THEN p - f ELSE p - f + N
  BY SMTT(30)

-----------------------------------------------------------------------------
(* The initial state.                                                      *)

LEMMA InitInv == Init => IInv
<1> SUFFICES ASSUME Init PROVE IInv
  OBVIOUS
<1> USE Sizes, SystemAssumption DEF Init, FetchInit
<1>1. TypeOK
  BY DEF TypeOK, FetchTypeOK, Slot
<1>2. Pointers /\ Accounting /\ Aligned
  BY DEF Pointers, Accounting, Aligned
<1>3. OwnAnswer /\ Contents
  BY DEF OwnAnswer, Contents
<1> QED BY <1>1, <1>2, <1>3 DEF IInv

-----------------------------------------------------------------------------
(* A jump: the buffer is empty again.                                      *)

LEMMA BusType ==
  ASSUME TypeOK, NEW wanted \in BOOLEAN, NEW done \in BOOLEAN, Bus(wanted, done)
  PROVE  /\ owner' \in {"none", "fetch", "data"}
         /\ flight_addr' \in Addr
<1>1. aligned_fetch_addr \in Addr
  BY Sizes DEF TypeOK, FetchTypeOK, aligned_fetch_addr
<1>2. 0 \in Addr
  BY Sizes
<1> QED BY <1>1, <1>2 DEF Bus, TypeOK

LEMMA JumpInv ==
  ASSUME IInv, AlignedJumps, NEW t \in JumpTargets, NEW wanted \in BOOLEAN,
         NEW done \in BOOLEAN, Jump(t, wanted, done)
  PROVE  IInv'
<1> USE Sizes, SystemAssumption
<1>1. t \in Addr
  OBVIOUS
<1>2. /\ wr_ptr' = 0 /\ rd_ptr' = 0 /\ fill_level' = 0 /\ fetch_addr' = t
      /\ fstate' = "FS_IDLE" /\ buffer' = buffer /\ pc' = t /\ dirty' = {} /\ mem' = mem
  BY DEF Jump, Flush
<1>3. TypeOK'
  BY <1>1, <1>2, BusType DEF IInv, TypeOK, FetchTypeOK, Slot, Jump
<1>4. t = (t + 0) % ADDR_SPACE
  BY <1>1
<1>5. Pointers' /\ Accounting' /\ OwnAnswer' /\ Contents'
  BY <1>2, <1>4 DEF Pointers, Accounting, OwnAnswer, Contents
<1>6. Aligned'
  BY <1>2 DEF Aligned, AlignedJumps
<1> QED BY <1>3, <1>5, <1>6 DEF IInv

-----------------------------------------------------------------------------
(* What consuming n bytes leaves behind.                                   *)

\* The bytes behind the first n are the first ones now, as they were.
Kept(n) ==
  /\ fill_level' >= fill_level - n
  /\ \A i \in 0 .. fill_level - n - 1 :
       buffer'[(rd_ptr' + i) % IBUF_SIZE] = buffer[(rd_ptr + (n + i)) % IBUF_SIZE]

\* Without a fill: the bytes left are those n further on.
LEMMA ConsumeInv ==
  ASSUME IInv, NEW n \in 0 .. MaxLen, n <= fill_level, SafeLength,
         Account(n, 0), UNCHANGED <<buffer, wr_ptr, fetch_addr, mem, dirty>>,
         pc' = (pc + n) % ADDR_SPACE
  PROVE  /\ rd_ptr' \in Slot /\ fill_level' = fill_level - n
         /\ fill_level' \in 0 .. IBUF_SIZE /\ pc' \in Addr
         /\ Pointers' /\ Contents'
         /\ fetch_addr' = (pc' + fill_level') % ADDR_SPACE
         /\ Kept(n)
<1> USE Sizes, SystemAssumption
<1>1. /\ rd_ptr \in 0 .. IBUF_SIZE - 1 /\ fill_level \in 0 .. IBUF_SIZE
      /\ pc \in Addr /\ n \in Nat /\ n <= IBUF_SIZE
  BY DEF IInv, TypeOK, FetchTypeOK, Slot
<1>2. Ptr(rd_ptr + n) = rd_ptr + n
  BY <1>1 DEF Ptr, SafeLength
<1>3. rd_ptr' = (rd_ptr + n) % IBUF_SIZE
  BY <1>2 DEF Account
<1>4. fill_level' = fill_level - n
  BY <1>1 DEF Account, Ptr
<1>5. /\ rd_ptr' \in 0 .. IBUF_SIZE - 1
      /\ \A i \in 0 .. IBUF_SIZE - n : (rd_ptr' + i) % IBUF_SIZE = (rd_ptr + n + i) % IBUF_SIZE
  BY <1>1, <1>3, Shift
<1>6. /\ pc' \in Addr
      /\ \A i \in 0 .. ADDR_SPACE - n : (pc' + i) % ADDR_SPACE = (pc + n + i) % ADDR_SPACE
  BY <1>1, Shift
<1>7. Pointers'
  BY <1>1, <1>4, <1>5 DEF IInv, Pointers
<1>8. fetch_addr' = (pc' + fill_level') % ADDR_SPACE
  <2>1. fill_level - n \in 0 .. ADDR_SPACE - n
    BY <1>1
  <2>2. (pc' + (fill_level - n)) % ADDR_SPACE = (pc + n + (fill_level - n)) % ADDR_SPACE
    BY <1>6, <2>1
  <2>3. pc + n + (fill_level - n) = pc + fill_level
    BY <1>1
  <2> QED BY <1>4, <2>2, <2>3 DEF IInv, Accounting
<1>9. Contents'
  <2> SUFFICES ASSUME NEW i \in 0 .. fill_level' - 1
               PROVE  Current(buffer[(rd_ptr + i) % IBUF_SIZE], pc + i)'
    BY DEF Contents
  <2>1. n + i \in 0 .. fill_level - 1 /\ i \in 0 .. IBUF_SIZE - n /\ i \in 0 .. ADDR_SPACE - n
    BY <1>1, <1>4
  <2>2. Current(buffer[(rd_ptr + (n + i)) % IBUF_SIZE], pc + (n + i))
    BY <2>1 DEF IInv, Contents
  <2>3. /\ (rd_ptr' + i) % IBUF_SIZE = (rd_ptr + (n + i)) % IBUF_SIZE
        /\ (pc' + i) % ADDR_SPACE = (pc + (n + i)) % ADDR_SPACE
    BY <1>1, <1>5, <1>6, <2>1
  <2> QED BY <2>2, <2>3 DEF Current
<1>10. Kept(n)
  <2>1. \A i \in 0 .. fill_level - n - 1 :
          (rd_ptr' + i) % IBUF_SIZE = (rd_ptr + (n + i)) % IBUF_SIZE
    BY <1>1, <1>5
  <2> QED BY <1>1, <1>4, <2>1 DEF Kept
<1> QED BY <1>1, <1>4, <1>5, <1>6, <1>7, <1>8, <1>9, <1>10 DEF Slot

\* With a fill: Stored bytes of memory follow those left.
LEMMA FillInv ==
  ASSUME IInv, NEW n \in 0 .. MaxLen, n <= fill_level, SafeLength,
         NEW v, FetchFill(v, rdata, n), UNCHANGED <<mem, dirty>>,
         pc' = (pc + n) % ADDR_SPACE
  PROVE  /\ rd_ptr' \in Slot /\ wr_ptr' \in Slot /\ buffer' \in [Slot -> Byte]
         /\ fill_level' \in 0 .. IBUF_SIZE /\ pc' \in Addr
         /\ fetch_addr' \in Addr
         /\ Pointers' /\ Contents' /\ Aligned'
         /\ fetch_addr' = (pc' + fill_level') % ADDR_SPACE
         /\ Kept(n)
<1>0. /\ IBUF_SIZE \in Nat \ {0} /\ ADDR_SPACE \in Nat \ {0} /\ ADDR_SPACE >= IBUF_SIZE
      /\ PTR_MOD \in Nat /\ PTR_MOD >= IBUF_SIZE + BUS_BYTES /\ BUS_BYTES \in {2, 4}
      /\ MaxLen \in Nat
  BY Sizes, SystemAssumption
<1>1. /\ rd_ptr \in 0 .. IBUF_SIZE - 1 /\ fill_level \in 0 .. IBUF_SIZE
      /\ wr_ptr \in 0 .. IBUF_SIZE - 1 /\ fetch_addr \in Addr
      /\ pc \in Addr /\ n \in Nat /\ n <= IBUF_SIZE
      /\ buffer \in [Slot -> Byte] /\ mem \in [Addr -> Byte]
  BY <1>0 DEF IInv, TypeOK, FetchTypeOK, Slot
<1>2. /\ FirstLane \in {0, 1} /\ Stored \in 1 .. BUS_BYTES
      /\ FirstLane + Stored = BUS_BYTES
      /\ flight_addr + FirstLane = fetch_addr
  BY <1>0, <1>1 DEF IInv, FirstLane, Stored, Aligned, OwnAnswer, aligned_fetch_addr, FetchFill
<1>3. fill_level + BUS_BYTES <= IBUF_SIZE
  BY DEF IInv, Accounting, FetchFill
<1>4. PICK left \in Nat : left + n = fill_level
  <2>1. fill_level - n \in Nat /\ (fill_level - n) + n = fill_level
    BY <1>1
  <2> QED BY <2>1
<1>5. PICK k \in 1 .. 4 : k = Stored /\ left + n + k <= IBUF_SIZE
  BY <1>0, <1>1, <1>2, <1>3, <1>4
<1>20. PICK m \in Nat : m = left + k /\ n + m <= IBUF_SIZE /\ n + m <= ADDR_SPACE
  <2>1. left + k \in Nat /\ n + (left + k) <= IBUF_SIZE /\ n + (left + k) <= ADDR_SPACE
    BY <1>0, <1>1, <1>5
  <2> QED BY <2>1
<1>6. fill_level' = left + k
  <2>1. fill_level' = (fill_level - n + k) % PTR_MOD
    BY <1>5 DEF FetchFill, Account, Ptr
  <2>2. fill_level - n + k = left + k /\ left + k \in 0 .. PTR_MOD - 1
    BY <1>0, <1>1, <1>4, <1>5
  <2> QED BY <1>0, <2>1, <2>2
<1>7. rd_ptr' = (rd_ptr + n) % IBUF_SIZE
  <2>1. rd_ptr + n \in 0 .. PTR_MOD - 1
    BY <1>0, <1>1 DEF SafeLength
  <2>2. Ptr(rd_ptr + n) = rd_ptr + n
    BY <1>0, <2>1 DEF Ptr
  <2> QED BY <2>2 DEF FetchFill, Account
<1>8. wr_ptr' = (wr_ptr + k) % IBUF_SIZE
  <2>1. wr_ptr + k \in 0 .. PTR_MOD - 1
    BY <1>0, <1>1, <1>2, <1>5
  <2>2. Ptr(wr_ptr + k) = wr_ptr + k
    BY <1>0, <2>1 DEF Ptr
  <2> QED BY <1>5, <2>2 DEF FetchFill
<1>9. fetch_addr' = (fetch_addr + k) % ADDR_SPACE
  BY <1>5 DEF FetchFill
<1>10. /\ wr_ptr = (rd_ptr + fill_level) % IBUF_SIZE
       /\ fetch_addr = (pc + fill_level) % ADDR_SPACE
  BY DEF IInv, Pointers, Accounting
<1>11. /\ rd_ptr' \in 0 .. IBUF_SIZE - 1 /\ wr_ptr' \in 0 .. IBUF_SIZE - 1
       /\ fetch_addr' \in Addr /\ pc' \in Addr
  BY <1>0, <1>1, <1>5, <1>7, <1>8, <1>9
<1>12. Pointers'
  <2>1. wr_ptr' = (rd_ptr + n + left + k) % IBUF_SIZE
    BY <1>0, <1>1, <1>4, <1>5, <1>8, <1>10, SMTT(30)
  <2>2. (((rd_ptr + n) % IBUF_SIZE) + m) % IBUF_SIZE = (rd_ptr + n + m) % IBUF_SIZE
    BY <1>0, <1>1, <1>20, SMTT(30)
  <2>3. rd_ptr + n + m = rd_ptr + n + left + k
    BY <1>1, <1>5, <1>20
  <2> QED BY <1>6, <1>7, <1>20, <2>1, <2>2, <2>3 DEF Pointers
<1>13. fetch_addr' = (pc' + fill_level') % ADDR_SPACE
  <2>1. fetch_addr' = (pc + n + left + k) % ADDR_SPACE
    BY <1>0, <1>1, <1>4, <1>5, <1>9, <1>10, SMTT(30)
  <2>2. (((pc + n) % ADDR_SPACE) + m) % ADDR_SPACE = (pc + n + m) % ADDR_SPACE
    BY <1>0, <1>1, <1>20, Shift
  <2>3. pc + n + m = pc + n + left + k
    BY <1>1, <1>5, <1>20
  <2> QED BY <1>6, <1>20, <2>1, <2>2, <2>3
<1>14. Aligned'
  <2>1. CASE BUS_BYTES = 4
    <3>1. k = 4 /\ fetch_addr % 4 = 0 /\ ADDR_SPACE % 4 = 0
      BY <1>5, <2>1, Sizes DEF Stored, FirstLane, IInv, Aligned
    <3>2. (fetch_addr + 4) % ADDR_SPACE =
            IF fetch_addr + 4 < ADDR_SPACE THEN fetch_addr + 4 ELSE fetch_addr + 4 - ADDR_SPACE
      BY <1>0, <1>1, <1>5, <3>1
    <3> QED BY <1>0, <1>1, <1>9, <3>1, <3>2 DEF Aligned
  <2> QED BY <2>1 DEF Aligned
<1>15. \A j \in 0 .. k - 1 : rdata[FirstLane + j] = mem[(fetch_addr + j) % ADDR_SPACE]
  <2> SUFFICES ASSUME NEW j \in 0 .. k - 1
               PROVE  rdata[FirstLane + j] = mem[(fetch_addr + j) % ADDR_SPACE]
    OBVIOUS
  <2>1. FirstLane + j \in 0 .. BUS_BYTES - 1
    BY <1>0, <1>2, <1>5
  <2>2. flight_addr + (FirstLane + j) = fetch_addr + j
    <3>1. flight_addr \in Int
      BY DEF IInv, TypeOK
    <3> QED BY <1>1, <1>2, <3>1
  <2> QED BY <2>1, <2>2 DEF rdata
<1>16. \A s \in Slot : buffer'[s] =
         LET j == (s + IBUF_SIZE - wr_ptr) % IBUF_SIZE
         IN  IF j < k THEN mem[(fetch_addr + j) % ADDR_SPACE] ELSE buffer[s]
  <2> SUFFICES ASSUME NEW s \in Slot, NEW j, j = (s + IBUF_SIZE - wr_ptr) % IBUF_SIZE
               PROVE  buffer'[s] = IF j < k THEN mem[(fetch_addr + j) % ADDR_SPACE]
                                            ELSE buffer[s]
    OBVIOUS
  <2>1. buffer'[s] = IF j < k THEN rdata[FirstLane + j] ELSE buffer[s]
    BY <1>5 DEF FetchFill
  <2>2. j \in Nat
    BY <1>0, <1>1 DEF Slot
  <2> QED BY <1>5, <1>15, <2>1, <2>2
<1>17. buffer' \in [Slot -> Byte]
  <2>1. \A s \in Slot : buffer'[s] \in Byte
    <3> SUFFICES ASSUME NEW s \in Slot, NEW j, j = (s + IBUF_SIZE - wr_ptr) % IBUF_SIZE
                 PROVE  (IF j < k THEN mem[(fetch_addr + j) % ADDR_SPACE]
                                  ELSE buffer[s]) \in Byte
      BY <1>16
    <3>1. j \in Nat
      BY <1>0, <1>1 DEF Slot
    <3>2. (fetch_addr + j) % ADDR_SPACE \in Addr
      BY <1>0, <1>1, <3>1
    <3> QED BY <1>1, <3>2
  <2> QED BY <2>1 DEF FetchFill
<1>18. ASSUME NEW p \in 0 .. IBUF_SIZE - 1, p < fill_level + k
       PROVE  buffer'[(rd_ptr + p) % IBUF_SIZE] =
                IF p < fill_level THEN buffer[(rd_ptr + p) % IBUF_SIZE]
                ELSE mem[(fetch_addr + (p - fill_level)) % ADDR_SPACE]
  <2>1. PICK s \in Slot : s = (rd_ptr + p) % IBUF_SIZE
    <3>1. (rd_ptr + p) % IBUF_SIZE \in Slot
      BY <1>0, <1>1 DEF Slot
    <3> QED BY <3>1
  <2>2. PICK j \in Nat : j = (s + IBUF_SIZE - wr_ptr) % IBUF_SIZE
    BY <1>0, <1>1 DEF Slot
  <2>3. j = IF p >= fill_level THEN p - fill_level ELSE p - fill_level + IBUF_SIZE
    <3>1. fill_level \in 0 .. IBUF_SIZE - 1
      BY <1>0, <1>1, <1>3
    <3>2. (((rd_ptr + p) % IBUF_SIZE) + IBUF_SIZE - ((rd_ptr + fill_level) % IBUF_SIZE)) % IBUF_SIZE
            = IF p >= fill_level THEN p - fill_level ELSE p - fill_level + IBUF_SIZE
      BY <1>0, <1>1, <3>1, SlotDistance
    <3> QED BY <1>10, <2>1, <2>2, <3>2
  <2>4. buffer'[s] = IF j < k THEN mem[(fetch_addr + j) % ADDR_SPACE] ELSE buffer[s]
    BY <1>16, <2>2
  <2>5. IF p < fill_level THEN j >= k ELSE j = p - fill_level /\ j < k
    BY <1>0, <1>1, <1>2, <1>3, <1>5, <1>18, <2>3
  <2> QED BY <1>5, <2>1, <2>2, <2>4, <2>5
<1>19. ASSUME NEW i \in 0 .. left + k - 1, NEW p \in 0 .. IBUF_SIZE - 1, p = n + i
       PROVE  /\ (rd_ptr' + i) % IBUF_SIZE = (rd_ptr + p) % IBUF_SIZE
              /\ (pc' + i) % ADDR_SPACE = (pc + p) % ADDR_SPACE
              /\ p < fill_level + k
  <2>1. (rd_ptr' + i) % IBUF_SIZE = (rd_ptr + p) % IBUF_SIZE
    BY <1>0, <1>1, <1>7, <1>19, SMTT(30)
  <2>2. (pc' + i) % ADDR_SPACE = (pc + p) % ADDR_SPACE
    BY <1>0, <1>1, <1>19, SMTT(30)
  <2>3. p < fill_level + k
    BY <1>1, <1>4, <1>5, <1>19
  <2> QED BY <2>1, <2>2, <2>3
<1>21. Contents'
  <2> SUFFICES ASSUME NEW i \in 0 .. left + k - 1
               PROVE  Current(buffer[(rd_ptr + i) % IBUF_SIZE], pc + i)'
    BY <1>6 DEF Contents
  <2>1. PICK p \in 0 .. IBUF_SIZE - 1 : p = n + i
    BY <1>0, <1>1, <1>4, <1>5
  <2>2. /\ (rd_ptr' + i) % IBUF_SIZE = (rd_ptr + p) % IBUF_SIZE
        /\ (pc' + i) % ADDR_SPACE = (pc + p) % ADDR_SPACE
        /\ p < fill_level + k
    BY <1>19, <2>1
  <2>3. CASE p < fill_level
    <3>1. Current(buffer[(rd_ptr + p) % IBUF_SIZE], pc + p)
      BY <1>1, <2>3 DEF IInv, Contents
    <3>2. buffer'[(rd_ptr + p) % IBUF_SIZE] = buffer[(rd_ptr + p) % IBUF_SIZE]
      BY <1>18, <2>2, <2>3
    <3> QED BY <2>2, <3>1, <3>2 DEF Current
  <2>4. CASE p >= fill_level
    <3>1. PICK j \in 0 .. k - 1 : j = p - fill_level
      BY <1>1, <1>5, <2>2, <2>4
    <3>2. buffer'[(rd_ptr + p) % IBUF_SIZE] = mem[(fetch_addr + j) % ADDR_SPACE]
      BY <1>1, <1>18, <2>2, <2>4, <3>1
    <3>3. (fetch_addr + j) % ADDR_SPACE = (pc + p) % ADDR_SPACE
      <4>1. fill_level + j = p /\ fill_level + j <= ADDR_SPACE
        BY <1>0, <1>1, <3>1
      <4>2. (((pc + fill_level) % ADDR_SPACE) + j) % ADDR_SPACE = (pc + fill_level + j) % ADDR_SPACE
        BY <1>0, <1>1, <3>1, <4>1, SMTT(30)
      <4>3. pc + fill_level + j = pc + p
        BY <1>1, <3>1, <4>1
      <4> QED BY <1>10, <4>2, <4>3
    <3> QED BY <2>2, <3>2, <3>3 DEF Current
  <2> QED BY <1>1, <2>3, <2>4
<1>22. Kept(n)
  <2>1. ASSUME NEW i \in 0 .. fill_level - n - 1
        PROVE  buffer'[(rd_ptr' + i) % IBUF_SIZE] = buffer[(rd_ptr + (n + i)) % IBUF_SIZE]
    <3>1. PICK p \in 0 .. IBUF_SIZE - 1 : p = n + i /\ p < fill_level
      BY <1>0, <1>1
    <3>2. i \in 0 .. left + k - 1
      BY <1>1, <1>4, <1>5
    <3>3. (rd_ptr' + i) % IBUF_SIZE = (rd_ptr + p) % IBUF_SIZE /\ p < fill_level + k
      BY <1>19, <3>1, <3>2
    <3>4. buffer'[(rd_ptr + p) % IBUF_SIZE] = buffer[(rd_ptr + p) % IBUF_SIZE]
      BY <1>18, <3>1, <3>3
    <3> QED BY <3>1, <3>3, <3>4
  <2>2. fill_level' >= fill_level - n
    BY <1>1, <1>4, <1>5, <1>6
  <2> QED BY <2>1, <2>2 DEF Kept
<1> QED
  <2>1. fill_level' \in 0 .. IBUF_SIZE
    BY <1>0, <1>5, <1>6
  <2> QED BY <1>11, <1>12, <1>13, <1>14, <1>17, <1>21, <1>22, <2>1 DEF Slot

-----------------------------------------------------------------------------
(* Every other step.                                                       *)

\* The bus grants the unit's request, and does not end what it must await.
LEMMA OwnAnswerNext ==
  ASSUME IInv, NEW n, NEW wanted \in BOOLEAN, NEW done \in BOOLEAN,
         FetchClock(BusBusy(wanted), ValidFor(done), rdata, n), Bus(wanted, done)
  PROVE  OwnAnswer'
<1>1. CASE FetchIdle(BusBusy(wanted), n)
  BY <1>1 DEF FetchIdle, OwnAnswer
<1>2. CASE FetchRequest(BusBusy(wanted), n)
  <2>1. CASE BusBusy(wanted)
    BY <1>2, <2>1 DEF FetchRequest, OwnAnswer
  <2>2. CASE ~BusBusy(wanted)
    <3>1. owner' = "fetch" /\ flight_addr' = aligned_fetch_addr
      BY <1>2, <2>2 DEF FetchRequest, BusBusy, Bus, Requesting
    <3>2. fetch_addr' = fetch_addr
      BY <1>2 DEF FetchRequest
    <3> QED BY <3>1, <3>2 DEF OwnAnswer, aligned_fetch_addr
  <2> QED BY <2>1, <2>2
<1>3. CASE FetchWait(ValidFor(done), n)
  <2>1. fstate = "FS_WAIT" /\ owner = "fetch" /\ flight_addr = aligned_fetch_addr /\ ~done
    BY <1>3 DEF FetchWait, IInv, OwnAnswer, ValidFor
  <2>2. owner' = "fetch" /\ flight_addr' = flight_addr /\ fetch_addr' = fetch_addr
    BY <1>3, <2>1 DEF Bus, FetchWait
  <2> QED BY <2>1, <2>2 DEF OwnAnswer, aligned_fetch_addr
<1>4. CASE FetchFill(ValidFor(done), rdata, n)
  BY <1>4 DEF FetchFill, OwnAnswer
<1> QED BY <1>1, <1>2, <1>3, <1>4 DEF FetchClock

\* A clock edge of the unit without flush, memory unchanged.
LEMMA ClockInv ==
  ASSUME IInv, SafeLength, NEW n \in 0 .. MaxLen, n <= fill_level,
         NEW b \in BOOLEAN, NEW v, FetchClock(b, v, rdata, n),
         UNCHANGED <<mem, dirty>>, pc' = (pc + n) % ADDR_SPACE
  PROVE  /\ FetchTypeOK' /\ pc' \in Addr
         /\ Pointers' /\ Accounting' /\ Contents' /\ Aligned' /\ Kept(n)
<1>0. /\ IBUF_SIZE \in Nat \ {0} /\ PTR_MOD \in Nat /\ PTR_MOD > IBUF_SIZE
      /\ BUS_BYTES \in {2, 4} /\ MaxLen \in Nat /\ fill_level \in 0 .. IBUF_SIZE
  BY Sizes, SystemAssumption DEF IInv, TypeOK, FetchTypeOK
<1>1. ASSUME Account(n, 0), UNCHANGED <<buffer, wr_ptr, fetch_addr>>,
             fstate' \in {"FS_IDLE", "FS_REQUEST", "FS_WAIT"},
             fstate' # "FS_IDLE" => fill_level + BUS_BYTES <= IBUF_SIZE
      PROVE  /\ FetchTypeOK' /\ pc' \in Addr
             /\ Pointers' /\ Accounting' /\ Contents' /\ Aligned' /\ Kept(n)
  <2>1. /\ rd_ptr' \in Slot /\ fill_level' = fill_level - n
        /\ fill_level' \in 0 .. IBUF_SIZE /\ pc' \in Addr
        /\ Pointers' /\ Contents' /\ Kept(n)
        /\ fetch_addr' = (pc' + fill_level') % ADDR_SPACE
    BY <1>1, ConsumeInv
  <2>2. FetchTypeOK' /\ Aligned'
    BY <1>1, <2>1 DEF IInv, TypeOK, FetchTypeOK, Aligned, Slot
  <2>3. Accounting'
    BY <1>0, <1>1, <2>1 DEF Accounting
  <2> QED BY <2>1, <2>2, <2>3
<1>2. CASE FetchIdle(b, n)
  <2>1. CanFetch(b) => fill_level + BUS_BYTES <= IBUF_SIZE
    BY <1>0 DEF CanFetch, room, Ptr
  <2> QED BY <1>1, <1>2, <2>1 DEF FetchIdle
<1>3. CASE FetchRequest(b, n)
  BY <1>1, <1>3 DEF FetchRequest, IInv, Accounting
<1>4. CASE FetchWait(v, n)
  BY <1>1, <1>4 DEF FetchWait, IInv, Accounting
<1>5. CASE FetchFill(v, rdata, n)
  <2>1. /\ rd_ptr' \in Slot /\ wr_ptr' \in Slot /\ buffer' \in [Slot -> Byte]
        /\ fill_level' \in 0 .. IBUF_SIZE /\ pc' \in Addr
        /\ fetch_addr' \in Addr
        /\ Pointers' /\ Contents' /\ Aligned' /\ Kept(n)
        /\ fetch_addr' = (pc' + fill_level') % ADDR_SPACE
    BY <1>5, FillInv
  <2>2. fstate' = "FS_IDLE"
    BY <1>5 DEF FetchFill
  <2> QED BY <2>1, <2>2 DEF FetchTypeOK, Accounting, Slot
<1> QED BY <1>2, <1>3, <1>4, <1>5 DEF FetchClock

LEMMA AdvanceInv ==
  ASSUME IInv, SafeLength, NEW n \in ConsumeLens \cup {0}, NEW wanted \in BOOLEAN,
         NEW done \in BOOLEAN, Advance(n, wanted, done)
  PROVE  IInv'
<1>1. n \in 0 .. MaxLen /\ n <= fill_level
  BY Sizes, SystemAssumption
     DEF Advance, ibuf_valid_count, IInv, TypeOK, FetchTypeOK
<1>2. /\ FetchClock(BusBusy(wanted), ValidFor(done), rdata, n)
      /\ UNCHANGED <<mem, dirty>> /\ pc' = (pc + n) % ADDR_SPACE
      /\ Bus(wanted, done) /\ BusBusy(wanted) \in BOOLEAN
  BY DEF Advance, BusBusy
<1>3. /\ FetchTypeOK' /\ pc' \in Addr
      /\ Pointers' /\ Accounting' /\ Contents' /\ Aligned'
  BY <1>1, <1>2, ClockInv
<1>4. OwnAnswer'
  BY <1>2, OwnAnswerNext
<1>5. TypeOK'
  BY <1>2, <1>3, BusType DEF IInv, TypeOK
<1> QED BY <1>3, <1>4, <1>5 DEF IInv

\* While the core stores the unit stands still.
LEMMA StoreStands ==
  ASSUME IInv, Store
  PROVE  UNCHANGED fetchVars
<1>0. /\ IBUF_SIZE \in Nat \ {0} /\ PTR_MOD \in Nat /\ PTR_MOD > IBUF_SIZE
      /\ fill_level \in 0 .. IBUF_SIZE /\ rd_ptr \in 0 .. IBUF_SIZE - 1
  BY Sizes DEF IInv, TypeOK, FetchTypeOK, Slot
<1>1. Account(0, 0) => rd_ptr' = rd_ptr /\ fill_level' = fill_level
  <2>1. Ptr(rd_ptr + 0) % IBUF_SIZE = rd_ptr /\ Ptr(fill_level - 0 + 0) = fill_level
    BY <1>0 DEF Ptr
  <2> QED BY <2>1 DEF Account
<1>2. FetchClock(TRUE, FALSE, rdata, 0)
  BY DEF Store
<1>3. CASE FetchIdle(TRUE, 0)
  BY <1>1, <1>3 DEF FetchIdle, CanFetch, fetchVars
<1>4. CASE FetchRequest(TRUE, 0)
  BY <1>1, <1>4 DEF FetchRequest, fetchVars
<1>5. CASE FetchWait(FALSE, 0)
  BY <1>1, <1>5 DEF FetchWait, fetchVars
<1>6. CASE FetchFill(FALSE, rdata, 0)
  BY <1>6 DEF FetchFill
<1> QED BY <1>2, <1>3, <1>4, <1>5, <1>6 DEF FetchClock

\* The locations stored to become dirty.
LEMMA StoreInv ==
  ASSUME IInv, Store
  PROVE  IInv'
<1>0. /\ IBUF_SIZE \in Nat \ {0} /\ fill_level \in 0 .. IBUF_SIZE
      /\ ADDR_SPACE \in Nat \ {0} /\ pc \in Addr
  BY Sizes DEF IInv, TypeOK, FetchTypeOK, Slot
<1>1. UNCHANGED fetchVars
  BY StoreStands
<1>2. UNCHANGED <<pc, owner, flight_addr>>
  BY DEF Store
<1>3. TypeOK'
  <2>1. mem' \in [Addr -> Byte]
    BY SystemAssumption DEF Store
  <2>2. dirty' \subseteq Addr
    BY DEF Store, IInv, TypeOK
  <2> QED BY <1>1, <1>2, <2>1, <2>2 DEF IInv, TypeOK, FetchTypeOK, fetchVars
<1>4. Pointers' /\ Accounting' /\ OwnAnswer' /\ Aligned'
  BY <1>1, <1>2
     DEF IInv, Pointers, Accounting, OwnAnswer, Aligned, aligned_fetch_addr, fetchVars
<1>5. Contents'
  <2> SUFFICES ASSUME NEW i \in 0 .. fill_level - 1
               PROVE  Current(buffer[(rd_ptr + i) % IBUF_SIZE], pc + i)'
    BY <1>1 DEF Contents, fetchVars
  <2>1. Current(buffer[(rd_ptr + i) % IBUF_SIZE], pc + i)
    BY DEF IInv, Contents
  <2>2. (pc + i) % ADDR_SPACE \in Addr
    BY <1>0
  <2>3. \A a \in Addr : mem'[a] = mem[a] \/ a \in dirty'
    BY DEF Store
  <2>4. dirty \subseteq dirty'
    BY DEF Store
  <2> QED BY <1>1, <1>2, <2>1, <2>2, <2>3, <2>4 DEF Current, fetchVars
<1> QED BY <1>3, <1>4, <1>5 DEF IInv

LEMMA NextInv ==
  ASSUME IInv, SafeLength, AlignedJumps, [Next]_vars
  PROVE  IInv'
<1>1. ASSUME NEW wanted \in BOOLEAN, NEW done \in BOOLEAN, NEW t \in JumpTargets,
             Jump(t, wanted, done)
      PROVE  IInv'
  BY <1>1, JumpInv
<1>2. ASSUME NEW wanted \in BOOLEAN, NEW done \in BOOLEAN, NEW n \in ConsumeLens \cup {0},
             Advance(n, wanted, done)
      PROVE  IInv'
  BY <1>2, AdvanceInv
<1>3. CASE Store
  BY <1>3, StoreInv
<1>4. CASE UNCHANGED vars
  BY <1>4 DEF vars, fetchVars, IInv, TypeOK, FetchTypeOK, Pointers, Accounting, OwnAnswer,
              aligned_fetch_addr, Contents, Current, Aligned
<1> QED BY <1>1, <1>2, <1>3, <1>4 DEF Next

-----------------------------------------------------------------------------
(* The theorems.                                                           *)

\* The inductive invariant of the unit and its bus.
LEMMA Invariance ==
  ASSUME SafeLength, AlignedJumps
  PROVE  Spec => []IInv
<1>1. Init => IInv
  BY InitInv
<1>2. IInv /\ [Next]_vars => IInv'
  BY NextInv
<1> QED BY <1>1, <1>2, PTL DEF Spec

\* Every variable keeps its type (v60_fetch_unit.sv: the pointers stay inside
\* the buffer, the fill level never exceeds it).
THEOREM TypeCorrect ==
  ASSUME SafeLength, AlignedJumps
  PROVE  Spec => []TypeOK
<1>1. IInv => TypeOK
  BY DEF IInv
<1> QED BY <1>1, Invariance, PTL

\* An answer that the unit waits for is the one to its own last request, at the
\* address it stores from, however flushes and data accesses fall between
\* (v60_fetch_unit.sv FS_WAIT).
THEOREM AnswersAreOwn ==
  ASSUME SafeLength, AlignedJumps
  PROVE  Spec => []OwnAnswer
<1>1. IInv => OwnAnswer
  BY DEF IInv
<1> QED BY <1>1, Invariance, PTL

\* The buffer never overflows and always reaches from the program counter to
\* the fetch address (v60_fetch_unit.sv fill_level).
THEOREM NeverLosesCount ==
  ASSUME SafeLength, AlignedJumps
  PROVE  Spec => []Accounting
<1>1. IInv => Accounting
  BY DEF IInv
<1> QED BY <1>1, Invariance, PTL

\* The decoder always finds the bytes of the current instruction in its window
\* (v60_fetch_unit.sv ibuf_data).
THEOREM DeliversInstructions ==
  ASSUME SafeLength, AlignedJumps
  PROVE  Spec => []InstructionBytes
<1>1. IInv => InstructionBytes
  <2> SUFFICES ASSUME IInv, NEW i \in 0 .. MaxLen - 1, i < ibuf_valid_count
               PROVE  Current(ibuf_data[i], pc + i)
    BY DEF InstructionBytes
  <2>0. /\ IBUF_SIZE \in Nat \ {0} /\ PTR_MOD \in Nat /\ FETCH_WINDOW \in 1 .. IBUF_SIZE
        /\ MaxLen \in 1 .. FETCH_WINDOW
        /\ fill_level \in 0 .. IBUF_SIZE /\ rd_ptr \in 0 .. IBUF_SIZE - 1
    BY Sizes, SystemAssumption DEF IInv, TypeOK, FetchTypeOK, Slot
  <2>1. i \in 0 .. fill_level - 1 /\ i \in 0 .. FETCH_WINDOW - 1
    BY <2>0 DEF ibuf_valid_count
  <2>2. rd_ptr + i \in 0 .. PTR_MOD - 1
    BY <2>0 DEF SafeLength
  <2>3. WindowSlot(i) = (rd_ptr + i) % IBUF_SIZE
    BY <2>0, <2>2 DEF WindowSlot, Ptr
  <2> QED BY <2>1, <2>3 DEF IInv, Contents, ibuf_data
<1> QED BY <1>1, Invariance, PTL

-----------------------------------------------------------------------------
(* The prefetch unit implements InstructionStream, for every size: a jump  *)
(* maps to a jump, a store to a store, and every other clock edge to an    *)
(* advance by the number of bytes consumed on it.                          *)

USE DEF Addr

\* The abstract window.
StreamWindow == [i \in 1 .. Visible |-> ibuf_data[i - 1]]

\* As much is visible as an instruction may need and the buffer has, ...
VisibleSize ==
  /\ Visible \in 0 .. MaxLen /\ Visible <= fill_level
  /\ Visible = IF fill_level < MaxLen THEN fill_level ELSE MaxLen

\* ... and it is in the buffer, where the read pointer says.
VisibleSlots ==
  /\ Len(StreamWindow) = Visible
  /\ \A i \in 1 .. Visible :
       StreamWindow[i] = buffer[(rd_ptr + (i - 1)) % IBUF_SIZE]

LEMMA VisibleRange == TypeOK => VisibleSize
<1> SUFFICES ASSUME TypeOK PROVE VisibleSize
  OBVIOUS
<1>1. /\ IBUF_SIZE \in Nat \ {0} /\ FETCH_WINDOW \in 1 .. IBUF_SIZE
      /\ MaxLen \in 1 .. FETCH_WINDOW /\ fill_level \in 0 .. IBUF_SIZE
  BY Sizes, SystemAssumption DEF TypeOK, FetchTypeOK
<1> QED BY <1>1 DEF VisibleSize, Visible, ibuf_valid_count

LEMMA StreamSlots == TypeOK /\ SafeLength => VisibleSlots
<1> SUFFICES ASSUME TypeOK, SafeLength PROVE VisibleSlots
  OBVIOUS
<1>0. /\ IBUF_SIZE \in Nat \ {0} /\ PTR_MOD \in Nat /\ FETCH_WINDOW \in 1 .. IBUF_SIZE
      /\ MaxLen \in 1 .. FETCH_WINDOW
      /\ fill_level \in 0 .. IBUF_SIZE /\ rd_ptr \in 0 .. IBUF_SIZE - 1
  BY Sizes, SystemAssumption DEF TypeOK, FetchTypeOK, Slot
<1>1. /\ Visible \in 0 .. MaxLen /\ Visible <= fill_level
  BY VisibleRange DEF VisibleSize
<1>2. Len(StreamWindow) = Visible
  BY <1>0, <1>1 DEF StreamWindow
<1>3. ASSUME NEW i \in 1 .. Visible
      PROVE  StreamWindow[i] = buffer[(rd_ptr + (i - 1)) % IBUF_SIZE]
  <2>1. i - 1 \in 0 .. FETCH_WINDOW - 1 /\ rd_ptr + (i - 1) \in 0 .. PTR_MOD - 1
    BY <1>0, <1>1 DEF SafeLength
  <2>2. WindowSlot(i - 1) = (rd_ptr + (i - 1)) % IBUF_SIZE
    BY <1>0, <2>1 DEF WindowSlot, Ptr
  <2> QED BY <2>1, <2>2 DEF StreamWindow, ibuf_data
<1> QED BY <1>2, <1>3 DEF VisibleSlots

\* The same after a step.
LEMMA StreamSlotsNext ==
  /\ TypeOK' => VisibleSize'
  /\ TypeOK' /\ SafeLength' => VisibleSlots'
BY VisibleRange, StreamSlots, PTL

\* The initial window is empty.
LEMMA StreamInit == Init => Stream!Init
<1> SUFFICES ASSUME Init PROVE Stream!Init
  OBVIOUS
<1>1. Visible = 0
  BY Sizes, SystemAssumption DEF Init, FetchInit, Visible, ibuf_valid_count
<1>2. [i \in 1 .. Visible |-> ibuf_data[i - 1]] = << >>
  BY <1>1
<1> QED BY <1>2 DEF Stream!Init, Init

LEMMA StreamJump ==
  ASSUME NEW t \in JumpTargets, NEW wanted, NEW done, Jump(t, wanted, done)
  PROVE  Stream!Jump
<1>1. fill_level' = 0 /\ pc' = t /\ dirty' = {} /\ mem' = mem
  BY DEF Jump, Flush
<1>2. Visible' = 0
  BY <1>1, Sizes, SystemAssumption DEF Visible, ibuf_valid_count
<1>3. [i \in 1 .. Visible |-> ibuf_data[i - 1]]' = << >>
  BY <1>2
<1>4. t \in 0 .. ADDR_SPACE - 1
  BY SystemAssumption
<1> QED BY <1>1, <1>3, <1>4 DEF Stream!Jump

\* The slot of the i-th visible byte lies below the fill level.
LEMMA BelowCount ==
  ASSUME NEW i \in Int, NEW v \in Int, NEW f \in Int, NEW size \in Int,
         1 <= i, i <= v, v <= f, f <= size
  PROVE  i \in 1 .. v /\ i - 1 \in 0 .. f - 1 /\ i - 1 \in 0 .. size - 1
OBVIOUS

\* The bytes left are those behind the ones consumed, and the ones that come
\* into sight behind them are current.
LEMMA StreamAdvance ==
  ASSUME IInv, IInv', SafeLength, NEW n \in ConsumeLens \cup {0},
         NEW wanted \in BOOLEAN, NEW done \in BOOLEAN, Advance(n, wanted, done)
  PROVE  \E k \in 0 .. Len(StreamWindow) : Stream!Advance(k)
<1>0. /\ IBUF_SIZE \in Nat \ {0} /\ PTR_MOD \in Nat /\ FETCH_WINDOW \in 1 .. IBUF_SIZE
      /\ MaxLen \in 1 .. FETCH_WINDOW /\ ADDR_SPACE \in Nat \ {0} /\ IBUF_SIZE <= ADDR_SPACE
      /\ fill_level \in 0 .. IBUF_SIZE /\ rd_ptr \in 0 .. IBUF_SIZE - 1 /\ pc \in Addr
      /\ fill_level' \in 0 .. IBUF_SIZE
  BY Sizes, SystemAssumption DEF IInv, TypeOK, FetchTypeOK, Slot
<1>1. n \in 0 .. MaxLen /\ n <= fill_level
  BY <1>0, SystemAssumption DEF Advance, ibuf_valid_count
<1>2. /\ FetchClock(BusBusy(wanted), ValidFor(done), rdata, n)
      /\ UNCHANGED <<mem, dirty>> /\ pc' = (pc + n) % ADDR_SPACE
      /\ BusBusy(wanted) \in BOOLEAN
  BY DEF Advance, BusBusy
<1>3. Kept(n)
  BY <1>1, <1>2, ClockInv
<1>4. /\ Visible \in 0 .. MaxLen /\ Visible <= fill_level
      /\ Visible = IF fill_level < MaxLen THEN fill_level ELSE MaxLen
      /\ Visible' \in 0 .. MaxLen /\ Visible' <= fill_level'
      /\ Visible' = IF fill_level' < MaxLen THEN fill_level' ELSE MaxLen
  BY VisibleRange, StreamSlotsNext DEF IInv, VisibleSize
<1>5. VisibleSlots /\ VisibleSlots'
  <2>1. SafeLength'
    BY DEF SafeLength
  <2> QED BY <2>1, StreamSlots, StreamSlotsNext DEF IInv
<1>6. n \in 0 .. Visible
  BY <1>0, <1>1, <1>4
<1>7. Visible' \in Visible - n .. MaxLen
  BY <1>0, <1>1, <1>3, <1>4 DEF Kept
<1>8. ASSUME NEW i \in 1 .. Visible - n
      PROVE  StreamWindow'[i] = StreamWindow[i + n]
  <2>1. /\ i - 1 \in 0 .. fill_level - n - 1 /\ i \in 1 .. Visible' /\ i + n \in 1 .. Visible
        /\ n + (i - 1) = (i + n) - 1
    BY <1>0, <1>1, <1>4, <1>7
  <2>2. buffer'[(rd_ptr' + (i - 1)) % IBUF_SIZE] = buffer[(rd_ptr + (n + (i - 1))) % IBUF_SIZE]
    BY <1>3, <2>1 DEF Kept
  <2> QED BY <1>5, <2>1, <2>2 DEF VisibleSlots
<1>9. ASSUME NEW i \in Int, i >= Visible - n + 1, i <= Visible'
      PROVE  Current(StreamWindow'[i], pc + n + i - 1)
  <2>0. i >= 1 /\ i <= Visible'
    BY <1>4, <1>6, <1>9
  <2>1. i \in 1 .. Visible' /\ i - 1 \in 0 .. fill_level' - 1 /\ i - 1 \in 0 .. IBUF_SIZE - 1
    <3>1. i \in Int /\ Visible' \in Int /\ fill_level' \in Int /\ IBUF_SIZE \in Int
      BY <1>0, <1>4, SystemAssumption
    <3>2. 1 <= i
      BY <2>0
    <3>3. i <= Visible'
      BY <2>0
    <3>4. Visible' <= fill_level'
      BY <1>4
    <3>5. fill_level' <= IBUF_SIZE
      BY <1>0
    <3> QED BY <3>1, <3>2, <3>3, <3>4, <3>5, BelowCount
  <2>2. Current(buffer[(rd_ptr + (i - 1)) % IBUF_SIZE], pc + (i - 1))'
    BY <2>1 DEF IInv, Contents
  <2>3. (pc' + (i - 1)) % ADDR_SPACE = (pc + n + i - 1) % ADDR_SPACE
    BY <1>0, <1>1, <1>2, <2>1, SMTT(30)
  <2>4. StreamWindow'[i] = buffer'[(rd_ptr' + (i - 1)) % IBUF_SIZE]
    BY <1>5, <2>1 DEF VisibleSlots
  <2> QED BY <1>2, <2>2, <2>3, <2>4 DEF Current
<1>10. Stream!Advance(n)
  <2>1. Len(StreamWindow') \in Len(StreamWindow) - n .. MaxLen
    BY <1>5, <1>7 DEF VisibleSlots
  <2>2. \A i \in 1 .. Len(StreamWindow) - n : StreamWindow'[i] = StreamWindow[i + n]
    BY <1>5, <1>8 DEF VisibleSlots
  <2>3. \A i \in Len(StreamWindow) - n + 1 .. Len(StreamWindow') :
          Stream!Current(StreamWindow'[i], pc + n + i - 1)
    BY <1>1, <1>4, <1>5, <1>9 DEF VisibleSlots, Current, Stream!Current
  <2> QED BY <1>2, <2>1, <2>2, <2>3 DEF Stream!Advance, StreamWindow
<1> QED BY <1>5, <1>6, <1>10 DEF VisibleSlots

\* A store does not reach the buffer.
LEMMA StreamStore ==
  ASSUME IInv, Store
  PROVE  Stream!Store
<1>1. UNCHANGED fetchVars
  BY StoreStands
<1>2. UNCHANGED [i \in 1 .. Visible |-> ibuf_data[i - 1]]
  BY <1>1 DEF fetchVars, Visible, ibuf_valid_count, ibuf_data, WindowSlot
<1> QED BY <1>2 DEF Stream!Store, Store

LEMMA StreamStep ==
  ASSUME IInv, IInv', SafeLength, [Next]_vars
  PROVE  [Stream!Next]_(Stream!vars)
<1>1. ASSUME NEW wanted \in BOOLEAN, NEW done \in BOOLEAN, NEW t \in JumpTargets,
             Jump(t, wanted, done)
      PROVE  Stream!Next
  BY <1>1, StreamJump DEF Stream!Next
<1>2. ASSUME NEW wanted \in BOOLEAN, NEW done \in BOOLEAN, NEW n \in ConsumeLens \cup {0},
             Advance(n, wanted, done)
      PROVE  Stream!Next
  <2>1. \E k \in 0 .. Len(StreamWindow) : Stream!Advance(k)
    BY <1>2, StreamAdvance
  <2> QED BY <2>1 DEF Stream!Next, StreamWindow
<1>3. CASE Store
  BY <1>3, StreamStore DEF Stream!Next
<1>4. CASE UNCHANGED vars
  BY <1>4 DEF vars, fetchVars, Stream!vars, Visible, ibuf_valid_count, ibuf_data, WindowSlot
<1> QED BY <1>1, <1>2, <1>3, <1>4 DEF Next

\* The decoder sees the instruction stream: the window never skips, repeats or
\* reorders a byte, whatever is consumed, fetched, flushed or stored on the same
\* clock edge (v60_fetch_unit.sv).
THEOREM RefinesStream ==
  ASSUME SafeLength, AlignedJumps
  PROVE  Spec => ImplementsStream
<1>1. Init => Stream!Init
  BY StreamInit
<1>2. IInv /\ IInv' /\ [Next]_vars => [Stream!Next]_(Stream!vars)
  BY StreamStep
<1>3. Spec => []IInv
  BY Invariance
<1> QED BY <1>1, <1>2, <1>3, PTL DEF Spec, Stream!Spec, ImplementsStream

-----------------------------------------------------------------------------
(* The decoder and its window.                                             *)

\* w is a window of bytes.
Window(w) == \E n \in Nat : w \in [0 .. n - 1 -> 0 .. 255]

\* The first n bytes of w and v are the same.
Same(w, v, n) == \A i \in 0 .. n - 1 : At(w, i) = At(v, i)

-----------------------------------------------------------------------------
(* Bytes and fields.                                                       *)

\* Every byte of a window is a byte, those past its end too.
LEMMA AtByte ==
  ASSUME NEW w, Window(w), NEW i \in Nat
  PROVE  At(w, i) \in 0 .. 255
  BY DEF Window, At

\* A field is as long as it is said to be.
LEMMA FieldLength ==
  ASSUME NEW w, NEW from, NEW k \in Nat
  PROVE  Len(Field(w, from, k)) = k
  BY DEF Field

\* A field is a function of the bytes up to its end.
LEMMA FieldLocal ==
  ASSUME NEW w, NEW v, NEW from \in Nat, NEW k \in Nat, NEW n \in Nat,
         from + k <= n, Same(w, v, n)
  PROVE  Field(w, from, k) = Field(v, from, k)
<1>1. \A j \in 1 .. k : At(w, from + j - 1) = At(v, from + j - 1)
  <2> SUFFICES ASSUME NEW j \in 1 .. k
               PROVE  At(w, from + j - 1) = At(v, from + j - 1)
    OBVIOUS
  <2>1. from + j - 1 \in 0 .. n - 1  OBVIOUS
  <2> QED  BY <2>1 DEF Same
<1> QED  BY <1>1 DEF Field

\* The parts of a mod byte.
LEMMA ModByte ==
  ASSUME NEW b \in 0 .. 255
  PROVE  /\ b \div 32 \in 0 .. 7
         /\ b % 32 \in 0 .. 31
  OBVIOUS

\* The sizes a displacement can have.
LEMMA Displacements ==
  ASSUME NEW x \in Nat
  PROVE  DispBytes(x) \in {1, 2, 4, 8}
<1>1. x % 4 \in {0, 1, 2, 3}  OBVIOUS
<1>2. 2 ^ 0 = 1 /\ 2 ^ 1 = 2 /\ 2 ^ 2 = 4 /\ 2 ^ 3 = 8  OBVIOUS
<1> QED  BY <1>1, <1>2 DEF DispBytes

-----------------------------------------------------------------------------
(* Operands.                                                               *)

\* The operand ow, whose mod byte is at `at' of w, is a function of the bytes up to its
\* end: it is ov where v has the same.
LocalTo(w, v, at, ow, ov) ==
  ow.len \in Nat \ {0} /\ (Same(w, v, at + ow.len) => ov = ow)

\* The lengths of the forms an operand can have.
LEMMA Lengths ==
  ASSUME NEW am, NEW reg, NEW d, NEW e
  PROVE  /\ Plain(am, reg).len = 1
         /\ OneDisp(am, reg, d).len = 1 + Len(d)
         /\ Deferred(OneDisp(am, reg, d)).len = 1 + Len(d)
         /\ TwoDisps(am, reg, d, e).len = 1 + Len(d) + Len(e)
  BY DEF Plain, OneDisp, TwoDisps, Deferred

\* mod[7:5] = 7: a function of the bytes behind the mod byte that it is long.
LEMMA Group7Local ==
  ASSUME NEW w, NEW v, NEW at \in Nat, NEW lo \in 0 .. 31, NEW k \in Nat
  PROVE  LocalTo(w, v, at, Group7(w, at, lo, k), Group7(v, at, lo, k))
<1> DEFINE n == DispBytes(lo)
           o(x) == Group7(x, at, lo, k)
           d(x, j) == Field(x, at + 1, j)
           f(x) == Field(x, at + 1, 4)
           e(x) == Field(x, at + 1 + n, n)
<1>0. SUFFICES /\ o(w).len \in Nat \ {0}
               /\ Same(w, v, at + o(w).len) => o(v) = o(w)
  BY DEF LocalTo
<1>1. n \in Nat  BY Displacements
<1>2. ASSUME NEW j \in Nat
      PROVE  Len(d(w, j)) = j /\ (Same(w, v, at + 1 + j) => d(v, j) = d(w, j))
  BY FieldLength, FieldLocal
<1>3. Len(e(w)) = n /\ (Same(w, v, at + 1 + n + n) => d(v, n) = d(w, n) /\ e(v) = e(w))
  <2>1. Same(w, v, at + 1 + n + n) => Same(w, v, at + 1 + n)  BY <1>1 DEF Same
  <2> QED  BY <1>1, <1>2, <2>1, FieldLength, FieldLocal
<1>12. Len(f(w)) = 4 /\ (Same(w, v, at + 5) => f(v) = f(w))
  <2>1. Len(f(w)) = 4  BY FieldLength
  <2>2. at + 1 \in Nat /\ at + 5 \in Nat /\ at + 1 + 4 <= at + 5  OBVIOUS
  <2> QED  BY <2>1, <2>2, FieldLocal
<1>4. CASE lo <= 15
  <2>1. \A x : o(x) = [Plain("AM_IMM_QUICK", 0) EXCEPT !.imm = <<lo>>]
    BY <1>4 DEF Group7, Plain, OneDisp
  <2>2. o(w).len = 1  BY <2>1 DEF Plain
  <2> HIDE DEF o
  <2> QED  BY <1>0, <2>1, <2>2
<1>5. CASE lo \in 16 .. 18
  <2>1. \A x : o(x) = OneDisp(PcDisp(n), 0, d(x, n))
    <3> SUFFICES ASSUME NEW x
                 PROVE  o(x) = OneDisp(PcDisp(n), 0, d(x, n))
      OBVIOUS
    <3>1. CASE lo = 16  BY <3>1 DEF Group7
    <3>2. CASE lo = 17  BY <3>2 DEF Group7
    <3>3. CASE lo = 18  BY <3>3 DEF Group7
    <3> QED  BY <1>5, <3>1, <3>2, <3>3
  <2> HIDE DEF n, o, d, e, f
  <2>2. Len(d(w, n)) = n  BY <1>1, <1>2
  <2>3. o(w).len = 1 + n  BY <2>1, <2>2, Lengths
  <2>4. at + o(w).len = at + 1 + n  BY <1>1, <2>3
  <2> QED  BY <1>0, <1>1, <1>2, <2>1, <2>3, <2>4
<1>6. CASE lo = 19
  <2>1. \A x : o(x) = OneDisp("AM_DIRECT_ADDR", 0, f(x))  BY <1>6 DEF Group7
  <2> HIDE DEF n, o, d, e, f
  <2>2. Len(f(w)) = 4 /\ (Same(w, v, at + 5) => f(v) = f(w))  BY <1>12
  <2>3. o(w).len = 5
    <3>1. o(w).len = 1 + Len(f(w))  BY <2>1, Lengths
    <3> QED  BY <2>2, <3>1
  <2>4. at + o(w).len = at + 5  BY <2>3
  <2> QED  BY <1>0, <2>1, <2>2, <2>3, <2>4
<1>7. CASE lo = 20
  <2>1. \A x : o(x) = OneDisp("AM_IMMEDIATE", 0, d(x, k))  BY <1>7 DEF Group7
  <2> HIDE DEF n, o, d, e, f
  <2>2. Len(d(w, k)) = k  BY <1>1, <1>2
  <2>3. o(w).len = 1 + k  BY <2>1, <2>2, Lengths
  <2>4. at + o(w).len = at + 1 + k  BY <1>1, <2>3
  <2> QED  BY <1>0, <1>1, <1>2, <2>1, <2>3, <2>4
<1>8. CASE lo \in 24 .. 26
  <2>1. \A x : o(x) = Deferred(OneDisp(PcDisp(n), 0, d(x, n)))
    <3> SUFFICES ASSUME NEW x
                 PROVE  o(x) = Deferred(OneDisp(PcDisp(n), 0, d(x, n)))
      OBVIOUS
    <3>1. CASE lo = 24  BY <3>1 DEF Group7
    <3>2. CASE lo = 25  BY <3>2 DEF Group7
    <3>3. CASE lo = 26  BY <3>3 DEF Group7
    <3> QED  BY <1>8, <3>1, <3>2, <3>3
  <2> HIDE DEF n, o, d, e, f
  <2>2. Len(d(w, n)) = n  BY <1>1, <1>2
  <2>3. o(w).len = 1 + n  BY <2>1, <2>2, Lengths
  <2>4. at + o(w).len = at + 1 + n  BY <1>1, <2>3
  <2> QED  BY <1>0, <1>1, <1>2, <2>1, <2>3, <2>4
<1>9. CASE lo = 27
  <2>1. \A x : o(x) = Deferred(OneDisp("AM_DIRECT_ADDR", 0, f(x)))  BY <1>9 DEF Group7
  <2> HIDE DEF n, o, d, e, f
  <2>2. Len(f(w)) = 4 /\ (Same(w, v, at + 5) => f(v) = f(w))  BY <1>12
  <2>3. o(w).len = 5
    <3>1. o(w).len = 1 + Len(f(w))  BY <2>1, Lengths
    <3> QED  BY <2>2, <3>1
  <2>4. at + o(w).len = at + 5  BY <2>3
  <2> QED  BY <1>0, <2>1, <2>2, <2>3, <2>4
<1>10. CASE lo \in 28 .. 30
  <2>1. \A x : o(x) = TwoDisps(PcDisp(n), 0, d(x, n), e(x))
    <3> SUFFICES ASSUME NEW x
                 PROVE  o(x) = TwoDisps(PcDisp(n), 0, d(x, n), e(x))
      OBVIOUS
    <3>1. CASE lo = 28  BY <3>1 DEF Group7
    <3>2. CASE lo = 29  BY <3>2 DEF Group7
    <3>3. CASE lo = 30  BY <3>3 DEF Group7
    <3> QED  BY <1>10, <3>1, <3>2, <3>3
  <2> HIDE DEF n, o, d, e, f
  <2>2. Len(d(w, n)) = n  BY <1>1, <1>2
  <2>3. o(w).len = 1 + n + n  BY <1>3, <2>1, <2>2, Lengths
  <2>4. at + o(w).len = at + 1 + n + n  BY <1>1, <2>3
  <2> QED  BY <1>0, <1>1, <1>3, <2>1, <2>3, <2>4
<1>11. CASE lo \in 21 .. 23 \/ lo = 31
  <2>1. \A x : o(x) = Plain("AM_ERROR", 0)  BY <1>11 DEF Group7
  <2> HIDE DEF o
  <2> QED  BY <1>0, <2>1, Lengths
<1> QED  BY <1>0, <1>4, <1>5, <1>6, <1>7, <1>8, <1>9, <1>10, <1>11

\* A mod byte with the fields hi and lo: the same.
LEMMA ModFormLocal ==
  ASSUME NEW w, NEW v, NEW at \in Nat, NEW m \in BOOLEAN, NEW hi \in 0 .. 7, NEW lo \in 0 .. 31,
         NEW k \in Nat
  PROVE  LocalTo(w, v, at, ModForm(w, at, m, hi, lo, k), ModForm(v, at, m, hi, lo, k))
<1> DEFINE n == DispBytes(hi)
           o(x) == ModForm(x, at, m, hi, lo, k)
           d(x) == Field(x, at + 1, n)
           e(x) == Field(x, at + 1 + n, n)
<1> SUFFICES LocalTo(w, v, at, o(w), o(v))
  OBVIOUS
<1>1. n \in Nat  BY Displacements
<1>2. Len(d(w)) = n /\ (Same(w, v, at + 1 + n) => d(v) = d(w))
  BY <1>1, FieldLength, FieldLocal
<1>3. Len(e(w)) = n /\ (Same(w, v, at + 1 + n + n) => d(v) = d(w) /\ e(v) = e(w))
  <2>1. Same(w, v, at + 1 + n + n) => Same(w, v, at + 1 + n)  BY <1>1 DEF Same
  <2> QED  BY <1>1, <1>2, <2>1, FieldLength, FieldLocal
<1>4. CASE m /\ hi \in 0 .. 2
  <2>1. \A x : o(x) = TwoDisps(RegDisp(n), lo, d(x), e(x))  BY <1>4 DEF ModForm
  <2> HIDE DEF n, o, d, e
  <2>2. o(w).len = 1 + n + n  BY <1>2, <1>3, <2>1, Lengths
  <2>3. at + o(w).len = at + 1 + n + n  BY <1>1, <2>2
  <2> QED  BY <1>1, <1>3, <2>1, <2>2, <2>3 DEF LocalTo
<1>5. CASE ~m /\ hi \in 0 .. 2
  <2>1. \A x : o(x) = OneDisp(RegDisp(n), lo, d(x))  BY <1>5 DEF ModForm
  <2> HIDE DEF n, o, d, e
  <2>2. o(w).len = 1 + n  BY <1>2, <2>1, Lengths
  <2>3. at + o(w).len = at + 1 + n  BY <1>1, <2>2
  <2> QED  BY <1>1, <1>2, <2>1, <2>2, <2>3 DEF LocalTo
<1>6. CASE ~m /\ hi \in 4 .. 6
  <2>1. \A x : o(x) = Deferred(OneDisp(RegDisp(n), lo, d(x)))  BY <1>6 DEF ModForm
  <2> HIDE DEF n, o, d, e
  <2>2. o(w).len = 1 + n  BY <1>2, <2>1, Lengths
  <2>3. at + o(w).len = at + 1 + n  BY <1>1, <2>2
  <2> QED  BY <1>1, <1>2, <2>1, <2>2, <2>3 DEF LocalTo
<1>7. CASE (m /\ hi \in 3 .. 7) \/ (~m /\ hi = 3)
  <2>1. \E am, reg : \A x : o(x) = Plain(am, reg)  BY <1>7 DEF ModForm
  <2> HIDE DEF o
  <2> QED  BY <2>1, Lengths DEF LocalTo
<1>8. CASE ~m /\ hi = 7
  <2> DEFINE g(x) == Group7(x, at, lo, k)
  <2>1. o(w) = g(w) /\ o(v) = g(v)  BY <1>8 DEF ModForm
  <2>2. LocalTo(w, v, at, g(w), g(v))  BY Group7Local
  <2> HIDE DEF o, g
  <2> QED  BY <2>1, <2>2 DEF LocalTo
<1>9. hi \in 0 .. 2 \/ hi = 3 \/ hi \in 4 .. 6 \/ hi = 7  OBVIOUS
<1>10. hi \in 0 .. 2 \/ hi \in 3 .. 7  OBVIOUS
<1> HIDE DEF o
<1>11. CASE m
  <2>1. CASE hi \in 0 .. 2  BY <1>4, <1>11, <2>1
  <2>2. CASE hi \in 3 .. 7  BY <1>7, <1>11, <2>2
  <2> QED  BY <1>10, <2>1, <2>2
<1>12. CASE ~m  BY <1>5, <1>6, <1>7, <1>8, <1>9, <1>12
<1> QED  BY <1>11, <1>12

\* The operand of a mod field: the same, mod byte and all.
LEMMA ModFieldLocal ==
  ASSUME NEW w, Window(w), NEW v, NEW at \in Nat, NEW m \in BOOLEAN, NEW k \in Nat
  PROVE  LocalTo(w, v, at, ModField(w, at, m, k), ModField(v, at, m, k))
<1> DEFINE b == At(w, at)
           o(x) == ModForm(x, at, m, b \div 32, b % 32, k)
<1>1. b \div 32 \in 0 .. 7 /\ b % 32 \in 0 .. 31  BY AtByte, ModByte
<1>2. LocalTo(w, v, at, o(w), o(v))  BY <1>1, ModFormLocal
<1>3. ModField(w, at, m, k) = o(w)  BY DEF ModField
<1>4. At(v, at) = b => ModField(v, at, m, k) = o(v)  BY DEF ModField
<1>5. ASSUME Same(w, v, at + o(w).len)
      PROVE  At(v, at) = b
  <2> HIDE DEF o
  <2>1. o(w).len \in Nat \ {0}  BY <1>2 DEF LocalTo
  <2> QED  BY <1>5, <2>1 DEF Same
<1> HIDE DEF o, b
<1> QED  BY <1>2, <1>3, <1>4, <1>5 DEF LocalTo

-----------------------------------------------------------------------------
(* The sizes of operands.                                                  *)

\* The operands of Format I are of one, two or four bytes.
LEMMA Fmt1Dims ==
  ASSUME NEW op \in Fmt1Ops, NEW d \in BOOLEAN
  PROVE  Fmt1ModDim(op, d) \in {1, 2, 4}
<1>1. CASE op \in OtherOps
  BY <1>1 DEF Fmt1ModDim, OtherSource, OtherDestination
<1>2. CASE op \notin OtherOps
  <2>1. PICK row \in AluRows, j \in 0 .. 5 : op = row + j
    BY <1>2 DEF Fmt1Ops, AluOps
  <2>2. row % 8 = 0 /\ row \in Nat  BY DEF AluRows
  <2>3. op % 8 = j /\ j \div 2 \in {0, 1, 2}  BY <2>1, <2>2
  <2>4. 2 ^ 0 = 1 /\ 2 ^ 1 = 2 /\ 2 ^ 2 = 4  OBVIOUS
  <2> QED  BY <1>2, <2>3, <2>4 DEF Fmt1ModDim
<1> QED  BY <1>1, <1>2

\* Those of the other formats too.
LEMMA OtherDims ==
  ASSUME NEW op, NEW subop
  PROVE  FpDim(op, subop) \in {2, 4} /\ Fmt3ImmBytes(op) \in {1, 2, 4}
  BY DEF FpDim, Fmt3ImmBytes

-----------------------------------------------------------------------------
(* The decoded instruction.                                                *)

\* The decoded instruction is a function of as many bytes as it is long.
DecodedBy(w, v, iw, iv) ==
  iw.len \in Nat \ {0} /\ (Same(w, v, iw.len) => iv = iw)

\* An instruction without operands of its own.
LEMMA ShortLocal ==
  ASSUME NEW w, NEW v
  PROVE  /\ DecodedBy(w, v, Short(At(w, 0)), Short(At(v, 0)))
         /\ DecodedBy(w, v, Inst("FMT_I", At(w, 0), 3, NoOperand, NoOperand, <<>>),
                            Inst("FMT_I", At(v, 0), 3, NoOperand, NoOperand, <<>>))
         /\ DecodedBy(w, v, Inst("FMT_VII", At(w, 0), 2, NoOperand, NoOperand, <<>>),
                            Inst("FMT_VII", At(v, 0), 2, NoOperand, NoOperand, <<>>))
  BY DEF DecodedBy, Short, Inst, Same

\* DBcc.
LEMMA DbccLocal ==
  ASSUME NEW w, NEW v
  PROVE  DecodedBy(w, v, DecodeDbcc(w), DecodeDbcc(v))
<1>1. DecodeDbcc(w).len = 4  BY DEF DecodeDbcc, Inst
<1>2. ASSUME Same(w, v, 4)
      PROVE  At(v, 0) = At(w, 0) /\ At(v, 1) = At(w, 1) /\ Field(v, 2, 2) = Field(w, 2, 2)
  <2>1. At(v, 0) = At(w, 0) /\ At(v, 1) = At(w, 1)  BY <1>2 DEF Same
  <2>2. 2 \in Nat /\ 4 \in Nat /\ 2 + 2 <= 4  OBVIOUS
  <2>3. Field(v, 2, 2) = Field(w, 2, 2)  BY <1>2, <2>2, FieldLocal
  <2> QED  BY <2>1, <2>3
<1> QED  BY <1>1, <1>2 DEF DecodedBy, DecodeDbcc

\* A branch with a displacement of n bytes.
LEMMA BranchLocal ==
  ASSUME NEW w, NEW v, NEW n \in {1, 2}
  PROVE  DecodedBy(w, v, DecodeBranch(w, n), DecodeBranch(v, n))
<1>1. DecodeBranch(w, n).len = 1 + n  BY DEF DecodeBranch, Inst
<1>2. ASSUME Same(w, v, 1 + n)
      PROVE  At(v, 0) = At(w, 0) /\ Field(v, 1, n) = Field(w, 1, n)
  <2>1. At(v, 0) = At(w, 0)  BY <1>2 DEF Same
  <2>2. 1 \in Nat /\ n \in Nat /\ 1 + n \in Nat /\ 1 + n <= 1 + n  OBVIOUS
  <2>3. Field(v, 1, n) = Field(w, 1, n)  BY <1>2, <2>2, FieldLocal
  <2> QED  BY <2>1, <2>3
<1> QED  BY <1>1, <1>2 DEF DecodedBy, DecodeBranch

\* Format III.
LEMMA Fmt3Local ==
  ASSUME NEW w, Window(w), NEW v
  PROVE  DecodedBy(w, v, DecodeFmt3(w), DecodeFmt3(v))
<1> DEFINE op == At(w, 0)
           m == Bit(op, 0)
           k == Fmt3ImmBytes(op)
           f(x) == ModField(x, 1, m, k)
<1>1. DecodeFmt3(w) = Inst("FMT_III", op, 1 + f(w).len, NoOperand, f(w), <<>>)
  BY DEF DecodeFmt3
<1>2. At(v, 0) = op => DecodeFmt3(v) = Inst("FMT_III", op, 1 + f(v).len, NoOperand, f(v), <<>>)
  BY DEF DecodeFmt3
<1>3. m \in BOOLEAN /\ k \in Nat /\ 1 \in Nat  BY OtherDims DEF Bit
<1> HIDE DEF m, k
<1>4. LocalTo(w, v, 1, f(w), f(v))  BY <1>3, ModFieldLocal
<1> HIDE DEF f
<1>5. DecodeFmt3(w).len = 1 + f(w).len /\ f(w).len \in Nat \ {0}
  BY <1>1, <1>4 DEF Inst, LocalTo
<1>6. ASSUME Same(w, v, 1 + f(w).len)
      PROVE  At(v, 0) = op /\ f(v) = f(w)
  BY <1>4, <1>5, <1>6 DEF LocalTo, Same
<1> HIDE DEF op
<1> QED  BY <1>1, <1>2, <1>5, <1>6 DEF DecodedBy

\* Format I.
LEMMA Fmt1Local ==
  ASSUME NEW w, Window(w), NEW v, At(w, 0) \in Fmt1Ops
  PROVE  DecodedBy(w, v, DecodeFmt1(w), DecodeFmt1(v))
<1> DEFINE op == At(w, 0)
           b == At(w, 1)
           d == Bit(b, 5)
           m == Bit(b, 6)
           k == Fmt1ModDim(op, d)
           f(x) == ModField(x, 2, m, k)
           reg == RegisterField(b % 32)
           i(x) == Inst("FMT_I", op, 2 + f(x).len, IF d THEN f(x) ELSE reg,
                        IF d THEN reg ELSE f(x), <<>>)
<1>1. DecodeFmt1(w) = i(w)  BY DEF DecodeFmt1
<1>2. At(v, 0) = op /\ At(v, 1) = b => DecodeFmt1(v) = i(v)  BY DEF DecodeFmt1
<1>3. m \in BOOLEAN /\ d \in BOOLEAN  BY DEF Bit
<1> HIDE DEF m, d
<1>4. k \in Nat  BY <1>3, Fmt1Dims
<1> HIDE DEF k
<1>5. LocalTo(w, v, 2, f(w), f(v))  BY <1>3, <1>4, ModFieldLocal
<1> HIDE DEF f
<1>6. f(w).len \in Nat \ {0} /\ i(w).len = 2 + f(w).len  BY <1>5 DEF Inst, LocalTo
<1>7. ASSUME Same(w, v, 2 + f(w).len)
      PROVE  At(v, 0) = op /\ At(v, 1) = b /\ f(v) = f(w)
  BY <1>5, <1>6, <1>7 DEF LocalTo, Same
<1>8. f(v) = f(w) => i(v) = i(w)  OBVIOUS
<1> HIDE DEF i, op, b
<1> QED  BY <1>1, <1>2, <1>6, <1>7, <1>8 DEF DecodedBy

\* Floating point: the second operand is found behind the first, wherever that ends.
LEMMA FpLocal ==
  ASSUME NEW w, Window(w), NEW v
  PROVE  DecodedBy(w, v, DecodeFp(w), DecodeFp(v))
<1> DEFINE op == At(w, 0)
           b == At(w, 1)
           m1 == Bit(b, 6)
           m2 == Bit(b, 5)
           k == FpDim(op, b % 32)
           f(x) == ModField(x, 2, m1, k)
           g(x, at) == ModField(x, at, m2, 4)
           i(x) == Inst("FMT_II", op, 2 + f(x).len + g(x, 2 + f(x).len).len, f(x),
                        g(x, 2 + f(x).len), <<>>)
<1>1. DecodeFp(w) = i(w)  BY DEF DecodeFp
<1>2. At(v, 0) = op /\ At(v, 1) = b => DecodeFp(v) = i(v)  BY DEF DecodeFp
<1>3. m1 \in BOOLEAN /\ m2 \in BOOLEAN /\ k \in Nat  BY OtherDims DEF Bit
<1> HIDE DEF m1, m2, k
<1>4. LocalTo(w, v, 2, f(w), f(v))  BY <1>3, ModFieldLocal
<1> DEFINE at == 2 + f(w).len
<1>5. f(w).len \in Nat \ {0} /\ at \in Nat  BY <1>4 DEF LocalTo
<1>6. LocalTo(w, v, at, g(w, at), g(v, at))
  <2> HIDE DEF f, at
  <2> QED  BY <1>3, <1>5, ModFieldLocal
<1>7. f(v) = f(w) /\ g(v, at) = g(w, at) => i(v) = i(w)  OBVIOUS
<1> HIDE DEF f, g
<1>8. g(w, at).len \in Nat \ {0} /\ i(w).len = at + g(w, at).len
  BY <1>6 DEF Inst, LocalTo
<1>9. ASSUME Same(w, v, at + g(w, at).len)
      PROVE  At(v, 0) = op /\ At(v, 1) = b /\ f(v) = f(w) /\ g(v, at) = g(w, at)
  <2>1. Same(w, v, 2 + f(w).len)  BY <1>5, <1>8, <1>9 DEF Same
  <2>2. At(v, 0) = op /\ At(v, 1) = b  BY <1>5, <1>8, <1>9 DEF Same
  <2> QED  BY <1>4, <1>6, <1>9, <2>1, <2>2 DEF LocalTo
<1>10. i(w).len \in Nat \ {0}  BY <1>5, <1>8
<1> HIDE DEF i, op, b, at
<1> QED  BY <1>1, <1>2, <1>7, <1>8, <1>9, <1>10 DEF DecodedBy

\* No opcode is in two of the formats: in decoded, the order of the cases does not matter.
LEMMA FormatsDisjoint ==
  /\ \A op \in Fmt1Ops : op \in 0 .. 63 \cup {64, 66, 68, 71, 74} \cup 80 .. 85 \cup 128 .. 189
  /\ \A op \in Fmt3Ops : op \in 208 .. 255
  /\ FpOps = {92, 95} /\ OP_BSR = 72 /\ StringOps = {88, 89, 90, 91, 93}
<1>1. ASSUME NEW op \in Fmt1Ops
      PROVE  op \in 0 .. 63 \cup {64, 66, 68, 71, 74} \cup 80 .. 85 \cup 128 .. 189
  <2>1. CASE op \in OtherOps  BY <2>1 DEF OtherOps
  <2>2. CASE op \in AluOps
    <3>1. PICK row \in AluRows, k \in 0 .. 5 : op = row + k  BY <2>2 DEF AluOps
    <3>2. row \in {128, 136, 144, 152, 160, 168, 176, 184, 80, 56}  BY DEF AluRows
    <3> QED  BY <3>1, <3>2
  <2> QED  BY <2>1, <2>2 DEF Fmt1Ops
<1>2. \A op \in Fmt3Ops : op \in 208 .. 255  BY DEF Fmt3Ops
<1> QED  BY <1>1, <1>2 DEF FpOps, OP_BSR, StringOps

\* So for every instruction: decoded chooses the format by byte 0 alone.
LEMMA DecodedLocal ==
  ASSUME NEW w, Window(w), NEW v
  PROVE  DecodedBy(w, v, decoded(w), decoded(v))
<1> DEFINE op == At(w, 0)
<1>1. ASSUME NEW iw, NEW iv, DecodedBy(w, v, iw, iv), decoded(w) = iw,
             At(v, 0) = op => decoded(v) = iv
      PROVE  DecodedBy(w, v, decoded(w), decoded(v))
  <2>1. Same(w, v, iw.len) => At(v, 0) = op  BY <1>1 DEF DecodedBy, Same
  <2> QED  BY <1>1, <2>1 DEF DecodedBy
<1>2. op \in 0 .. 255  BY AtByte
<1>3. CASE op \in {198, 199}
  <2>0. /\ op \notin 96 .. 111 /\ op \notin 112 .. 127 /\ op # OP_BSR /\ op \notin FpOps
        /\ op \notin Fmt1Ops /\ op \notin Fmt3Ops /\ op \notin (128 .. 191) \ Fmt1Ops /\ op \notin StringOps
    BY <1>3, FormatsDisjoint
  <2>1. decoded(w) = DecodeDbcc(w) /\ (At(v, 0) = op => decoded(v) = DecodeDbcc(v))
    BY <1>3, <2>0 DEF decoded
  <2> QED  BY <1>1, <2>1, DbccLocal
<1>4. CASE op \in 96 .. 111
  <2>0. /\ op \notin {198, 199} /\ op \notin 112 .. 127 /\ op # OP_BSR /\ op \notin FpOps
        /\ op \notin Fmt1Ops /\ op \notin Fmt3Ops /\ op \notin (128 .. 191) \ Fmt1Ops /\ op \notin StringOps
    BY <1>4, FormatsDisjoint
  <2>1. ASSUME NEW x, At(x, 0) = op
        PROVE  decoded(x) = DecodeBranch(x, 1)
    <3>1. At(x, 0) \in 96 .. 111  BY <1>4, <2>1
    <3> HIDE DEF op
    <3> QED  BY <2>0, <2>1, <3>1 DEF decoded
  <2>2. DecodedBy(w, v, DecodeBranch(w, 1), DecodeBranch(v, 1))  BY BranchLocal
  <2> QED  BY <1>1, <2>1, <2>2
<1>5. CASE op \in 112 .. 127 \/ op = OP_BSR
  <2>0. /\ op \notin {198, 199} /\ op \notin 96 .. 111 /\ op \notin FpOps /\ op \notin Fmt1Ops
        /\ op \notin Fmt3Ops /\ op \notin (128 .. 191) \ Fmt1Ops /\ op \notin StringOps
    BY <1>5, FormatsDisjoint
  <2>1. ASSUME NEW x, At(x, 0) = op
        PROVE  decoded(x) = DecodeBranch(x, 2)
    <3>1. At(x, 0) \in 112 .. 127 \/ At(x, 0) = OP_BSR  BY <1>5, <2>1
    <3> HIDE DEF op
    <3> QED  BY <2>0, <2>1, <3>1 DEF decoded
  <2>2. DecodedBy(w, v, DecodeBranch(w, 2), DecodeBranch(v, 2))  BY BranchLocal
  <2> QED  BY <1>1, <2>1, <2>2
<1>6. CASE op \in FpOps
  <2>0. /\ op \notin {198, 199} /\ op \notin 96 .. 111 /\ op \notin 112 .. 127 /\ op # OP_BSR
        /\ op \notin Fmt1Ops /\ op \notin Fmt3Ops /\ op \notin (128 .. 191) \ Fmt1Ops /\ op \notin StringOps
    BY <1>6, FormatsDisjoint
  <2>1. decoded(w) = DecodeFp(w) /\ (At(v, 0) = op => decoded(v) = DecodeFp(v))
    BY <1>6, <2>0 DEF decoded
  <2> QED  BY <1>1, <2>1, FpLocal
<1>7. CASE op \in Fmt1Ops
  <2>0. /\ op \notin {198, 199} /\ op \notin 96 .. 111 /\ op \notin 112 .. 127 /\ op # OP_BSR
        /\ op \notin FpOps /\ op \notin Fmt3Ops /\ op \notin (128 .. 191) \ Fmt1Ops /\ op \notin StringOps
    BY <1>7, FormatsDisjoint
  <2>1. decoded(w) = DecodeFmt1(w) /\ (At(v, 0) = op => decoded(v) = DecodeFmt1(v))
    BY <1>7, <2>0 DEF decoded
  <2> QED  BY <1>1, <1>7, <2>1, Fmt1Local
<1>8. CASE op \in Fmt3Ops
  <2>0. /\ op \notin {198, 199} /\ op \notin 96 .. 111 /\ op \notin 112 .. 127 /\ op # OP_BSR
        /\ op \notin FpOps /\ op \notin Fmt1Ops /\ op \notin (128 .. 191) \ Fmt1Ops /\ op \notin StringOps
    BY <1>8, FormatsDisjoint
  <2>1. decoded(w) = DecodeFmt3(w) /\ (At(v, 0) = op => decoded(v) = DecodeFmt3(v))
    BY <1>8, <2>0 DEF decoded
  <2> QED  BY <1>1, <2>1, Fmt3Local
<1>9. CASE op \in (128 .. 191) \ Fmt1Ops
  <2> DEFINE i(x) == Inst("FMT_I", At(x, 0), 3, NoOperand, NoOperand, <<>>)
  <2>0. /\ op \notin {198, 199} /\ op \notin 96 .. 111 /\ op \notin 112 .. 127 /\ op # OP_BSR
        /\ op \notin FpOps /\ op \notin Fmt1Ops /\ op \notin Fmt3Ops /\ op \notin StringOps
    BY <1>9, FormatsDisjoint
  <2>1. ASSUME NEW x, At(x, 0) = op
        PROVE  decoded(x) = i(x)
    <3>1. At(x, 0) \in (128 .. 191) \ Fmt1Ops  BY <1>9, <2>1
    <3> HIDE DEF op
    <3> QED  BY <2>0, <2>1, <3>1 DEF decoded
  <2>2. DecodedBy(w, v, i(w), i(v))  BY ShortLocal
  <2> HIDE DEF i
  <2> QED  BY <1>1, <2>1, <2>2
<1>10. CASE op \in StringOps
  <2> DEFINE i(x) == Inst("FMT_VII", At(x, 0), 2, NoOperand, NoOperand, <<>>)
  <2>0. /\ op \notin {198, 199} /\ op \notin 96 .. 111 /\ op \notin 112 .. 127 /\ op # OP_BSR
        /\ op \notin FpOps /\ op \notin Fmt1Ops /\ op \notin Fmt3Ops /\ op \notin (128 .. 191) \ Fmt1Ops
    BY <1>10, FormatsDisjoint
  <2>1. decoded(w) = i(w) /\ (At(v, 0) = op => decoded(v) = i(v))
    BY <1>10, <2>0 DEF decoded
  <2>2. DecodedBy(w, v, i(w), i(v))  BY ShortLocal
  <2> HIDE DEF i
  <2> QED  BY <1>1, <2>1, <2>2
<1>11. CASE ~(\/ op \in {198, 199} \/ op \in 96 .. 127 \/ op = OP_BSR \/ op \in FpOps
              \/ op \in Fmt1Ops \/ op \in Fmt3Ops \/ op \in 128 .. 191 \/ op \in StringOps)
  <2> DEFINE i(x) == Short(At(x, 0))
  <2>1. decoded(w) = i(w) /\ (At(v, 0) = op => decoded(v) = i(v))
    BY <1>11, FormatsDisjoint DEF decoded
  <2>2. DecodedBy(w, v, i(w), i(v))  BY ShortLocal
  <2> HIDE DEF i
  <2> QED  BY <1>1, <2>1, <2>2
<1> HIDE DEF op
<1> QED  BY <1>2, <1>3, <1>4, <1>5, <1>6, <1>7, <1>8, <1>9, <1>10, <1>11

\* Once valid, always valid: with more bytes behind it, the instruction is the same.
LEMMA ValidHeld ==
  ASSUME NEW w, Window(w), NEW v, NEW c \in Nat, NEW d \in Nat, c <= d,
         Same(w, v, c), decode_valid(w, c)
  PROVE  decoded(v) = decoded(w) /\ decode_valid(v, d) /\ decoded(w).len \in 1 .. c
<1>1. DecodedBy(w, v, decoded(w), decoded(v))  BY DecodedLocal
<1>2. c >= decoded(w).len  BY DEF decode_valid
<1>3. decoded(w).len \in 1 .. c  BY <1>1, <1>2 DEF DecodedBy
<1>4. Same(w, v, decoded(w).len)  BY <1>3 DEF Same
<1>5. decoded(v) = decoded(w)  BY <1>1, <1>4 DEF DecodedBy
<1>6. At(v, 0) = At(w, 0)  BY <1>3 DEF Same
<1>7. c >= 2 => At(v, 1) = At(w, 1)  BY DEF Same
<1>8. At(w, 0) \in FpOps => d >= 2 /\ FpKnown(At(v, 0), At(v, 1) % 32)
  BY <1>6, <1>7 DEF decode_valid
<1>9. At(w, 0) \in Fmt1Ops => d >= 2 /\ ~Bit(At(v, 1), 7)
  BY <1>6, <1>7 DEF decode_valid
<1>10. d >= decoded(v).len  BY <1>2, <1>3, <1>5
<1> QED  BY <1>3, <1>5, <1>6, <1>8, <1>9, <1>10 DEF decode_valid

-----------------------------------------------------------------------------
(* The window.                                                             *)

\* Memory is made of bytes.
LEMMA ProgramBytes ==
  ASSUME NEW h \in Seq(0 .. 255), NEW i \in 0 .. FETCH_WINDOW - 1
  PROVE  program(h)[i] \in 0 .. 255
<1>1. FETCH_WINDOW \in Nat \ {0}  BY DecodeWindowAssumption
<1>2. i \in 0 .. FETCH_WINDOW + 3 /\ i \in Nat  BY <1>1
<1>3. i < Len(h) => i + 1 \in 1 .. Len(h)  BY <1>2
<1>4. i < Len(h) => h[i + 1] \in 0 .. 255
  <2> DEFINE j == i + 1
  <2>1. i < Len(h) => j \in 1 .. Len(h)  BY <1>3
  <2> HIDE DEF j
  <2>2. i < Len(h) => h[j] \in 0 .. 255  BY <2>1, ElementOfSeq
  <2> QED  BY <2>2 DEF j
<1>5. (160 + i) % 256 \in 0 .. 255  BY <1>2
<1> QED  BY <1>2, <1>4, <1>5 DEF program

\* The bytes that have arrived are those of memory, and what has been latched is what the
\* full window decodes to.
WindowInv ==
  /\ WindowOK
  /\ Same(window, Whole, count)
  /\ state = "ST_EXECUTE" =>
       /\ decode_valid(Whole, FETCH_WINDOW)
       /\ inst_r = decoded(Whole)

\* Bytes arrive: the types and the bytes of memory.
LEMMA Arrival ==
  ASSUME WindowInv, NEW n \in Pushes, Arrive(n)
  PROVE  WindowOK' /\ Same(window, window', count) /\ Same(window', Whole, count') /\ count < count'
<1>1. FETCH_WINDOW \in Nat \ {0} /\ n \in Nat \ {0}  BY DecodeWindowAssumption
<1> DEFINE upto == IF count + n > FETCH_WINDOW THEN FETCH_WINDOW ELSE count + n
<1>2. /\ count < FETCH_WINDOW /\ count' = upto
      /\ window' = [i \in DOMAIN window |->
                      IF count <= i /\ i < upto THEN program(head)[i] ELSE window[i]]
      /\ head' = head /\ state' = state /\ inst_r' = inst_r
  BY DEF Arrive
<1>3. /\ head \in Seq(0 .. 255) /\ window \in [0 .. FETCH_WINDOW - 1 -> 0 .. 255]
      /\ count \in 0 .. FETCH_WINDOW /\ state \in {"ST_DECODE", "ST_EXECUTE"}
      /\ state = "ST_EXECUTE" => inst_r.len \in 1 .. count
  BY DEF WindowInv, WindowOK
<1>4. upto \in 0 .. FETCH_WINDOW /\ count < upto  BY <1>1, <1>2, <1>3
<1> HIDE DEF upto
<1>5. window' \in [0 .. FETCH_WINDOW - 1 -> 0 .. 255]
  <2>1. \A i \in 0 .. FETCH_WINDOW - 1 : program(head)[i] \in 0 .. 255
    BY <1>3, ProgramBytes
  <2> QED  BY <1>2, <1>3, <2>1
<1>6. WindowOK'
  <2>1. state = "ST_EXECUTE" => inst_r.len \in 1 .. upto  BY <1>1, <1>3, <1>4
  <2> QED  BY <1>2, <1>3, <1>4, <1>5, <2>1 DEF WindowOK
<1>7. \A i \in 0 .. FETCH_WINDOW - 1 : At(window, i) = window[i] /\ At(window', i) = window'[i]
  BY <1>3, <1>5 DEF At
<1>8. Same(window, window', count)
  <2> SUFFICES ASSUME NEW i \in 0 .. count - 1
               PROVE  At(window, i) = At(window', i)
    BY DEF Same
  <2>1. i \in 0 .. FETCH_WINDOW - 1 /\ ~(count <= i)  BY <1>1, <1>3
  <2> QED  BY <1>2, <1>3, <1>7, <2>1
<1>9. Same(window', Whole, count')
  <2> SUFFICES ASSUME NEW i \in 0 .. upto - 1
               PROVE  At(window', i) = At(Whole, i)
    BY <1>2 DEF Same
  <2>1. i \in 0 .. FETCH_WINDOW - 1  BY <1>1, <1>4
  <2>2. At(Whole, i) = program(head)[i]  BY <2>1 DEF Whole, At
  <2>3. CASE count <= i
    <3>1. i < upto  BY <1>4
    <3> QED  BY <1>2, <1>3, <1>7, <2>1, <2>2, <2>3, <3>1
  <2>4. CASE ~(count <= i)
    <3>1. i \in 0 .. count - 1  BY <1>3, <2>1, <2>4
    <3>2. At(window, i) = At(Whole, i)  BY <3>1 DEF WindowInv, Same
    <3> QED  BY <1>2, <1>3, <1>7, <2>1, <2>4, <3>2
  <2> QED  BY <2>3, <2>4
<1> QED  BY <1>2, <1>4, <1>6, <1>8, <1>9

\* The windows the buffer begins with are of bytes.
LEMMA StaleTypes ==
  ASSUME NEW w \in StaleWindows
  PROVE  w \in [0 .. FETCH_WINDOW - 1 -> 0 .. 255]
<1>1. PICK s \in StaleBytes : w = [i \in 0 .. FETCH_WINDOW - 1 |-> s]  BY DEF StaleWindows
<1> QED  BY <1>1, DecodeWindowAssumption

\* A window of the type is one of bytes.
LEMMA TypeWindow ==
  ASSUME NEW w \in [0 .. FETCH_WINDOW - 1 -> 0 .. 255]
  PROVE  Window(w)
  BY DecodeWindowAssumption DEF Window

\* The invariant of the window.
LEMMA WindowInvariance == WindowSpec => []WindowInv
<1>0. FETCH_WINDOW \in Nat \ {0}  BY DecodeWindowAssumption
<1>1. WindowInit => WindowInv
  <2> SUFFICES ASSUME WindowInit
               PROVE  WindowInv
    OBVIOUS
  <2>1. head \in Seq(0 .. 255)  BY DecodeWindowAssumption DEF WindowInit
  <2>2. window \in [0 .. FETCH_WINDOW - 1 -> 0 .. 255]  BY StaleTypes DEF WindowInit
  <2>3. WindowOK  BY <1>0, <2>1, <2>2 DEF WindowInit, WindowOK
  <2>4. Same(window, Whole, count)  BY DEF WindowInit, Same
  <2> QED  BY <2>3, <2>4 DEF WindowInv, WindowInit
<1>2. WindowInv /\ [WindowNext]_windowVars => WindowInv'
  <2> SUFFICES ASSUME WindowInv, [WindowNext]_windowVars
               PROVE  WindowInv'
    OBVIOUS
  <2>1. CASE Latch
    <3>1. /\ decode_valid(window, count) /\ inst_r' = decoded(window) /\ state' = "ST_EXECUTE"
          /\ head' = head /\ window' = window /\ count' = count
      BY <2>1 DEF Latch
    <3>2. Window(window) /\ count \in Nat /\ FETCH_WINDOW \in Nat /\ count <= FETCH_WINDOW
      BY <1>0, TypeWindow DEF WindowInv, WindowOK
    <3>3. /\ decoded(Whole) = decoded(window) /\ decode_valid(Whole, FETCH_WINDOW)
          /\ decoded(window).len \in 1 .. count
      BY <3>1, <3>2, ValidHeld DEF WindowInv
    <3>4. Whole' = Whole  BY <3>1 DEF Whole, program
    <3>5. WindowOK'  BY <3>1, <3>3 DEF WindowInv, WindowOK
    <3>6. Same(window, Whole, count)'  BY <3>1, <3>4 DEF WindowInv
    <3> QED  BY <3>1, <3>3, <3>4, <3>5, <3>6 DEF WindowInv
  <2>2. CASE FlushWindow
    <3>1. /\ state' = "ST_DECODE" /\ count' = 0 /\ window' \in StaleWindows /\ head' = head
      BY <2>2 DEF FlushWindow
    <3>2. WindowOK'  BY <1>0, <3>1, StaleTypes DEF WindowInv, WindowOK
    <3>3. Same(window, Whole, count)'  BY <3>1 DEF Same
    <3> QED  BY <3>1, <3>2, <3>3 DEF WindowInv
  <2>3. ASSUME NEW n \in Pushes, Arrive(n)
        PROVE  WindowInv'
    <3>1. WindowOK' /\ Same(window', Whole, count')  BY <2>3, Arrival
    <3>2. head' = head /\ state' = state /\ inst_r' = inst_r  BY <2>3 DEF Arrive
    <3>3. Whole' = Whole  BY <3>2 DEF Whole, program
    <3> QED  BY <3>1, <3>2, <3>3 DEF WindowInv
  <2>4. CASE Wait \/ UNCHANGED windowVars
    <3>1. UNCHANGED windowVars  BY <2>4 DEF Wait
    <3>2. Whole' = Whole  BY <3>1 DEF windowVars, Whole, program
    <3> QED  BY <3>1, <3>2 DEF windowVars, WindowInv, WindowOK
  <2> QED  BY <2>1, <2>2, <2>3, <2>4 DEF WindowNext
<1> QED  BY <1>1, <1>2, PTL DEF WindowSpec

\* The window holds bytes, its count never exceeds it, and an instruction is latched only
\* when all of it is there (v60_decode.sv decode_valid).
THEOREM WindowTypeCorrect == WindowSpec => []WindowOK
<1>1. WindowInv => WindowOK  BY DEF WindowInv
<1> QED  BY <1>1, WindowInvariance, PTL

\* An instruction that has been said to be complete stays what it is while bytes arrive
\* behind it (v60_decode.sv decode_valid), for every opcode and operand.
THEOREM StaysDecoded == WindowSpec => DecodedHeld
<1>1. WindowInv /\ [WindowNext]_windowVars =>
        [count' > count /\ decode_valid(window, count) =>
           /\ decode_valid(window', count')
           /\ decoded(window') = decoded(window)]_windowVars
  <2> SUFFICES ASSUME WindowInv, WindowNext, count' > count, decode_valid(window, count)
               PROVE  decode_valid(window', count') /\ decoded(window') = decoded(window)
    OBVIOUS
  <2>1. PICK n \in Pushes : Arrive(n)
    <3>1. ~Latch /\ ~Wait /\ ~FlushWindow  BY DEF Latch, Wait, FlushWindow, windowVars, WindowInv, WindowOK
    <3> QED  BY <3>1 DEF WindowNext
  <2>2. Same(window, window', count) /\ WindowOK'  BY <2>1, Arrival
  <2>3. Window(window) /\ count \in Nat /\ count' \in Nat /\ count <= count'
    BY <2>2, TypeWindow DEF WindowInv, WindowOK
  <2> QED  BY <2>2, <2>3, ValidHeld
<1> QED  BY <1>1, WindowInvariance, PTL DEF WindowSpec, DecodedHeld

\* What is latched is the reference's instruction, however its bytes arrive and whatever
\* is behind them, if the decoder agrees with the reference on a full window
\* (v60_control.sv ST_DECODE): stale bytes and partly filled windows add nothing to that.
THEOREM LatchedLikeReference == WindowSpec => ([]WholeLikeReference => []LikeReference)
<1>1. WindowInv /\ WholeLikeReference => LikeReference
  BY DEF WindowInv, WholeLikeReference, LikeReference
<1> QED  BY <1>1, WindowInvariance, PTL
=============================================================================
