---------------------------- MODULE MemoryProofs ----------------------------
(***************************************************************************)
(* The bus interface of the V60 and the memory behind it are one atomic    *)
(* memory, for every address space, every set of bytes and every sequence  *)
(* of requests that the 16-bit bus performs as a whole (Aligned).          *)
(*                                                                         *)
(* A cell of memory is known by its offset from the requested address, so  *)
(* that the wrap of the address space and the lanes of the bus show in the *)
(* first lemmas only.  The inductive invariant says which bytes of the     *)
(* request are in memory, or in the accumulator, in each state of the      *)
(* transfer.                                                               *)
(***************************************************************************)
EXTENDS MemorySystem, TLAPS

\* The requests the 16-bit bus performs in cycles of its own width.
Aligned ==
  /\ BUS_BYTES = 2
  /\ \A r \in CoreRequests :
       r.addr % 2 = 1 => r.size = "SZ_BYTE" \/ (r.size = "SZ_HALF" /\ r.type = "BUS_READ")

-----------------------------------------------------------------------------
(* Addresses.                                                              *)

\* How far location b lies above the address a.
Offset(b, a) == (b + ADDR_SPACE - (a % ADDR_SPACE)) % ADDR_SPACE

LEMMA Space ==
  ASSUME BUS_BYTES = 2
  PROVE  ADDR_SPACE \in Nat /\ ADDR_SPACE >= 4 /\ ADDR_SPACE % 2 = 0
  BY BusAssumption

LEMMA WrapOnce ==
  ASSUME NEW N \in Nat \ {0}, NEW x \in Nat, x < 2 * N
  PROVE  /\ x % N = IF x < N THEN x ELSE x - N
         /\ x % N \in 0 .. N - 1
  BY SMTT(20)

LEMMA Remainder ==
  ASSUME NEW N \in Nat \ {0}, NEW q \in Nat, NEW r \in 0 .. N - 1
  PROVE  (N * q + r) % N = r
  BY SMTT(30)

\* A sum may be reduced before or after it is formed.
LEMMA Reduced ==
  ASSUME NEW N \in Nat \ {0}, NEW a \in Nat, NEW k \in Nat, k < N
  PROVE  (a + k) % N = IF (a % N) + k < N THEN (a % N) + k ELSE (a % N) + k - N
<1> DEFINE q == a \div N
           r == a % N
<1>1. q \in Nat /\ r \in 0 .. N - 1 /\ a = N * q + r
  BY SMTT(20)
<1>2. ASSUME r + k < N PROVE (a + k) % N = r + k
  BY <1>1, <1>2, SMTT(30)
<1>3. ASSUME r + k >= N PROVE (a + k) % N = r + k - N
  <2>1. a + k = N * (q + 1) + (r + k - N) /\ r + k - N \in 0 .. N - 1
    BY <1>1, <1>3
  <2>2. q + 1 \in Nat
    BY <1>1
  <2> QED BY ONLY N \in Nat \ {0}, <2>1, <2>2, Remainder, Zenon
<1>4. r + k < N \/ r + k >= N
  BY <1>1
<1> QED BY <1>2, <1>3, <1>4

\* The parity of an address survives the reduction to an even address space.
LEMMA Parity ==
  ASSUME NEW N \in Nat \ {0}, N % 2 = 0, NEW a \in Nat
  PROVE  (a % N) % 2 = a % 2
<1> DEFINE q == a \div N
           r == a % N
<1>1. q \in Nat /\ r \in 0 .. N - 1 /\ a = N * q + r
  BY SMTT(20)
<1>2. PICK h \in Nat : N = 2 * h
  BY SMTT(20)
<1>3. a = 2 * (h * q) + r
  BY <1>1, <1>2, SMTT(20)
<1>4. h * q \in Nat
  BY <1>1, <1>2
<1> QED BY <1>1, <1>3, <1>4

\* The locations of a request, seen from its address.
LEMMA Located ==
  ASSUME BUS_BYTES = 2, NEW a \in Nat, NEW k \in 0 .. 3
  PROVE  /\ (a + k) % ADDR_SPACE \in Addr
         /\ Offset((a + k) % ADDR_SPACE, a) = k
<1> DEFINE r == a % ADDR_SPACE
<1>1. ADDR_SPACE \in Nat \ {0} /\ ADDR_SPACE >= 4 /\ r \in 0 .. ADDR_SPACE - 1
  BY Space, SMTT(20)
<1>2. (a + k) % ADDR_SPACE = IF r + k < ADDR_SPACE THEN r + k ELSE r + k - ADDR_SPACE
  <2>1. k \in Nat /\ k < ADDR_SPACE
    BY <1>1
  <2> QED BY ONLY <1>1, <2>1, a \in Nat, Reduced, Zenon
<1>3. (a + k) % ADDR_SPACE \in Addr
  BY <1>1, <1>2 DEF Addr
<1> HIDE DEF r
<1>4. ((a + k) % ADDR_SPACE) + ADDR_SPACE - r \in {k, k + ADDR_SPACE}
  BY <1>1, <1>2
<1>5. \A x \in {k, k + ADDR_SPACE} : x % ADDR_SPACE = k
  BY <1>1, WrapOnce
<1> QED BY <1>3, <1>4, <1>5 DEF r, Offset

\* The addresses of the bus cycles.
LEMMA Cycles ==
  ASSUME BUS_BYTES = 2, NEW a \in Nat
  PROVE  /\ a % 2 = (a % ADDR_SPACE) % 2
         /\ FirstAddr(a) = (a % ADDR_SPACE) - (a % 2)
         /\ SecondAddr(a) = IF FirstAddr(a) + 2 < ADDR_SPACE THEN FirstAddr(a) + 2 ELSE 0
<1> DEFINE S == ADDR_SPACE
           r == a % S
<1>1. S \in Nat \ {0} /\ S >= 4 /\ S % 2 = 0 /\ r \in 0 .. S - 1
  BY Space, SMTT(20)
<1>2. r % 2 = a % 2
  BY <1>1, Parity
<1>3. a % 2 \in {0, 1} /\ r - (a % 2) \in 0 .. S - 1
  BY <1>1, <1>2
<1>4. a - (a % 2) \in Nat /\ a = (a - (a % 2)) + (a % 2)
  BY <1>3
<1>5. r = IF ((a - (a % 2)) % S) + (a % 2) < S THEN ((a - (a % 2)) % S) + (a % 2)
                                               ELSE ((a - (a % 2)) % S) + (a % 2) - S
  <2>1. a % 2 \in Nat /\ a % 2 < S
    BY <1>1, <1>3
  <2>2. (a - (a % 2) + (a % 2)) % S = r
    BY <1>4
  <2> QED BY ONLY <1>1, <1>4, <2>1, <2>2, Reduced, Zenon
<1>6. ((a - (a % 2)) % S) % 2 = (a - (a % 2)) % 2 /\ (a - (a % 2)) % S \in 0 .. S - 1
  BY <1>1, <1>4, Parity
<1>7. (a - (a % 2)) % 2 = 0
  BY <1>4
<1> HIDE DEF S, r
<1>8. (a - (a % 2)) % S = r - (a % 2)
  BY <1>1, <1>3, <1>5, <1>6, <1>7
<1>9. FirstAddr(a) = r - (a % 2) /\ FirstAddr(a) \in 0 .. S - 1 /\ FirstAddr(a) % 2 = 0
  BY <1>3, <1>6, <1>7, <1>8 DEF FirstAddr, S
<1>10. SecondAddr(a) = IF FirstAddr(a) + 2 < S THEN FirstAddr(a) + 2 ELSE FirstAddr(a) + 2 - S
  <2>1. FirstAddr(a) + 2 \in Nat /\ FirstAddr(a) + 2 < 2 * S
    BY <1>1, <1>9
  <2>2. SecondAddr(a) = (FirstAddr(a) + 2) % S
    BY DEF SecondAddr, S
  <2>3. \A x \in Nat : x < 2 * S => x % S = IF x < S THEN x ELSE x - S
    BY <1>1, WrapOnce
  <2> QED BY <1>1, <1>9, <2>1, <2>2, <2>3
<1>11. FirstAddr(a) + 2 < S \/ FirstAddr(a) + 2 = S
  BY <1>1, <1>9
<1> QED BY <1>1, <1>2, <1>9, <1>10, <1>11 DEF S, r

-----------------------------------------------------------------------------
(* What the bus cycles of an address read and write.                       *)

\* Where the lanes of the two cycles lie.
LEMMA Lanes ==
  ASSUME BUS_BYTES = 2, NEW a \in Nat
  PROVE  /\ FirstAddr(a) \in Addr /\ SecondAddr(a) \in Addr
         /\ a % 2 = 0 => /\ \A l \in 0 .. 1 :
                              /\ (FirstAddr(a) + l) % ADDR_SPACE = (a + l) % ADDR_SPACE
                              /\ (SecondAddr(a) + l) % ADDR_SPACE = (a + (2 + l)) % ADDR_SPACE
         /\ a % 2 = 1 => /\ (FirstAddr(a) + 1) % ADDR_SPACE = a % ADDR_SPACE
                         /\ SecondAddr(a) % ADDR_SPACE = (a + 1) % ADDR_SPACE
<1> DEFINE S == ADDR_SPACE
           r == a % S
           P == FirstAddr(a)
           Q == SecondAddr(a)
<1>1. S \in Nat \ {0} /\ S >= 4 /\ S % 2 = 0 /\ r \in 0 .. S - 1
  BY Space, SMTT(20)
<1>2. /\ a % 2 = r % 2 /\ P = r - (a % 2)
      /\ Q = IF P + 2 < S THEN P + 2 ELSE 0
  BY Cycles
<1>3. \A k \in 0 .. 3 : (a + k) % S = IF r + k < S THEN r + k ELSE r + k - S
  <2> SUFFICES ASSUME NEW k \in 0 .. 3
               PROVE  (a + k) % S = IF r + k < S THEN r + k ELSE r + k - S
    OBVIOUS
  <2>1. k \in Nat /\ k < S
    BY <1>1
  <2> QED BY ONLY <1>1, <2>1, a \in Nat, Reduced, Zenon
<1> HIDE DEF S, r, P, Q
<1>4. /\ a % 2 \in {0, 1} /\ P \in 0 .. S - 1 /\ Q \in 0 .. S - 1
      /\ P % 2 = 0 /\ P + 2 <= S
  BY <1>1, <1>2
<1>5. \A x \in 0 .. S - 1, l \in 0 .. 1 :
        (x + l) % S = IF x + l < S THEN x + l ELSE x + l - S
  <2> SUFFICES ASSUME NEW x \in 0 .. S - 1, NEW l \in 0 .. 1
               PROVE  (x + l) % S = IF x + l < S THEN x + l ELSE x + l - S
    OBVIOUS
  <2>1. \A y \in Nat : y < 2 * S => y % S = IF y < S THEN y ELSE y - S
    BY <1>1, WrapOnce
  <2>2. x + l \in Nat /\ x + l < 2 * S
    BY <1>1
  <2> QED BY <1>1, <2>1, <2>2
<1>6. ASSUME a % 2 = 0, NEW l \in 0 .. 1
      PROVE  (P + l) % S = (a + l) % S /\ (Q + l) % S = (a + (2 + l)) % S
  <2>1. P = r /\ (P + l) % S = P + l
    BY <1>1, <1>2, <1>4, <1>5, <1>6
  <2>2. (a + l) % S = P + l
    BY <1>1, <1>3, <1>4, <2>1
  <2>3. (Q + l) % S = Q + l
    <3>1. Q + l < S
      BY <1>1, <1>2, <1>4
    <3> QED BY <1>4, <1>5, <3>1
  <2>4. (a + (2 + l)) % S = IF r + (2 + l) < S THEN r + (2 + l) ELSE r + (2 + l) - S
    BY <1>3
  <2>5. (a + (2 + l)) % S = Q + l
    BY <1>1, <1>2, <1>4, <2>1, <2>4
  <2> QED BY <2>1, <2>2, <2>3, <2>5
<1>7. ASSUME a % 2 = 1
      PROVE  (P + 1) % S = r /\ Q % S = (a + 1) % S
  <2>1. P + 1 = r /\ (P + 1) % S = P + 1
    BY <1>1, <1>2, <1>4, <1>5, <1>7
  <2>2. (a + 1) % S = IF r + 1 < S THEN r + 1 ELSE r + 1 - S
    BY <1>3
  <2>3. Q = IF r + 1 < S THEN r + 1 ELSE r + 1 - S
    BY <1>1, <1>2, <1>4, <2>1
  <2>4. Q % S = Q
    BY <1>1, <1>4
  <2> QED BY <2>1, <2>2, <2>3, <2>4
<1> QED BY <1>4, <1>6, <1>7 DEF S, r, P, Q, Addr

\* The offset of a location from the address of a bus cycle, by its offset from the
\* requested address.
LEMMA Offsets ==
  ASSUME BUS_BYTES = 2, NEW a \in Nat, NEW b \in Addr
  PROVE  LET k      == Offset(b, a)
             first  == (b + ADDR_SPACE - FirstAddr(a)) % ADDR_SPACE
             second == (b + ADDR_SPACE - SecondAddr(a)) % ADDR_SPACE
         IN  /\ k \in 0 .. ADDR_SPACE - 1 /\ b = (a + k) % ADDR_SPACE
             /\ a % 2 = 0 => /\ first = k
                             /\ second = IF k >= 2 THEN k - 2 ELSE k + ADDR_SPACE - 2
             /\ first = a % 2 <=> k = 0
<1> DEFINE S == ADDR_SPACE
           r == a % S
           P == FirstAddr(a)
           Q == SecondAddr(a)
           k == Offset(b, a)
<1>1. S \in Nat \ {0} /\ S >= 4 /\ S % 2 = 0 /\ r \in 0 .. S - 1 /\ b \in 0 .. S - 1
  BY Space, SMTT(20) DEF Addr
<1>2. /\ a % 2 = r % 2 /\ P = r - (a % 2)
      /\ Q = IF P + 2 < S THEN P + 2 ELSE 0
  BY Cycles
<1>3. \A x \in 0 .. S - 1 :
        (b + S - x) % S = IF b >= x THEN b - x ELSE b + S - x
  <2> SUFFICES ASSUME NEW x \in 0 .. S - 1
               PROVE  (b + S - x) % S = IF b >= x THEN b - x ELSE b + S - x
    OBVIOUS
  <2> HIDE DEF S
  <2>1. \A y \in Nat : y < 2 * S => y % S = IF y < S THEN y ELSE y - S
    BY <1>1, WrapOnce
  <2>2. b + S - x \in Nat /\ b + S - x < 2 * S
    BY <1>1
  <2> QED BY <1>1, <2>1, <2>2
<1>4. k = (b + S - r) % S
  BY DEF Offset
<1>5. \A j \in 0 .. S - 1 : (a + j) % S = IF r + j < S THEN r + j ELSE r + j - S
  <2> SUFFICES ASSUME NEW j \in 0 .. S - 1
               PROVE  (a + j) % S = IF r + j < S THEN r + j ELSE r + j - S
    OBVIOUS
  <2>1. j \in Nat /\ j < S
    BY <1>1
  <2> QED BY ONLY <1>1, <2>1, a \in Nat, Reduced, Zenon
<1> HIDE DEF S, r, P, Q, k
<1>6. /\ a % 2 \in {0, 1} /\ P \in 0 .. S - 1 /\ Q \in 0 .. S - 1
  BY <1>1, <1>2
<1>7. k = IF b >= r THEN b - r ELSE b + S - r
  BY <1>1, <1>3, <1>4
<1>8. k \in 0 .. S - 1 /\ b = (a + k) % S
  <2>1. k \in 0 .. S - 1
    BY <1>1, <1>7
  <2>2. (a + k) % S = IF r + k < S THEN r + k ELSE r + k - S
    BY <1>5, <2>1
  <2> QED BY <1>1, <1>7, <2>1, <2>2
<1>9. (b + S - P) % S = IF b >= P THEN b - P ELSE b + S - P
  BY <1>3, <1>6
<1>10. (b + S - Q) % S = IF b >= Q THEN b - Q ELSE b + S - Q
  BY <1>3, <1>6
<1>11. ASSUME a % 2 = 0
       PROVE  /\ (b + S - P) % S = k
              /\ (b + S - Q) % S = IF k >= 2 THEN k - 2 ELSE k + S - 2
  BY <1>1, <1>2, <1>6, <1>7, <1>9, <1>10, <1>11
<1>12. (b + S - P) % S = a % 2 <=> k = 0
  BY <1>1, <1>2, <1>6, <1>7, <1>9
<1> QED BY <1>8, <1>11, <1>12 DEF S, P, Q, k

-----------------------------------------------------------------------------
(* The invariant.                                                          *)

\* The request being served.
Latched == [type |-> lat_type, addr |-> lat_addr, size |-> lat_size, wdata |-> lat_wdata]

\* The bytes the first bus cycle moves.
FirstBytes == IF need_second THEN 2 - (lat_addr % 2) ELSE ReqBytes(lat_size)

\* The first n bytes of the request are in memory, or in the accumulator.
Placed(n) ==
  \A b \in Addr : Offset(b, lat_addr) < n => mem[b] = lat_wdata[Offset(b, lat_addr)]
Gathered(n) ==
  \A k \in 0 .. 3 : k < n => read_accum[k] = mem[(lat_addr + k) % ADDR_SPACE]

Serving ==
  /\ busy => Latched \in CoreRequests /\ need_second = SecondNeeded(lat_size, lat_addr)
  /\ InSecond \/ bif_state = "BIF_CYCLE2" => need_second

Writing ==
  lat_type = "BUS_WRITE" =>
    /\ bif_state \in {"BIF_CYCLE1_WAIT", "BIF_CYCLE2"} => Placed(FirstBytes)
    /\ bif_state \in {"BIF_CYCLE2_WAIT", "BIF_DONE"} => Placed(ReqBytes(lat_size))

Reading ==
  lat_type = "BUS_READ" =>
    /\ bif_state \in {"BIF_CYCLE2", "BIF_CYCLE2_WAIT"} => Gathered(FirstBytes)
    /\ bif_state = "BIF_DONE" => Gathered(ReqBytes(lat_size))

IInv == TypeOK /\ Serving /\ Writing /\ Reading

-----------------------------------------------------------------------------
(* Requests.                                                               *)

\* The shapes of the aligned requests.
LEMMA Shapes ==
  ASSUME Aligned, Serving, busy
  PROVE  /\ lat_type \in {"BUS_READ", "BUS_WRITE"} /\ lat_addr \in Nat
         /\ lat_size \in DataSize /\ lat_wdata \in Word
         /\ need_second \in BOOLEAN /\ lat_addr % 2 \in {0, 1}
         /\ lat_addr % 2 = 0 /\ need_second =>
              lat_size = "SZ_WORD" /\ FirstBytes = 2 /\ ReqBytes(lat_size) = 4
         /\ lat_addr % 2 = 1 /\ need_second =>
              /\ lat_type = "BUS_READ" /\ lat_size = "SZ_HALF"
              /\ FirstBytes = 1 /\ ReqBytes(lat_size) = 2
         /\ ~need_second =>
              /\ FirstBytes = ReqBytes(lat_size)
              /\ \/ lat_size = "SZ_BYTE" /\ FirstBytes = 1
                 \/ lat_size = "SZ_HALF" /\ FirstBytes = 2 /\ lat_addr % 2 = 0
<1>1. Latched \in Request /\ Latched \in CoreRequests
      /\ need_second = SecondNeeded(lat_size, lat_addr)
  BY RequestAssumption DEF Serving
<1>2. /\ lat_type \in {"BUS_READ", "BUS_WRITE"} /\ lat_addr \in Nat
      /\ lat_size \in DataSize /\ lat_wdata \in Word
  BY <1>1 DEF Latched, Request
<1>3. lat_addr % 2 = 1 => lat_size = "SZ_BYTE" \/ (lat_size = "SZ_HALF" /\ lat_type = "BUS_READ")
  BY <1>1 DEF Aligned, Latched
<1>4. lat_addr % 2 \in {0, 1}
  BY <1>2
<1>5. need_second <=> lat_size = "SZ_WORD" \/ (lat_size = "SZ_HALF" /\ lat_addr % 2 = 1)
  BY <1>1 DEF Aligned, SecondNeeded
<1>6. need_second \in BOOLEAN
  BY <1>1 DEF Aligned, SecondNeeded
<1>7. /\ ReqBytes("SZ_BYTE") = 1 /\ ReqBytes("SZ_HALF") = 2 /\ ReqBytes("SZ_WORD") = 4
  BY DEF ReqBytes
<1> QED BY <1>2, <1>3, <1>4, <1>5, <1>6, <1>7 DEF FirstBytes, DataSize

\* The first bus cycle of a write puts its bytes into memory, and no others.
LEMMA FirstWrite ==
  ASSUME Aligned, IInv, lat_type = "BUS_WRITE", InFirst, MemClock(BusCycle)
  PROVE  mem' = [b \in Addr |-> LET k == Offset(b, lat_addr)
                                IN  IF k < FirstBytes THEN lat_wdata[k] ELSE mem[b]]
<1>1. BUS_BYTES = 2 /\ Lane = {0, 1}
  BY DEF Aligned, Lane
<1>2. busy /\ Serving
  BY DEF InFirst, busy, IInv
<1>3. mem' = WriteLanes(mem, FirstAddr(lat_addr), FirstWriteLanes.wdata, FirstWriteLanes.be)
  BY DEF MemClock, BusCycle
<1>4. ASSUME NEW b \in Addr
      PROVE  LET k == Offset(b, lat_addr)
                 l == (b + ADDR_SPACE - FirstAddr(lat_addr)) % ADDR_SPACE
             IN  (IF l \in FirstWriteLanes.be THEN FirstWriteLanes.wdata[l] ELSE mem[b])
                 = IF k < FirstBytes THEN lat_wdata[k] ELSE mem[b]
  <2> DEFINE k == Offset(b, lat_addr)
             l == (b + ADDR_SPACE - FirstAddr(lat_addr)) % ADDR_SPACE
  <2>1. lat_addr \in Nat /\ ADDR_SPACE \in Nat
    BY <1>1, <1>2, Shapes, Space
  <2>2. /\ k \in 0 .. ADDR_SPACE - 1 /\ (lat_addr % 2 = 0 => l = k)
        /\ l = lat_addr % 2 <=> k = 0
    BY <1>1, <2>1, Offsets
  <2> HIDE DEF k, l
  <2>3. CASE lat_size = "SZ_BYTE"
    <3>1. /\ FirstWriteLanes.be = {lat_addr % 2}
          /\ FirstWriteLanes.wdata = [i \in Lane |-> lat_wdata[0]]
      BY <1>1, <2>3 DEF FirstWriteLanes
    <3>2. lat_addr % 2 \in Lane /\ FirstBytes = 1
      BY <1>1, <1>2, <2>3, Shapes DEF DataSize
    <3>3. k < 1 <=> k = 0
      BY <2>1, <2>2
    <3> QED BY <2>2, <3>1, <3>2, <3>3 DEF k, l
  <2>4. CASE lat_size # "SZ_BYTE"
    <3>1. /\ FirstWriteLanes.be = Lane
          /\ FirstWriteLanes.wdata = [i \in Lane |-> lat_wdata[i]]
      BY <2>4 DEF FirstWriteLanes
    <3>2. FirstBytes = 2 /\ lat_addr % 2 = 0
      BY <1>1, <1>2, <2>4, Shapes DEF DataSize
    <3>3. k < 2 <=> k \in Lane
      BY <1>1, <2>1, <2>2
    <3> QED BY <2>2, <3>1, <3>2, <3>3 DEF k, l
  <2> QED BY <2>3, <2>4
<1> QED BY <1>3, <1>4 DEF WriteLanes

\* The second puts the rest of a word there.
LEMMA SecondWrite ==
  ASSUME Aligned, IInv, lat_type = "BUS_WRITE", InSecond, MemClock(BusCycle)
  PROVE  /\ FirstBytes = 2 /\ ReqBytes(lat_size) = 4
         /\ mem' = [b \in Addr |-> LET k == Offset(b, lat_addr)
                                   IN  IF k \in 2 .. 3 THEN lat_wdata[k] ELSE mem[b]]
<1>1. BUS_BYTES = 2 /\ Lane = {0, 1} /\ ~InFirst
  BY DEF Aligned, Lane, InFirst, InSecond
<1>2. busy /\ Serving /\ need_second
  BY DEF InSecond, busy, IInv, Serving
<1>3. lat_addr \in Nat /\ lat_addr % 2 = 0 /\ FirstBytes = 2 /\ ReqBytes(lat_size) = 4
  BY <1>2, Shapes
<1>4. mem' = WriteLanes(mem, SecondAddr(lat_addr), SecondWriteLanes.wdata, SecondWriteLanes.be)
  BY <1>1 DEF MemClock, BusCycle
<1>5. SecondWriteLanes.be = Lane /\ SecondWriteLanes.wdata = [l \in Lane |-> lat_wdata[l + 2]]
  BY <1>1 DEF SecondWriteLanes
<1>6. ASSUME NEW b \in Addr
      PROVE  LET k == Offset(b, lat_addr)
                 l == (b + ADDR_SPACE - SecondAddr(lat_addr)) % ADDR_SPACE
             IN  (IF l \in SecondWriteLanes.be THEN SecondWriteLanes.wdata[l] ELSE mem[b])
                 = IF k \in 2 .. 3 THEN lat_wdata[k] ELSE mem[b]
  <2> DEFINE k == Offset(b, lat_addr)
             l == (b + ADDR_SPACE - SecondAddr(lat_addr)) % ADDR_SPACE
  <2>1. ADDR_SPACE \in Nat /\ ADDR_SPACE >= 4
    BY <1>1, Space
  <2>2. k \in 0 .. ADDR_SPACE - 1 /\ l = IF k >= 2 THEN k - 2 ELSE k + ADDR_SPACE - 2
    BY <1>1, <1>3, Offsets
  <2> HIDE DEF k, l
  <2>3. l \in Lane <=> k \in 2 .. 3
    BY <1>1, <2>1, <2>2
  <2>4. k \in 2 .. 3 => l + 2 = k
    BY <2>1, <2>2
  <2> QED BY <1>5, <2>3, <2>4 DEF k, l
<1> QED BY <1>3, <1>4, <1>6 DEF WriteLanes

\* Memory stays as it is in every other state.
LEMMA NoWrite ==
  ASSUME MemClock(BusCycle), lat_type # "BUS_WRITE" \/ ~(InFirst \/ InSecond)
  PROVE  mem' = mem
  BY DEF MemClock, BusCycle

\* The lanes of a read are bytes of memory.
LEMMA LaneBytes ==
  ASSUME BUS_BYTES = 2, TypeOK, NEW x \in Nat
  PROVE  /\ \A l \in 0 .. 1 : ReadLanes(x)[l] = mem[(x + l) % ADDR_SPACE]
         /\ \A l \in 0 .. 1 : ReadLanes(x)[l] \in Byte
<1>1. Lane = 0 .. 1 /\ ADDR_SPACE \in Nat \ {0}
  BY Space DEF Lane
<1>2. \A l \in 0 .. 1 : (x + l) % ADDR_SPACE \in Addr
  BY <1>1 DEF Addr
<1> QED BY <1>1, <1>2 DEF ReadLanes, TypeOK, MemTypeOK

\* The first bus cycle of a read gathers its bytes.
LEMMA FirstRead ==
  ASSUME Aligned, IInv, lat_type = "BUS_READ", InFirst
  PROVE  LET accum == AfterFirstRead(ReadLanes(BusCycle.addr))
         IN  /\ accum \in Word
             /\ \A k \in 0 .. 3 : k < FirstBytes => accum[k] = mem[(lat_addr + k) % ADDR_SPACE]
<1> DEFINE rd == ReadLanes(BusCycle.addr)
<1>1. BUS_BYTES = 2 /\ busy /\ Serving /\ TypeOK
  BY DEF Aligned, InFirst, busy, IInv
<1>2. lat_addr \in Nat /\ lat_addr % 2 \in {0, 1} /\ lat_size \in DataSize
  BY <1>1, Shapes
<1>3. BusCycle.addr = FirstAddr(lat_addr) /\ FirstAddr(lat_addr) \in Nat
  <2>1. FirstAddr(lat_addr) \in Addr
    BY <1>1, <1>2, Lanes
  <2>2. BusCycle.addr = FirstAddr(lat_addr)
    BY DEF BusCycle
  <2> QED BY <2>1, <2>2 DEF Addr
<1>4. /\ \A l \in 0 .. 1 : rd[l] = mem[(FirstAddr(lat_addr) + l) % ADDR_SPACE]
      /\ \A l \in 0 .. 1 : rd[l] \in Byte
  BY <1>1, <1>3, LaneBytes
<1>5. /\ lat_addr % 2 = 0 => \A l \in 0 .. 1 : rd[l] = mem[(lat_addr + l) % ADDR_SPACE]
      /\ lat_addr % 2 = 1 => rd[1] = mem[lat_addr % ADDR_SPACE]
  BY <1>1, <1>2, <1>4, Lanes
<1>6. lat_addr + 0 = lat_addr
  BY <1>2
<1> HIDE DEF rd
<1>7. CASE lat_size = "SZ_BYTE" \/ (lat_size = "SZ_HALF" /\ lat_addr % 2 = 1)
  <2>1. FirstBytes = 1
    BY <1>1, <1>2, <1>7, Shapes DEF DataSize
  <2>2. AfterFirstRead(rd) = [read_accum EXCEPT ![0] = rd[lat_addr % 2]]
    BY <1>1, <1>7 DEF AfterFirstRead
  <2>3. read_accum \in Word /\ rd[lat_addr % 2] \in Byte
    BY <1>1, <1>2, <1>4 DEF TypeOK, BifTypeOK
  <2>4. AfterFirstRead(rd) \in Word /\ AfterFirstRead(rd)[0] = rd[lat_addr % 2]
    BY <2>2, <2>3 DEF Word
  <2>5. rd[lat_addr % 2] = mem[(lat_addr + 0) % ADDR_SPACE]
    BY <1>2, <1>5, <1>6
  <2> QED BY <2>1, <2>4, <2>5 DEF rd
<1>8. CASE ~(lat_size = "SZ_BYTE" \/ (lat_size = "SZ_HALF" /\ lat_addr % 2 = 1))
  <2>1. FirstBytes = 2 /\ lat_addr % 2 = 0
    BY <1>1, <1>2, <1>8, Shapes DEF DataSize
  <2>2. AfterFirstRead(rd) = [read_accum EXCEPT ![0] = rd[0], ![1] = rd[1]]
    BY <1>1, <1>8 DEF AfterFirstRead
  <2>3. read_accum \in Word /\ rd[0] \in Byte /\ rd[1] \in Byte
    BY <1>1, <1>4 DEF TypeOK, BifTypeOK
  <2>4. /\ AfterFirstRead(rd) \in Word
        /\ AfterFirstRead(rd)[0] = rd[0] /\ AfterFirstRead(rd)[1] = rd[1]
    BY <2>2, <2>3 DEF Word
  <2> QED BY <1>5, <2>1, <2>4 DEF rd
<1> QED BY <1>7, <1>8

\* The second gathers the others.
LEMMA SecondRead ==
  ASSUME Aligned, IInv, lat_type = "BUS_READ", bif_state = "BIF_CYCLE2_WAIT"
  PROVE  LET accum == AfterSecondRead(ReadLanes(BusCycle.addr))
         IN  /\ accum \in Word
             /\ \A k \in 0 .. 3 :
                  k < ReqBytes(lat_size) => accum[k] = mem[(lat_addr + k) % ADDR_SPACE]
<1> DEFINE rd == ReadLanes(BusCycle.addr)
<1>1. BUS_BYTES = 2 /\ busy /\ Serving /\ TypeOK /\ need_second
  BY DEF Aligned, InSecond, busy, IInv, Serving
<1>2. lat_addr \in Nat /\ lat_addr % 2 \in {0, 1}
  BY <1>1, Shapes
<1>3. BusCycle.addr = SecondAddr(lat_addr) /\ SecondAddr(lat_addr) \in Nat
  <2>1. SecondAddr(lat_addr) \in Addr
    BY <1>1, <1>2, Lanes
  <2>2. BusCycle.addr = SecondAddr(lat_addr)
    BY DEF BusCycle, InFirst
  <2> QED BY <2>1, <2>2 DEF Addr
<1>4. /\ \A l \in 0 .. 1 : rd[l] = mem[(SecondAddr(lat_addr) + l) % ADDR_SPACE]
      /\ \A l \in 0 .. 1 : rd[l] \in Byte
  BY <1>1, <1>3, LaneBytes
<1>5. /\ lat_addr % 2 = 0 => \A l \in 0 .. 1 : rd[l] = mem[(lat_addr + (2 + l)) % ADDR_SPACE]
      /\ lat_addr % 2 = 1 => rd[0] = mem[(lat_addr + 1) % ADDR_SPACE]
  <2>1. SecondAddr(lat_addr) + 0 = SecondAddr(lat_addr)
    BY <1>3
  <2> QED BY <1>1, <1>2, <1>4, <2>1, Lanes
<1>6. read_accum \in Word /\ rd[0] \in Byte /\ rd[1] \in Byte /\ Gathered(FirstBytes)
  BY <1>1, <1>4 DEF TypeOK, BifTypeOK, IInv, Reading
<1> HIDE DEF rd
<1>7. CASE lat_addr % 2 = 1
  <2>1. lat_size = "SZ_HALF" /\ FirstBytes = 1 /\ ReqBytes(lat_size) = 2
    BY <1>1, <1>7, Shapes
  <2>2. AfterSecondRead(rd) = [read_accum EXCEPT ![1] = rd[0]]
    BY <1>1, <2>1 DEF AfterSecondRead
  <2>3. /\ AfterSecondRead(rd) \in Word
        /\ AfterSecondRead(rd)[0] = read_accum[0] /\ AfterSecondRead(rd)[1] = rd[0]
    BY <1>6, <2>2 DEF Word
  <2>4. read_accum[0] = mem[(lat_addr + 0) % ADDR_SPACE]
    BY <1>6, <2>1 DEF Gathered
  <2> QED BY <1>5, <1>7, <2>1, <2>3, <2>4 DEF rd
<1>8. CASE lat_addr % 2 = 0
  <2>1. lat_size = "SZ_WORD" /\ FirstBytes = 2 /\ ReqBytes(lat_size) = 4
    BY <1>1, <1>8, Shapes
  <2>2. AfterSecondRead(rd) = [read_accum EXCEPT ![2] = rd[0], ![3] = rd[1]]
    BY <1>1, <2>1 DEF AfterSecondRead
  <2>3. /\ AfterSecondRead(rd) \in Word
        /\ AfterSecondRead(rd)[0] = read_accum[0] /\ AfterSecondRead(rd)[1] = read_accum[1]
        /\ AfterSecondRead(rd)[2] = rd[0] /\ AfterSecondRead(rd)[3] = rd[1]
    BY <1>6, <2>2 DEF Word
  <2>4. /\ read_accum[0] = mem[(lat_addr + 0) % ADDR_SPACE]
        /\ read_accum[1] = mem[(lat_addr + 1) % ADDR_SPACE]
    BY <1>6, <2>1 DEF Gathered
  <2>5. /\ rd[0] = mem[(lat_addr + 2) % ADDR_SPACE]
        /\ rd[1] = mem[(lat_addr + 3) % ADDR_SPACE]
    BY <1>5, <1>8
  <2> QED BY <2>1, <2>3, <2>4, <2>5 DEF rd
<1> QED BY <1>2, <1>7, <1>8

-----------------------------------------------------------------------------
(* The clock edges.                                                        *)

LEMMA MemoryTyped ==
  ASSUME Aligned, IInv, MemClock(BusCycle)
  PROVE  MemTypeOK'
<1>1. mem \in [Addr -> Byte] /\ bus_ready' \in BOOLEAN
  BY DEF IInv, TypeOK, MemTypeOK, MemClock, BusCycle, InFirst, InSecond
<1>2. \A b \in Addr : lat_addr \in Nat => Offset(b, lat_addr) \in Nat
  BY Offsets, Space DEF Aligned
<1>3. busy => lat_wdata \in Word /\ lat_addr \in Nat
              /\ (FirstBytes <= 4 /\ FirstBytes \in Nat)
  BY Shapes DEF IInv
<1>4. CASE lat_type # "BUS_WRITE" \/ ~(InFirst \/ InSecond)
  BY <1>1, <1>4, NoWrite DEF MemTypeOK
<1>5. CASE lat_type = "BUS_WRITE" /\ InFirst
  <2>1. lat_wdata \in [0 .. 3 -> Byte] /\ lat_addr \in Nat
        /\ FirstBytes <= 4 /\ FirstBytes \in Nat
    BY <1>3, <1>5 DEF busy, InFirst, Word
  <2>2. ASSUME NEW b \in Addr, Offset(b, lat_addr) < FirstBytes
        PROVE  lat_wdata[Offset(b, lat_addr)] \in Byte
    BY <1>2, <2>1, <2>2
  <2> QED BY <1>1, <1>5, <2>2, FirstWrite DEF MemTypeOK
<1>6. CASE lat_type = "BUS_WRITE" /\ InSecond
  <2>1. lat_wdata \in [0 .. 3 -> Byte]
    BY <1>3, <1>6 DEF busy, InSecond, Word
  <2> QED BY <1>1, <1>6, <2>1, SecondWrite DEF MemTypeOK
<1> QED BY <1>4, <1>5, <1>6

\* A clock edge of a write leaves its bytes in memory.
LEMMA WriteProgress ==
  ASSUME Aligned, IInv, MemClock(BusCycle), keepRequest, lat_type = "BUS_WRITE"
  PROVE  /\ InFirst => Placed(FirstBytes)'
         /\ InSecond => Placed(ReqBytes(lat_size))'
<1>1. FirstBytes' = FirstBytes /\ lat_addr' = lat_addr /\ lat_wdata' = lat_wdata
      /\ lat_size' = lat_size
  BY DEF FirstBytes, keepRequest
<1>2. CASE InFirst
  <2>1. ~InSecond
    BY <1>2 DEF InFirst, InSecond
  <2> QED BY <1>1, <1>2, <2>1, FirstWrite DEF Placed
<1>3. CASE InSecond
  <2>1. /\ FirstBytes = 2 /\ ReqBytes(lat_size) = 4 /\ ~InFirst
        /\ mem' = [b \in Addr |-> LET k == Offset(b, lat_addr)
                                  IN  IF k \in 2 .. 3 THEN lat_wdata[k] ELSE mem[b]]
    BY <1>3, SecondWrite DEF InFirst, InSecond
  <2>2. \A b \in Addr : Offset(b, lat_addr) < 2 => mem[b] = lat_wdata[Offset(b, lat_addr)]
    <3>1. Placed(2) \/ Placed(4)
      BY <1>3, <2>1 DEF IInv, Writing, InSecond
    <3>2. \A b \in Addr : Offset(b, lat_addr) < 2 => Offset(b, lat_addr) < 4
      BY Offsets, Space, Shapes, <1>3 DEF Aligned, IInv, busy, InSecond
    <3> QED BY <3>1, <3>2 DEF Placed
  <2>3. \A b \in Addr : Offset(b, lat_addr) < 4 =>
          Offset(b, lat_addr) \in 2 .. 3 \/ Offset(b, lat_addr) < 2
    <3>1. lat_addr \in Nat
      BY Shapes, <1>3 DEF IInv, busy, InSecond
    <3>2. \A b \in Addr : Offset(b, lat_addr) \in 0 .. ADDR_SPACE - 1
      BY <3>1, Offsets DEF Aligned
    <3> QED BY <3>2, Space DEF Aligned
  <2>4. \A b \in Addr : Offset(b, lat_addr) < 4 => mem'[b] = lat_wdata[Offset(b, lat_addr)]
    BY <2>1, <2>2, <2>3
  <2> QED BY <1>1, <2>1, <2>4 DEF Placed
<1>4. CASE ~InFirst /\ ~InSecond
  BY <1>4
<1> QED BY <1>2, <1>3, <1>4

\* The request stays that of the core.
LEMMA StillServing ==
  ASSUME Serving, keepRequest, busy
  PROVE  /\ Latched' = Latched /\ FirstBytes' = FirstBytes
         /\ Latched' \in CoreRequests /\ need_second' = SecondNeeded(lat_size, lat_addr)'
  BY DEF Serving, keepRequest, Latched, FirstBytes, SecondNeeded

LEMMA InitInv == Init => IInv
<1> SUFFICES ASSUME Init PROVE IInv
  OBVIOUS
<1>1. TypeOK
  BY BusAssumption, MemoryAssumption
     DEF Init, MemInit, BifInit, TypeOK, MemTypeOK, BifTypeOK, BifState, DataSize, ZeroWord, Word
<1>2. Serving /\ Writing /\ Reading
  BY DEF Init, BifInit, Serving, Writing, Reading, busy, InSecond
<1> QED BY <1>1, <1>2 DEF IInv

LEMMA AcceptStep ==
  ASSUME Aligned, IInv, NEW req \in CoreRequests, BifAccept(req), MemClock(BusCycle)
  PROVE  IInv'
<1>1. req \in Request
  BY RequestAssumption
<1>2. /\ req.type \in {"BUS_READ", "BUS_WRITE"} /\ req.addr \in Nat
      /\ req.size \in DataSize /\ req.wdata \in Word
      /\ req = [type |-> req.type, addr |-> req.addr, size |-> req.size, wdata |-> req.wdata]
  BY <1>1 DEF Request
<1>3. /\ bif_state' = "BIF_CYCLE1" /\ lat_type' = req.type /\ lat_addr' = req.addr
      /\ lat_size' = req.size /\ lat_wdata' = req.wdata
      /\ need_second' = SecondNeeded(req.size, req.addr) /\ read_accum' = ZeroWord
  BY DEF BifAccept
<1>4. Latched' = req
  BY <1>2, <1>3 DEF Latched
<1>5. need_second' \in BOOLEAN /\ ZeroWord \in Word
  BY <1>3, BusAssumption DEF SecondNeeded, ZeroWord, Word
<1>6. TypeOK'
  BY <1>2, <1>3, <1>5, MemoryTyped DEF TypeOK, BifTypeOK, BifState
<1>7. Serving' /\ Writing' /\ Reading'
  BY <1>3, <1>4 DEF Serving, Writing, Reading, InSecond, SecondNeeded
<1> QED BY <1>6, <1>7 DEF IInv

LEMMA IdleStep ==
  ASSUME Aligned, IInv, BifIdle(NoReq), MemClock(BusCycle)
  PROVE  IInv'
<1>1. mem' = mem
  BY NoWrite DEF BifIdle, InFirst, InSecond
<1>2. TypeOK'
  BY MemoryTyped DEF BifIdle, bifVars, IInv, TypeOK, BifTypeOK
<1>3. Serving' /\ Writing' /\ Reading'
  BY DEF BifIdle, bifVars, IInv, Serving, Writing, Reading, busy, InSecond
<1> QED BY <1>2, <1>3 DEF IInv

LEMMA AddressStep ==
  ASSUME Aligned, IInv, BifAddress, MemClock(BusCycle)
  PROVE  IInv'
<1>1. /\ busy /\ keepRequest /\ read_accum' = read_accum
      /\ \/ bif_state = "BIF_CYCLE1" /\ bif_state' = "BIF_CYCLE1_WAIT" /\ InFirst
         \/ bif_state = "BIF_CYCLE2" /\ bif_state' = "BIF_CYCLE2_WAIT" /\ InSecond
  BY DEF BifAddress, busy, InFirst, InSecond
<1>2. /\ Latched' \in CoreRequests /\ need_second' = SecondNeeded(lat_size, lat_addr)'
      /\ FirstBytes' = FirstBytes
  BY <1>1, StillServing DEF IInv
<1>3. lat_type' = lat_type /\ lat_addr' = lat_addr /\ lat_size' = lat_size
      /\ need_second' = need_second /\ lat_wdata' = lat_wdata
  BY <1>1 DEF keepRequest
<1>4. TypeOK'
  BY <1>1, <1>3, MemoryTyped DEF IInv, TypeOK, BifTypeOK, BifState
<1>5. Serving'
  BY <1>1, <1>2, <1>3 DEF IInv, Serving, InSecond
<1>6. Writing'
  BY <1>1, <1>2, <1>3, WriteProgress DEF Writing
<1>7. Reading'
  BY <1>1, <1>2, <1>3, NoWrite DEF IInv, Reading, Gathered
<1> QED BY <1>4, <1>5, <1>6, <1>7 DEF IInv

LEMMA WaitStep ==
  ASSUME Aligned, IInv, BifWait(bus_ready), MemClock(BusCycle)
  PROVE  IInv'
<1>1. /\ busy /\ keepRequest /\ read_accum' = read_accum /\ bif_state' = bif_state
      /\ \/ bif_state = "BIF_CYCLE1_WAIT" /\ InFirst
         \/ bif_state = "BIF_CYCLE2_WAIT" /\ InSecond
  BY DEF BifWait, busy, InFirst, InSecond, bifVars, keepRequest
<1>2. /\ Latched' \in CoreRequests /\ need_second' = SecondNeeded(lat_size, lat_addr)'
      /\ FirstBytes' = FirstBytes
  BY <1>1, StillServing DEF IInv
<1>3. lat_type' = lat_type /\ lat_addr' = lat_addr /\ lat_size' = lat_size
      /\ need_second' = need_second /\ lat_wdata' = lat_wdata
  BY <1>1 DEF keepRequest
<1>4. TypeOK'
  BY <1>1, <1>3, MemoryTyped DEF IInv, TypeOK, BifTypeOK, BifState
<1>5. Serving'
  BY <1>1, <1>2, <1>3 DEF IInv, Serving, InSecond
<1>6. Writing'
  BY <1>1, <1>2, <1>3, WriteProgress DEF Writing
<1>7. Reading'
  BY <1>1, <1>2, <1>3, NoWrite DEF IInv, Reading, Gathered
<1> QED BY <1>4, <1>5, <1>6, <1>7 DEF IInv

LEMMA FirstDoneStep ==
  ASSUME Aligned, IInv, BifFirstDone(bus_ready, ReadLanes(BusCycle.addr)), MemClock(BusCycle)
  PROVE  IInv'
<1>1. /\ busy /\ keepRequest /\ InFirst
      /\ bif_state' = IF need_second THEN "BIF_CYCLE2" ELSE "BIF_DONE"
      /\ read_accum' = IF lat_type = "BUS_READ" THEN AfterFirstRead(ReadLanes(BusCycle.addr))
                                                ELSE read_accum
  BY DEF BifFirstDone, busy, InFirst
<1>2. /\ Latched' \in CoreRequests /\ need_second' = SecondNeeded(lat_size, lat_addr)'
      /\ FirstBytes' = FirstBytes
  BY <1>1, StillServing DEF IInv
<1>3. lat_type' = lat_type /\ lat_addr' = lat_addr /\ lat_size' = lat_size
      /\ need_second' = need_second /\ lat_wdata' = lat_wdata
  BY <1>1 DEF keepRequest
<1>4. ~need_second => FirstBytes = ReqBytes(lat_size)
  BY DEF FirstBytes
<1>5. read_accum' \in Word
  BY <1>1, FirstRead DEF IInv, TypeOK, BifTypeOK
<1>6. TypeOK'
  BY <1>1, <1>3, <1>5, MemoryTyped DEF IInv, TypeOK, BifTypeOK, BifState
<1>7. Serving'
  BY <1>1, <1>2, <1>3 DEF IInv, Serving, InSecond
<1>8. Writing'
  BY <1>1, <1>2, <1>3, <1>4, WriteProgress DEF Writing
<1>9. Reading'
  BY <1>1, <1>2, <1>3, <1>4, NoWrite, FirstRead DEF Reading, Gathered
<1> QED BY <1>6, <1>7, <1>8, <1>9 DEF IInv

LEMMA SecondDoneStep ==
  ASSUME Aligned, IInv, BifSecondDone(bus_ready, ReadLanes(BusCycle.addr)), MemClock(BusCycle)
  PROVE  IInv'
<1>1. /\ busy /\ keepRequest /\ InSecond /\ bif_state = "BIF_CYCLE2_WAIT"
      /\ bif_state' = "BIF_DONE"
      /\ read_accum' = IF lat_type = "BUS_READ" THEN AfterSecondRead(ReadLanes(BusCycle.addr))
                                                ELSE read_accum
  BY DEF BifSecondDone, busy, InSecond
<1>2. /\ Latched' \in CoreRequests /\ need_second' = SecondNeeded(lat_size, lat_addr)'
  BY <1>1, StillServing DEF IInv
<1>3. lat_type' = lat_type /\ lat_addr' = lat_addr /\ lat_size' = lat_size
      /\ need_second' = need_second /\ lat_wdata' = lat_wdata
  BY <1>1 DEF keepRequest
<1>4. read_accum' \in Word
  BY <1>1, SecondRead DEF IInv, TypeOK, BifTypeOK
<1>5. TypeOK'
  BY <1>1, <1>3, <1>4, MemoryTyped DEF IInv, TypeOK, BifTypeOK, BifState
<1>6. Serving'
  BY <1>1, <1>2, <1>3 DEF IInv, Serving, InSecond
<1>7. Writing'
  BY <1>1, <1>3, WriteProgress DEF Writing
<1>8. Reading'
  BY <1>1, <1>3, NoWrite, SecondRead DEF Reading, Gathered
<1> QED BY <1>5, <1>6, <1>7, <1>8 DEF IInv

LEMMA DoneStep ==
  ASSUME Aligned, IInv, BifDone, MemClock(BusCycle)
  PROVE  IInv'
<1>1. TypeOK'
  BY MemoryTyped DEF BifDone, keepRequest, IInv, TypeOK, BifTypeOK, BifState
<1>2. Serving' /\ Writing' /\ Reading'
  BY DEF BifDone, Serving, Writing, Reading, busy, InSecond
<1> QED BY <1>1, <1>2 DEF IInv

LEMMA ClockStep ==
  ASSUME Aligned, IInv, [Next]_vars
  PROVE  IInv'
<1>1. CASE UNCHANGED vars
  BY <1>1 DEF vars, bifVars, IInv, TypeOK, MemTypeOK, BifTypeOK, Serving, Writing, Reading,
              busy, InSecond, Latched, FirstBytes, Placed, Gathered, SecondNeeded
<1>2. ASSUME NEW req \in CoreRequests \cup {NoReq}, Clock(req)
      PROVE  IInv'
  <2>1. MemClock(BusCycle) /\ BifClock(req, bus_ready, ReadLanes(BusCycle.addr))
    BY <1>2 DEF Clock
  <2>2. CASE BifAccept(req)
    BY <2>1, <2>2, AcceptStep DEF BifAccept
  <2>3. CASE BifIdle(req)
    BY <2>1, <2>3, IdleStep DEF BifIdle
  <2> QED BY <2>1, <2>2, <2>3, AddressStep, WaitStep, FirstDoneStep, SecondDoneStep, DoneStep
          DEF BifClock
<1> QED BY <1>1, <1>2 DEF Next

LEMMA Invariance ==
  ASSUME Aligned
  PROVE  Spec => []IInv
<1>1. IInv /\ [Next]_vars => IInv'
  BY ClockStep
<1> QED BY InitInv, <1>1, PTL DEF Spec

-----------------------------------------------------------------------------
(* The theorems.                                                           *)

\* Every register of the bus interface and every cell of memory keeps its type
\* (v60_bus_if.sv, tb_memory.sv).
THEOREM TypesKept ==
  ASSUME Aligned
  PROVE  Spec => []TypeOK
<1>1. IInv => TypeOK
  BY DEF IInv
<1> QED BY <1>1, Invariance, PTL

\* A clock edge changes no location of memory but those of the write being served, and
\* gives them the bytes of it (the write lanes and byte enables of v60_bus_if.sv).
WritesOnly ==
  \A b \in Addr : mem'[b] # mem[b] =>
    /\ busy /\ lat_type = "BUS_WRITE"
    /\ \E k \in 0 .. ReqBytes(lat_size) - 1 :
         b = (lat_addr + k) % ADDR_SPACE /\ mem'[b] = lat_wdata[k]

\* A clock edge of a write is one.
LEMMA OnlyItsBytes ==
  ASSUME Aligned, IInv, MemClock(BusCycle)
  PROVE  WritesOnly
<1> SUFFICES ASSUME NEW b \in Addr, mem'[b] # mem[b]
             PROVE  /\ busy /\ lat_type = "BUS_WRITE"
                    /\ \E k \in 0 .. ReqBytes(lat_size) - 1 :
                         b = (lat_addr + k) % ADDR_SPACE /\ mem'[b] = lat_wdata[k]
  BY DEF WritesOnly
<1>1. lat_type = "BUS_WRITE" /\ (InFirst \/ InSecond)  BY NoWrite
<1>2. busy  BY <1>1 DEF busy, InFirst, InSecond
<1>3. lat_addr \in Nat /\ lat_size \in DataSize /\ BUS_BYTES = 2
  BY <1>2, Shapes DEF IInv, Aligned
<1>4. ReqBytes(lat_size) \in 1 .. 4  BY <1>3 DEF DataSize, ReqBytes
<1> DEFINE k == Offset(b, lat_addr)
<1>5. k \in Nat /\ b = (lat_addr + k) % ADDR_SPACE
  <2>1. k \in 0 .. ADDR_SPACE - 1 /\ b = (lat_addr + k) % ADDR_SPACE  BY <1>3, Offsets
  <2> QED  BY <2>1, <1>3, Space
<1>6. k < ReqBytes(lat_size) /\ mem'[b] = lat_wdata[k]
  <2>1. CASE InFirst
    <3>1. k < FirstBytes /\ mem'[b] = lat_wdata[k]  BY <1>1, <2>1, FirstWrite
    <3>2. FirstBytes \in Nat /\ FirstBytes <= ReqBytes(lat_size)
      BY <1>1, <1>2, <1>4, Shapes DEF IInv
    <3> QED  BY <1>4, <1>5, <3>1, <3>2
  <2>2. CASE InSecond
    <3>1. ReqBytes(lat_size) = 4 /\ k \in 2 .. 3 /\ mem'[b] = lat_wdata[k]
      BY <1>1, <2>2, SecondWrite
    <3> QED  BY <3>1
  <2> QED  BY <1>1, <2>1, <2>2
<1> HIDE DEF k
<1>7. k \in 0 .. ReqBytes(lat_size) - 1  BY <1>4, <1>5, <1>6
<1> QED  BY <1>1, <1>2, <1>5, <1>6, <1>7

\* A write that is answered is in memory, every byte of it, whether it took one bus
\* cycle or two and however often the device has stalled, and on the way there no edge
\* of the clock has changed anything else (v60_bus_if.sv BIF_CYCLE2_WAIT and the write
\* lanes).
THEOREM WritesLand ==
  ASSUME Aligned
  PROVE  Spec => []WriteExact /\ [][WritesOnly]_vars
<1>1. IInv => WriteExact
  <2> SUFFICES ASSUME IInv, resp_valid, lat_type = "BUS_WRITE",
                      NEW k \in 0 .. ReqBytes(lat_size) - 1
               PROVE  mem[(lat_addr + k) % ADDR_SPACE] = lat_wdata[k]
    BY DEF WriteExact
  <2>1. busy /\ Placed(ReqBytes(lat_size))
    BY DEF resp_valid, busy, IInv, Writing
  <2>2. lat_addr \in Nat /\ lat_size \in DataSize /\ BUS_BYTES = 2
    BY <2>1, Shapes DEF IInv, Aligned
  <2>3. ReqBytes(lat_size) \in 1 .. 4
    BY <2>2 DEF DataSize, ReqBytes
  <2>4. k \in 0 .. 3 /\ k < ReqBytes(lat_size)
    BY <2>3
  <2>5. (lat_addr + k) % ADDR_SPACE \in Addr /\ Offset((lat_addr + k) % ADDR_SPACE, lat_addr) = k
    BY <2>2, <2>4, Located
  <2> QED BY <2>1, <2>4, <2>5 DEF Placed
<1>2. IInv /\ [Next]_vars => [WritesOnly]_vars
  <2> SUFFICES ASSUME IInv, Next
               PROVE  WritesOnly
    OBVIOUS
  <2>1. MemClock(BusCycle)  BY DEF Next, Clock
  <2> QED BY <2>1, OnlyItsBytes
<1> QED BY <1>1, <1>2, Invariance, PTL DEF Spec

\* The response of a read is memory's bytes from the requested address up
\* (v60_bus_if.sv lane extraction, read_accum and resp_rdata).
THEOREM ReadsReturn ==
  ASSUME Aligned
  PROVE  Spec => []ReadExact
<1>1. IInv => ReadExact
  <2> SUFFICES ASSUME IInv, resp_valid, lat_type = "BUS_READ"
               PROVE  resp_rdata = Masked([k \in 0 .. 3 |-> mem[(lat_addr + k) % ADDR_SPACE]],
                                          lat_size)
    BY DEF ReadExact
  <2>1. Gathered(ReqBytes(lat_size))
    BY DEF resp_valid, IInv, Reading
  <2> QED BY <2>1 DEF resp_rdata, Masked, Gathered
<1> QED BY <1>1, Invariance, PTL

-----------------------------------------------------------------------------
(* The refinement.                                                         *)

Phase  == IF ~busy THEN "idle" ELSE IF Performed THEN "performed" ELSE "pending"
Taken  == IF ~busy THEN NoReq ELSE Latched
Result == IF busy /\ Performed /\ lat_type = "BUS_READ" THEN resp_rdata ELSE "none"

\* The second half of a word is taken to be in memory as soon as the first is.
LEMMA Settled ==
  ASSUME Aligned, IInv
  PROVE  /\ ~( /\ lat_type = "BUS_WRITE" /\ need_second
               /\ bif_state \in {"BIF_CYCLE1_WAIT", "BIF_CYCLE2"}) => SettledMem = mem
         /\ /\ lat_type = "BUS_WRITE" /\ need_second
            /\ bif_state \in {"BIF_CYCLE1_WAIT", "BIF_CYCLE2"}
            => /\ FirstBytes = 2 /\ ReqBytes(lat_size) = 4
               /\ SettledMem = [b \in Addr |-> LET k == Offset(b, lat_addr)
                                               IN  IF k \in 2 .. 3 THEN lat_wdata[k] ELSE mem[b]]
<1> SUFFICES ASSUME lat_type = "BUS_WRITE", need_second,
                    bif_state \in {"BIF_CYCLE1_WAIT", "BIF_CYCLE2"}
             PROVE  /\ FirstBytes = 2 /\ ReqBytes(lat_size) = 4
                    /\ SettledMem = [b \in Addr |->
                                       LET k == Offset(b, lat_addr)
                                       IN  IF k \in 2 .. 3 THEN lat_wdata[k] ELSE mem[b]]
  BY DEF SettledMem
<1>1. FirstBytes = 2 /\ ReqBytes(lat_size) = 4 /\ lat_addr % 2 = 0
  BY Shapes DEF IInv, busy
<1>2. (BUS_BYTES - (lat_addr % BUS_BYTES)) .. ReqBytes(lat_size) - 1 = 2 .. 3
  BY <1>1 DEF Aligned
<1> QED BY <1>1, <1>2 DEF SettledMem, Offset

\* The offsets of a request's bytes.
LEMMA OffsetRange ==
  ASSUME Aligned, IInv, busy
  PROVE  /\ \A b \in Addr : Offset(b, lat_addr) \in Nat
         /\ mem = [b \in Addr |-> mem[b]]
<1>1. lat_addr \in Nat
  BY Shapes DEF IInv
<1>2. \A b \in Addr : Offset(b, lat_addr) \in 0 .. ADDR_SPACE - 1
  BY <1>1, Offsets DEF Aligned
<1> QED BY <1>2, Space DEF Aligned, IInv, TypeOK, MemTypeOK

\* On the clock edge of its first bus cycle a write takes effect as a whole.
LEMMA WritePerformed ==
  ASSUME Aligned, IInv, BifAddress, MemClock(BusCycle), IInv',
         lat_type = "BUS_WRITE", bif_state = "BIF_CYCLE1"
  PROVE  SettledMem' = [b \in Addr |-> LET k == Offset(b, lat_addr)
                                       IN  IF k < ReqBytes(lat_size) THEN lat_wdata[k]
                                                                     ELSE SettledMem[b]]
<1>1. busy /\ InFirst /\ keepRequest /\ bif_state' = "BIF_CYCLE1_WAIT"
  BY DEF BifAddress, busy, InFirst
<1>2. SettledMem = mem
  BY Settled
<1>3. mem' = [b \in Addr |-> LET k == Offset(b, lat_addr)
                             IN  IF k < FirstBytes THEN lat_wdata[k] ELSE mem[b]]
  BY <1>1, FirstWrite
<1>4. CASE ~need_second
  <2>1. SettledMem' = mem'
    BY <1>1, <1>4 DEF SettledMem, keepRequest
  <2>2. FirstBytes = ReqBytes(lat_size)
    BY <1>4 DEF FirstBytes
  <2> QED BY <1>2, <1>3, <2>1, <2>2
<1>5. CASE need_second
  <2>1. FirstBytes = 2 /\ ReqBytes(lat_size) = 4 /\ lat_addr % 2 = 0
    BY <1>1, <1>5, Shapes DEF IInv
  <2>2. SettledMem' = [b \in Addr |-> LET k == Offset(b, lat_addr)
                                      IN  IF k \in 2 .. 3 THEN lat_wdata[k] ELSE mem'[b]]
    <3>1. (BUS_BYTES - (lat_addr % BUS_BYTES)) .. ReqBytes(lat_size) - 1 = 2 .. 3
      BY <2>1 DEF Aligned
    <3> QED BY <1>1, <1>5, <3>1 DEF SettledMem, Offset, keepRequest
  <2>3. \A b \in Addr : Offset(b, lat_addr) \in Nat
    BY <1>1, OffsetRange
  <2>4. ASSUME NEW b \in Addr
        PROVE  LET k == Offset(b, lat_addr)
               IN  (IF k \in 2 .. 3 THEN lat_wdata[k] ELSE mem'[b])
                   = IF k < 4 THEN lat_wdata[k] ELSE mem[b]
    BY <1>3, <2>1, <2>3
  <2> QED BY <1>2, <2>1, <2>2, <2>4
<1> QED BY <1>4, <1>5

\* The rest of the transfer does not show.
LEMMA WriteSettled ==
  ASSUME Aligned, IInv, MemClock(BusCycle), keepRequest, lat_type = "BUS_WRITE",
         \/ /\ bif_state = "BIF_CYCLE1_WAIT"
            /\ \/ bif_state' \in {"BIF_CYCLE1_WAIT", "BIF_CYCLE2"}
               \/ bif_state' = "BIF_DONE" /\ ~need_second
         \/ /\ bif_state \in {"BIF_CYCLE2", "BIF_CYCLE2_WAIT"}
            /\ bif_state' \in {"BIF_CYCLE2_WAIT", "BIF_DONE"}
  PROVE  SettledMem' = SettledMem
<1>1. busy /\ (\A b \in Addr : Offset(b, lat_addr) \in Nat) /\ mem = [b \in Addr |-> mem[b]]
  BY OffsetRange DEF busy
<1>2. CASE bif_state = "BIF_CYCLE1_WAIT"
  <2>1. InFirst /\ Placed(FirstBytes)
    BY <1>2 DEF InFirst, IInv, Writing
  <2>2. mem' = mem
    BY <1>1, <2>1, FirstWrite DEF Placed
  <2>3. CASE need_second
    BY <1>2, <2>2, <2>3 DEF SettledMem, keepRequest
  <2>4. CASE ~need_second
    BY <1>2, <2>2, <2>4 DEF SettledMem, keepRequest
  <2> QED BY <2>3, <2>4
<1>3. CASE bif_state = "BIF_CYCLE2"
  <2>1. InSecond /\ need_second
    BY <1>3 DEF InSecond, IInv, Serving
  <2>2. SettledMem' = mem'
    BY <1>3 DEF SettledMem
  <2>3. SettledMem = [b \in Addr |-> LET k == Offset(b, lat_addr)
                                     IN  IF k \in 2 .. 3 THEN lat_wdata[k] ELSE mem[b]]
    BY <1>3, <2>1, Settled
  <2> QED BY <2>1, <2>2, <2>3, SecondWrite
<1>4. CASE bif_state = "BIF_CYCLE2_WAIT"
  <2>1. InSecond /\ Placed(ReqBytes(lat_size))
    BY <1>4 DEF InSecond, IInv, Writing
  <2>2. SettledMem' = mem' /\ SettledMem = mem
    BY <1>4 DEF SettledMem
  <2>3. /\ ReqBytes(lat_size) = 4
        /\ mem' = [b \in Addr |-> LET k == Offset(b, lat_addr)
                                  IN  IF k \in 2 .. 3 THEN lat_wdata[k] ELSE mem[b]]
    BY <2>1, SecondWrite
  <2>4. \A b \in Addr : Offset(b, lat_addr) \in 2 .. 3 => lat_wdata[Offset(b, lat_addr)] = mem[b]
    BY <1>1, <2>1, <2>3 DEF Placed
  <2> QED BY <1>1, <2>2, <2>3, <2>4
<1> QED BY <1>2, <1>3, <1>4

\* The abstract variables between two clock edges, and on those that do not show.
LEMMA Unseen ==
  ASSUME SettledMem' = SettledMem, Phase' = Phase, Taken' = Taken, Result' = Result
  PROVE  UNCHANGED Atomic!vars
  BY DEF Atomic!vars, Phase, Taken, Result, Latched

LEMMA AtomicAccept ==
  ASSUME Aligned, IInv, NEW req \in CoreRequests, BifAccept(req), MemClock(BusCycle)
  PROVE  Atomic!Submit
<1>1. req \in Request
  BY RequestAssumption
<1>2. /\ req.type \in {"BUS_READ", "BUS_WRITE"}
      /\ req = [type |-> req.type, addr |-> req.addr, size |-> req.size, wdata |-> req.wdata]
  BY <1>1 DEF Request
<1>3. /\ bif_state = "BIF_IDLE" /\ bif_state' = "BIF_CYCLE1"
      /\ lat_type' = req.type /\ Latched' = req
  BY <1>2 DEF BifAccept, Latched
<1>4. mem' = mem
  BY <1>3, NoWrite DEF InFirst, InSecond
<1>5. SettledMem' = SettledMem
  BY <1>3, <1>4 DEF SettledMem
<1>6. Phase = "idle" /\ Phase' = "pending" /\ Taken' = req
      /\ Result = "none" /\ Result' = "none"
  BY <1>2, <1>3 DEF Phase, Taken, Result, busy, Performed
<1> QED BY <1>5, <1>6 DEF Atomic!Submit, Phase, Taken, Result, Latched

LEMMA AtomicAddress ==
  ASSUME Aligned, IInv, BifAddress, MemClock(BusCycle), IInv'
  PROVE  Atomic!Perform \/ UNCHANGED Atomic!vars
<1>1. /\ busy /\ busy' /\ keepRequest /\ read_accum' = read_accum
      /\ \/ bif_state = "BIF_CYCLE1" /\ bif_state' = "BIF_CYCLE1_WAIT"
         \/ bif_state = "BIF_CYCLE2" /\ bif_state' = "BIF_CYCLE2_WAIT"
  BY DEF BifAddress, busy
<1>2. Latched' = Latched /\ lat_type' = lat_type /\ lat_type \in {"BUS_READ", "BUS_WRITE"}
  BY <1>1, Shapes DEF keepRequest, Latched, IInv
<1>3. CASE lat_type = "BUS_WRITE" /\ bif_state = "BIF_CYCLE1"
  <2>1. SettledMem' = [b \in Addr |-> LET k == Offset(b, lat_addr)
                                      IN  IF k < ReqBytes(lat_size) THEN lat_wdata[k]
                                                                    ELSE SettledMem[b]]
    BY <1>3, WritePerformed
  <2>2. SettledMem' = Atomic!Written(Latched)
    BY <2>1 DEF Atomic!Written, Atomic!ReqBytes, ReqBytes, Latched, Offset, Addr
  <2>3. /\ Phase = "pending" /\ Phase' = "performed" /\ Taken = Latched /\ Taken' = Taken
        /\ Result' = "none"
    BY <1>1, <1>2, <1>3 DEF Phase, Taken, Result, Performed
  <2>4. Latched.type = "BUS_WRITE"
    BY <1>3 DEF Latched
  <2>5. Atomic!Perform
    BY <1>1, <1>2, <1>3, <2>2, <2>3, <2>4
       DEF Atomic!Perform, Atomic!NoAnswer, Phase, Taken, Result, Latched
  <2> QED BY <2>5
<1>4. CASE lat_type = "BUS_WRITE" /\ bif_state = "BIF_CYCLE2"
  <2>1. SettledMem' = SettledMem
    BY <1>1, <1>4, WriteSettled
  <2>2. Phase' = Phase /\ Taken' = Taken /\ Result' = Result
    BY <1>1, <1>2, <1>4 DEF Phase, Taken, Result, Performed
  <2> QED BY <2>1, <2>2, Unseen
<1>5. CASE lat_type = "BUS_READ"
  <2>1. SettledMem' = SettledMem
    BY <1>2, <1>5, NoWrite DEF SettledMem
  <2>2. Phase' = Phase /\ Taken' = Taken /\ Result' = Result
    BY <1>1, <1>2, <1>5 DEF Phase, Taken, Result, Performed
  <2> QED BY <2>1, <2>2, Unseen
<1> QED BY <1>1, <1>2, <1>3, <1>4, <1>5

LEMMA AtomicWait ==
  ASSUME Aligned, IInv, BifWait(bus_ready), MemClock(BusCycle)
  PROVE  UNCHANGED Atomic!vars
<1>1. /\ busy /\ keepRequest /\ bif_state' = bif_state /\ read_accum' = read_accum
      /\ bif_state \in {"BIF_CYCLE1_WAIT", "BIF_CYCLE2_WAIT"}
  BY DEF BifWait, bifVars, keepRequest, busy
<1>2. Latched' = Latched /\ lat_type' = lat_type /\ lat_type \in {"BUS_READ", "BUS_WRITE"}
  BY <1>1, Shapes DEF keepRequest, Latched, IInv
<1>3. SettledMem' = SettledMem
  BY <1>1, <1>2, WriteSettled, NoWrite DEF SettledMem
<1>4. Phase' = Phase /\ Taken' = Taken /\ Result' = Result
  BY <1>1, <1>2 DEF Phase, Taken, Result, Performed, busy
<1> QED BY <1>3, <1>4, Unseen

\* A read is performed on the edge after which its response is there.
LEMMA AtomicRead ==
  ASSUME Aligned, IInv, IInv', keepRequest, MemClock(BusCycle), lat_type = "BUS_READ",
         busy, bif_state # "BIF_DONE", bif_state' = "BIF_DONE"
  PROVE  Atomic!Perform
<1>1. Latched' = Latched /\ lat_type' = lat_type /\ lat_size' = lat_size
      /\ lat_addr' = lat_addr /\ busy'
  BY DEF keepRequest, Latched, busy
<1>2. mem' = mem /\ SettledMem = mem /\ SettledMem' = mem
  BY <1>1, NoWrite DEF SettledMem
<1>3. Gathered(ReqBytes(lat_size))'
  BY <1>1 DEF IInv, Reading
<1>4. \A k \in 0 .. 3 :
        k < ReqBytes(lat_size) => read_accum'[k] = mem[(lat_addr + k) % ADDR_SPACE]
  BY <1>1, <1>2, <1>3 DEF Gathered
<1>5. resp_rdata' = [k \in 0 .. 3 |-> IF k < ReqBytes(lat_size)
                                      THEN mem[(lat_addr + k) % ADDR_SPACE] ELSE ZeroByte]
  BY <1>1, <1>4 DEF resp_rdata, Masked
<1>6. resp_rdata' = Atomic!ReadValue(Latched)
  BY <1>2, <1>5 DEF Atomic!ReadValue, Atomic!ReqBytes, ReqBytes, Latched
<1>7. /\ Phase = "pending" /\ Phase' = "performed" /\ Taken = Latched /\ Taken' = Taken
      /\ Result' = resp_rdata'
  BY <1>1 DEF Phase, Taken, Result, Performed
<1>8. Latched.type = "BUS_READ"
  BY DEF Latched
<1> QED BY <1>1, <1>2, <1>6, <1>7, <1>8
        DEF Atomic!Perform, Atomic!NoAnswer, Phase, Taken, Result, Latched

LEMMA AtomicAfterCycle ==
  ASSUME Aligned, IInv, IInv', MemClock(BusCycle),
         \/ BifFirstDone(bus_ready, ReadLanes(BusCycle.addr))
         \/ BifSecondDone(bus_ready, ReadLanes(BusCycle.addr))
  PROVE  Atomic!Perform \/ UNCHANGED Atomic!vars
<1>1. /\ busy /\ busy' /\ keepRequest /\ bif_state # "BIF_DONE"
      /\ \/ /\ bif_state = "BIF_CYCLE1_WAIT"
            /\ \/ bif_state' = "BIF_CYCLE2" /\ need_second
               \/ bif_state' = "BIF_DONE" /\ ~need_second
         \/ bif_state = "BIF_CYCLE2_WAIT" /\ bif_state' = "BIF_DONE"
  BY DEF BifFirstDone, BifSecondDone, busy
<1>2. Latched' = Latched /\ lat_type' = lat_type /\ lat_type \in {"BUS_READ", "BUS_WRITE"}
  BY <1>1, Shapes DEF keepRequest, Latched, IInv
<1>3. CASE lat_type = "BUS_WRITE"
  <2>1. SettledMem' = SettledMem
    BY <1>1, <1>3, WriteSettled
  <2>2. Phase' = Phase /\ Taken' = Taken /\ Result' = Result
    BY <1>1, <1>2, <1>3 DEF Phase, Taken, Result, Performed
  <2> QED BY <2>1, <2>2, Unseen
<1>4. CASE lat_type = "BUS_READ" /\ bif_state' = "BIF_DONE"
  BY <1>1, <1>4, AtomicRead
<1>5. CASE lat_type = "BUS_READ" /\ bif_state' = "BIF_CYCLE2"
  <2>1. SettledMem' = SettledMem
    BY <1>2, <1>5, NoWrite DEF SettledMem
  <2>2. Phase' = Phase /\ Taken' = Taken /\ Result' = Result
    BY <1>1, <1>2, <1>5 DEF Phase, Taken, Result, Performed
  <2> QED BY <2>1, <2>2, Unseen
<1> QED BY <1>1, <1>2, <1>3, <1>4, <1>5

LEMMA AtomicDone ==
  ASSUME Aligned, IInv, BifDone, MemClock(BusCycle)
  PROVE  Atomic!Respond
<1>1. /\ busy /\ ~busy' /\ bif_state = "BIF_DONE" /\ lat_type' = lat_type
      /\ bif_state' = "BIF_IDLE"
  BY DEF BifDone, busy, keepRequest
<1>2. lat_type \in {"BUS_READ", "BUS_WRITE"} /\ mem' = mem
  BY <1>1, Shapes, NoWrite DEF IInv, InFirst, InSecond
<1>3. SettledMem' = SettledMem
  BY <1>1, <1>2 DEF SettledMem
<1>4. Phase = "performed" /\ Phase' = "idle" /\ Taken' = NoReq /\ Result' = "none"
  BY <1>1, <1>2 DEF Phase, Taken, Result, Performed
<1> QED BY <1>3, <1>4
        DEF Atomic!Respond, Atomic!NoReq, Atomic!NoAnswer, NoReq, Phase, Taken, Result, Latched

LEMMA AtomicIdle ==
  ASSUME BifIdle(NoReq), MemClock(BusCycle)
  PROVE  UNCHANGED Atomic!vars
<1>1. bif_state = "BIF_IDLE" /\ UNCHANGED bifVars /\ mem' = mem
  BY NoWrite DEF BifIdle, InFirst, InSecond
<1>2. SettledMem' = SettledMem /\ Phase' = Phase /\ Taken' = Taken /\ Result' = Result
  BY <1>1 DEF bifVars, SettledMem, Phase, Taken, Result, busy
<1> QED BY <1>2, Unseen

LEMMA AtomicStep ==
  ASSUME Aligned, IInv, [Next]_vars
  PROVE  [Atomic!Next]_(Atomic!vars)
<1>1. CASE UNCHANGED vars
  <2>1. SettledMem' = SettledMem /\ Phase' = Phase /\ Taken' = Taken /\ Result' = Result
    BY <1>1 DEF vars, bifVars, SettledMem, Phase, Taken, Result, Latched, busy, Performed,
                resp_rdata, Masked
  <2> QED BY <2>1, Unseen
<1>2. ASSUME NEW req \in CoreRequests \cup {NoReq}, Clock(req)
      PROVE  [Atomic!Next]_(Atomic!vars)
  <2>1. MemClock(BusCycle) /\ BifClock(req, bus_ready, ReadLanes(BusCycle.addr))
    BY <1>2 DEF Clock
  <2>2. IInv'
    BY <1>2, ClockStep DEF Next, Clock, BifClock, BifAccept, BifIdle
  <2>3. CASE BifAccept(req)
    BY <2>1, <2>3, AtomicAccept DEF BifAccept, Atomic!Next
  <2>4. CASE BifIdle(req)
    BY <2>1, <2>4, AtomicIdle DEF BifIdle
  <2>5. CASE BifAddress
    BY <2>1, <2>2, <2>5, AtomicAddress DEF Atomic!Next
  <2>6. CASE BifWait(bus_ready)
    BY <2>1, <2>6, AtomicWait
  <2>7. CASE BifFirstDone(bus_ready, ReadLanes(BusCycle.addr))
             \/ BifSecondDone(bus_ready, ReadLanes(BusCycle.addr))
    BY <2>1, <2>2, <2>7, AtomicAfterCycle DEF Atomic!Next
  <2>8. CASE BifDone
    BY <2>1, <2>8, AtomicDone DEF Atomic!Next
  <2> QED BY <2>1, <2>3, <2>4, <2>5, <2>6, <2>7, <2>8 DEF BifClock
<1> QED BY <1>1, <1>2 DEF Next

\* Every run of bus interface and memory is one of AtomicMemory: a request is taken,
\* takes effect as a whole on one clock edge, and is answered (v60_bus_if.sv: the FSM,
\* the write lanes and the lane extraction). That it is answered in the end is not
\* part of this.
THEOREM AccessesAtomic ==
  ASSUME Aligned
  PROVE  Init /\ [][Next]_vars => Atomic!Init /\ [][Atomic!Next]_(Atomic!vars)
<1>1. Init => Atomic!Init
  BY DEF Init, MemInit, BifInit, Atomic!Init, Atomic!NoReq, Atomic!NoAnswer, NoReq,
         SettledMem, busy
<1>2. IInv /\ [Next]_vars => IInv' /\ [Atomic!Next]_(Atomic!vars)
  BY ClockStep, AtomicStep
<1> QED BY InitInv, <1>1, <1>2, PTL
=============================================================================
