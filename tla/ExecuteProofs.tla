--------------------------- MODULE ExecuteProofs ---------------------------
(***************************************************************************)
(* Proofs about the main state machine: what an instruction saves on the   *)
(* stack is what the one that restores it finds.                           *)
(***************************************************************************)
EXTENDS Execute, FiniteSetTheorems, TLAPS

\* The library's facts about orders.
Order == INSTANCE WellFoundedInduction

-----------------------------------------------------------------------------
(* Numbers.                                                                *)

\* Sizes of bytes, words and memory.
LEMMA Sizes ==
  /\ BYTE \in Nat \ {0, 1} /\ BYTE * BYTE \in Nat \ {0} /\ BYTE * BYTE * BYTE \in Nat \ {0}
  /\ WORD = BYTE * BYTE * BYTE * BYTE /\ WORD \in Nat \ {0}
  /\ MEM \in Nat \ {0} /\ MEM >= 4 /\ \E c \in Int : WORD = MEM * c
  /\ SP \in Nat /\ SP >= 2 /\ WordBits = SP + 1
<1>1. BYTE \in Nat \ {0, 1} /\ MEM \in Nat \ {0}  BY MachineAssumption
<1>2. BYTE * BYTE \in Nat \ {0}  BY <1>1
<1>3. BYTE * BYTE * BYTE \in Nat \ {0}  BY <1>1, <1>2
<1>4. BYTE * BYTE * BYTE * BYTE \in Nat \ {0}  BY <1>1, <1>3
<1>5. WORD = BYTE * BYTE * BYTE * BYTE  BY DEF WORD, Values
<1>6. SP \in Nat /\ SP >= 2 /\ WordBits = SP + 1 /\ MEM >= 4
  BY <1>1, ExecuteAssumption
<1>7. \E c \in Int : WORD = MEM * c
  <2> DEFINE c == WORD \div MEM
  <2>1. WORD % MEM = 0  BY <1>5, MachineAssumption
  <2> HIDE DEF c
  <2>2. c \in Int /\ WORD = MEM * c  BY <1>1, <1>4, <1>5, <2>1 DEF c
  <2> QED  BY <2>2
<1> QED  BY <1>1, <1>2, <1>3, <1>4, <1>5, <1>6, <1>7

\* A remainder.
LEMMA Division ==
  ASSUME NEW N \in Nat \ {0}, NEW q \in Int, NEW r \in 0 .. N - 1
  PROVE  (N * q + r) % N = r /\ (N * q + r) \div N = q
  BY SMTT(30)

\* Whole rounds make no difference.
LEMMA Rounds ==
  ASSUME NEW N \in Nat \ {0}, NEW q \in Int, NEW x \in Int
  PROVE  (x + N * q) % N = x % N
<1> DEFINE p == x \div N
           r == x % N
<1>1. p \in Int /\ r \in 0 .. N - 1 /\ x = N * p + r  BY SMTT(20)
<1> HIDE DEF p, r
<1>2. N * (p + q) = N * p + N * q  BY <1>1, SMTT(20)
<1>3. N * p \in Int /\ N * q \in Int /\ p + q \in Int  BY <1>1
<1>4. x + N * q = N * (p + q) + r  BY <1>1, <1>2, <1>3
<1>5. (N * (p + q) + r) % N = r  BY <1>1, <1>3, Division
<1> QED  BY <1>4, <1>5 DEF r

\* A sum may be reduced before it is formed.
LEMMA Reduced ==
  ASSUME NEW N \in Nat \ {0}, NEW x \in Int, NEW y \in Int
  PROVE  ((x % N) + y) % N = (x + y) % N /\ x % N \in 0 .. N - 1
<1> DEFINE p == x \div N
           r == x % N
<1>1. p \in Int /\ r \in 0 .. N - 1 /\ x = N * p + r  BY SMTT(20)
<1> HIDE DEF p, r
<1>2. N * p \in Int /\ x + y = (r + y) + N * p  BY <1>1
<1>3. ((r + y) + N * p) % N = (r + y) % N
  <2>1. r + y \in Int  BY <1>1
  <2> QED  BY <1>1, <2>1, Rounds
<1> QED  BY <1>1, <1>2, <1>3 DEF r

\* An address may be reduced to a word before it is one of memory.
LEMMA WordAddress ==
  ASSUME NEW x \in Int, NEW y \in Int
  PROVE  ((x % WORD) + y) % MEM = (x + y) % MEM
<1>1. PICK c \in Int : WORD = MEM * c  BY Sizes
<1> DEFINE p == x \div WORD
           r == x % WORD
<1>2. p \in Int /\ r \in Int /\ x = WORD * p + r  BY Sizes, SMTT(20)
<1> HIDE DEF p, r
<1>3. WORD * p = MEM * (c * p)  BY Sizes, <1>1, <1>2, SMTT(20)
<1>4. c * p \in Int /\ MEM * (c * p) \in Int  BY <1>1, <1>2, Sizes
<1>5. x + y = (r + y) + MEM * (c * p)  BY <1>2, <1>3, <1>4
<1>6. ((r + y) + MEM * (c * p)) % MEM = (r + y) % MEM
  <2>1. r + y \in Int  BY <1>2
  <2> QED  BY <1>4, <2>1, Rounds, Sizes
<1> QED  BY <1>5, <1>6 DEF r

\* And what is subtracted, too.
LEMMA WordDifference ==
  ASSUME NEW x \in Int, NEW y \in Int
  PROVE  (y - (x % WORD)) % MEM = (y - x) % MEM
<1>1. PICK c \in Int : WORD = MEM * c  BY Sizes
<1> DEFINE p == x \div WORD
           r == x % WORD
<1>2. p \in Int /\ r \in Int /\ x = WORD * p + r  BY Sizes, SMTT(20)
<1> HIDE DEF p, r
<1>3. WORD * p = MEM * (c * p)  BY Sizes, <1>1, <1>2, SMTT(20)
<1>4. c * p \in Int /\ MEM * (c * p) \in Int  BY <1>1, <1>2, Sizes
<1>5. y - r = (y - x) + MEM * (c * p)  BY <1>2, <1>3, <1>4
<1>6. ((y - x) + MEM * (c * p)) % MEM = (y - x) % MEM
  <2>1. y - x \in Int  OBVIOUS
  <2> QED  BY <1>4, <2>1, Rounds, Sizes
<1> QED  BY <1>5, <1>6 DEF r

\* The bytes of a word.
LEMMA Bytes ==
  ASSUME NEW v \in Word
  PROVE  LET b(k) == (v \div Weight(k)) % BYTE
         IN /\ b(0) + b(1) * BYTE + (b(2) + b(3) * BYTE) * Values(2) = v
            /\ \A k \in 0 .. 3 : b(k) \in 0 .. BYTE - 1
<1> DEFINE B == BYTE
           r0 == v % B
           v1 == v \div B
           r1 == v1 % B
           v2 == v1 \div B
           r2 == v2 % B
           v3 == v2 \div B
<1>1. B \in Nat \ {0, 1} /\ v \in Int /\ v \in 0 .. B * B * B * B - 1
  BY Sizes DEF Word
<1>2. v1 \in Int /\ r0 \in 0 .. B - 1 /\ v = B * v1 + r0  BY <1>1, SMTT(20)
<1>3. v2 \in Int /\ r1 \in 0 .. B - 1 /\ v1 = B * v2 + r1  BY <1>1, <1>2, SMTT(20)
<1>4. v3 \in Int /\ r2 \in 0 .. B - 1 /\ v2 = B * v3 + r2  BY <1>1, <1>3, SMTT(20)
<1> HIDE DEF r0, v1, r1, v2, r2, v3
<1>5. B * r1 + r0 \in 0 .. B * B - 1 /\ v = (B * B) * v2 + (B * r1 + r0)
  BY <1>1, <1>2, <1>3, SMTT(30)
<1>6. v \div (B * B) = v2
  <2>1. B * B \in Nat \ {0}  BY Sizes
  <2> QED  BY <1>3, <1>5, <2>1, Division
<1>7. (B * B) * r2 + (B * r1 + r0) \in 0 .. B * B * B - 1
      /\ v = (B * B * B) * v3 + ((B * B) * r2 + (B * r1 + r0))
  BY <1>1, <1>4, <1>5, SMTT(30)
<1>8. v \div (B * B * B) = v3
  <2>1. B * B * B \in Nat \ {0}  BY Sizes
  <2> QED  BY <1>4, <1>7, <2>1, Division
<1>9. v3 \in 0 .. B - 1
  BY <1>1, <1>4, <1>7, SMTT(30)
<1>10. v3 % B = v3  BY <1>1, <1>9
<1>11. /\ Weight(0) = 1 /\ Weight(1) = B /\ Weight(2) = B * B /\ Weight(3) = B * B * B
       /\ Values(2) = B * B
  BY DEF Weight, Values
<1>12. v \div 1 = v  BY <1>1
<1>13. r0 + r1 * B + (r2 + v3 * B) * (B * B) = v
  BY <1>1, <1>2, <1>3, <1>4, SMTT(30)
<1>14. /\ (v \div Weight(0)) % B = r0 /\ (v \div Weight(1)) % B = r1
       /\ (v \div Weight(2)) % B = r2 /\ (v \div Weight(3)) % B = v3
  BY <1>6, <1>8, <1>10, <1>11, <1>12 DEF r0, v1, r1, r2
<1>15. \A k \in 0 .. 3 : k = 0 \/ k = 1 \/ k = 2 \/ k = 3  OBVIOUS
<1> QED  BY <1>2, <1>3, <1>4, <1>9, <1>11, <1>13, <1>14, <1>15

-----------------------------------------------------------------------------
(* Memory.                                                                 *)

\* A word in memory.
LEMMA LoadWord ==
  ASSUME NEW mem \in Memory, NEW a \in Int
  PROVE  Load(mem, a, 4) \in Word
<1> DEFINE B == BYTE
           b(k) == mem[(a + k) % MEM]
<1>1. ASSUME NEW k \in Int
      PROVE  b(k) \in 0 .. B - 1
  <2>1. (a + k) % MEM \in 0 .. MEM - 1  BY Sizes
  <2> QED  BY <2>1 DEF Memory
<1>2. /\ b(0) \in 0 .. B - 1 /\ b(0 + 1) \in 0 .. B - 1
      /\ b(2) \in 0 .. B - 1 /\ b(2 + 1) \in 0 .. B - 1
  BY <1>1
<1>3. Load(mem, a, 4) = b(0) + b(0 + 1) * B + (b(2) + b(2 + 1) * B) * (B * B)
  BY DEF Load, Values
<1> HIDE DEF b
<1>4. b(0) + b(0 + 1) * B \in 0 .. B * B - 1 /\ b(2) + b(2 + 1) * B \in 0 .. B * B - 1
  BY <1>2, Sizes, SMTT(30)
<1> DEFINE x == b(0) + b(0 + 1) * B
           y == b(2) + b(2 + 1) * B
           W == B * B
<1>5. x \in 0 .. W - 1 /\ y \in 0 .. W - 1 /\ W \in Nat \ {0}  BY <1>4, Sizes
<1>6. WORD = W * W  BY Sizes, SMTT(20)
<1>7. Load(mem, a, 4) = x + y * W  BY <1>3
<1> HIDE DEF x, y, W
<1>8. x + y * W \in 0 .. W * W - 1  BY <1>5, SMTT(30)
<1> QED  BY <1>6, <1>7, <1>8 DEF Word

\* Memory with a word stored.
LEMMA StoreMemory ==
  ASSUME NEW mem \in Memory, NEW a \in Int, NEW v \in Word
  PROVE  Store(mem, a, 4, v) \in Memory
<1> SUFFICES ASSUME NEW b \in 0 .. MEM - 1
             PROVE  Store(mem, a, 4, v)[b] \in 0 .. BYTE - 1
  BY DEF Store, Memory
<1> DEFINE k == (b - a) % MEM
<1>1. k \in Nat  BY Sizes
<1>2. Store(mem, a, 4, v)[b] = IF k < 4 THEN (v \div Weight(k)) % BYTE ELSE mem[b]
  BY DEF Store, Memory
<1>3. mem[b] \in 0 .. BYTE - 1  BY DEF Memory
<1> HIDE DEF k
<1>4. k < 4 => (v \div Weight(k)) % BYTE \in 0 .. BYTE - 1
  <2>1. k < 4 => k \in 0 .. 3  BY <1>1
  <2> QED  BY <2>1, Bytes
<1> QED  BY <1>2, <1>3, <1>4

\* A byte of memory seen from the address a.
LEMMA Offset ==
  ASSUME NEW a \in Int, NEW x \in Int
  PROVE  (x % MEM) \in 0 .. MEM - 1 /\ ((x % MEM) - a) % MEM = (x - a) % MEM
<1>1. -a \in Int  OBVIOUS
<1>2. /\ ((x % MEM) + (-a)) % MEM = (x + (-a)) % MEM
      /\ x % MEM \in 0 .. MEM - 1
  BY <1>1, Sizes, Reduced
<1>3. x % MEM \in Int  BY <1>2
<1>4. (x % MEM) + (-a) = (x % MEM) - a /\ x + (-a) = x - a  BY <1>3
<1> QED  BY <1>2, <1>4

\* What was stored is loaded.
LEMMA LoadStored ==
  ASSUME NEW mem \in Memory, NEW a \in Int, NEW v \in Word
  PROVE  Load(Store(mem, a, 4, v), a, 4) = v
<1> DEFINE new == Store(mem, a, 4, v)
           b(k) == (v \div Weight(k)) % BYTE
<1>1. ASSUME NEW k \in 0 .. 3
      PROVE  new[(a + k) % MEM] = b(k)
  <2>1. /\ (a + k) % MEM \in 0 .. MEM - 1
        /\ (((a + k) % MEM) - a) % MEM = ((a + k) - a) % MEM
    BY Offset
  <2>2. (a + k) - a = k /\ k % MEM = k  BY Sizes
  <2>3. new[(a + k) % MEM] =
          LET j == (((a + k) % MEM) - a) % MEM
          IN  IF j < 4 THEN (v \div Weight(j)) % BYTE ELSE mem[(a + k) % MEM]
    BY <2>1 DEF Store, Memory
  <2> QED  BY <2>1, <2>2, <2>3
<1> HIDE DEF new
<1>2. /\ new[(a + 0) % MEM] = b(0) /\ new[(a + (0 + 1)) % MEM] = b(1)
      /\ new[(a + 2) % MEM] = b(2) /\ new[(a + (2 + 1)) % MEM] = b(3)
  <2>1. 0 \in 0 .. 3 /\ 1 \in 0 .. 3 /\ 2 \in 0 .. 3 /\ 3 \in 0 .. 3 /\ 0 + 1 = 1 /\ 2 + 1 = 3
    OBVIOUS
  <2> HIDE DEF b
  <2> QED  BY <1>1, <2>1
<1>3. Load(new, a, 4) = b(0) + b(1) * BYTE + (b(2) + b(3) * BYTE) * Values(2)
  <2> HIDE DEF b
  <2> QED  BY <1>2 DEF Load
<1> QED  BY <1>3, Bytes DEF new

\* And a word that lies elsewhere stays.
LEMMA LoadKept ==
  ASSUME NEW mem \in Memory, NEW a \in Int, NEW v \in Word, NEW b \in Int,
         NEW d \in 4 .. MEM - 4, (b - a) % MEM = d
  PROVE  Load(Store(mem, a, 4, v), b, 4) = Load(mem, b, 4)
<1> DEFINE new == Store(mem, a, 4, v)
<1>1. ASSUME NEW k \in 0 .. 3
      PROVE  new[(b + k) % MEM] = mem[(b + k) % MEM]
  <2>1. /\ (b + k) % MEM \in 0 .. MEM - 1
        /\ (((b + k) % MEM) - a) % MEM = ((b + k) - a) % MEM
    <3>1. b + k \in Int  OBVIOUS
    <3> HIDE DEF new
    <3> QED  BY <3>1, Offset
  <2>2. ((b + k) - a) % MEM = d + k
    <3>1. b - a \in Int /\ k \in Int /\ (b + k) - a = (b - a) + k  OBVIOUS
    <3>2. (((b - a) % MEM) + k) % MEM = ((b - a) + k) % MEM  BY <3>1, Sizes, Reduced
    <3>3. (d + k) % MEM = d + k  BY Sizes
    <3> QED  BY <3>1, <3>2, <3>3
  <2>3. ~(d + k < 4)  OBVIOUS
  <2>4. new[(b + k) % MEM] =
          LET j == (((b + k) % MEM) - a) % MEM
          IN  IF j < 4 THEN (v \div Weight(j)) % BYTE ELSE mem[(b + k) % MEM]
    BY <2>1 DEF Store, Memory
  <2> QED  BY <2>1, <2>2, <2>3, <2>4
<1> HIDE DEF new
<1>2. /\ new[(b + 0) % MEM] = mem[(b + 0) % MEM]
      /\ new[(b + (0 + 1)) % MEM] = mem[(b + (0 + 1)) % MEM]
      /\ new[(b + 2) % MEM] = mem[(b + 2) % MEM]
      /\ new[(b + (2 + 1)) % MEM] = mem[(b + (2 + 1)) % MEM]
  BY <1>1
<1> QED  BY <1>2 DEF Load, new

-----------------------------------------------------------------------------
(* The stack.                                                              *)

\* The stack pointer of the machine q, and where the word number n that is pushed goes.
StackPointer(q) == q.preg[StackOf(q.psw)]
Slot(q, n) == (StackPointer(q) - 4 * n) % WORD

\* There is one.
LEMMA StackPointerWord ==
  ASSUME NEW q \in MachineState
  PROVE  StackPointer(q) \in Word /\ StackOf(q.psw) \in DOMAIN q.preg
<1>1. StackOf(q.psw) \in PrivilegedRegisters
  BY DEF StackOf, PrivilegedRegisters, ISP, L0SP, L1SP, SBR
<1> QED  BY <1>1 DEF StackPointer, MachineState

\* A place on the stack is a word, and the next ones are four bytes below and above it.
LEMMA Slots ==
  ASSUME NEW q \in MachineState, NEW n \in Int
  PROVE  /\ Slot(q, n) \in Word
         /\ (Slot(q, n) - 4) % WORD = Slot(q, n + 1)
         /\ (Slot(q, n) + 4) % WORD = Slot(q, n - 1)
         /\ Slot(q, 0) = StackPointer(q)
         /\ Slot(q, 1) = (StackPointer(q) - 4) % WORD
<1> DEFINE s == StackPointer(q)
<1>1. s \in 0 .. WORD - 1  BY StackPointerWord DEF Word
<1> HIDE DEF s
<1>2. WORD \in Nat \ {0}  BY Sizes
<1>3. s - 4 * n \in Int /\ -4 \in Int /\ 4 \in Int  BY <1>1
<1>4. /\ (s - 4 * n) % WORD \in 0 .. WORD - 1
      /\ (((s - 4 * n) % WORD) + (-4)) % WORD = ((s - 4 * n) + (-4)) % WORD
      /\ (((s - 4 * n) % WORD) + 4) % WORD = ((s - 4 * n) + 4) % WORD
  BY <1>2, <1>3, Reduced
<1>5. /\ ((s - 4 * n) % WORD) + (-4) = ((s - 4 * n) % WORD) - 4
      /\ (s - 4 * n) + (-4) = s - 4 * (n + 1)
      /\ (s - 4 * n) + 4 = s - 4 * (n - 1)
  BY <1>1, <1>4
<1>6. s - 4 * 0 = s /\ s % WORD = s /\ s - 4 * 1 = s - 4  BY <1>1, <1>2
<1> QED  BY <1>4, <1>5, <1>6 DEF Slot, s, Word

\* Different places are different words of memory, as long as there is memory for all.
LEMMA SlotsApart ==
  ASSUME NEW q \in MachineState, NEW n \in Nat, NEW k \in 1 .. n - 1, 4 * n <= MEM
  PROVE  (Slot(q, k) - Slot(q, n)) % MEM \in 4 .. MEM - 4
<1> DEFINE s == StackPointer(q)
<1>1. s \in Int  BY StackPointerWord DEF Word
<1> HIDE DEF s
<1>2. s - 4 * n \in Int /\ s - 4 * k \in Int /\ Slot(q, n) \in Int /\ -Slot(q, n) \in Int
  <2>1. n \in Int  OBVIOUS
  <2>2. Slot(q, n) \in Word  BY <2>1, Slots
  <2> QED  BY <1>1, <2>2 DEF Word
<1>3. (((s - 4 * k) % WORD) + (-Slot(q, n))) % MEM = ((s - 4 * k) + (-Slot(q, n))) % MEM
  BY <1>2, WordAddress
<1>4. ((s - 4 * k) - ((s - 4 * n) % WORD)) % MEM = ((s - 4 * k) - (s - 4 * n)) % MEM
  BY <1>2, WordDifference
<1>5. (s - 4 * k) - (s - 4 * n) = 4 * (n - k)  BY <1>1
<1>6. 4 * (n - k) \in 4 .. MEM - 4  BY Sizes
<1>7. (4 * (n - k)) % MEM = 4 * (n - k)  BY <1>6, Sizes
<1>8. Slot(q, k) = (s - 4 * k) % WORD /\ Slot(q, n) = (s - 4 * n) % WORD  BY DEF Slot, s
<1>9. ((s - 4 * k) % WORD) + (-Slot(q, n)) = Slot(q, k) - Slot(q, n)
      /\ (s - 4 * k) + (-Slot(q, n)) = (s - 4 * k) - Slot(q, n)
  <2>1. Slot(q, k) \in Int
    <3>1. k \in Int  OBVIOUS
    <3>2. Slot(q, k) \in Word  BY <3>1, Slots
    <3> QED  BY <3>2 DEF Word
  <2> QED  BY <1>2, <1>8, <2>1
<1> QED  BY <1>3, <1>4, <1>5, <1>6, <1>7, <1>8, <1>9

-----------------------------------------------------------------------------
(* What is saved.                                                          *)

\* The machine q with the stack pointer lowered by n words and other memory.
Stacked(q, n, mem) == [q EXCEPT !.preg[StackOf(q.psw)] = Slot(q, n), !.mem = mem]

\* The register x of q, the stack pointer among them.
RegisterOf(q, x) == IF x = SP THEN StackPointer(q) ELSE q.reg[x]

\* What PUSH pushes, and what lies behind a call.
PushedValue(i, q) ==
  IF i.to.mode \in AMConstant THEN i.to.disp ELSE RegisterOf(q, i.to.reg)
ReturnAddress(i, q) == (q.pc + i.len) % WORD

\* The registers a constant list names; what is pushed for each; and how many are pushed
\* until it is, itself among them.
List(i) == Bits(i.to.disp)
Listed(q, x) == IF x = SP THEN q.psw ELSE q.reg[x]
Rank(L, x) == Cardinality({y \in L : y >= x})

\* Those of the list L that are in P lie in memory.
ListSaved(q, mem, L, P) == \A x \in P : Load(mem, Slot(q, Rank(L, x)), 4) = Listed(q, x)

\* What the instruction i that began with the machine q leaves in the machine r.
Saved(i, q, r) ==
  /\ i.op \in {"CF_JSR", "CF_BSR"} =>
       /\ r = [Stacked(q, 1, r.mem) EXCEPT !.pc = r.pc]
       /\ Load(r.mem, Slot(q, 1), 4) = ReturnAddress(i, q)
  /\ i.op = "CF_PUSH" =>
       /\ r = [Stacked(q, 1, r.mem) EXCEPT !.pc = r.pc]
       /\ Load(r.mem, Slot(q, 1), 4) = PushedValue(i, q)
  /\ i.op = "CF_PREPARE" =>
       /\ r = [q EXCEPT !.reg = [@ EXCEPT ![FP] = Slot(q, 1)], !.mem = r.mem, !.pc = r.pc,
                        !.preg[StackOf(q.psw)] = r.preg[StackOf(q.psw)]]
       /\ Load(r.mem, Slot(q, 1), 4) = q.reg[FP]
  /\ i.op = "CF_PUSHM" /\ i.to.mode \in AMConstant =>
       /\ r = [Stacked(q, Cardinality(List(i)), r.mem) EXCEPT !.pc = r.pc]
       /\ ListSaved(q, r.mem, List(i), List(i))

-----------------------------------------------------------------------------
(* On the way there, and back.                                             *)

Ended == state \in {"ST_DECODE", "ST_HALT"}

\* A word has been pushed, but the stack pointer is still where it was.
Pushed(q, v) ==
  /\ m = [q EXCEPT !.mem = m.mem] /\ Load(m.mem, Slot(q, 1), 4) = v /\ t.addr = Slot(q, 1)

CallSaving(i, q) ==
  i.op \in {"CF_JSR", "CF_BSR"} =>
    /\ ~Ended /\ state # "ST_WRITEBACK" => m = q
    /\ state = "ST_MEM_READ" => t.indirect
    /\ (state = "ST_EXECUTE2" /\ ~t.indirect) \/ state = "ST_MEM_WRITE" =>
         t.addr = Slot(q, 1) /\ t.data = ReturnAddress(i, q)
    /\ state = "ST_WRITEBACK" => Pushed(q, ReturnAddress(i, q))

PushSaving(i, q) ==
  i.op = "CF_PUSH" =>
    /\ ~Ended /\ state # "ST_WRITEBACK" => m = q
    /\ state = "ST_MEM_WRITE" => t.addr = Slot(q, 1) /\ t.data = PushedValue(i, q)
    /\ state = "ST_WRITEBACK" => Pushed(q, PushedValue(i, q))

FrameSaving(i, q) ==
  i.op = "CF_PREPARE" =>
    /\ ~Ended /\ state # "ST_WRITEBACK" => m = q
    /\ state = "ST_MEM_WRITE" => t.addr = Slot(q, 1) /\ t.data = q.reg[FP] /\ t.step = 1
    /\ state = "ST_WRITEBACK" =>
         /\ m = [q EXCEPT !.mem = m.mem, !.reg = m.reg] /\ t.step \in {0, 1}
         /\ m.reg = IF t.step = 1 THEN q.reg ELSE [q.reg EXCEPT ![FP] = Slot(q, 1)]
         /\ Load(m.mem, Slot(q, 1), 4) = q.reg[FP] /\ t.addr = Slot(q, 1)

\* The registers pushed are the highest ones of the list.
ListPushed(q, L) ==
  LET P == L \ t.bitmap
  IN /\ m = [q EXCEPT !.mem = m.mem] /\ m.mem \in Memory
     /\ t.bitmap \subseteq L /\ \A x \in P, y \in t.bitmap : x > y
     /\ t.addr = Slot(q, Cardinality(P))
     /\ ListSaved(q, m.mem, L, P)

ListSaving(i, q) ==
  i.op = "CF_PUSHM" /\ i.to.mode \in AMConstant =>
    /\ state = "ST_EXECUTE" => m = q
    /\ state # "ST_MEM_READ"
    /\ state \in {"ST_EXECUTE2", "ST_MEM_WRITE", "ST_WRITEBACK"} => ListPushed(q, List(i))
    /\ state = "ST_MEM_WRITE" => t.reg \in t.bitmap /\ \A y \in t.bitmap : t.reg >= y
    /\ state = "ST_WRITEBACK" => t.bitmap = {}

\* The instruction i that began with the machine q saves.
Saving(i, q) ==
  /\ CallSaving(i, q) /\ PushSaving(i, q) /\ FrameSaving(i, q) /\ ListSaving(i, q)
  /\ Ended => Saved(i, q, m)

\* The word at the address a is read and kept.
Reading(q, a) ==
  /\ state # "ST_MEM_WRITE"
  /\ ~Ended /\ state # "ST_WRITEBACK" => m = q
  /\ ~Ended /\ state # "ST_EXECUTE" => t.addr = a
  /\ state = "ST_EXECUTE2" => t.data = Load(q.mem, a, 4)

ReturnRestoring(i, q) ==
  i.op = "CF_RSR" =>
    LET a == StackPointer(q)
        v == Load(q.mem, a, 4)
    IN /\ Reading(q, a)
       /\ state = "ST_WRITEBACK" => m = q /\ t.ret = v
       /\ Ended => m = [q EXCEPT !.preg[StackOf(q.psw)] = (a + 4) % WORD, !.pc = v % WORD]

FrameRestoring(i, q) ==
  i.op = "CF_DISPOSE" =>
    LET a == q.reg[FP]
        p == PutWord(q, FP, Load(q.mem, a, 4))
    IN /\ Reading(q, a)
       /\ state = "ST_WRITEBACK" => m = p
       /\ Ended => m = [PutWord(p, SP, (a + 4) % WORD) EXCEPT !.pc = m.pc]

PopRestoring(i, q) ==
  i.op = "CF_POP" /\ i.to.mode = "Register" /\ i.to.reg # SP =>
    LET a == StackPointer(q)
        p == PutWord(q, i.to.reg, Load(q.mem, a, 4))
    IN /\ Reading(q, a)
       /\ state = "ST_WRITEBACK" => m = p
       /\ Ended => m = [PutWord(p, SP, (a + 4) % WORD) EXCEPT !.pc = m.pc]

\* The registers popped are the lowest ones of the list.
ListPopped(old, L) ==
  /\ t.bitmap \subseteq L /\ \A x \in L \ t.bitmap, y \in t.bitmap : x < y
  /\ t.addr = Slot(old, Cardinality(t.bitmap))

Reread == t.reg \in t.bitmap /\ \A y \in t.bitmap : t.reg <= y

\* p is the instruction that saved the registers of the machine old.
ListRestoring(p, old, i, q) ==
  p.op = "CF_PUSHM" /\ i.op = "CF_POPM" /\ i.to = p.to /\ p.to.mode \in AMConstant =>
    /\ ~Ended => m = q
    /\ state # "ST_MEM_WRITE"
    /\ ~Ended /\ state # "ST_EXECUTE" => ListPopped(old, List(p)) /\ t.step \in {0, 1}
    /\ state = "ST_MEM_READ" => Reread /\ t.step = 1
    /\ state = "ST_EXECUTE2" /\ t.step = 1 => Reread /\ t.data = Load(q.mem, t.addr, 4)
    /\ state = "ST_WRITEBACK" => t.bitmap = {}
    /\ Ended => m = [q EXCEPT !.preg[StackOf(q.psw)] = StackPointer(old), !.pc = m.pc]

Restoring(p, old, i, q) ==
  /\ ReturnRestoring(i, q) /\ FrameRestoring(i, q) /\ PopRestoring(i, q)
  /\ ListRestoring(p, old, i, q)

Latches == {"addr", "addr2", "data", "src", "ret", "psw", "fpsrc", "phase", "step", "bitmap",
            "reg", "indirect", "write"}

IInv ==
  /\ DOMAIN t = Latches
  /\ inst = NoInst => state = "ST_DECODE" /\ past = NoPast /\ m \in MachineState
  /\ inst # NoInst => inst \in Instruction
  /\ inst # NoInst /\ past = NoPast =>
       inst \in Instructions /\ before \in MachineState /\ Saving(inst, before)
  /\ past # NoPast =>
       /\ past.inst \in Instruction /\ past.m \in MachineState
       /\ Saved(past.inst, past.m, before)
       /\ Restoring(past.inst, past.m, inst, before)

-----------------------------------------------------------------------------
(* Steps.                                                                  *)

\* The instruction is under way.
Goes == Execute \/ Access \/ ExecuteAgain \/ Writeback

\* The instruction stays what it is.
LEMMA GoesOn == Goes \/ Halt => UNCHANGED <<inst, before, past>>
  BY DEF Goes, Execute, ExecuteAlu, ExecuteSystem, ExecuteSingle, ExecuteNothing, ExecuteBranch,
         ExecuteMemory, ExecuteJump, ExecuteCall, ExecutePush, ExecutePop, ExecuteList,
         ExecuteFp, ExecuteFpMemory, Access, ReadMemory, WriteMemory, WriteFpResult, WriteOfList,
         ExecuteAgain, FollowPointer, AluOfRead, SystemOfRead, ChangeRead, JumpOfRead,
         CallOfRead, PopOfReturn, PopOfOne, PushNext, PopNext, PopOfList, FpOfFirst, FpOfSecond,
         Writeback, RetireJump, RetireCall, RetireReturn, RetirePrepare, RetireStack, RetireLoop,
         RetireOther, Go, ToWriteback, Execute2, Retire, Halt

\* The steps of an instruction on the stack, or a jump.
ControlGoes ==
  \/ ExecuteNothing \/ ExecuteJump \/ ExecuteCall \/ ExecutePush \/ ExecutePop \/ ExecuteList
  \/ ReadMemory \/ WriteMemory \/ WriteOfList
  \/ JumpOfRead \/ CallOfRead \/ PopOfReturn \/ PopOfOne \/ PushNext \/ PopNext \/ PopOfList
  \/ RetireJump \/ RetireCall \/ RetireReturn \/ RetirePrepare \/ RetireStack \/ RetireLoop

LEMMA ControlSteps ==
  ASSUME inst \in Instruction, inst.op \in Control, Goes
  PROVE  ControlGoes
<1>1. inst.format # "FMT_I" /\ inst.format # "FMT_II"  BY DEF Instruction
<1>2. inst.op \notin FpMoves /\ inst.op # "BRANCH"  BY DEF Control, FpMoves
<1>3. ~ExecuteAlu /\ ~ExecuteSystem /\ ~ExecuteFp /\ ~ExecuteFpMemory /\ ~AluOfRead
      /\ ~SystemOfRead /\ ~FpOfFirst /\ ~FpOfSecond
  BY <1>1 DEF ExecuteAlu, ExecuteSystem, ExecuteFp, ExecuteFpMemory, AluOfRead, SystemOfRead,
              FpOfFirst, FpOfSecond
<1>4. ~ExecuteSingle /\ ~ExecuteMemory /\ ~FollowPointer /\ ~ChangeRead /\ ~RetireOther
  BY DEF ExecuteSingle, ExecuteMemory, FollowPointer, ChangeRead, RetireOther
<1>5. ~ExecuteBranch /\ ~WriteFpResult  BY <1>2 DEF ExecuteBranch, WriteFpResult
<1> QED  BY <1>3, <1>4, <1>5 DEF Goes, ControlGoes, Execute, Access, ExecuteAgain, Writeback

\* JSR and BSR take these.
LEMMA CallSteps ==
  ASSUME inst \in Instruction, inst.op \in {"CF_JSR", "CF_BSR"}, Goes
  PROVE  ExecuteCall \/ ReadMemory \/ WriteMemory \/ CallOfRead \/ RetireCall
<1>1. ControlGoes  BY ControlSteps DEF Control
<1> QED
  BY <1>1 DEF ControlGoes, ExecuteNothing, ExecuteJump, ExecutePush, ExecutePop, ExecuteList,
              WriteOfList, JumpOfRead, PopOfReturn, PopOfOne, PushNext, PopNext, PopOfList,
              RetireJump, RetireReturn, RetirePrepare, RetireStack, RetireLoop

\* PUSH.
LEMMA PushSteps ==
  ASSUME inst \in Instruction, inst.op = "CF_PUSH", Goes
  PROVE  ExecutePush \/ ReadMemory \/ WriteMemory \/ RetireStack
<1>1. ControlGoes  BY ControlSteps DEF Control
<1> QED
  BY <1>1 DEF ControlGoes, ExecuteNothing, ExecuteJump, ExecuteCall, ExecutePop, ExecuteList,
              WriteOfList, JumpOfRead, CallOfRead, PopOfReturn, PopOfOne, PushNext, PopNext,
              PopOfList, RetireJump, RetireCall, RetireReturn, RetirePrepare, RetireLoop

\* PREPARE.
LEMMA FrameSteps ==
  ASSUME inst \in Instruction, inst.op = "CF_PREPARE", Goes
  PROVE  ExecutePush \/ ReadMemory \/ WriteMemory \/ RetirePrepare
<1>1. ControlGoes  BY ControlSteps DEF Control
<1> QED
  BY <1>1 DEF ControlGoes, ExecuteNothing, ExecuteJump, ExecuteCall, ExecutePop, ExecuteList,
              WriteOfList, JumpOfRead, CallOfRead, PopOfReturn, PopOfOne, PushNext, PopNext,
              PopOfList, RetireJump, RetireCall, RetireReturn, RetireStack, RetireLoop

\* PUSHM.
LEMMA ListSteps ==
  ASSUME inst \in Instruction, inst.op = "CF_PUSHM", Goes
  PROVE  ExecuteList \/ ReadMemory \/ WriteOfList \/ PushNext \/ RetireStack
<1>1. ControlGoes  BY ControlSteps DEF Control
<1> QED
  BY <1>1 DEF ControlGoes, ExecuteNothing, ExecuteJump, ExecuteCall, ExecutePush, ExecutePop,
              WriteMemory, JumpOfRead, CallOfRead, PopOfReturn, PopOfOne, PopNext,
              PopOfList, RetireJump, RetireCall, RetireReturn, RetirePrepare, RetireLoop

\* RSR.
LEMMA ReturnSteps ==
  ASSUME inst \in Instruction, inst.op = "CF_RSR", Goes
  PROVE  ExecutePop \/ ReadMemory \/ WriteMemory \/ PopOfOne \/ RetireReturn
<1>1. ControlGoes  BY ControlSteps DEF Control
<1> QED
  BY <1>1 DEF ControlGoes, ExecuteNothing, ExecuteJump, ExecuteCall, ExecutePush, ExecuteList,
              WriteOfList, JumpOfRead, CallOfRead, PopOfReturn, PushNext, PopNext, PopOfList,
              RetireJump, RetireCall, RetirePrepare, RetireStack, RetireLoop

\* DISPOSE and POP.
LEMMA PopSteps ==
  ASSUME inst \in Instruction, inst.op \in {"CF_DISPOSE", "CF_POP"}, Goes
  PROVE  ExecutePop \/ ReadMemory \/ WriteMemory \/ PopOfOne \/ RetireStack
<1>1. ControlGoes  BY ControlSteps DEF Control
<1> QED
  BY <1>1 DEF ControlGoes, ExecuteNothing, ExecuteJump, ExecuteCall, ExecutePush, ExecuteList,
              WriteOfList, JumpOfRead, CallOfRead, PopOfReturn, PushNext, PopNext, PopOfList,
              RetireJump, RetireCall, RetireReturn, RetirePrepare, RetireLoop

\* POPM.
LEMMA ListAgainSteps ==
  ASSUME inst \in Instruction, inst.op = "CF_POPM", Goes
  PROVE  ExecuteList \/ ReadMemory \/ WriteMemory \/ PopNext \/ PopOfList \/ RetireStack
<1>1. ControlGoes  BY ControlSteps DEF Control
<1> QED
  BY <1>1 DEF ControlGoes, ExecuteNothing, ExecuteJump, ExecuteCall, ExecutePush, ExecutePop,
              WriteOfList, JumpOfRead, CallOfRead, PopOfReturn, PopOfOne, PushNext,
              RetireJump, RetireCall, RetireReturn, RetirePrepare, RetireLoop

\* The latches are always the same ones.
LEMMA LatchesStay == DOMAIN t = Latches /\ (Goes \/ Halt \/ Decode) => DOMAIN t' = Latches
<1> SUFFICES ASSUME DOMAIN t = Latches, Goes \/ Halt \/ Decode
             PROVE  DOMAIN t' = Latches
  OBVIOUS
<1>1. CASE Execute
  BY <1>1 DEF Execute, ExecuteAlu, ExecuteSystem, ExecuteSingle, ExecuteNothing, ExecuteBranch,
         ExecuteMemory, ExecuteJump, ExecuteCall, ExecutePush, ExecutePop, ExecuteList,
         ExecuteFp, ExecuteFpMemory, Go, ToWriteback
<1>2. CASE Access
  BY <1>2 DEF Access, ReadMemory, WriteMemory, WriteFpResult, WriteOfList, Go, Served
<1>3. CASE ExecuteAgain
  BY <1>3 DEF ExecuteAgain, FollowPointer, AluOfRead, SystemOfRead, ChangeRead, JumpOfRead,
         CallOfRead, PopOfReturn, PopOfOne, PushNext, PopNext, PopOfList, FpOfFirst, FpOfSecond,
         Go, Execute2, Popped
<1>4. CASE Writeback
  BY <1>4 DEF Writeback, RetireJump, RetireCall, RetireReturn, RetirePrepare, RetireStack,
         RetireLoop, RetireOther, Go, Retire
<1> QED  BY <1>1, <1>2, <1>3, <1>4 DEF Goes, Halt, Decode

-----------------------------------------------------------------------------
(* Saving.                                                                 *)

\* A word pushed is in memory.
LEMMA PushedWord ==
  ASSUME NEW q \in MachineState, NEW v \in Word, NEW r,
         r = [q EXCEPT !.mem = Store(@, Slot(q, 1), 4, v)]
  PROVE  r = [q EXCEPT !.mem = r.mem] /\ Load(r.mem, Slot(q, 1), 4) = v
<1>1. q.mem \in Memory  BY DEF MachineState
<1>2. Slot(q, 1) \in Int  BY Slots DEF Word
<1>3. r.mem = Store(q.mem, Slot(q, 1), 4, v)  BY DEF MachineState
<1> QED  BY <1>1, <1>2, <1>3, LoadStored

\* The return address is a word.
LEMMA ReturnWord ==
  ASSUME NEW i \in Instruction, NEW q \in MachineState
  PROVE  ReturnAddress(i, q) \in Word
<1>1. q.pc + i.len \in Int  BY DEF MachineState, Instruction, Word
<1> QED  BY <1>1, Sizes DEF ReturnAddress, Word

\* A call pushes the return address.
LEMMA CallSaves ==
  ASSUME inst \in Instruction, before \in MachineState, inst.op \in {"CF_JSR", "CF_BSR"},
         DOMAIN t = Latches, Saving(inst, before), Goes
  PROVE  Saving(inst, before)'
<1> DEFINE q == before
           v == ReturnAddress(inst, before)
           a == Slot(before, 1)
<1>1. inst' = inst /\ before' = before  BY GoesOn
<1>2. CallSaving(inst, before)  BY DEF Saving
<1>3. a = (StackPointer(q) - 4) % WORD  BY Slots
<1>4. v \in Word  BY ReturnWord
<1>5. SUFFICES CallSaving(inst, before)' /\ (Ended => Saved(inst, before, m))'
  BY <1>1 DEF Saving, PushSaving, FrameSaving, ListSaving
<1>6. CASE ExecuteCall
  <2>1. state = "ST_EXECUTE" /\ m = q /\ m' = q
    BY <1>2, <1>6 DEF CallSaving, ExecuteCall, Go, Ended
  <2>2. (Reg(SP) - 4) % WORD = a  BY <1>3, <2>1 DEF Reg, StackPointer
  <2>3. (m.pc + inst.len) % WORD = v  BY <2>1 DEF ReturnAddress
  <2>4. \/ state' = "ST_MEM_READ" /\ t'.indirect
        \/ state' = "ST_MEM_WRITE" /\ t'.addr = a /\ t'.data = v
    BY <1>6, <2>2, <2>3 DEF ExecuteCall, Go, Latches
  <2> HIDE DEF a, v
  <2> QED  BY <1>1, <2>1, <2>4 DEF CallSaving, Ended, a, v
<1>7. CASE ReadMemory
  <2>1. m' = q /\ state' = "ST_EXECUTE2" /\ t'.indirect
    BY <1>2, <1>7 DEF CallSaving, ReadMemory, Go, Ended, Latches
  <2> QED  BY <1>1, <2>1 DEF CallSaving, Ended
<1>8. CASE CallOfRead
  <2>1. state = "ST_EXECUTE2" /\ m = q /\ m' = q
    BY <1>2, <1>8 DEF CallSaving, CallOfRead, Execute2, Go, Ended
  <2>2. (Reg(SP) - 4) % WORD = a  BY <1>3, <2>1 DEF Reg, StackPointer
  <2>3. (m.pc + inst.len) % WORD = v  BY <2>1 DEF ReturnAddress
  <2>4. t'.addr = a /\ t'.data = v /\ state' \in {"ST_EXECUTE2", "ST_MEM_WRITE"}
    BY <1>2, <1>8, <2>1, <2>2, <2>3 DEF CallOfRead, Execute2, Go, Latches, CallSaving
  <2> HIDE DEF a, v
  <2> QED  BY <1>1, <2>1, <2>4 DEF CallSaving, Ended, a, v
<1>9. CASE WriteMemory
  <2>1. state = "ST_MEM_WRITE" /\ m = q /\ t.addr = a /\ t.data = v
    BY <1>2, <1>9 DEF CallSaving, WriteMemory, Go, Ended
  <2>2. state' = "ST_WRITEBACK" /\ t'.addr = t.addr /\ m' = Written(t.addr, 4, t.data)
    BY <1>9 DEF WriteMemory, Go, Served, Latches, Control
  <2>3. m' = [q EXCEPT !.mem = Store(@, a, 4, v)]  BY <2>1, <2>2 DEF Written
  <2>4. m' = [q EXCEPT !.mem = m'.mem] /\ Load(m'.mem, a, 4) = v
    BY <1>4, <2>3, PushedWord
  <2> HIDE DEF a, v
  <2> QED  BY <1>1, <2>1, <2>2, <2>4 DEF CallSaving, Ended, Pushed, a, v
<1>10. CASE RetireCall
  <2>1. state' = "ST_DECODE" /\ Pushed(q, v) /\ m' = PutPC(PutWord(m, SP, t.addr), t.src)
    BY <1>2, <1>10 DEF CallSaving, RetireCall, Retire, Go
  <2>2. m' = [Stacked(q, 1, m'.mem) EXCEPT !.pc = m'.pc] /\ m'.mem = m.mem
    BY <2>1 DEF Pushed, PutPC, PutWord, PutReg, Stacked, MachineState
  <2>3. Load(m'.mem, a, 4) = v  BY <2>1, <2>2 DEF Pushed
  <2> QED  BY <1>1, <2>1, <2>2, <2>3 DEF CallSaving, Saved, Ended
<1> QED  BY <1>6, <1>7, <1>8, <1>9, <1>10, CallSteps

\* What PUSH pushes is a word.
LEMMA PushedValueWord ==
  ASSUME NEW i \in Instruction, NEW q \in MachineState
  PROVE  PushedValue(i, q) \in Word
<1>1. i.to.disp \in Word /\ i.to.reg \in 0 .. SP  BY DEF Instruction, Operands
<1>2. i.to.reg # SP => i.to.reg \in 0 .. SP - 1  BY <1>1, Sizes
<1>3. i.to.reg # SP => q.reg[i.to.reg] \in Word  BY <1>2 DEF MachineState
<1> QED  BY <1>1, <1>3, StackPointerWord DEF PushedValue, RegisterOf

\* PUSH pushes its operand.
LEMMA PushSaves ==
  ASSUME inst \in Instruction, before \in MachineState, inst.op = "CF_PUSH",
         DOMAIN t = Latches, Saving(inst, before), Goes
  PROVE  Saving(inst, before)'
<1> DEFINE q == before
           v == PushedValue(inst, before)
           a == Slot(before, 1)
<1>1. inst' = inst /\ before' = before  BY GoesOn
<1>2. PushSaving(inst, before)  BY DEF Saving
<1>3. a = (StackPointer(q) - 4) % WORD  BY Slots
<1>4. v \in Word  BY PushedValueWord
<1>5. SUFFICES PushSaving(inst, before)' /\ (Ended => Saved(inst, before, m))'
  BY <1>1 DEF Saving, CallSaving, FrameSaving, ListSaving
<1>6. CASE ExecutePush
  <2>1. state = "ST_EXECUTE" /\ m = q /\ m' = q /\ state' = "ST_MEM_WRITE"
    BY <1>2, <1>6 DEF PushSaving, ExecutePush, Go, Ended
  <2>2. (Reg(SP) - 4) % WORD = a  BY <1>3, <2>1 DEF Reg, StackPointer
  <2>3. ControlValue(inst.to) = v
    BY <2>1 DEF ControlValue, PushedValue, RegisterOf, Reg, StackPointer
  <2>4. t'.addr = a /\ t'.data = v
    BY <1>6, <2>2, <2>3 DEF ExecutePush, Go, Latches
  <2> HIDE DEF a, v
  <2> QED  BY <1>1, <2>1, <2>4 DEF PushSaving, Ended, a, v
<1>7. CASE ReadMemory
  <2>1. m' = q /\ state' = "ST_EXECUTE2"
    BY <1>2, <1>7 DEF PushSaving, ReadMemory, Go, Ended
  <2> QED  BY <1>1, <2>1 DEF PushSaving, Ended
<1>8. CASE WriteMemory
  <2>1. state = "ST_MEM_WRITE" /\ m = q /\ t.addr = a /\ t.data = v
    BY <1>2, <1>8 DEF PushSaving, WriteMemory, Go, Ended
  <2>2. state' = "ST_WRITEBACK" /\ t'.addr = t.addr /\ m' = Written(t.addr, 4, t.data)
    BY <1>8 DEF WriteMemory, Go, Served, Latches, Control
  <2>3. m' = [q EXCEPT !.mem = Store(@, a, 4, v)]  BY <2>1, <2>2 DEF Written
  <2>4. m' = [q EXCEPT !.mem = m'.mem] /\ Load(m'.mem, a, 4) = v
    BY <1>4, <2>3, PushedWord
  <2> HIDE DEF a, v
  <2> QED  BY <1>1, <2>1, <2>2, <2>4 DEF PushSaving, Ended, Pushed, a, v
<1>9. CASE RetireStack
  <2>1. state' = "ST_DECODE" /\ Pushed(q, v) /\ m' = NextPC(PutWord(m, SP, t.addr % WORD))
    BY <1>2, <1>9 DEF PushSaving, RetireStack, Retire, Go
  <2>2. t.addr % WORD = a
    <3>1. a \in Word /\ t.addr = a  BY <2>1, Slots DEF Pushed
    <3> QED  BY <3>1, Sizes DEF Word
  <2>3. m' = [Stacked(q, 1, m'.mem) EXCEPT !.pc = m'.pc] /\ m'.mem = m.mem
    BY <2>1, <2>2 DEF Pushed, NextPC, PutPC, PutWord, PutReg, Stacked, MachineState
  <2>4. Load(m'.mem, a, 4) = v  BY <2>1, <2>3 DEF Pushed
  <2> QED  BY <1>1, <2>1, <2>3, <2>4 DEF PushSaving, Saved, Ended
<1> QED  BY <1>6, <1>7, <1>8, <1>9, PushSteps

\* A word written to a register replaces it.
LEMMA SetWord ==
  ASSUME NEW x \in Word, NEW v \in Word
  PROVE  SetReg(x, Length("SZ_WORD"), v) = v
<1>1. Values(4) = WORD /\ Length("SZ_WORD") = 4  BY DEF WORD, Length
<1>2. x % WORD = x /\ v % WORD = v  BY Sizes DEF Word
<1>3. x - x = 0 /\ 0 + v = v  BY DEF Word
<1> QED  BY <1>1, <1>2, <1>3 DEF SetReg, Cut

\* PREPARE pushes FP, which then is the stack pointer.
LEMMA FrameSaves ==
  ASSUME inst \in Instruction, before \in MachineState, inst.op = "CF_PREPARE",
         DOMAIN t = Latches, Saving(inst, before), Goes
  PROVE  Saving(inst, before)'
<1> DEFINE q == before
           v == before.reg[FP]
           a == Slot(before, 1)
<1>1. inst' = inst /\ before' = before  BY GoesOn
<1>2. FrameSaving(inst, before)  BY DEF Saving
<1>3. a = (StackPointer(q) - 4) % WORD /\ a \in Word  BY Slots
<1>4. v \in Word /\ FP \in 0 .. SP - 1 /\ FP # SP  BY Sizes DEF MachineState, FP
<1>5. SUFFICES FrameSaving(inst, before)' /\ (Ended => Saved(inst, before, m))'
  BY <1>1 DEF Saving, CallSaving, PushSaving, ListSaving
<1>6. CASE ExecutePush
  <2>1. state = "ST_EXECUTE" /\ m = q /\ m' = q /\ state' = "ST_MEM_WRITE"
    BY <1>2, <1>6 DEF FrameSaving, ExecutePush, Go, Ended
  <2>2. (Reg(SP) - 4) % WORD = a  BY <1>3, <2>1 DEF Reg, StackPointer
  <2>3. Reg(FP) = v  BY <1>4, <2>1 DEF Reg
  <2>4. t'.addr = a /\ t'.data = v /\ t'.step = 1
    BY <1>6, <2>2, <2>3 DEF ExecutePush, Go, Latches
  <2> HIDE DEF a
  <2> QED  BY <1>1, <2>1, <2>4 DEF FrameSaving, Ended, a
<1>7. CASE ReadMemory
  <2>1. m' = q /\ state' = "ST_EXECUTE2"
    BY <1>2, <1>7 DEF FrameSaving, ReadMemory, Go, Ended
  <2> QED  BY <1>1, <2>1 DEF FrameSaving, Ended
<1>8. CASE WriteMemory
  <2>1. state = "ST_MEM_WRITE" /\ m = q /\ t.addr = a /\ t.data = v /\ t.step = 1
    BY <1>2, <1>8 DEF FrameSaving, WriteMemory, Go, Ended
  <2>2. /\ state' = "ST_WRITEBACK" /\ t'.addr = t.addr /\ t'.step = t.step
        /\ m' = Written(t.addr, 4, t.data)
    BY <1>8 DEF WriteMemory, Go, Served, Latches, Control
  <2>3. m' = [q EXCEPT !.mem = Store(@, a, 4, v)]  BY <2>1, <2>2 DEF Written
  <2>4. m' = [q EXCEPT !.mem = m'.mem] /\ Load(m'.mem, a, 4) = v
    BY <1>4, <2>3, PushedWord
  <2>5. m'.reg = q.reg /\ m' = [q EXCEPT !.mem = m'.mem, !.reg = m'.reg]
    BY <2>4 DEF MachineState
  <2> HIDE DEF a
  <2> QED  BY <1>1, <2>1, <2>2, <2>4, <2>5 DEF FrameSaving, Ended, a
<1>9. CASE RetirePrepare
  <2>1. /\ state = "ST_WRITEBACK" /\ t.step \in {0, 1} /\ t.addr = a
        /\ m = [q EXCEPT !.mem = m.mem, !.reg = m.reg] /\ Load(m.mem, a, 4) = v
        /\ m.reg = IF t.step = 1 THEN q.reg ELSE [q.reg EXCEPT ![FP] = a]
    BY <1>2, <1>9 DEF FrameSaving, RetirePrepare, Retire, Go
  <2>2. CASE t.step = 1
    <3>1. /\ state' = "ST_WRITEBACK" /\ t'.addr = a /\ t'.step = 0
          /\ m' = PutWord(m, FP, a)
      BY <1>9, <2>1, <2>2 DEF RetirePrepare, Go, Latches
    <3>2. SetReg(q.reg[FP], Length("SZ_WORD"), a) = a  BY <1>3, <1>4, SetWord
    <3>3. m' = [m EXCEPT !.reg = [q.reg EXCEPT ![FP] = a]]
      BY <1>4, <2>1, <2>2, <3>1, <3>2 DEF PutWord, PutReg, MachineState
    <3> HIDE DEF a
    <3>4. m'.reg = [q.reg EXCEPT ![FP] = a] /\ m'.mem = m.mem
      BY <2>1, <3>3 DEF MachineState
    <3>5. m' = [q EXCEPT !.mem = m'.mem, !.reg = m'.reg]
      BY <2>1, <3>3, <3>4 DEF MachineState
    <3> QED  BY <1>1, <2>1, <3>1, <3>4, <3>5 DEF FrameSaving, Ended, a
  <2>3. CASE t.step = 0
    <3>1. state' = "ST_DECODE" /\ m' = NextPC(PutWord(m, SP, (t.addr - t.src) % WORD))
      BY <1>9, <2>3 DEF RetirePrepare, Retire, Go
    <3> HIDE DEF a
    <3>2. m.reg = [q.reg EXCEPT ![FP] = a] /\ StackOf(m.psw) = StackOf(q.psw)
      <4>1. t.step # 1  BY <2>3
      <4>2. m.psw = q.psw  BY <2>1 DEF MachineState
      <4> QED  BY <2>1, <4>1, <4>2
    <3>3. m' = [m EXCEPT !.preg[StackOf(q.psw)] = m'.preg[StackOf(q.psw)], !.pc = m'.pc]
          /\ m'.mem = m.mem
      BY <2>1, <3>1, <3>2, StackPointerWord DEF NextPC, PutPC, PutWord, PutReg, MachineState
    <3>4. m' = [q EXCEPT !.reg = [@ EXCEPT ![FP] = a], !.mem = m'.mem, !.pc = m'.pc,
                         !.preg[StackOf(q.psw)] = m'.preg[StackOf(q.psw)]]
      <4> DEFINE b == StackOf(before.psw)
                 f == [before.reg EXCEPT ![FP] = a]
                 new == m'
      <4>1. m = [q EXCEPT !.mem = m.mem, !.reg = f]  BY <2>1, <3>2
      <4>2. new = [m EXCEPT !.preg[b] = new.preg[b], !.pc = new.pc] /\ new.mem = m.mem
        BY <3>3
      <4> HIDE DEF b, f, new
      <4>3. new = [q EXCEPT !.reg = f, !.mem = new.mem, !.pc = new.pc, !.preg[b] = new.preg[b]]
        BY <4>1, <4>2 DEF MachineState
      <4> QED  BY <4>3 DEF b, f, new
    <3> QED  BY <1>1, <2>1, <3>1, <3>3, <3>4 DEF FrameSaving, Saved, Ended, a
  <2> QED  BY <2>1, <2>2, <2>3
<1> QED  BY <1>6, <1>7, <1>8, <1>9, FrameSteps

-----------------------------------------------------------------------------
(* Lists of registers.                                                     *)

\* A list is finite, and there is memory for what it names.
LEMMA Lists ==
  ASSUME NEW x, NEW P \in SUBSET Bits(x)
  PROVE  /\ P \subseteq 0 .. SP /\ IsFiniteSet(P)
         /\ Cardinality(P) \in Nat /\ 4 * Cardinality(P) <= MEM
<1>1. Bits(x) \subseteq 0 .. SP  BY Sizes DEF Bits
<1>2. IsFiniteSet(0 .. SP) /\ Cardinality(0 .. SP) = SP + 1  BY Sizes, FS_Interval
<1>3. P \in SUBSET (0 .. SP)  BY <1>1
<1>4. IsFiniteSet(P) /\ Cardinality(P) <= SP + 1  BY <1>2, <1>3, FS_Subset
<1>5. Cardinality(P) \in Nat  BY <1>4, FS_CardinalityType
<1>6. 4 * (SP + 1) <= MEM  BY Sizes, ExecuteAssumption
<1> QED  BY <1>3, <1>4, <1>5, <1>6, Sizes

\* A set of natural numbers has a least element.
LEMMA Least ==
  ASSUME NEW T, T \subseteq Nat, T # {}
  PROVE  \E x \in T : \A y \in T : x <= y
<1>1. PICK x \in T : \A y \in T : ~(<<y, x>> \in Order!OpToRel(<, Nat))
  BY Order!NatLessThanWellFounded, Order!WFMin, Zenon
<1>2. \A y \in T : ~(y < x)  BY <1>1 DEF Order!OpToRel
<1> QED  BY <1>2

\* A list that is not empty has a lowest and a highest register.
LEMMA Extremes ==
  ASSUME NEW P \in SUBSET (0 .. SP), P # {}
  PROVE  /\ Min(P) \in P /\ \A y \in P : Min(P) <= y
         /\ Max(P) \in P /\ \A y \in P : Max(P) >= y
<1> DEFINE Q == {SP - y : y \in P}
<1>1. P \subseteq Nat /\ Q \subseteq Nat /\ Q # {}
  <2>1. \A y \in P : y \in Nat /\ SP - y \in Nat  BY Sizes
  <2> QED  BY <2>1
<1>2. PICK x \in P : \A y \in P : x <= y  BY <1>1, Least
<1>3. PICK z \in Q : \A y \in Q : z <= y
  <2> HIDE DEF Q
  <2> QED  BY <1>1, Least
<1>4. PICK w \in P : z = SP - w  BY <1>3
<1>5. \A y \in P : w >= y
  <2>1. \A y \in P : z <= SP - y  BY <1>3
  <2> QED  BY <1>1, <1>4, <2>1, Sizes
<1> QED  BY <1>2, <1>5 DEF Min, Max

\* The registers from the highest one left on are those pushed, and that one.
LEMMA RankOfNext ==
  ASSUME NEW L \in SUBSET (0 .. SP), NEW b \in SUBSET L, NEW r \in b,
         \A y \in b : r >= y, \A x \in L \ b, y \in b : x > y
  PROVE  /\ L \ (b \ {r}) = (L \ b) \cup {r}
         /\ Rank(L, r) = Cardinality(L \ b) + 1
         /\ Cardinality(L \ (b \ {r})) = Cardinality(L \ b) + 1
<1>1. IsFiniteSet(L \ b)
  <2>1. IsFiniteSet(0 .. SP)  BY Sizes, FS_Interval
  <2>2. L \ b \in SUBSET (0 .. SP)  OBVIOUS
  <2> QED  BY <2>1, <2>2, FS_Subset
<1>2. L \ (b \ {r}) = (L \ b) \cup {r} /\ r \notin L \ b  OBVIOUS
<1>3. \A y \in L : y \in Int  BY Sizes
<1>4. {y \in L : y >= r} = (L \ b) \cup {r}
  <2>1. ASSUME NEW y \in L, y >= r
        PROVE  y \in (L \ b) \cup {r}
    <3>1. y \in b => r >= y  OBVIOUS
    <3> QED  BY <1>3, <2>1, <3>1
  <2>2. ASSUME NEW y \in (L \ b) \cup {r}
        PROVE  y \in L /\ y >= r
    <3>1. y # r => y > r  BY <2>2
    <3> QED  BY <1>3, <2>2, <3>1
  <2> QED  BY <2>1, <2>2
<1>5. Cardinality((L \ b) \cup {r}) = Cardinality(L \ b) + 1  BY <1>1, <1>2, FS_AddElement
<1> QED  BY <1>2, <1>4, <1>5 DEF Rank

\* And the ones pushed before have their places above.
LEMMA RankOfPushed ==
  ASSUME NEW L \in SUBSET (0 .. SP), NEW b \in SUBSET L, NEW x \in L \ b,
         \A z \in L \ b, y \in b : z > y
  PROVE  Rank(L, x) \in 1 .. Cardinality(L \ b)
<1> DEFINE R == {y \in L : y >= x}
<1>1. IsFiniteSet(L \ b)
  <2>1. IsFiniteSet(0 .. SP)  BY Sizes, FS_Interval
  <2>2. L \ b \in SUBSET (0 .. SP)  OBVIOUS
  <2> QED  BY <2>1, <2>2, FS_Subset
<1>2. \A y \in L : y \in Int  BY Sizes
<1>3. R \subseteq L \ b
  <2>1. SUFFICES ASSUME NEW y \in R, y \in b
                 PROVE  FALSE
    OBVIOUS
  <2>2. x > y /\ y >= x /\ x \in Int /\ y \in Int  BY <1>2, <2>1
  <2> QED  BY <2>2
<1>4. x \in R  BY <1>2
<1> HIDE DEF R
<1>5. IsFiniteSet(R) /\ Cardinality(R) <= Cardinality(L \ b)  BY <1>1, <1>3, FS_Subset
<1>6. Cardinality(R) \in Nat /\ Cardinality(L \ b) \in Nat  BY <1>1, <1>5, FS_CardinalityType
<1>7. Cardinality(R) # 0  BY <1>4, <1>5, FS_EmptySet
<1> QED  BY <1>5, <1>6, <1>7 DEF Rank, R

\* One register more is pushed.
LEMMA ListPushes ==
  ASSUME NEW q \in MachineState, NEW x, NEW b \in SUBSET Bits(x), NEW r \in b,
         \A y \in b : r >= y, \A z \in Bits(x) \ b, y \in b : z > y,
         NEW mem \in Memory, ListSaved(q, mem, Bits(x), Bits(x) \ b),
         NEW new, new = Store(mem, Slot(q, Cardinality(Bits(x) \ b) + 1), 4, Listed(q, r))
  PROVE  new \in Memory /\ ListSaved(q, new, Bits(x), Bits(x) \ (b \ {r}))
<1> DEFINE L == Bits(x)
           c == Cardinality(L \ b)
           n == c + 1
           a == Slot(q, n)
           v == Listed(q, r)
<1>1. L \subseteq 0 .. SP  BY Lists
<1> HIDE DEF L
<1>2. /\ L \ (b \ {r}) = (L \ b) \cup {r} /\ Rank(L, r) = n
      /\ Cardinality(L \ (b \ {r})) = n
  BY <1>1, RankOfNext DEF L
<1>3. c \in Nat /\ 4 * n <= MEM
  <2>1. L \ b \in SUBSET Bits(x) /\ L \ (b \ {r}) \in SUBSET Bits(x)  BY DEF L
  <2> HIDE DEF n, c
  <2>2. Cardinality(L \ b) \in Nat /\ 4 * Cardinality(L \ (b \ {r})) <= MEM  BY <2>1, Lists
  <2> QED  BY <1>2, <2>2 DEF c
<1>4. v \in Word
  <2>1. r \in 0 .. SP  BY <1>1 DEF L
  <2>2. r # SP => r \in 0 .. SP - 1  BY <2>1, Sizes
  <2> QED  BY <2>2 DEF Listed, MachineState
<1> HIDE DEF c
<1>5. n \in Nat /\ n \in Int /\ a \in Word /\ a \in Int
  <2>1. n \in Nat /\ n \in Int  BY <1>3
  <2> HIDE DEF n
  <2> QED  BY <2>1, Slots DEF Word
<1>6. new = Store(mem, a, 4, v)  BY DEF c, L
<1> HIDE DEF n, a, v
<1>7. new \in Memory  BY <1>4, <1>5, <1>6, StoreMemory
<1>8. Load(new, Slot(q, Rank(L, r)), 4) = v  BY <1>2, <1>4, <1>5, <1>6, LoadStored DEF a
<1>9. ASSUME NEW y \in L \ b
      PROVE  Load(new, Slot(q, Rank(L, y)), 4) = Listed(q, y)
  <2> DEFINE k == Rank(L, y)
             d == (Slot(q, k) - a) % MEM
  <2>1. k \in 1 .. c  BY <1>1, RankOfPushed DEF L, c
  <2> HIDE DEF k
  <2>2. k \in 1 .. n - 1 /\ k \in Int  BY <1>3, <2>1 DEF n
  <2>3. d \in 4 .. MEM - 4  BY <1>3, <1>5, <2>2, SlotsApart DEF a
  <2>4. Slot(q, k) \in Int  BY <2>2, Slots DEF Word
  <2> DEFINE s == Slot(q, k)
  <2> HIDE DEF s
  <2>5. s \in Int /\ (s - a) % MEM \in 4 .. MEM - 4  BY <2>3, <2>4 DEF s
  <2>6. Load(new, s, 4) = Load(mem, s, 4)  BY <1>4, <1>5, <1>6, <2>5, LoadKept
  <2>7. Load(mem, s, 4) = Listed(q, y)  BY DEF ListSaved, s, k, L
  <2> QED  BY <2>6, <2>7 DEF s, k
<1> QED  BY <1>2, <1>7, <1>8, <1>9 DEF ListSaved, L, v

\* PUSHM pushes the registers it names, from the highest one on.
LEMMA ListSaves ==
  ASSUME inst \in Instruction, before \in MachineState, inst.op = "CF_PUSHM",
         DOMAIN t = Latches, Saving(inst, before), Goes
  PROVE  Saving(inst, before)'
<1> DEFINE q == before
           L == List(inst)
<1>1. inst' = inst /\ before' = before  BY GoesOn
<1>2. ListSaving(inst, before)  BY DEF Saving
<1>3. SUFFICES ASSUME inst.to.mode \in AMConstant
               PROVE  ListSaving(inst, before)' /\ (Ended => Saved(inst, before, m))'
  BY <1>1 DEF Saving, CallSaving, PushSaving, FrameSaving, ListSaving, Saved
<1>4. L = Bits(inst.to.disp)  BY DEF List
<1>5. CASE ExecuteList
  <2>1. state = "ST_EXECUTE" /\ m = q /\ m' = q /\ state' = "ST_EXECUTE2"
    BY <1>2, <1>3, <1>5 DEF ListSaving, ExecuteList, Go, Ended
  <2>2. t'.bitmap = L /\ t'.addr = Slot(q, 0)
    <3>1. Reg(SP) = StackPointer(q)  BY <2>1 DEF Reg, StackPointer
    <3>2. ControlValue(inst.to) = inst.to.disp  BY <1>3 DEF ControlValue
    <3>3. StackPointer(q) = Slot(q, 0)  BY Slots
    <3> QED  BY <1>4, <1>5, <3>1, <3>2, <3>3 DEF ExecuteList, Go, Latches
  <2>3. L \ t'.bitmap = {} /\ Cardinality({}) = 0  BY <2>2, FS_EmptySet
  <2>4. q.mem \in Memory /\ q = [q EXCEPT !.mem = q.mem]  BY DEF MachineState
  <2>5. ListPushed(q, L)'
    BY <1>1, <2>1, <2>2, <2>3, <2>4 DEF ListPushed, ListSaved
  <2> QED  BY <1>1, <2>1, <2>5 DEF ListSaving, Ended
<1>6. CASE ReadMemory
  BY <1>2, <1>3, <1>6 DEF ListSaving, ReadMemory, Go
<1>7. CASE PushNext
  <2>1. state = "ST_EXECUTE2" /\ ListPushed(q, L) /\ m' = m
    BY <1>2, <1>3, <1>7 DEF ListSaving, PushNext, Execute2, Go
  <2>2. CASE t.bitmap = {}
    <3>1. state' = "ST_WRITEBACK" /\ t' = t  BY <1>7, <2>2 DEF PushNext, Execute2, Go
    <3>2. ListPushed(q, L)'  BY <1>1, <2>1, <3>1 DEF ListPushed
    <3> QED  BY <1>1, <2>2, <3>1, <3>2 DEF ListSaving, Ended
  <2>3. CASE t.bitmap # {}
    <3>1. /\ state' = "ST_MEM_WRITE" /\ t'.reg = Max(t.bitmap)
          /\ t'.bitmap = t.bitmap /\ t'.addr = t.addr
      BY <1>7, <2>3 DEF PushNext, Execute2, Go, bitmap_highest, Latches
    <3>2. t.bitmap \subseteq 0 .. SP
      <4>1. t.bitmap \in SUBSET Bits(inst.to.disp)  BY <1>4, <2>1 DEF ListPushed
      <4> QED  BY <4>1, Lists
    <3>3. Max(t.bitmap) \in t.bitmap /\ \A y \in t.bitmap : Max(t.bitmap) >= y
      BY <2>3, <3>2, Extremes
    <3>4. ListPushed(q, L)'  BY <1>1, <2>1, <3>1 DEF ListPushed
    <3> QED  BY <1>1, <3>1, <3>3, <3>4 DEF ListSaving, Ended
  <2> QED  BY <2>2, <2>3
<1>8. CASE WriteOfList
  <2> DEFINE b == t.bitmap
             r == t.reg
             c == Cardinality(L \ b)
             a == Slot(q, c + 1)
  <2>1. /\ state = "ST_MEM_WRITE" /\ ListPushed(q, L) /\ state' = "ST_EXECUTE2"
        /\ r \in b /\ \A y \in b : r >= y
    BY <1>2, <1>3, <1>8 DEF ListSaving, WriteOfList, Go
  <2>2. /\ m = [q EXCEPT !.mem = m.mem] /\ m.mem \in Memory
        /\ b \subseteq L /\ \A x \in L \ b, y \in b : x > y
        /\ t.addr = Slot(q, c) /\ ListSaved(q, m.mem, L, L \ b)
    BY <2>1 DEF ListPushed
  <2>3. L \subseteq 0 .. SP /\ c \in Nat
    <3>1. L \ b \in SUBSET Bits(inst.to.disp) /\ L \in SUBSET Bits(inst.to.disp)  BY <1>4
    <3> HIDE DEF L, b
    <3> QED  BY <3>1, Lists
  <2>4. (t.addr - 4) % WORD = a
    <3>1. c \in Int  BY <2>3
    <3> HIDE DEF c
    <3> QED  BY <2>2, <3>1, Slots
  <2>5. (IF r = PSW_BIT THEN m.psw ELSE Reg(r)) = Listed(q, r)
    BY <2>2 DEF Listed, PSW_BIT, Reg, MachineState
  <2>6. /\ m' = [m EXCEPT !.mem = Store(@, a, 4, Listed(q, r))]
        /\ t'.addr = a /\ t'.bitmap = b \ {r}
    BY <1>8, <2>4, <2>5 DEF WriteOfList, Go, Written, Served, Latches
  <2>7. m'.mem = Store(m.mem, a, 4, Listed(q, r)) /\ m' = [q EXCEPT !.mem = m'.mem]
    <3> DEFINE new == Store(m.mem, a, 4, Listed(q, r))
    <3>1. m' = [m EXCEPT !.mem = new]  BY <2>6
    <3> HIDE DEF new
    <3>2. m'.mem = new /\ m' = [q EXCEPT !.mem = m'.mem]  BY <2>2, <3>1 DEF MachineState
    <3> QED  BY <3>2 DEF new
  <2>8. m'.mem \in Memory /\ ListSaved(q, m'.mem, L, L \ (b \ {r}))
    <3> DEFINE new == m'.mem
               old == m.mem
    <3>1. new = Store(old, Slot(q, Cardinality(Bits(inst.to.disp) \ b) + 1), 4, Listed(q, r))
      BY <1>4, <2>7
    <3>2. /\ b \in SUBSET Bits(inst.to.disp) /\ r \in b /\ \A y \in b : r >= y
          /\ \A z \in Bits(inst.to.disp) \ b, y \in b : z > y
          /\ old \in Memory /\ ListSaved(q, old, Bits(inst.to.disp), Bits(inst.to.disp) \ b)
      BY <1>4, <2>1, <2>2
    <3> HIDE DEF new, old, b, r
    <3>3. new \in Memory /\ ListSaved(q, new, Bits(inst.to.disp), Bits(inst.to.disp) \ (b \ {r}))
      BY <3>1, <3>2, ListPushes
    <3> QED  BY <1>4, <3>3 DEF new
  <2>9. Cardinality(L \ (b \ {r})) = c + 1
    <3> HIDE DEF L, b, r, c
    <3> QED  BY <2>1, <2>2, <2>3, RankOfNext DEF c
  <2>10. b \ {r} \subseteq L /\ \A x \in L \ (b \ {r}), y \in b \ {r} : x > y
    <3> SUFFICES ASSUME NEW x \in L \ (b \ {r}), NEW y \in b \ {r}
                 PROVE  x > y
      BY <2>2
    <3>1. CASE x = r
      <4>1. r >= y /\ r # y  BY <2>1
      <4>2. r \in Int /\ y \in Int  BY <2>1, <2>2, <2>3, Sizes
      <4> QED  BY <3>1, <4>1, <4>2
    <3>2. CASE x # r
      BY <2>2, <3>2
    <3> QED  BY <3>1, <3>2
  <2>11. ListPushed(q, L)'
    <3> HIDE DEF a, b, r, c
    <3>1. t'.addr = Slot(q, Cardinality(L \ t'.bitmap))  BY <2>6, <2>9 DEF a
    <3> HIDE DEF L
    <3>2. L' = L  BY <1>1 DEF L
    <3> QED  BY <1>1, <2>6, <2>7, <2>8, <2>10, <3>1, <3>2 DEF ListPushed
  <2> QED  BY <1>1, <2>1, <2>11 DEF ListSaving, Ended
<1>9. CASE RetireStack
  <2>1. /\ state = "ST_WRITEBACK" /\ state' = "ST_DECODE" /\ ListPushed(q, L) /\ t.bitmap = {}
        /\ m' = NextPC(PutWord(m, SP, t.addr % WORD))
    BY <1>2, <1>3, <1>9 DEF ListSaving, RetireStack, Retire, Go
  <2> DEFINE c == Cardinality(L)
  <2>2. /\ m = [q EXCEPT !.mem = m.mem] /\ t.addr = Slot(q, c)
        /\ ListSaved(q, m.mem, L, L)
    <3>1. L \ t.bitmap = L  BY <2>1
    <3> QED  BY <2>1, <3>1 DEF ListPushed
  <2>3. t.addr % WORD = Slot(q, c)
    <3>1. c \in Int
      <4>1. c \in Nat  BY <1>4, Lists
      <4> QED  BY <4>1
    <3> HIDE DEF c
    <3>2. Slot(q, c) \in Word  BY <3>1, Slots
    <3> QED  BY <2>2, <3>2, Sizes DEF Word
  <2>4. m' = [Stacked(q, c, m'.mem) EXCEPT !.pc = m'.pc] /\ m'.mem = m.mem
    <3> HIDE DEF c
    <3> QED
      BY <2>1, <2>2, <2>3 DEF NextPC, PutPC, PutWord, PutReg, Stacked, MachineState
  <2>5. ListSaved(q, m'.mem, L, L)  BY <2>2, <2>4
  <2> QED  BY <1>1, <2>1, <2>4, <2>5 DEF ListSaving, Saved, Ended
<1> QED  BY <1>5, <1>6, <1>7, <1>8, <1>9, ListSteps

-----------------------------------------------------------------------------
(* Restoring.                                                              *)

\* RSR takes up the address on the stack.
LEMMA ReturnRestores ==
  ASSUME inst \in Instruction, inst.op = "CF_RSR",
         DOMAIN t = Latches, ReturnRestoring(inst, before), Goes
  PROVE  ReturnRestoring(inst, before)'
<1> DEFINE q == before
           a == StackPointer(before)
           v == Load(before.mem, a, 4)
<1>1. inst' = inst /\ before' = before  BY GoesOn
<1>2. Reading(q, a) /\ (state = "ST_WRITEBACK" => m = q /\ t.ret = v)
  BY DEF ReturnRestoring
<1>3. SUFFICES /\ Reading(q, a)'
               /\ state' = "ST_WRITEBACK" => m' = q /\ t'.ret = v
               /\ Ended' => m' = [q EXCEPT !.preg[StackOf(q.psw)] = (a + 4) % WORD,
                                           !.pc = v % WORD]
  BY <1>1 DEF ReturnRestoring, StackPointer
<1>4. CASE ExecutePop
  <2>1. /\ state = "ST_EXECUTE" /\ m = q /\ m' = q /\ state' = "ST_MEM_READ"
        /\ t'.addr = Reg(SP)
    BY <1>2, <1>4 DEF Reading, ExecutePop, Go, Ended, Latches
  <2>2. Reg(SP) = a  BY <2>1 DEF Reg, StackPointer
  <2> QED  BY <1>1, <2>1, <2>2 DEF Reading, Ended
<1>5. CASE ReadMemory
  <2>1. /\ state = "ST_MEM_READ" /\ m = q /\ m' = q /\ state' = "ST_EXECUTE2"
        /\ t.addr = a /\ t'.addr = t.addr /\ t'.data = Load(m.mem, t.addr, 4)
    BY <1>2, <1>5 DEF Reading, ReadMemory, Go, Ended, Latches, MemSize, Control
  <2> QED  BY <1>1, <2>1 DEF Reading, Ended
<1>6. CASE WriteMemory
  BY <1>2, <1>6 DEF Reading, WriteMemory, Go
<1>7. CASE PopOfOne
  <2>1. /\ state = "ST_EXECUTE2" /\ m = q /\ m' = q /\ state' = "ST_WRITEBACK"
        /\ t.addr = a /\ t'.addr = t.addr /\ t'.ret = v
    BY <1>2, <1>7 DEF Reading, PopOfOne, Execute2, Go, Ended, Latches
  <2> QED  BY <1>1, <2>1 DEF Reading, Ended
<1>8. CASE RetireReturn
  <2>1. /\ state = "ST_WRITEBACK" /\ m = q /\ t.addr = a /\ t.ret = v /\ state' = "ST_DECODE"
        /\ m' = PutPC(PutWord(m, SP, (t.addr + 4) % WORD), t.ret)
    BY <1>2, <1>8 DEF Reading, RetireReturn, Retire, Go, Ended
  <2> HIDE DEF v
  <2>2. m' = [q EXCEPT !.preg[StackOf(q.psw)] = (a + 4) % WORD, !.pc = v % WORD]
    BY <2>1 DEF PutPC, PutWord, PutReg
  <2> QED  BY <1>1, <2>1, <2>2 DEF Reading, Ended
<1> QED  BY <1>4, <1>5, <1>6, <1>7, <1>8, ReturnSteps

\* DISPOSE takes FP from where it points.
LEMMA FrameRestores ==
  ASSUME inst \in Instruction, inst.op = "CF_DISPOSE",
         DOMAIN t = Latches, FrameRestoring(inst, before), Goes
  PROVE  FrameRestoring(inst, before)'
<1> DEFINE q == before
           a == before.reg[FP]
           p == PutWord(before, FP, Load(before.mem, a, 4))
<1>1. inst' = inst /\ before' = before  BY GoesOn
<1>2. Reading(q, a) /\ (state = "ST_WRITEBACK" => m = p)
  BY DEF FrameRestoring
<1>3. SUFFICES /\ Reading(q, a)'
               /\ state' = "ST_WRITEBACK" => m' = p
               /\ Ended' => m' = [PutWord(p, SP, (a + 4) % WORD) EXCEPT !.pc = m'.pc]
  BY <1>1 DEF FrameRestoring
<1>4. CASE ExecutePop
  <2>1. /\ state = "ST_EXECUTE" /\ m = q /\ m' = q /\ state' = "ST_MEM_READ"
        /\ t'.addr = Reg(FP)
    BY <1>2, <1>4 DEF Reading, ExecutePop, Go, Ended, Latches
  <2>2. Reg(FP) = a  BY <2>1, Sizes DEF Reg, FP
  <2> QED  BY <1>1, <2>1, <2>2 DEF Reading, Ended
<1>5. CASE ReadMemory
  <2>1. /\ state = "ST_MEM_READ" /\ m = q /\ m' = q /\ state' = "ST_EXECUTE2"
        /\ t.addr = a /\ t'.addr = t.addr /\ t'.data = Load(m.mem, t.addr, 4)
    BY <1>2, <1>5 DEF Reading, ReadMemory, Go, Ended, Latches, MemSize, Control
  <2> QED  BY <1>1, <2>1 DEF Reading, Ended
<1>6. CASE WriteMemory
  BY <1>2, <1>6 DEF Reading, WriteMemory, Go
<1>7. CASE PopOfOne
  <2>1. /\ state = "ST_EXECUTE2" /\ m = q /\ m' = p /\ state' = "ST_WRITEBACK"
        /\ t.addr = a /\ t'.addr = t.addr
    BY <1>2, <1>7 DEF Reading, PopOfOne, Execute2, Go, Ended, Latches
  <2> QED  BY <1>1, <2>1 DEF Reading, Ended
<1>8. CASE RetireStack
  <2>1. /\ state = "ST_WRITEBACK" /\ m = p /\ t.addr = a /\ state' = "ST_DECODE"
        /\ m' = NextPC(PutWord(m, SP, (t.addr + 4) % WORD))
    BY <1>2, <1>8 DEF Reading, RetireStack, Retire, Go, Ended
  <2> HIDE DEF p, a
  <2>2. m' = [PutWord(p, SP, (a + 4) % WORD) EXCEPT !.pc = m'.pc]
    BY <2>1, Sizes DEF NextPC, PutPC, PutWord, PutReg
  <2> QED  BY <1>1, <2>1, <2>2 DEF Reading, Ended
<1> QED  BY <1>4, <1>5, <1>6, <1>7, <1>8, PopSteps

\* POP of a register takes the word on the stack.
LEMMA PopRestores ==
  ASSUME inst \in Instruction, inst.op = "CF_POP",
         DOMAIN t = Latches, PopRestoring(inst, before), Goes
  PROVE  PopRestoring(inst, before)'
<1> DEFINE q == before
           a == StackPointer(before)
           p == PutWord(before, inst.to.reg, Load(before.mem, a, 4))
<1>1. inst' = inst /\ before' = before  BY GoesOn
<1>2. SUFFICES ASSUME inst.to.mode = "Register", inst.to.reg # SP
               PROVE  PopRestoring(inst, before)'
  BY <1>1 DEF PopRestoring
<1>3. Reading(q, a) /\ (state = "ST_WRITEBACK" => m = p)
  BY <1>2 DEF PopRestoring
<1>4. SUFFICES /\ Reading(q, a)'
               /\ state' = "ST_WRITEBACK" => m' = p
               /\ Ended' => m' = [PutWord(p, SP, (a + 4) % WORD) EXCEPT !.pc = m'.pc]
  BY <1>1 DEF PopRestoring, StackPointer
<1>5. CASE ExecutePop
  <2>1. /\ state = "ST_EXECUTE" /\ m = q /\ m' = q /\ state' = "ST_MEM_READ"
        /\ t'.addr = Reg(SP)
    BY <1>3, <1>5 DEF Reading, ExecutePop, Go, Ended, Latches
  <2>2. Reg(SP) = a  BY <2>1 DEF Reg, StackPointer
  <2> QED  BY <1>1, <2>1, <2>2 DEF Reading, Ended
<1>6. CASE ReadMemory
  <2>1. /\ state = "ST_MEM_READ" /\ m = q /\ m' = q /\ state' = "ST_EXECUTE2"
        /\ t.addr = a /\ t'.addr = t.addr /\ t'.data = Load(m.mem, t.addr, 4)
    BY <1>3, <1>6 DEF Reading, ReadMemory, Go, Ended, Latches, MemSize, Control
  <2> QED  BY <1>1, <2>1 DEF Reading, Ended
<1>7. CASE WriteMemory
  BY <1>3, <1>7 DEF Reading, WriteMemory, Go
<1>8. CASE PopOfOne
  <2>1. /\ state = "ST_EXECUTE2" /\ m = q /\ m' = p /\ state' = "ST_WRITEBACK"
        /\ t.addr = a /\ t'.addr = t.addr
    BY <1>2, <1>3, <1>8 DEF Reading, PopOfOne, Execute2, Go, Ended, Latches
  <2> QED  BY <1>1, <2>1 DEF Reading, Ended
<1>9. CASE RetireStack
  <2>1. /\ state = "ST_WRITEBACK" /\ m = p /\ t.addr = a /\ state' = "ST_DECODE"
        /\ m' = NextPC(PutWord(m, SP, (t.addr + 4) % WORD))
    BY <1>3, <1>9 DEF Reading, RetireStack, Retire, Go, Ended
  <2> HIDE DEF p, a
  <2>2. m' = [PutWord(p, SP, (a + 4) % WORD) EXCEPT !.pc = m'.pc]
    BY <2>1, Sizes DEF NextPC, PutPC, PutWord, PutReg
  <2> QED  BY <1>1, <2>1, <2>2 DEF Reading, Ended
<1> QED  BY <1>5, <1>6, <1>7, <1>8, <1>9, PopSteps

\* The registers from the lowest one left on are those that are left.
LEMMA RankOfLowest ==
  ASSUME NEW L \in SUBSET (0 .. SP), NEW b \in SUBSET L, NEW r \in b,
         \A y \in b : r <= y, \A x \in L \ b, y \in b : x < y
  PROVE  /\ Rank(L, r) = Cardinality(b)
         /\ Cardinality(b) \in Nat /\ Cardinality(b \ {r}) = Cardinality(b) - 1
<1>1. IsFiniteSet(b)
  <2>1. IsFiniteSet(0 .. SP)  BY Sizes, FS_Interval
  <2>2. b \in SUBSET (0 .. SP)  OBVIOUS
  <2> QED  BY <2>1, <2>2, FS_Subset
<1>2. \A y \in L : y \in Int  BY Sizes
<1>3. {y \in L : y >= r} = b
  <2>1. ASSUME NEW y \in L, y >= r
        PROVE  y \in b
    <3>1. y \notin b => y < r  BY <2>1
    <3> QED  BY <1>2, <2>1, <3>1
  <2>2. ASSUME NEW y \in b
        PROVE  y \in L /\ y >= r
    <3>1. r <= y  OBVIOUS
    <3> QED  BY <1>2, <3>1
  <2> QED  BY <2>1, <2>2
<1> QED  BY <1>1, <1>3, FS_RemoveElement, FS_CardinalityType DEF Rank

\* Writing to a register what was pushed of it changes nothing.
LEMMA SameAgain ==
  ASSUME NEW old \in MachineState, NEW q, NEW c, NEW r \in 0 .. SP,
         q = [Stacked(old, c, q.mem) EXCEPT !.pc = q.pc]
  PROVE  IF r = SP THEN [q EXCEPT !.psw = SetReg(@, 2, Listed(old, r))] = q
         ELSE PutWord(q, r, Listed(old, r)) = q
<1>1. q.psw = old.psw /\ q.reg = old.reg  BY DEF Stacked, MachineState
<1>2. CASE r = SP
  <2>1. SetReg(old.psw, 2, old.psw) = old.psw
    <3>1. old.psw \in Int /\ Values(2) \in Nat \ {0}  BY Sizes DEF MachineState, Word, Values
    <3>2. old.psw % Values(2) \in Int  BY <3>1
    <3> QED  BY <3>1, <3>2 DEF SetReg, Cut
  <2>2. [q EXCEPT !.psw = old.psw] = q  BY <1>1 DEF Stacked, MachineState
  <2> QED  BY <1>1, <1>2, <2>1, <2>2 DEF Listed
<1>3. CASE r # SP
  <2>1. r \in 0 .. SP - 1 /\ old.reg[r] \in Word
    <3>1. r \in 0 .. SP - 1  BY <1>3, Sizes
    <3>2. old.reg \in [0 .. SP - 1 -> Word]  BY DEF MachineState
    <3> QED  BY <3>1, <3>2
  <2>2. SetReg(old.reg[r], Length("SZ_WORD"), old.reg[r]) = old.reg[r]  BY <2>1, SetWord
  <2>3. [q.reg EXCEPT ![r] = old.reg[r]] = q.reg  BY <1>1, <2>1 DEF MachineState
  <2>4. [q EXCEPT !.reg = q.reg] = q  BY DEF Stacked, MachineState
  <2>5. PutWord(q, r, old.reg[r]) = [q EXCEPT !.reg = [q.reg EXCEPT ![r] = old.reg[r]]]
    BY <1>1, <1>3, <2>2 DEF PutWord, PutReg
  <2> QED  BY <1>3, <2>3, <2>4, <2>5 DEF Listed
<1> QED  BY <1>2, <1>3

\* POPM of the list that was pushed pops the registers, from the lowest one on.
LEMMA ListRestores ==
  ASSUME NEW p, NEW old \in MachineState,
         inst \in Instruction, inst.op = "CF_POPM", p.to.mode \in AMConstant,
         p.op = "CF_PUSHM", inst.to = p.to,
         Saved(p, old, before), DOMAIN t = Latches, ListRestoring(p, old, inst, before), Goes
  PROVE  ListRestoring(p, old, inst, before)'
<1> DEFINE q == before
           L == List(p)
           z == Cardinality(List(p))
<1>1. inst' = inst /\ before' = before  BY GoesOn
<1>2. /\ ~Ended => m = q
      /\ state # "ST_MEM_WRITE"
      /\ ~Ended /\ state # "ST_EXECUTE" => ListPopped(old, L) /\ t.step \in {0, 1}
      /\ state = "ST_MEM_READ" => Reread /\ t.step = 1
      /\ state = "ST_EXECUTE2" /\ t.step = 1 => Reread /\ t.data = Load(q.mem, t.addr, 4)
      /\ state = "ST_WRITEBACK" => t.bitmap = {}
  BY DEF ListRestoring
<1>3. SUFFICES /\ ~Ended' => m' = q
               /\ state' # "ST_MEM_WRITE"
               /\ ~Ended' /\ state' # "ST_EXECUTE" =>
                    ListPopped(old, L)' /\ t'.step \in {0, 1}
               /\ state' = "ST_MEM_READ" => Reread' /\ t'.step = 1
               /\ state' = "ST_EXECUTE2" /\ t'.step = 1 =>
                    Reread' /\ t'.data = Load(q.mem, t'.addr, 4)
               /\ state' = "ST_WRITEBACK" => t'.bitmap = {}
               /\ Ended' => m' = [q EXCEPT !.preg[StackOf(q.psw)] = StackPointer(old),
                                           !.pc = m'.pc]
  BY <1>1 DEF ListRestoring, ListPopped
<1>4. q = [Stacked(old, z, q.mem) EXCEPT !.pc = q.pc] /\ ListSaved(old, q.mem, L, L)
  BY DEF Saved
<1>5. L = Bits(inst.to.disp) /\ L \subseteq 0 .. SP
  <2>1. L = Bits(inst.to.disp)  BY DEF List
  <2> HIDE DEF L
  <2> QED  BY <2>1, Lists
<1> HIDE DEF L, z
<1>6. CASE ExecuteList
  <2>1. /\ state = "ST_EXECUTE" /\ m = q /\ m' = q /\ state' = "ST_EXECUTE2"
        /\ t'.addr = Reg(SP) /\ t'.bitmap = Bits(ControlValue(inst.to)) /\ t'.step = 0
    BY <1>2, <1>6 DEF ExecuteList, Go, Ended, Latches
  <2>2. t'.bitmap = L  BY <1>5, <2>1 DEF ControlValue
  <2>3. Reg(SP) = Slot(old, Cardinality(L))
    <3>1. Reg(SP) = StackPointer(q)  BY <2>1 DEF Reg, StackPointer
    <3>2. StackPointer(q) = Slot(old, z)
      <4> DEFINE k == StackOf(old.psw)
      <4>1. q.psw = old.psw /\ q.preg = [old.preg EXCEPT ![k] = Slot(old, z)]
        BY <1>4 DEF Stacked, MachineState
      <4>2. k \in DOMAIN old.preg  BY StackPointerWord
      <4> HIDE DEF k
      <4>3. q.preg[k] = Slot(old, z)  BY <4>1, <4>2
      <4> QED  BY <4>1, <4>3 DEF StackPointer, k
    <3> QED  BY <3>1, <3>2 DEF z, L
  <2>4. ListPopped(old, L)'  BY <2>1, <2>2, <2>3 DEF ListPopped
  <2> QED  BY <2>1, <2>4 DEF Ended
<1>7. CASE ReadMemory
  <2>1. /\ state = "ST_MEM_READ" /\ m = q /\ m' = q /\ state' = "ST_EXECUTE2"
        /\ t' = [t EXCEPT !.data = Load(m.mem, t.addr, 4)]
    BY <1>2, <1>7 DEF ReadMemory, Go, Ended, MemSize, Control
  <2>2. /\ t'.addr = t.addr /\ t'.bitmap = t.bitmap /\ t'.step = t.step /\ t'.reg = t.reg
        /\ t'.data = Load(q.mem, t.addr, 4)
    BY <2>1 DEF Latches
  <2> QED  BY <1>2, <2>1, <2>2 DEF ListPopped, Reread, Ended
<1>8. CASE WriteMemory
  BY <1>2, <1>8 DEF WriteMemory, Go
<1>9. CASE PopNext
  <2>1. state = "ST_EXECUTE2" /\ m = q /\ m' = q /\ t.step = 0 /\ ListPopped(old, L)
    BY <1>2, <1>9 DEF PopNext, Execute2, Go, Ended
  <2>2. CASE t.bitmap = {}
    <3>1. state' = "ST_WRITEBACK" /\ t' = t  BY <1>9, <2>2 DEF PopNext, Execute2, Go
    <3> QED  BY <2>1, <2>2, <3>1 DEF ListPopped, Ended
  <2>3. CASE t.bitmap # {}
    <3>1. /\ state' = "ST_MEM_READ" /\ t'.reg = Min(t.bitmap) /\ t'.step = 1
          /\ t'.bitmap = t.bitmap /\ t'.addr = t.addr
      BY <1>9, <2>3 DEF PopNext, Execute2, Go, bitmap_lowest, Latches
    <3>2. t.bitmap \in SUBSET (0 .. SP)  BY <1>5, <2>1 DEF ListPopped
    <3>3. Min(t.bitmap) \in t.bitmap /\ \A y \in t.bitmap : Min(t.bitmap) <= y
      BY <2>3, <3>2, Extremes
    <3> QED  BY <2>1, <3>1, <3>3 DEF ListPopped, Reread, Ended
  <2> QED  BY <2>2, <2>3
<1>10. CASE PopOfList
  <2> DEFINE b == t.bitmap
             r == t.reg
             c == Cardinality(t.bitmap)
  <2>1. /\ state = "ST_EXECUTE2" /\ m = q /\ state' = "ST_EXECUTE2" /\ t.step = 1
        /\ ListPopped(old, L) /\ r \in b /\ \A y \in b : r <= y
        /\ t.data = Load(q.mem, t.addr, 4)
    BY <1>2, <1>10 DEF PopOfList, Execute2, Go, Ended, Reread
  <2>2. /\ b \in SUBSET L /\ \A x \in L \ b, y \in b : x < y
        /\ t.addr = Slot(old, c)
    BY <2>1 DEF ListPopped
  <2>3. Rank(L, r) = c /\ c \in Nat /\ Cardinality(b \ {r}) = c - 1
    <3> HIDE DEF b, r, c
    <3>1. Rank(L, r) = Cardinality(b) /\ Cardinality(b) \in Nat
          /\ Cardinality(b \ {r}) = Cardinality(b) - 1
      BY <1>5, <2>1, <2>2, RankOfLowest
    <3> QED  BY <3>1 DEF b, c
  <2>4. t.data = Listed(old, r)
    <3>1. r \in L  BY <2>1, <2>2
    <3> QED  BY <1>4, <2>1, <2>2, <2>3, <3>1 DEF ListSaved
  <2>5. r \in 0 .. SP  BY <1>5, <2>1, <2>2
  <2>6. m' = q
    <3>1. m' = IF r = SP THEN [q EXCEPT !.psw = SetReg(@, 2, Listed(old, r))]
               ELSE PutWord(q, r, Listed(old, r))
      BY <1>10, <2>1, <2>4 DEF PopOfList, Execute2, Go, PSW_BIT
    <3> HIDE DEF r
    <3> QED  BY <1>4, <2>5, <3>1, SameAgain
  <2>7. t'.bitmap = b \ {r} /\ t'.step = 0 /\ t'.addr = (t.addr + 4) % WORD
    BY <1>10 DEF PopOfList, Execute2, Go, Popped, Latches
  <2>8. t'.addr = Slot(old, Cardinality(b \ {r}))
    <3>1. c \in Int  BY <2>3
    <3> HIDE DEF c, b, r
    <3>2. (Slot(old, c) + 4) % WORD = Slot(old, c - 1)  BY <3>1, Slots
    <3> QED  BY <2>2, <2>3, <2>7, <3>2
  <2>9. b \ {r} \subseteq L /\ \A x \in L \ (b \ {r}), y \in b \ {r} : x < y
    <3> SUFFICES ASSUME NEW x \in L \ (b \ {r}), NEW y \in b \ {r}
                 PROVE  x < y
      BY <2>2
    <3>1. CASE x = r
      <4>1. r <= y /\ r # y  BY <2>1
      <4>2. r \in Int /\ y \in Int  BY <1>5, <2>2, <2>5, Sizes
      <4> QED  BY <3>1, <4>1, <4>2
    <3>2. CASE x # r
      BY <2>2, <3>2
    <3> QED  BY <3>1, <3>2
  <2>10. ListPopped(old, L)'
    <3> HIDE DEF b, r
    <3> QED  BY <2>7, <2>8, <2>9 DEF ListPopped
  <2> QED  BY <2>1, <2>6, <2>7, <2>10 DEF Ended
<1>11. CASE RetireStack
  <2>1. /\ state = "ST_WRITEBACK" /\ m = q /\ state' = "ST_DECODE" /\ t.bitmap = {}
        /\ ListPopped(old, L) /\ m' = NextPC(PutWord(m, SP, (t.addr % WORD)))
    BY <1>2, <1>11 DEF RetireStack, Retire, Go, Ended
  <2>2. t.addr = Slot(old, 0)  BY <2>1, FS_EmptySet DEF ListPopped
  <2>3. t.addr % WORD = StackPointer(old)
    <3>1. Slot(old, 0) = StackPointer(old) /\ StackPointer(old) \in Word
      BY Slots, StackPointerWord
    <3> QED  BY <2>2, <3>1, Sizes DEF Word
  <2>4. m' = [q EXCEPT !.preg[StackOf(q.psw)] = StackPointer(old), !.pc = m'.pc]
    BY <1>4, <2>1, <2>3 DEF NextPC, PutPC, PutWord, PutReg, Stacked, MachineState
  <2> QED  BY <2>1, <2>4 DEF Ended
<1> QED  BY <1>6, <1>7, <1>8, <1>9, <1>10, <1>11, ListAgainSteps

-----------------------------------------------------------------------------
(* The invariant.                                                          *)

\* At first nothing has been saved.
LEMMA Initially == Init => IInv
<1>1. NoInst.op = "none"  BY DEF NoInst
<1>2. DOMAIN NoLatch = Latches  BY DEF NoLatch, Latches
<1> QED  BY <1>1, <1>2, ExecuteAssumption DEF Init, IInv, NoPast

\* An instruction that has been decoded is none.
LEMMA NoInstruction == NoInst \notin Instruction
<1>1. ASSUME NEW i \in Instruction
      PROVE  i # NoInst
  <2>1. i.format # "none"  BY DEF Instruction
  <2>2. NoInst.format = "none"  BY DEF NoInst
  <2> QED  BY <2>1, <2>2
<1> QED  BY <1>1

\* The first instruction, or the second.
LEMMA DecodeKeeps == IInv /\ Decode => IInv'
<1> SUFFICES ASSUME IInv, Decode
             PROVE  IInv'
  OBVIOUS
<1>1. DOMAIN t' = Latches  BY LatchesStay DEF IInv
<1>2. state = "ST_DECODE" /\ state' = "ST_EXECUTE" /\ before' = m /\ m' = m  BY DEF Decode
<1>3. Saving(inst, before)'  BY <1>2 DEF Saving, CallSaving, PushSaving, FrameSaving, ListSaving, Ended
<1>4. CASE inst = NoInst /\ inst' \in Instructions /\ past' = NoPast
  <2>1. inst' \in Instruction /\ inst' # NoInst  BY <1>4, ExecuteAssumption, NoInstruction
  <2>2. m \in MachineState  BY <1>4 DEF IInv
  <2> QED  BY <1>1, <1>2, <1>3, <1>4, <2>1, <2>2 DEF IInv
<1>5. CASE /\ inst # NoInst /\ past = NoPast
           /\ inst' \in Follow(inst) /\ past' = [inst |-> inst, m |-> before]
  <2>1. inst \in Instructions /\ inst \in Instruction /\ before \in MachineState
        /\ Saving(inst, before)
    BY <1>5 DEF IInv
  <2>2. inst' \in Instruction /\ inst' # NoInst  BY <1>5, <2>1, ExecuteAssumption, NoInstruction
  <2>3. past' # NoPast /\ past'.inst = inst /\ past'.m = before
    BY <1>5, <2>1, NoInstruction DEF NoPast
  <2>4. Saved(inst, before, m)  BY <1>2, <2>1 DEF Saving, Ended
  <2>5. Restoring(past.inst, past.m, inst, before)'
    BY <1>2 DEF Restoring, ReturnRestoring, FrameRestoring, PopRestoring, ListRestoring,
               Reading, Ended
  <2> QED  BY <1>1, <1>2, <2>1, <2>2, <2>3, <2>4, <2>5 DEF IInv
<1> QED  BY <1>4, <1>5 DEF Decode

\* An instruction under way saves what it is to save.
LEMMA SavingGoesOn ==
  ASSUME inst \in Instruction, before \in MachineState, DOMAIN t = Latches,
         Saving(inst, before), Goes
  PROVE  Saving(inst, before)'
<1>1. inst' = inst /\ before' = before  BY GoesOn
<1>2. CASE inst.op \notin {"CF_JSR", "CF_BSR", "CF_PUSH", "CF_PREPARE", "CF_PUSHM"}
  BY <1>1, <1>2 DEF Saving, CallSaving, PushSaving, FrameSaving, ListSaving, Saved
<1> QED  BY <1>2, CallSaves, PushSaves, FrameSaves, ListSaves

\* And one that restores it finds it.
LEMMA RestoringGoesOn ==
  ASSUME NEW p, NEW old \in MachineState, inst \in Instruction, DOMAIN t = Latches,
         Saved(p, old, before), Restoring(p, old, inst, before), Goes
  PROVE  Restoring(p, old, inst, before)'
<1>1. inst' = inst /\ before' = before  BY GoesOn
<1>2. ReturnRestoring(inst, before)'
  <2>1. CASE inst.op = "CF_RSR"  BY <2>1, ReturnRestores DEF Restoring
  <2> QED  BY <1>1, <2>1 DEF ReturnRestoring
<1>3. FrameRestoring(inst, before)'
  <2>1. CASE inst.op = "CF_DISPOSE"  BY <2>1, FrameRestores DEF Restoring
  <2> QED  BY <1>1, <2>1 DEF FrameRestoring
<1>4. PopRestoring(inst, before)'
  <2>1. CASE inst.op = "CF_POP"  BY <2>1, PopRestores DEF Restoring
  <2> QED  BY <1>1, <2>1 DEF PopRestoring
<1>5. ListRestoring(p, old, inst, before)'
  <2>1. CASE /\ p.op = "CF_PUSHM" /\ inst.op = "CF_POPM" /\ inst.to = p.to
             /\ p.to.mode \in AMConstant
    BY <2>1, ListRestores DEF Restoring
  <2> QED  BY <1>1, <2>1 DEF ListRestoring
<1> QED  BY <1>2, <1>3, <1>4, <1>5 DEF Restoring

\* A step of the instruction.
LEMMA GoesKeeps == IInv /\ Goes => IInv'
<1> SUFFICES ASSUME IInv, Goes
             PROVE  IInv'
  OBVIOUS
<1>1. inst' = inst /\ before' = before /\ past' = past  BY GoesOn
<1>2. DOMAIN t = Latches /\ DOMAIN t' = Latches  BY LatchesStay DEF IInv
<1>3. state # "ST_DECODE"
  BY DEF Goes, Execute, ExecuteAlu, ExecuteSystem, ExecuteSingle, ExecuteNothing, ExecuteBranch,
         ExecuteMemory, ExecuteJump, ExecuteCall, ExecutePush, ExecutePop, ExecuteList,
         ExecuteFp, ExecuteFpMemory, Access, ReadMemory, WriteMemory, WriteFpResult, WriteOfList,
         ExecuteAgain, FollowPointer, AluOfRead, SystemOfRead, ChangeRead, JumpOfRead,
         CallOfRead, PopOfReturn, PopOfOne, PushNext, PopNext, PopOfList, FpOfFirst, FpOfSecond,
         Writeback, RetireJump, RetireCall, RetireReturn, RetirePrepare, RetireStack, RetireLoop,
         RetireOther, Go, ToWriteback, Execute2, Retire
<1>4. inst # NoInst /\ inst \in Instruction  BY <1>3 DEF IInv
<1>5. CASE past = NoPast
  <2>1. inst \in Instructions /\ before \in MachineState /\ Saving(inst, before)
    BY <1>4, <1>5 DEF IInv
  <2>2. Saving(inst, before)'  BY <1>2, <1>4, <2>1, SavingGoesOn
  <2> QED  BY <1>1, <1>2, <1>4, <1>5, <2>1, <2>2 DEF IInv
<1>6. CASE past # NoPast
  <2>1. PICK p, old : p = past.inst /\ old = past.m  OBVIOUS
  <2>2. /\ p \in Instruction /\ old \in MachineState /\ Saved(p, old, before)
        /\ Restoring(p, old, inst, before)
    BY <1>6, <2>1 DEF IInv
  <2>3. Restoring(p, old, inst, before)'  BY <1>2, <1>4, <2>2, RestoringGoesOn
  <2>4. p = past'.inst /\ old = past'.m  BY <1>1, <2>1
  <2>5. Restoring(past.inst, past.m, inst, before)'
    BY <2>3, <2>4 DEF Restoring, ListRestoring, ListPopped
  <2>6. /\ past'.inst \in Instruction /\ past'.m \in MachineState
        /\ Saved(past'.inst, past'.m, before')
    BY <1>1, <2>2, <2>4
  <2> QED  BY <1>1, <1>2, <1>4, <1>6, <2>5, <2>6 DEF IInv
<1> QED  BY <1>5, <1>6

\* HALT, which comes when an instruction is over.
LEMMA HaltKeeps == IInv /\ Halt => IInv'
<1> SUFFICES ASSUME IInv, Halt
             PROVE  IInv'
  OBVIOUS
<1>1. /\ state = "ST_DECODE" /\ state' = "ST_HALT" /\ inst # NoInst
      /\ UNCHANGED <<inst, m, t, before, past>>
  BY DEF Halt
<1>2. Ended /\ Ended'  BY <1>1 DEF Ended
<1>3. CASE past = NoPast
  <2>1. Saving(inst, before)  BY <1>1, <1>3 DEF IInv
  <2>2. Saving(inst, before)'
    BY <1>1, <1>2, <2>1
       DEF Saving, CallSaving, PushSaving, FrameSaving, ListSaving, Pushed, ListPushed, Ended
  <2> QED  BY <1>1, <1>3, <2>2 DEF IInv
<1>4. CASE past # NoPast
  <2>1. Restoring(past.inst, past.m, inst, before)  BY <1>4 DEF IInv
  <2>2. Restoring(past.inst, past.m, inst, before)'
    BY <1>1, <1>2, <2>1
       DEF Restoring, ReturnRestoring, FrameRestoring, PopRestoring, ListRestoring, Reading,
           ListPopped, Reread, Ended
  <2> QED  BY <1>1, <1>4, <2>2 DEF IInv
<1> QED  BY <1>3, <1>4

\* Nothing happens.
LEMMA StutterKeeps == IInv /\ UNCHANGED vars => IInv'
<1> SUFFICES ASSUME IInv, UNCHANGED vars
             PROVE  IInv'
  OBVIOUS
<1>1. /\ state' = state /\ inst' = inst /\ m' = m /\ t' = t /\ before' = before /\ past' = past
  BY DEF vars
<1>2. Saving(inst, before) => Saving(inst, before)'
  BY <1>1 DEF Saving, CallSaving, PushSaving, FrameSaving, ListSaving, Pushed, ListPushed, Ended
<1>3. Restoring(past.inst, past.m, inst, before) => Restoring(past.inst, past.m, inst, before)'
  BY <1>1
     DEF Restoring, ReturnRestoring, FrameRestoring, PopRestoring, ListRestoring, Reading,
         ListPopped, Reread, Ended
<1> QED  BY <1>1, <1>2, <1>3 DEF IInv

\* What is saved is kept for what restores it.
THEOREM Saves == Spec => []IInv
<1>1. IInv /\ [Next]_vars => IInv'
  BY DecodeKeeps, HaltKeeps, GoesKeeps, StutterKeeps DEF Next, Goes
<1> QED  BY <1>1, Initially, PTL DEF Spec

-----------------------------------------------------------------------------
(* What a program sees of it.                                              *)

\* The machine q has n words of old's on the stack; r has its stack pointer again, and is
\* the same in all but memory and PC.
Below(old, n, q) == q = [Stacked(old, n, q.mem) EXCEPT !.pc = q.pc]
Above(old, q, r) ==
  r = [q EXCEPT !.preg[StackOf(q.psw)] = StackPointer(old), !.pc = r.pc]
Back(old, r) == r = [old EXCEPT !.mem = r.mem, !.pc = r.pc]

\* With the words taken off the stack again, registers are what they were.
LEMMA BackAgain ==
  ASSUME NEW old \in MachineState, NEW n, NEW q, NEW r, Below(old, n, q), Above(old, q, r)
  PROVE  Back(old, r)
<1> DEFINE k == StackOf(old.psw)
<1>1. k \in DOMAIN old.preg  BY StackPointerWord
<1>2. q.psw = old.psw /\ q.preg = [old.preg EXCEPT ![k] = Slot(old, n)]
  BY DEF Below, Stacked, MachineState
<1>3. [q.preg EXCEPT ![k] = old.preg[k]] = old.preg
  <2> HIDE DEF k
  <2> QED  BY <1>1, <1>2 DEF MachineState
<1>4. q = [old EXCEPT !.preg = q.preg, !.mem = q.mem, !.pc = q.pc]
  BY <1>2 DEF Below, Stacked, MachineState
<1>5. r = [q EXCEPT !.preg = old.preg, !.pc = r.pc]
  BY <1>2, <1>3 DEF Above, StackPointer
<1> HIDE DEF k
<1> QED  BY <1>4, <1>5 DEF Back, MachineState

\* Where the stack pointer of the machine that has pushed points.
LEMMA Lowered ==
  ASSUME NEW old \in MachineState, NEW n, NEW q,
         q = [Stacked(old, n, q.mem) EXCEPT !.pc = q.pc]
  PROVE  /\ StackPointer(q) = Slot(old, n) /\ StackOf(q.psw) = StackOf(old.psw)
         /\ q.reg = old.reg /\ q.psw = old.psw
<1> DEFINE k == StackOf(old.psw)
<1>1. k \in DOMAIN old.preg  BY StackPointerWord
<1>2. q.psw = old.psw /\ q.preg = [old.preg EXCEPT ![k] = Slot(old, n)] /\ q.reg = old.reg
  BY DEF Stacked, MachineState
<1> HIDE DEF k
<1>3. q.preg[k] = Slot(old, n)  BY <1>1, <1>2
<1> QED  BY <1>2, <1>3 DEF StackPointer, k

\* The machine old, with the address behind its instruction i.
Behind(i, old, r) == View(r) = [View(old) EXCEPT !.pc = (@ + i.len) % WORD, !.mem = r.mem]

\* RSR behind a call.
LEMMA CallReturns ==
  ASSUME NEW i \in Instruction, NEW old \in MachineState, NEW j, NEW q,
         i.op \in {"CF_JSR", "CF_BSR"}, j.op = "CF_RSR", Saved(i, old, q),
         ReturnRestoring(j, q), Ended
  PROVE  Behind(i, old, m)
<1> DEFINE v == ReturnAddress(i, old)
<1>1. q = [Stacked(old, 1, q.mem) EXCEPT !.pc = q.pc] /\ Load(q.mem, Slot(old, 1), 4) = v
  BY DEF Saved
<1>2. StackPointer(q) = Slot(old, 1)  BY <1>1, Lowered
<1>3. (Slot(old, 1) + 4) % WORD = StackPointer(old)
  <2>1. (Slot(old, 1) + 4) % WORD = Slot(old, 1 - 1) /\ Slot(old, 0) = StackPointer(old)
    BY Slots
  <2> QED  BY <2>1
<1>4. v \in Word  BY ReturnWord
<1>5. v % WORD = v  BY <1>4, Sizes DEF Word
<1> HIDE DEF v
<1>6. m = [q EXCEPT !.preg[StackOf(q.psw)] = StackPointer(old), !.pc = v]
  BY <1>1, <1>2, <1>3, <1>5 DEF ReturnRestoring
<1>7. m.pc = v /\ m = [q EXCEPT !.preg[StackOf(q.psw)] = StackPointer(old), !.pc = m.pc]
  BY <1>1, <1>6 DEF Stacked, MachineState
<1>8. Back(old, m)
  <2>1. Below(old, 1, q) /\ Above(old, q, m)  BY <1>1, <1>7 DEF Below, Above
  <2> QED  BY <2>1, BackAgain
<1>9. View(m) = [View(old) EXCEPT !.mem = m.mem, !.pc = m.pc]
  BY <1>8 DEF Back, View, MachineState
<1>10. View(old).pc = old.pc  BY DEF View, MachineState
<1> QED  BY <1>7, <1>9, <1>10 DEF Behind, v, ReturnAddress, View, MachineState

\* POPM behind PUSHM.
LEMMA ListReturns ==
  ASSUME NEW i \in Instruction, NEW old \in MachineState, NEW j, NEW q,
         i.op = "CF_PUSHM", j.op = "CF_POPM", j.to = i.to, i.to.mode \in AMConstant,
         Saved(i, old, q), ListRestoring(i, old, j, q), Ended
  PROVE  View(m).reg = View(old).reg /\ m.psw = old.psw
<1> DEFINE n == Cardinality(List(i))
<1>1. q = [Stacked(old, n, q.mem) EXCEPT !.pc = q.pc]  BY DEF Saved
<1>2. m = [q EXCEPT !.preg[StackOf(q.psw)] = StackPointer(old), !.pc = m.pc]
  BY DEF ListRestoring
<1> HIDE DEF n
<1>3. Back(old, m)
  <2>1. Below(old, n, q) /\ Above(old, q, m)  BY <1>1, <1>2 DEF Below, Above
  <2> QED  BY <2>1, BackAgain
<1> QED  BY <1>3 DEF Back, View, MachineState

\* POP behind PUSH.
LEMMA PopReturns ==
  ASSUME NEW i \in Instruction, NEW old \in MachineState, NEW j \in Instruction, NEW q,
         i.op = "CF_PUSH", ~InMemory(i.to), j.op = "CF_POP", j.to.mode = "Register", ~OfSP(j),
         Saved(i, old, q), PopRestoring(j, q), Ended
  PROVE  View(m).reg = [View(old).reg EXCEPT ![j.to.reg] =
                          IF i.to.mode = "Register" THEN View(old).reg[i.to.reg] ELSE i.to.disp]
<1> DEFINE v == PushedValue(i, old)
           x == j.to.reg
           k == StackOf(old.psw)
<1>1. q = [Stacked(old, 1, q.mem) EXCEPT !.pc = q.pc] /\ Load(q.mem, Slot(old, 1), 4) = v
  BY DEF Saved
<1>2. StackPointer(q) = Slot(old, 1) /\ q.reg = old.reg /\ q.psw = old.psw  BY <1>1, Lowered
<1>3. (Slot(old, 1) + 4) % WORD = StackPointer(old)
  <2>1. (Slot(old, 1) + 4) % WORD = Slot(old, 1 - 1) /\ Slot(old, 0) = StackPointer(old)
    BY Slots
  <2> QED  BY <2>1
<1>4. x # SP /\ x \in 0 .. SP - 1
  <2>1. x # SP /\ x \in 0 .. SP  BY DEF OfSP, Instruction, Operands
  <2> QED  BY <2>1, Sizes
<1>5. SetReg(old.reg[x], Length("SZ_WORD"), v) = v
  <2>1. old.reg[x] \in Word  BY <1>4 DEF MachineState
  <2> QED  BY <2>1, SetWord, PushedValueWord
<1> HIDE DEF v, x
<1>6. PutWord(q, x, v) = [q EXCEPT !.reg = [old.reg EXCEPT ![x] = v]]
  BY <1>2, <1>4, <1>5 DEF PutWord, PutReg
<1>7. m = [PutWord([q EXCEPT !.reg = [old.reg EXCEPT ![x] = v]], SP, StackPointer(old))
             EXCEPT !.pc = m.pc]
  BY <1>1, <1>2, <1>3, <1>4, <1>6 DEF PopRestoring, x
<1>8. m.reg = [old.reg EXCEPT ![x] = v] /\ m.psw = old.psw /\ m.preg[k] = StackPointer(old)
  <2> DEFINE f == [old.reg EXCEPT ![x] = v]
             r == [q EXCEPT !.reg = f]
  <2>1. q.psw = old.psw /\ q.preg = [old.preg EXCEPT ![k] = Slot(old, 1)]
    BY <1>1 DEF Stacked, MachineState
  <2>2. k \in DOMAIN q.preg  BY <2>1, StackPointerWord
  <2> HIDE DEF f
  <2>3. q = [old EXCEPT !.preg = q.preg, !.mem = q.mem, !.pc = q.pc]
    BY <1>1, <2>1 DEF Stacked, MachineState
  <2>4. r.psw = old.psw /\ r.reg = f /\ r.preg = q.preg  BY <2>3 DEF MachineState
  <2>5. PutWord(r, SP, StackPointer(old)) = [r EXCEPT !.preg[k] = StackPointer(old)]
    BY <2>4 DEF PutWord, PutReg
  <2>6. m = [r EXCEPT !.preg[k] = StackPointer(old), !.pc = m.pc]  BY <1>7, <2>5 DEF f
  <2> HIDE DEF k
  <2> QED  BY <2>2, <2>3, <2>4, <2>6 DEF MachineState, f
<1>9. View(m).reg = [n \in 0 .. SP |-> IF n = SP THEN StackPointer(old)
                                       ELSE [old.reg EXCEPT ![x] = v][n]]
  <2>1. "reg" \in DOMAIN m  BY <1>1, <1>7 DEF PutWord, PutReg, Stacked, MachineState
  <2> QED  BY <1>8, <2>1 DEF View
<1>10. View(old).reg = [n \in 0 .. SP |-> IF n = SP THEN StackPointer(old) ELSE old.reg[n]]
  BY DEF View, StackPointer, MachineState
<1>11. v = IF i.to.mode = "Register" THEN View(old).reg[i.to.reg] ELSE i.to.disp
  <2>1. i.to.mode \in AMConstant \/ i.to.mode = "Register"
    BY DEF Instruction, Operands, InMemory, AMRegister
  <2>2. "Register" \notin AMConstant  BY DEF AMConstant
  <2>3. i.to.reg \in 0 .. SP  BY DEF Instruction, Operands
  <2> QED  BY <1>10, <2>1, <2>2, <2>3 DEF v, PushedValue, RegisterOf
<1>12. View(m).reg = [View(old).reg EXCEPT ![x] = v]
  <2> DEFINE f == View(m).reg
             g == View(old).reg
             e == [old.reg EXCEPT ![x] = v]
  <2>1. \A n \in 0 .. SP : n # SP => e[n] = IF n = x THEN v ELSE old.reg[n]
    <3>1. \A n \in 0 .. SP : n # SP => n \in 0 .. SP - 1  BY Sizes
    <3> QED  BY <3>1 DEF MachineState
  <2> HIDE DEF f, g, e
  <2>2. f = [n \in 0 .. SP |-> IF n = SP THEN StackPointer(old) ELSE e[n]]
    BY <1>9 DEF f, e
  <2>3. g = [n \in 0 .. SP |-> IF n = SP THEN StackPointer(old) ELSE old.reg[n]]
    BY <1>10 DEF g
  <2>4. \A n \in 0 .. SP : f[n] = [g EXCEPT ![x] = v][n]
    BY <1>4, <2>1, <2>2, <2>3
  <2>5. f = [g EXCEPT ![x] = v]  BY <2>2, <2>3, <2>4
  <2> QED  BY <2>5 DEF f, g
<1> QED  BY <1>11, <1>12 DEF x

\* DISPOSE behind PREPARE.
LEMMA FrameReturns ==
  ASSUME NEW i \in Instruction, NEW old \in MachineState, NEW j, NEW q,
         i.op = "CF_PREPARE", j.op = "CF_DISPOSE", Saved(i, old, q), FrameRestoring(j, q), Ended
  PROVE  View(m).reg = View(old).reg
<1> DEFINE a == Slot(old, 1)
           v == old.reg[FP]
           k == StackOf(old.psw)
           f == [old.reg EXCEPT ![FP] = a]
<1>1. /\ q = [old EXCEPT !.reg = f, !.mem = q.mem, !.pc = q.pc, !.preg[k] = q.preg[k]]
      /\ Load(q.mem, a, 4) = v
  BY DEF Saved, MachineState
<1>2. FP \in 0 .. SP - 1 /\ FP # SP /\ k \in DOMAIN old.preg
  BY StackPointerWord, Sizes DEF FP
<1>3. v \in Word /\ a \in Word
  <2>1. v \in Word  BY <1>2 DEF MachineState
  <2>2. a \in Word  BY Slots
  <2> QED  BY <2>1, <2>2
<1>4. (a + 4) % WORD = StackPointer(old)
  <2>1. (Slot(old, 1) + 4) % WORD = Slot(old, 1 - 1) /\ Slot(old, 0) = StackPointer(old)
    BY Slots
  <2> QED  BY <2>1
<1>5. f[FP] = a /\ [f EXCEPT ![FP] = v] = old.reg
  <2> HIDE DEF a
  <2> QED  BY <1>2 DEF MachineState
<1>6. SetReg(a, Length("SZ_WORD"), v) = v  BY <1>3, SetWord
<1> HIDE DEF a, v, k, f
<1>7. q.reg = f /\ q.psw = old.psw  BY <1>1 DEF MachineState
<1>8. k \in DOMAIN q.preg  BY <1>1, <1>2 DEF MachineState
<1>9. PutWord(q, FP, Load(q.mem, a, 4)) = [q EXCEPT !.reg = old.reg]
  BY <1>1, <1>2, <1>5, <1>6, <1>7 DEF PutWord, PutReg
<1>10. m = [PutWord([q EXCEPT !.reg = old.reg], SP, StackPointer(old)) EXCEPT !.pc = m.pc]
  BY <1>4, <1>5, <1>7, <1>9 DEF FrameRestoring
<1>11. m = [q EXCEPT !.reg = old.reg, !.preg[k] = StackPointer(old), !.pc = m.pc]
  <2> DEFINE r == [q EXCEPT !.reg = old.reg]
  <2>1. r.psw = old.psw  BY <1>1, <1>7 DEF MachineState
  <2> HIDE DEF r
  <2>2. PutWord(r, SP, StackPointer(old)) = [r EXCEPT !.preg[k] = StackPointer(old)]
    BY <2>1 DEF PutWord, PutReg, k
  <2> QED  BY <1>10, <2>2 DEF r
<1>12. m.reg = old.reg /\ m.psw = old.psw /\ m.preg[k] = StackPointer(old) /\ "reg" \in DOMAIN m
  <2>1. q = [old EXCEPT !.reg = q.reg, !.mem = q.mem, !.pc = q.pc, !.preg = q.preg]
    BY <1>1, <1>7 DEF MachineState
  <2>2. m.preg = [q.preg EXCEPT ![k] = StackPointer(old)]  BY <1>11, <2>1 DEF MachineState
  <2>3. m.reg = old.reg /\ m.psw = old.psw /\ "reg" \in DOMAIN m
    BY <1>11, <2>1 DEF MachineState
  <2> QED  BY <1>8, <2>2, <2>3
<1> QED  BY <1>12 DEF View, StackPointer, MachineState, k

\* What was saved is found again.
LEMMA Returns == IInv => RoundTrip
<1> SUFFICES ASSUME IInv, Over, past # NoPast
             PROVE  LET p   == past.inst
                        old == View(past.m)
                        new == View(m)
                    IN /\ p.op \in {"CF_JSR", "CF_BSR"} /\ inst.op = "CF_RSR" =>
                            new = [old EXCEPT !.pc = (@ + p.len) % WORD, !.mem = new.mem]
                       /\ p.op = "CF_PREPARE" /\ inst.op = "CF_DISPOSE" => new.reg = old.reg
                       /\ /\ p.op = "CF_PUSH" /\ ~InMemory(p.to)
                          /\ inst.op = "CF_POP" /\ inst.to.mode = "Register" /\ ~OfSP(inst)
                          => new.reg = [old.reg EXCEPT ![inst.to.reg] =
                                IF p.to.mode = "Register" THEN old.reg[p.to.reg] ELSE p.to.disp]
                       /\ /\ p.op = "CF_PUSHM" /\ inst.op = "CF_POPM"
                          /\ inst.to = p.to /\ p.to.mode \in AMConstant
                          => new.reg = old.reg /\ Cut(new.psw, 2) = Cut(old.psw, 2)
  BY DEF RoundTrip
<1> DEFINE p == past.inst
           old == past.m
           q == before
<1>1. /\ p \in Instruction /\ old \in MachineState /\ inst \in Instruction
      /\ Saved(p, old, q) /\ Restoring(p, old, inst, q) /\ Ended
  BY DEF IInv, Over, Ended
<1> HIDE DEF p, old, q
<1>2. ASSUME p.op \in {"CF_JSR", "CF_BSR"}, inst.op = "CF_RSR"
      PROVE  View(m) = [View(old) EXCEPT !.pc = (@ + p.len) % WORD, !.mem = View(m).mem]
  <2>1. ReturnRestoring(inst, q)  BY <1>1 DEF Restoring
  <2>2. View(m) = [View(old) EXCEPT !.pc = (@ + p.len) % WORD, !.mem = m.mem]
    <3>1. Behind(p, old, m)  BY <1>1, <1>2, <2>1, CallReturns
    <3> QED  BY <3>1 DEF Behind
  <2>3. View(m).mem = m.mem  BY <2>2 DEF View, MachineState
  <2> QED  BY <2>2, <2>3
<1>3. p.op = "CF_PREPARE" /\ inst.op = "CF_DISPOSE" => View(m).reg = View(old).reg
  BY <1>1, FrameReturns DEF Restoring
<1>4. /\ p.op = "CF_PUSH" /\ ~InMemory(p.to)
      /\ inst.op = "CF_POP" /\ inst.to.mode = "Register" /\ ~OfSP(inst)
      => View(m).reg = [View(old).reg EXCEPT ![inst.to.reg] =
            IF p.to.mode = "Register" THEN View(old).reg[p.to.reg] ELSE p.to.disp]
  BY <1>1, PopReturns DEF Restoring
<1>5. /\ p.op = "CF_PUSHM" /\ inst.op = "CF_POPM"
      /\ inst.to = p.to /\ p.to.mode \in AMConstant
      => View(m).reg = View(old).reg /\ m.psw = old.psw
  BY <1>1, ListReturns DEF Restoring
<1>6. View(old).psw = old.psw /\ View(m).psw = m.psw  BY DEF View
<1> QED  BY <1>2, <1>3, <1>4, <1>5, <1>6 DEF p, old

\* What an instruction saves on the stack is what the one that restores it finds: the
\* return address, the frame pointer, a register, a list of registers with the PSW.
THEOREM RoundTrips == Spec => []RoundTrip
  BY Saves, Returns, PTL
=============================================================================
