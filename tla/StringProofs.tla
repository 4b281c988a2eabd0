---------------------------- MODULE StringProofs ----------------------------
(***************************************************************************)
(* Proofs about the instructions on strings: whatever the routine does, it *)
(* tells the test bench what it did to its copy of memory.                 *)
(***************************************************************************)
EXTENDS StringMemory, SequenceTheorems, WellFoundedInduction, TLAPS

-----------------------------------------------------------------------------
(* Induction over the natural numbers, and recursion over a prefix of them, *)
(* as facts about sets and functions: the theorems of the library about    *)
(* operators cannot be applied by the provers.                             *)

\* A set of natural numbers has a least element.
LEMMA Least ==
  ASSUME NEW T, T \subseteq Nat, T # {}
  PROVE  \E x \in T : \A y \in T : x <= y
<1>1. PICK x \in T : \A y \in T : ~(<<y, x>> \in OpToRel(<, Nat))
  BY NatLessThanWellFounded, WFMin
<1>2. \A y \in T : ~(y < x)  BY <1>1 DEF OpToRel
<1> QED  BY <1>2

\* What holds of 0, and of n + 1 if it holds of n, holds of all.
LEMMA Induct ==
  ASSUME NEW T, 0 \in T, \A n \in Nat : n \in T => n + 1 \in T
  PROVE  Nat \subseteq T
<1> SUFFICES ASSUME Nat \ T # {}
             PROVE  FALSE
  OBVIOUS
<1>1. PICK x \in Nat \ T : \A y \in Nat \ T : x <= y
  BY Least
<1>2. x # 0 /\ x - 1 \in Nat  OBVIOUS
<1>3. x - 1 \in T  BY <1>1, <1>2
<1> QED  BY <1>2, <1>3

\* What is in K at first and never leaves it in one round is in K after any of n rounds.
LEMMA Stays ==
  ASSUME NEW K, NEW g, NEW n \in Nat, g[0] \in K,
         \A k \in 0 .. n - 1 : g[k] \in K => g[k + 1] \in K
  PROVE  g[n] \in K
<1> DEFINE T == {k \in Nat : k <= n => g[k] \in K}
<1>1. 0 \in T  OBVIOUS
<1>2. ASSUME NEW k \in Nat, k \in T
      PROVE  k + 1 \in T
  <2> SUFFICES ASSUME k + 1 <= n
               PROVE  g[k + 1] \in K
    OBVIOUS
  <2>1. k \in 0 .. n - 1 /\ g[k] \in K  BY <1>2
  <2> QED  BY <2>1
<1>3. Nat \subseteq T
  <2> HIDE DEF T
  <2> QED  BY <1>1, <1>2, Induct
<1> QED  BY <1>3

\* The values a loop of n rounds goes through: d, and then each made by step from the one
\* before and the number of the round.
Rounds(g, d, step, n) == g = [k \in 0 .. n |-> IF k = 0 THEN d ELSE step[<<g[k - 1], k - 1>>]]

\* There are such values.
LEMMA Recursion ==
  ASSUME NEW S, NEW d \in S, NEW step \in [S \X Nat -> S], NEW n \in Nat
  PROVE  \E g \in [0 .. n -> S] : Rounds(g, d, step, n)
<1> DEFINE T == {j \in Nat : \E g \in [0 .. j -> S] : Rounds(g, d, step, j)}
<1>1. 0 \in T
  <2> DEFINE g == [k \in 0 .. 0 |-> d]
  <2>1. g \in [0 .. 0 -> S] /\ Rounds(g, d, step, 0)  BY DEF Rounds
  <2> HIDE DEF g
  <2> QED  BY <2>1
<1>2. ASSUME NEW j \in Nat, j \in T
      PROVE  j + 1 \in T
  <2>1. PICK g \in [0 .. j -> S] : Rounds(g, d, step, j)  BY <1>2
  <2> DEFINE h == [k \in 0 .. j + 1 |-> IF k = j + 1 THEN step[<<g[j], j>>] ELSE g[k]]
  <2>2. step[<<g[j], j>>] \in S  OBVIOUS
  <2>3. h \in [0 .. j + 1 -> S]  BY <2>2
  <2>4. \A k \in 0 .. j : h[k] = g[k]  OBVIOUS
  <2>5. h[j + 1] = step[<<g[j], j>>]  OBVIOUS
  <2>6. \A k \in 0 .. j : g[k] = IF k = 0 THEN d ELSE step[<<g[k - 1], k - 1>>]
    BY <2>1 DEF Rounds
  <2>7. ASSUME NEW k \in 0 .. j + 1
        PROVE  h[k] = IF k = 0 THEN d ELSE step[<<h[k - 1], k - 1>>]
    <3>1. CASE k = j + 1
      <4>1. k # 0 /\ k - 1 = j /\ h[j] = g[j]  BY <3>1, <2>4
      <4> QED  BY <2>5, <3>1, <4>1
    <3>2. CASE k # j + 1
      <4>1. k \in 0 .. j /\ (k # 0 => k - 1 \in 0 .. j)  BY <3>2
      <4> HIDE DEF h
      <4> QED  BY <2>4, <2>6, <4>1
    <3> QED  BY <3>1, <3>2
  <2>8. h = [k \in 0 .. j + 1 |-> h[k]]  BY <2>3
  <2> HIDE DEF h
  <2>9. Rounds(h, d, step, j + 1)  BY <2>7, <2>8 DEF Rounds
  <2> QED  BY <2>3, <2>9
<1> HIDE DEF T
<1>3. Nat \subseteq T  BY <1>1, <1>2, Induct
<1> QED  BY <1>3 DEF T

-----------------------------------------------------------------------------
(* Numbers.                                                                *)

Address == 0 .. MEM - 1

\* A number of bytes has at least one value, and a word is four of them.
LEMMA Sizes ==
  /\ BYTE \in Nat \ {0} /\ MEM \in Nat \ {0} /\ SP \in Nat /\ SP >= 5 /\ WRITES \in Nat \ {0}
  /\ Values(1) = BYTE /\ Values(2) \in Nat \ {0} /\ Values(4) \in Nat \ {0} /\ WORD \in Nat \ {0}
<1>1. BYTE \in Nat \ {0} /\ MEM \in Nat \ {0}  BY MachineAssumption
<1>2. BYTE * BYTE \in Nat \ {0}  BY <1>1
<1>3. BYTE * BYTE * BYTE * BYTE \in Nat \ {0}  BY <1>1, <1>2
<1> QED  BY <1>1, <1>2, <1>3, StringsAssumption, WritesAssumption DEF Values, WORD

\* What is cut to a byte is a byte.
LEMMA CutByte ==
  ASSUME NEW v \in Int
  PROVE  Cut(v, 1) \in 0 .. BYTE - 1
  BY Sizes DEF Cut

\* What is cut to a byte, a half word or a word is a number.
LEMMA CutNat ==
  ASSUME NEW v \in Int, NEW n \in {1, 2, 4}
  PROVE  Cut(v, n) \in Nat
  BY Sizes DEF Cut

-----------------------------------------------------------------------------
(* The states of the routine.                                              *)

Calls ==
  [reg : [0 .. SP -> Word], pc : Word, codes : ConditionCodes, mem : Memory,
   writes : Seq(MemWrite), touched : SUBSET Address, full : SUBSET Address,
   regs : Seq(RegWrite)]

\* k is the last of the writes to the address a.
IsLast(w, k, a) ==
  /\ k \in 1 .. Len(w) /\ w[k].addr = a
  /\ \A j \in 1 .. Len(w) : j > k => w[j].addr # a

\* The states in which the buffer tells what became of the memory mem the routine began
\* with: nothing of the bytes it has not touched, and of the others, but for those it had
\* no room for, what they are.
Runs(mem) ==
  {d \in Calls :
     /\ Len(d.writes) <= WRITES /\ Len(d.regs) <= 3 /\ d.full \subseteq d.touched
     /\ \A a \in Address \ d.touched :
          d.mem[a] = mem[a] /\ \A k \in 1 .. Len(d.writes) : d.writes[k].addr # a
     /\ \A a \in d.touched \ d.full :
          \E k \in 1 .. Len(d.writes) : IsLast(d.writes, k, a) /\ d.writes[k].data = d.mem[a]}

\* It is given one of them.
LEMMA CalledRuns ==
  ASSUME NEW c \in Core, NEW mem \in Memory
  PROVE  Called(c, mem, <<>>) \in Runs(mem)
  BY Sizes DEF Called, Runs, Calls, Core

\* A byte written with room in the buffer.
LEMMA WrittenRuns ==
  ASSUME NEW mem, NEW d \in Runs(mem), NEW a \in Address, NEW v \in 0 .. BYTE - 1,
         Len(d.writes) < WRITES
  PROVE  Written(d, a, v) \in Runs(mem)
<1> DEFINE e == Written(d, a, v)
           w == [addr |-> a, data |-> v]
<1>1. d \in Calls  BY DEF Runs
<1>2. e = [d EXCEPT !.mem = [d.mem EXCEPT ![a] = v], !.touched = d.touched \cup {a},
                    !.writes = Append(d.writes, w)]
  BY <1>1 DEF Written, Calls
<1>3. /\ e.mem = [d.mem EXCEPT ![a] = v] /\ e.touched = d.touched \cup {a} /\ e.full = d.full
      /\ e.writes = Append(d.writes, w) /\ e.regs = d.regs
  BY <1>1, <1>2 DEF Calls
<1>4. w \in MemWrite  BY DEF MemWrite, Address
<1>5. /\ d.mem \in Memory /\ d.writes \in Seq(MemWrite) /\ d.touched \in SUBSET Address
      /\ Len(d.writes) \in Nat
  BY <1>1 DEF Calls
<1>6. /\ e.writes \in Seq(MemWrite) /\ Len(e.writes) = Len(d.writes) + 1
      /\ e.writes[Len(d.writes) + 1] = w
      /\ \A k \in 1 .. Len(d.writes) : e.writes[k] = d.writes[k]
  BY <1>3, <1>4, <1>5
<1>7. e \in Calls
  <2>1. e.mem \in Memory  BY <1>3, <1>5 DEF Memory
  <2>2. e.touched \in SUBSET Address  BY <1>3, <1>5
  <2> QED  BY <1>1, <1>2, <1>3, <1>6, <2>1, <2>2 DEF Calls
<1> HIDE DEF e
<1>8. Len(e.writes) <= WRITES  BY <1>5, <1>6, Sizes
<1>9. Len(e.regs) <= 3 /\ e.full \subseteq e.touched  BY <1>3 DEF Runs
<1>10. ASSUME NEW b \in Address \ e.touched
       PROVE  e.mem[b] = mem[b] /\ \A k \in 1 .. Len(e.writes) : e.writes[k].addr # b
  <2>1. b \in Address \ d.touched /\ b # a  BY <1>3, <1>10
  <2>2. d.mem[b] = mem[b] /\ \A k \in 1 .. Len(d.writes) : d.writes[k].addr # b
    BY <2>1 DEF Runs
  <2>3. e.mem[b] = d.mem[b]  BY <1>3, <1>5, <2>1 DEF Memory, Address
  <2>4. ASSUME NEW k \in 1 .. Len(e.writes)
        PROVE  e.writes[k].addr # b
    <3>1. CASE k = Len(d.writes) + 1
      <4>1. e.writes[k].addr = a  BY <1>6, <3>1
      <4> QED  BY <2>1, <4>1
    <3>2. CASE k \in 1 .. Len(d.writes)  BY <1>6, <2>2, <3>2
    <3> QED  BY <1>5, <1>6, <3>1, <3>2
  <2> QED  BY <2>2, <2>3, <2>4
<1>11. ASSUME NEW b \in e.touched \ e.full
       PROVE  \E k \in 1 .. Len(e.writes) : IsLast(e.writes, k, b) /\ e.writes[k].data = e.mem[b]
  <2>1. CASE b = a
    <3>1. e.mem[b] = v  BY <1>3, <1>5, <2>1 DEF Memory, Address
    <3> DEFINE k == Len(d.writes) + 1
    <3>2. k \in 1 .. Len(e.writes) /\ e.writes[k].addr = a /\ e.writes[k].data = v
      BY <1>5, <1>6
    <3>3. \A j \in 1 .. Len(e.writes) : ~(j > k)  BY <1>5, <1>6
    <3> HIDE DEF k
    <3> QED  BY <2>1, <3>1, <3>2, <3>3 DEF IsLast
  <2>2. CASE b # a
    <3>1. b \in d.touched \ d.full  BY <1>3, <1>11, <2>2
    <3>2. PICK k \in 1 .. Len(d.writes) : IsLast(d.writes, k, b) /\ d.writes[k].data = d.mem[b]
      BY <3>1 DEF Runs
    <3>3. e.mem[b] = d.mem[b]  BY <1>3, <1>5, <2>2, <3>1 DEF Memory, Address
    <3>4. k \in 1 .. Len(e.writes) /\ e.writes[k] = d.writes[k]  BY <1>5, <1>6
    <3>5. ASSUME NEW j \in 1 .. Len(e.writes), j > k
          PROVE  e.writes[j].addr # b
      <4>1. CASE j = Len(d.writes) + 1  BY <1>6, <2>2, <4>1
      <4>2. CASE j \in 1 .. Len(d.writes)  BY <1>6, <3>2, <3>5, <4>2 DEF IsLast
      <4> QED  BY <1>5, <1>6, <4>1, <4>2
    <3> QED  BY <3>2, <3>3, <3>4, <3>5 DEF IsLast
  <2> QED  BY <2>1, <2>2
<1>12. e \in Runs(mem)  BY <1>7, <1>8, <1>9, <1>10, <1>11 DEF Runs
<1> QED  BY <1>12 DEF e

\* A byte written without.
LEMMA DroppedRuns ==
  ASSUME NEW mem, NEW d \in Runs(mem), NEW a \in Address, NEW v \in 0 .. BYTE - 1
  PROVE  Dropped(d, a, v) \in Runs(mem)
<1> DEFINE e == Dropped(d, a, v)
<1>1. d \in Calls  BY DEF Runs
<1>2. e = [d EXCEPT !.mem = [d.mem EXCEPT ![a] = v], !.touched = d.touched \cup {a},
                    !.full = d.full \cup {a}]
  BY <1>1 DEF Dropped, Calls
<1>3. /\ e.mem = [d.mem EXCEPT ![a] = v] /\ e.touched = d.touched \cup {a}
      /\ e.full = d.full \cup {a} /\ e.writes = d.writes /\ e.regs = d.regs
  BY <1>1, <1>2 DEF Calls
<1>4. d.mem \in Memory /\ d.touched \in SUBSET Address /\ d.full \in SUBSET Address
  BY <1>1 DEF Calls
<1>5. e \in Calls
  <2>1. e.mem \in Memory  BY <1>3, <1>4 DEF Memory
  <2> QED  BY <1>1, <1>2, <1>3, <1>4, <2>1 DEF Calls
<1> HIDE DEF e
<1>6. \A b \in Address : b # a => e.mem[b] = d.mem[b]  BY <1>3, <1>4 DEF Memory, Address
<1>7. /\ Len(e.writes) <= WRITES /\ Len(e.regs) <= 3 /\ e.full \subseteq e.touched
  BY <1>3 DEF Runs
<1>8. ASSUME NEW b \in Address \ e.touched
      PROVE  e.mem[b] = mem[b] /\ \A k \in 1 .. Len(e.writes) : e.writes[k].addr # b
  BY <1>3, <1>6, <1>8 DEF Runs
<1>9. ASSUME NEW b \in e.touched \ e.full
      PROVE  \E k \in 1 .. Len(e.writes) : IsLast(e.writes, k, b) /\ e.writes[k].data = e.mem[b]
  <2>1. b \in d.touched \ d.full /\ b # a /\ b \in Address  BY <1>3, <1>4, <1>9
  <2>2. e.mem[b] = d.mem[b]  BY <1>6, <2>1
  <2> QED  BY <1>3, <2>1, <2>2 DEF Runs
<1>10. e \in Runs(mem)  BY <1>5, <1>7, <1>8, <1>9 DEF Runs
<1> QED  BY <1>10 DEF e

-----------------------------------------------------------------------------
(* Memory and registers.                                                   *)

\* An address is taken modulo the size of memory.
LEMMA Wraps ==
  ASSUME NEW a \in Int
  PROVE  a % MEM \in Address
  BY Sizes DEF Address

\* A byte written, with room or without.
LEMMA ByteRuns ==
  ASSUME NEW mem, NEW d \in Runs(mem), NEW a \in Int, NEW v \in Int
  PROVE  wb(d, a, v) \in Runs(mem)
  BY Wraps, CutByte, WrittenRuns, DroppedRuns DEF wb

\* A half word written.
LEMMA HalfRuns ==
  ASSUME NEW mem, NEW d \in Runs(mem), NEW a \in Int, NEW v \in Int
  PROVE  wh(d, a, v) \in Runs(mem)
<1>1. wb(d, a, v) \in Runs(mem)  BY ByteRuns
<1>2. v \div BYTE \in Int /\ a + 1 \in Int  BY Sizes
<1> QED  BY <1>1, <1>2, ByteRuns DEF wh

\* A word written.
LEMMA WordRuns ==
  ASSUME NEW mem, NEW d \in Runs(mem), NEW a \in Int, NEW v \in Int
  PROVE  ww(d, a, v) \in Runs(mem)
<1>1. wh(d, a, v) \in Runs(mem)  BY HalfRuns
<1>2. v \div Values(2) \in Int /\ a + 2 \in Int  BY Sizes
<1> QED  BY <1>1, <1>2, HalfRuns DEF ww

\* Any of the three.
LEMMA WriteRuns ==
  ASSUME NEW mem, NEW d \in Runs(mem), NEW a \in Int, NEW n \in {1, 2, 4}, NEW v \in Int
  PROVE  write(d, a, n, v) \in Runs(mem)
  BY ByteRuns, HalfRuns, WordRuns DEF write

\* A register put down to be written.
LEMMA RegisterRuns ==
  ASSUME NEW mem, NEW d \in Runs(mem), NEW n \in 0 .. SP, NEW v \in Int
  PROVE  add_wr(d, n, v) \in Runs(mem)
<1>1. CASE ~(Len(d.regs) < 3)  BY <1>1 DEF add_wr
<1>2. CASE Len(d.regs) < 3
  <2> DEFINE w == [idx |-> n, val |-> v % WORD]
             e == add_wr(d, n, v)
  <2>1. d \in Calls  BY DEF Runs
  <2>2. w \in RegWrite  BY Sizes DEF RegWrite, Word
  <2>3. e = [d EXCEPT !.regs = Append(d.regs, w)]  BY <1>2, <2>1 DEF add_wr, Calls
  <2>4. Append(d.regs, w) \in Seq(RegWrite) /\ Len(Append(d.regs, w)) <= 3
    BY <1>2, <2>1, <2>2 DEF Calls
  <2>5. e \in Calls  BY <2>1, <2>3, <2>4 DEF Calls
  <2>6. /\ e.mem = d.mem /\ e.writes = d.writes /\ e.touched = d.touched /\ e.full = d.full
        /\ Len(e.regs) <= 3
    BY <2>1, <2>3, <2>4 DEF Calls
  <2> HIDE DEF e
  <2>7. e \in Runs(mem)  BY <2>5, <2>6 DEF Runs
  <2> QED  BY <2>7 DEF e
<1> QED  BY <1>1, <1>2

\* The condition codes written.
LEMMA CodesRuns ==
  ASSUME NEW mem, NEW d \in Runs(mem), NEW c \in ConditionCodes
  PROVE  [d EXCEPT !.codes = c] \in Runs(mem)
<1> DEFINE e == [d EXCEPT !.codes = c]
<1>1. d \in Calls  BY DEF Runs
<1>2. e \in Calls  BY <1>1 DEF Calls
<1>3. /\ e.mem = d.mem /\ e.writes = d.writes /\ e.touched = d.touched /\ e.full = d.full
      /\ e.regs = d.regs
  BY <1>1 DEF Calls
<1> HIDE DEF e
<1>4. e \in Runs(mem)  BY <1>2, <1>3 DEF Runs
<1> QED  BY <1>4 DEF e

\* What is read is a number.
LEMMA Reads ==
  ASSUME NEW mem, NEW d \in Runs(mem), NEW a \in Int
  PROVE  /\ rb(d, a) \in 0 .. BYTE - 1 /\ rb(d, a) \in Nat
         /\ rh(d, a) \in Nat /\ rw(d, a) \in Nat
<1>1. d.mem \in Memory  BY DEF Runs, Calls
<1>2. \A b \in Int : rb(d, b) \in 0 .. BYTE - 1
  BY <1>1, Wraps DEF rb, Memory, Address
<1>3. \A b \in Int : rb(d, b) \in Nat  BY <1>2, Sizes
<1>4. \A b \in Int : rh(d, b) \in Nat
  <2>1. \A x, y \in Nat : x + y * BYTE \in Nat  BY Sizes
  <2> QED  BY <1>3, <2>1 DEF rh
<1>5. rw(d, a) \in Nat
  <2>1. \A x, y \in Nat : x + y * Values(2) \in Nat  BY Sizes
  <2> QED  BY <1>4, <2>1 DEF rw
<1> QED  BY <1>2, <1>3, <1>4, <1>5

\* What is read is a number, whatever its size.
LEMMA ReadNat ==
  ASSUME NEW mem, NEW d \in Runs(mem), NEW a \in Int, NEW n \in {1, 2, 4}
  PROVE  read(d, a, n) \in Nat
  BY Reads DEF read

\* So is what a register holds.
LEMMA RegisterNat ==
  ASSUME NEW mem, NEW d \in Runs(mem), NEW n \in 0 .. SP
  PROVE  gpr(d, n) \in Nat /\ gpr(d, n) \in Word
<1>1. d.reg \in [0 .. SP -> Word]  BY DEF Runs, Calls
<1>2. gpr(d, n) \in Word  BY <1>1 DEF gpr
<1> QED  BY <1>2, Sizes DEF Word

\* The registers the instructions use.
LEMMA Registers == {R26, R27, R28} \subseteq 0 .. SP
  BY Sizes DEF R26, R27, R28

\* So is the character a string is filled up with.
LEMMA FillNat ==
  ASSUME NEW mem, NEW d \in Runs(mem), NEW n \in {1, 2, 4}
  PROVE  fill_char(d, n) \in Nat
<1>1. gpr(d, R26) \in Nat  BY RegisterNat, Registers
<1> QED  BY <1>1, CutNat DEF fill_char

\* The two registers that tell where an instruction stopped.
LEMMA WorkRuns ==
  ASSUME NEW mem, NEW d \in Runs(mem), NEW v \in Int, NEW w \in Int
  PROVE  work(d, v, w) \in Runs(mem)
<1>1. add_wr(d, R28, v) \in Runs(mem)  BY RegisterRuns, Registers
<1> QED  BY <1>1, RegisterRuns, Registers DEF work

-----------------------------------------------------------------------------
(* Loops.                                                                  *)

\* The characters of a string filled up.
LEMMA FillRuns ==
  ASSUME NEW mem, NEW d \in Runs(mem), NEW from \in Int, NEW to \in Int, NEW base \in Int,
         NEW step \in Int, NEW u \in {1, 2}
  PROVE  fill(d, from, to, base, step, u) \in Runs(mem)
<1> DEFINE n == IF to > from THEN to - from ELSE 0
           Body(x, j) == write(x, base + j * step, u, fill_char(d, u))
           K == Runs(mem)
           round == [p \in K \X Nat |-> Body(p[1], from + p[2])]
           g == CHOOSE h : h = [k \in 0 .. n |-> IF k = 0 THEN d
                                                 ELSE Body(h[k - 1], from + (k - 1))]
<1>1. fill(d, from, to, base, step, u) = g[n]
  BY DEF fill, For
<1>2. n \in Nat  OBVIOUS
<1>3. ASSUME NEW x \in K, NEW j \in Int
      PROVE  Body(x, j) \in K
  <2>1. u \in {1, 2, 4} /\ fill_char(d, u) \in Int  BY FillNat
  <2>2. base + j * step \in Int  OBVIOUS
  <2> QED  BY <2>1, <2>2, WriteRuns
<1> HIDE DEF n, Body, K
<1>4. d \in K  BY DEF K
<1>5. round \in [K \X Nat -> K]  BY <1>3
<1>6. PICK h \in [0 .. n -> K] : Rounds(h, d, round, n)  BY <1>2, <1>4, <1>5, Recursion
<1>7. ASSUME NEW k \in 0 .. n, k # 0
      PROVE  round[<<h[k - 1], k - 1>>] = Body(h[k - 1], from + (k - 1))
  BY <1>2, <1>6, <1>7
<1>8. h = [k \in 0 .. n |-> IF k = 0 THEN d ELSE Body(h[k - 1], from + (k - 1))]
  <2> HIDE DEF round
  <2> QED BY <1>6, <1>7 DEF Rounds
<1>9. g = [k \in 0 .. n |-> IF k = 0 THEN d ELSE Body(g[k - 1], from + (k - 1))]
  BY <1>8
<1> HIDE DEF g
<1>10. g[0] \in K  BY <1>2, <1>4, <1>9
<1>11. ASSUME NEW k \in 0 .. n - 1, g[k] \in K
       PROVE  g[k + 1] \in K
  <2>1. g[k + 1] = Body(g[k], from + k)  BY <1>2, <1>9
  <2> QED  BY <1>2, <1>3, <1>11, <2>1
<1>12. g[n] \in K  BY <1>2, <1>10, <1>11, Stays
<1> QED  BY <1>1, <1>12 DEF K

\* The characters of a string moved.
LEMMA MovedRuns ==
  ASSUME NEW mem, NEW d \in Runs(mem), NEW i \in Instruction, NEW s, s.op1 \in Int, s.op2 \in Int,
         NEW dest \in Int
  PROVE  Moved(d, i, s, dest) \in [d : Runs(mem), over : BOOLEAN, i : Nat]
<1> DEFINE u == i.unit
           n == IF dest > 0 THEN dest - 0 ELSE 0
           at(j) == (IF i.down THEN dest - j - 1 ELSE j) * u
           Body(x, j) ==
             IF x.over THEN x
             ELSE LET c1 == read(x.d, s.op1 + at(j), u)
                  IN [d    |-> write(x.d, s.op2 + at(j), u, c1),
                      over |-> i.stop /\ c1 = fill_char(d, u),
                      i    |-> IF i.stop /\ c1 = fill_char(d, u) THEN j ELSE j + 1]
           K == [d : Runs(mem), over : BOOLEAN, i : Nat]
           x0 == [d |-> d, over |-> FALSE, i |-> 0]
           round == [p \in K \X Nat |-> Body(p[1], 0 + p[2])]
           g == CHOOSE h : h = [k \in 0 .. n |-> IF k = 0 THEN x0
                                                 ELSE Body(h[k - 1], 0 + (k - 1))]
<1>1. Moved(d, i, s, dest) = g[n]
  BY DEF Moved, For
<1>2. n \in Nat  OBVIOUS
<1>3. ASSUME NEW x \in K, NEW j \in Nat
      PROVE  Body(x, j) \in K
  <2>1. u \in {1, 2, 4}  BY DEF Instruction
  <2>2. at(j) \in Int
    <3>1. u \in Int  BY <2>1
    <3>2. \A y \in Int : y * u \in Int  BY <3>1
    <3> HIDE DEF u
    <3> QED  BY <3>2
  <2> HIDE DEF at, u
  <2> DEFINE c1 == read(x.d, s.op1 + at(j), u)
             stops == i.stop /\ c1 = fill_char(d, u)
  <2>3. c1 \in Nat  BY <2>1, <2>2, ReadNat
  <2> HIDE DEF c1
  <2>4. write(x.d, s.op2 + at(j), u, c1) \in Runs(mem)
    <3>1. x.d \in Runs(mem) /\ s.op2 + at(j) \in Int /\ c1 \in Int  BY <2>2, <2>3
    <3> QED  BY <2>1, <3>1, WriteRuns
  <2>5. stops \in BOOLEAN  BY DEF Instruction
  <2>6. (IF stops THEN j ELSE j + 1) \in Nat  OBVIOUS
  <2> HIDE DEF stops
  <2>7. ~x.over => Body(x, j) = [d |-> write(x.d, s.op2 + at(j), u, c1), over |-> stops,
                                 i |-> IF stops THEN j ELSE j + 1]
    BY DEF stops, c1
  <2> QED  BY <2>4, <2>5, <2>6, <2>7
<1> HIDE DEF n, Body
<1>4. x0 \in K  OBVIOUS
<1> HIDE DEF K, x0
<1>5. round \in [K \X Nat -> K]  BY <1>3
<1>6. PICK h \in [0 .. n -> K] : Rounds(h, x0, round, n)  BY <1>2, <1>4, <1>5, Recursion
<1>7. ASSUME NEW k \in 0 .. n, k # 0
      PROVE  round[<<h[k - 1], k - 1>>] = Body(h[k - 1], 0 + (k - 1))
  BY <1>2, <1>6, <1>7
<1>8. h = [k \in 0 .. n |-> IF k = 0 THEN x0 ELSE Body(h[k - 1], 0 + (k - 1))]
  <2> HIDE DEF round
  <2> QED BY <1>6, <1>7 DEF Rounds
<1>9. g = [k \in 0 .. n |-> IF k = 0 THEN x0 ELSE Body(g[k - 1], 0 + (k - 1))]
  BY <1>8
<1> HIDE DEF g
<1>10. g[0] \in K  BY <1>2, <1>4, <1>9
<1>11. ASSUME NEW k \in 0 .. n - 1, g[k] \in K
       PROVE  g[k + 1] \in K
  <2>1. g[k + 1] = Body(g[k], 0 + k) /\ k \in Nat /\ 0 + k = k  BY <1>2, <1>9
  <2> QED  BY <1>3, <1>11, <2>1
<1>12. g[n] \in K  BY <1>2, <1>10, <1>11, Stays
<1> QED  BY <1>1, <1>12 DEF K

\* A byte has at least one bit.
LEMMA Bits ==
  BYTE_BITS \in Nat \ {0} /\ WORD_BITS \in Nat
<1>1. \E b \in 1 .. BYTE : 2 ^ b = BYTE  BY MachineAssumption
<1>2. BYTE_BITS \in 1 .. BYTE  BY <1>1 DEF BYTE_BITS
<1> QED  BY <1>2, Sizes DEF WORD_BITS

\* A number with one bit of it changed.
LEMMA WithBit ==
  ASSUME NEW v \in Int, NEW b \in Nat, NEW x
  PROVE  with_bit(v, b, x) \in Int
<1>1. 2 ^ b \in Int  OBVIOUS
<1> QED  BY <1>1 DEF with_bit

\* The bits of two numbers together.
LEMMA OrInt ==
  ASSUME NEW x, NEW y
  PROVE  or(x, y) \in Int
<1> DEFINE n == IF 2 * BYTE_BITS > 0 THEN 2 * BYTE_BITS - 0 ELSE 0
           Body(v, b) == IF bit(x, b) \/ bit(y, b) THEN v + 2 ^ b ELSE v
           round == [p \in Int \X Nat |-> Body(p[1], 0 + p[2])]
           g == CHOOSE h : h = [k \in 0 .. n |-> IF k = 0 THEN 0
                                                 ELSE Body(h[k - 1], 0 + (k - 1))]
<1>1. or(x, y) = g[n]
  BY DEF or, For
<1>2. n \in Nat  BY Bits
<1>3. ASSUME NEW v \in Int, NEW b \in Nat
      PROVE  Body(v, b) \in Int
  OBVIOUS
<1> HIDE DEF n, Body
<1>4. round \in [Int \X Nat -> Int]  BY <1>3
<1>5. PICK h \in [0 .. n -> Int] : Rounds(h, 0, round, n)
  <2> DEFINE K == Int
             zero == 0
  <2>1. round \in [K \X Nat -> K] /\ zero \in K  BY <1>4
  <2> HIDE DEF K, zero, round
  <2>2. \E h \in [0 .. n -> K] : Rounds(h, zero, round, n)  BY <1>2, <2>1, Recursion
  <2> QED  BY <2>2 DEF K, zero
<1>6. ASSUME NEW k \in 0 .. n, k # 0
      PROVE  round[<<h[k - 1], k - 1>>] = Body(h[k - 1], 0 + (k - 1))
  BY <1>2, <1>5, <1>6
<1>7. h = [k \in 0 .. n |-> IF k = 0 THEN 0 ELSE Body(h[k - 1], 0 + (k - 1))]
  <2> HIDE DEF round
  <2> QED BY <1>5, <1>6 DEF Rounds
<1>8. g = [k \in 0 .. n |-> IF k = 0 THEN 0 ELSE Body(g[k - 1], 0 + (k - 1))]
  BY <1>7
<1> HIDE DEF g
<1>9. g[0] \in Int  BY <1>2, <1>8
<1>10. ASSUME NEW k \in 0 .. n - 1, g[k] \in Int
       PROVE  g[k + 1] \in Int
  <2>1. g[k + 1] = Body(g[k], 0 + k) /\ k \in Nat /\ 0 + k = k  BY <1>2, <1>8
  <2> QED  BY <1>3, <1>10, <2>1
<1>11. g[n] \in Int  BY <1>2, <1>9, <1>10, Stays
<1> QED  BY <1>1, <1>11

\* A one that is shifted to the left.
LEMMA ShiftedNat ==
  ASSUME NEW n \in Nat
  PROVE  shifted(n) \in Nat \ {0}
<1> DEFINE j == IF n > 0 THEN n - 0 ELSE 0
           g == CHOOSE h : h = [k \in 0 .. j |-> IF k = 0 THEN 1 ELSE 2 * h[k - 1]]
           K == Nat \ {0}
           one == 1
           round == [p \in K \X Nat |-> 2 * p[1]]
<1>1. shifted(n) = g[j]
  BY DEF shifted, For
<1>2. j \in Nat  OBVIOUS
<1> HIDE DEF j
<1>3. PICK h \in [0 .. j -> K] : Rounds(h, one, round, j)
  <2>1. round \in [K \X Nat -> K] /\ one \in K  OBVIOUS
  <2> HIDE DEF K, one, round
  <2> QED  BY <1>2, <2>1, Recursion
<1>4. ASSUME NEW k \in 0 .. j, k # 0
      PROVE  round[<<h[k - 1], k - 1>>] = 2 * h[k - 1]
  BY <1>2, <1>3, <1>4
<1>5. h = [k \in 0 .. j |-> IF k = 0 THEN 1 ELSE 2 * h[k - 1]]
  <2> HIDE DEF round
  <2> QED  BY <1>3, <1>4 DEF Rounds
<1>6. g = [k \in 0 .. j |-> IF k = 0 THEN 1 ELSE 2 * g[k - 1]]
  BY <1>5
<1> HIDE DEF g
<1>7. g[0] \in K  BY <1>2, <1>6
<1>8. ASSUME NEW k \in 0 .. j - 1, g[k] \in K
      PROVE  g[k + 1] \in K
  BY <1>2, <1>6, <1>8
<1>9. g[j] \in K
  <2> HIDE DEF K
  <2> QED  BY <1>2, <1>7, <1>8, Stays
<1> QED  BY <1>1, <1>9

\* What goes from one bit to the next of strings of bits that are moved.
Carried(mem) == [d : Runs(mem), op1 : Int, op2 : Int, src : Int, dst : Int]

\* What the move of a string of bits begins with.
LEMMA FirstBits ==
  ASSUME NEW mem, NEW d \in Runs(mem), NEW op1 \in Int, NEW op2 \in Int
  PROVE  [d |-> d, op1 |-> op1, op2 |-> op2, src |-> rb(d, op1), dst |-> rb(d, op2)]
           \in Carried(mem)
  BY Reads DEF Carried

\* And ends with.
LEMMA LastBits ==
  ASSUME NEW mem, NEW l \in Carried(mem), NEW part \in BOOLEAN
  PROVE  work(IF part THEN wb(l.d, l.op2, l.dst) ELSE l.d, l.op1, l.op2) \in Runs(mem)
<1>1. /\ l.d \in Runs(mem) /\ l.op1 \in Int /\ l.op2 \in Int /\ l.dst \in Int  BY DEF Carried
<1>2. wb(l.d, l.op2, l.dst) \in Runs(mem)  BY <1>1, ByteRuns
<1>3. (IF part THEN wb(l.d, l.op2, l.dst) ELSE l.d) \in Runs(mem)  BY <1>1, <1>2
<1> QED  BY <1>1, <1>3, WorkRuns

\* A bit moved, and if it was the last of its byte the byte, the next ones at a1 and a2.
LEMMA NextBit ==
  ASSUME NEW mem, NEW x \in Carried(mem), NEW b \in Nat, NEW end \in BOOLEAN,
         NEW a1 \in Int, NEW a2 \in Int
  PROVE  LET dst == with_bit(x.dst, b, bit(x.src, b))
             q   == IF end THEN wb(x.d, x.op2, dst) ELSE x.d
         IN [d   |-> q,
             op1 |-> IF end THEN a1 ELSE x.op1,
             op2 |-> IF end THEN a2 ELSE x.op2,
             src |-> IF end THEN rb(x.d, a1) ELSE x.src,
             dst |-> IF end THEN rb(q, a2) ELSE dst] \in Carried(mem)
<1> DEFINE dst == with_bit(x.dst, b, bit(x.src, b))
           q   == IF end THEN wb(x.d, x.op2, dst) ELSE x.d
<1>1. /\ x.d \in Runs(mem) /\ x.op1 \in Int /\ x.op2 \in Int /\ x.src \in Int /\ x.dst \in Int
  BY DEF Carried
<1>2. dst \in Int  BY <1>1, WithBit
<1> HIDE DEF dst
<1>3. wb(x.d, x.op2, dst) \in Runs(mem)  BY <1>1, <1>2, ByteRuns
<1>4. q \in Runs(mem)  BY <1>1, <1>3
<1> HIDE DEF q
<1>5. \A e \in Runs(mem), a \in Int : rb(e, a) \in Int  BY Reads
<1>6. rb(x.d, a1) \in Int /\ rb(q, a2) \in Int  BY <1>1, <1>4, <1>5
<1>7. [d   |-> q,
       op1 |-> IF end THEN a1 ELSE x.op1,
       op2 |-> IF end THEN a2 ELSE x.op2,
       src |-> IF end THEN rb(x.d, a1) ELSE x.src,
       dst |-> IF end THEN rb(q, a2) ELSE dst] \in Carried(mem)
  BY <1>1, <1>2, <1>4, <1>6 DEF Carried
<1> QED  BY <1>7 DEF q, dst

\* A string of bits moved from its first bit on.
LEMMA MovedUpRuns ==
  ASSUME NEW mem, NEW d \in Runs(mem), NEW i,
         decode_len_byte(d, i.len1) \in Int,
         decode_bit_read_am_address(d, i.src) \in Int, decode_bit_read_am_address(d, i.to) \in Int
  PROVE  op_movbsu(d, i) \in Runs(mem)
<1> DEFINE len == decode_len_byte(d, i.len1)
           op1 == decode_bit_read_am_address(d, i.src)
           op2 == decode_bit_read_am_address(d, i.to)
           n == IF len > 0 THEN len - 0 ELSE 0
           K == Carried(mem)
           x0 == [d |-> d, op1 |-> op1, op2 |-> op2, src |-> rb(d, op1), dst |-> rb(d, op2)]
           Body(x, j) ==
             LET b    == j % BYTE_BITS
                 ends == b = BYTE_BITS - 1
                 dst  == with_bit(x.dst, b, bit(x.src, b))
                 q    == IF ends THEN wb(x.d, x.op2, dst) ELSE x.d
             IN [d   |-> q,
                 op1 |-> IF ends THEN x.op1 + 1 ELSE x.op1,
                 op2 |-> IF ends THEN x.op2 + 1 ELSE x.op2,
                 src |-> IF ends THEN rb(x.d, x.op1 + 1) ELSE x.src,
                 dst |-> IF ends THEN rb(q, x.op2 + 1) ELSE dst]
           round == [p \in K \X Nat |-> Body(p[1], 0 + p[2])]
           g == CHOOSE h : h = [k \in 0 .. n |-> IF k = 0 THEN x0
                                                 ELSE Body(h[k - 1], 0 + (k - 1))]
           part == len % BYTE_BITS # 0
<1>1. op_movbsu(d, i)
        = work(IF part THEN wb(g[n].d, g[n].op2, g[n].dst) ELSE g[n].d, g[n].op1, g[n].op2)
  BY DEF op_movbsu, For
<1>2. len \in Int /\ op1 \in Int /\ op2 \in Int  OBVIOUS
<1> HIDE DEF len, op1, op2
<1>3. n \in Nat  BY <1>2
<1>4. ASSUME NEW x \in K, NEW j \in Nat
      PROVE  Body(x, j) \in K
  <2> DEFINE b == j % BYTE_BITS
             end == b = BYTE_BITS - 1
  <2>1. b \in Nat  BY Bits
  <2>2. end \in BOOLEAN  OBVIOUS
  <2>3. x.op1 + 1 \in Int /\ x.op2 + 1 \in Int  BY DEF Carried
  <2> HIDE DEF b, end
  <2>4. LET dst == with_bit(x.dst, b, bit(x.src, b))
            q   == IF end THEN wb(x.d, x.op2, dst) ELSE x.d
        IN [d   |-> q,
            op1 |-> IF end THEN x.op1 + 1 ELSE x.op1,
            op2 |-> IF end THEN x.op2 + 1 ELSE x.op2,
            src |-> IF end THEN rb(x.d, x.op1 + 1) ELSE x.src,
            dst |-> IF end THEN rb(q, x.op2 + 1) ELSE dst] \in Carried(mem)
    BY <2>1, <2>2, <2>3, NextBit
  <2> QED  BY <2>4 DEF b, end
<1>5. x0 \in K  BY <1>2, FirstBits
<1> HIDE DEF n, Body, K, x0
<1>6. round \in [K \X Nat -> K]  BY <1>4
<1>7. PICK h \in [0 .. n -> K] : Rounds(h, x0, round, n)  BY <1>3, <1>5, <1>6, Recursion
<1>8. ASSUME NEW k \in 0 .. n, k # 0
      PROVE  round[<<h[k - 1], k - 1>>] = Body(h[k - 1], 0 + (k - 1))
  BY <1>3, <1>7, <1>8
<1>9. h = [k \in 0 .. n |-> IF k = 0 THEN x0 ELSE Body(h[k - 1], 0 + (k - 1))]
  <2> HIDE DEF round
  <2> QED BY <1>7, <1>8 DEF Rounds
<1>10. g = [k \in 0 .. n |-> IF k = 0 THEN x0 ELSE Body(g[k - 1], 0 + (k - 1))]
  BY <1>9
<1> HIDE DEF g
<1>11. g[0] \in K  BY <1>3, <1>5, <1>10
<1>12. ASSUME NEW k \in 0 .. n - 1, g[k] \in K
       PROVE  g[k + 1] \in K
  <2>1. g[k + 1] = Body(g[k], 0 + k) /\ k \in Nat /\ 0 + k = k  BY <1>3, <1>10
  <2> QED  BY <1>4, <1>12, <2>1
<1>13. g[n] \in Carried(mem)  BY <1>3, <1>11, <1>12, Stays DEF K
<1>14. part \in BOOLEAN  OBVIOUS
<1> HIDE DEF part
<1> QED  BY <1>1, <1>13, <1>14, LastBits

\* A quotient as C divides is a number.
LEMMA QuotientInt ==
  ASSUME NEW v \in Int, NEW n \in Nat \ {0}
  PROVE  quotient(v, n) \in Int
<1>1. -v \in Int  OBVIOUS
<1>2. (-v) \div n \in Int /\ v \div n \in Int  BY <1>1
<1> QED  BY <1>2 DEF quotient

\* And from its last bit on.
LEMMA MovedDownRuns ==
  ASSUME NEW mem, NEW d \in Runs(mem), NEW i,
         decode_len_byte(d, i.len1) \in Int,
         decode_bit_read_am_address(d, i.src) \in Int, decode_bit_read_am_address(d, i.to) \in Int
  PROVE  op_movbsd(d, i) \in Runs(mem)
<1> DEFINE len == decode_len_byte(d, i.len1)
           from == Number(len - 1, 4)
           op1 == decode_bit_read_am_address(d, i.src) + quotient(from, BYTE_BITS)
           op2 == decode_bit_read_am_address(d, i.to) + quotient(from, BYTE_BITS)
           n == IF len > 0 THEN len - 0 ELSE 0
           K == Carried(mem)
           x0 == [d |-> d, op1 |-> op1, op2 |-> op2, src |-> rb(d, op1), dst |-> rb(d, op2)]
           Body(x, j) ==
             LET b    == (from - j) % BYTE_BITS
                 dst  == with_bit(x.dst, b, bit(x.src, b))
                 q    == IF b = 0 THEN wb(x.d, x.op2, dst) ELSE x.d
             IN [d   |-> q,
                 op1 |-> IF b = 0 THEN x.op1 - 1 ELSE x.op1,
                 op2 |-> IF b = 0 THEN x.op2 - 1 ELSE x.op2,
                 src |-> IF b = 0 THEN rb(x.d, x.op1 - 1) ELSE x.src,
                 dst |-> IF b = 0 THEN rb(q, x.op2 - 1) ELSE dst]
           round == [p \in K \X Nat |-> Body(p[1], 0 + p[2])]
           g == CHOOSE h : h = [k \in 0 .. n |-> IF k = 0 THEN x0
                                                 ELSE Body(h[k - 1], 0 + (k - 1))]
           part == (from - len) % BYTE_BITS # BYTE_BITS - 1
<1>1. op_movbsd(d, i)
        = work(IF part THEN wb(g[n].d, g[n].op2, g[n].dst) ELSE g[n].d, g[n].op1, g[n].op2)
  BY DEF op_movbsd, For
<1>2. len \in Int /\ from \in Int /\ op1 \in Int /\ op2 \in Int
  <2>1. len \in Int /\ len - 1 \in Int /\ 4 \in {1, 2, 4}  OBVIOUS
  <2>2. from \in Int  BY <2>1, CutNat, Sizes DEF Number, WORD
  <2> HIDE DEF from
  <2>3. quotient(from, BYTE_BITS) \in Int  BY <2>2, Bits, QuotientInt
  <2> QED  BY <2>1, <2>2, <2>3
<1> HIDE DEF len, from, op1, op2
<1>3. n \in Nat  BY <1>2
<1>4. ASSUME NEW x \in K, NEW j \in Nat
      PROVE  Body(x, j) \in K
  <2> DEFINE b == (from - j) % BYTE_BITS
             end == b = 0
  <2>1. b \in Nat  BY <1>2, Bits
  <2>2. end \in BOOLEAN  OBVIOUS
  <2>3. x.op1 - 1 \in Int /\ x.op2 - 1 \in Int  BY DEF Carried
  <2> HIDE DEF b, end
  <2>4. LET dst == with_bit(x.dst, b, bit(x.src, b))
            q   == IF end THEN wb(x.d, x.op2, dst) ELSE x.d
        IN [d   |-> q,
            op1 |-> IF end THEN x.op1 - 1 ELSE x.op1,
            op2 |-> IF end THEN x.op2 - 1 ELSE x.op2,
            src |-> IF end THEN rb(x.d, x.op1 - 1) ELSE x.src,
            dst |-> IF end THEN rb(q, x.op2 - 1) ELSE dst] \in Carried(mem)
    BY <2>1, <2>2, <2>3, NextBit
  <2> QED  BY <2>4 DEF b, end
<1>5. x0 \in K  BY <1>2, FirstBits
<1> HIDE DEF n, Body, K, x0
<1>6. round \in [K \X Nat -> K]  BY <1>4
<1>7. PICK h \in [0 .. n -> K] : Rounds(h, x0, round, n)  BY <1>3, <1>5, <1>6, Recursion
<1>8. ASSUME NEW k \in 0 .. n, k # 0
      PROVE  round[<<h[k - 1], k - 1>>] = Body(h[k - 1], 0 + (k - 1))
  BY <1>3, <1>7, <1>8
<1>9. h = [k \in 0 .. n |-> IF k = 0 THEN x0 ELSE Body(h[k - 1], 0 + (k - 1))]
  <2> HIDE DEF round
  <2> QED BY <1>7, <1>8 DEF Rounds
<1>10. g = [k \in 0 .. n |-> IF k = 0 THEN x0 ELSE Body(g[k - 1], 0 + (k - 1))]
  BY <1>9
<1> HIDE DEF g
<1>11. g[0] \in K  BY <1>3, <1>5, <1>10
<1>12. ASSUME NEW k \in 0 .. n - 1, g[k] \in K
       PROVE  g[k + 1] \in K
  <2>1. g[k + 1] = Body(g[k], 0 + k) /\ k \in Nat /\ 0 + k = k  BY <1>3, <1>10
  <2> QED  BY <1>4, <1>12, <2>1
<1>13. g[n] \in Carried(mem)  BY <1>3, <1>11, <1>12, Stays DEF K
<1>14. part \in BOOLEAN  OBVIOUS
<1> HIDE DEF part
<1> QED  BY <1>1, <1>13, <1>14, LastBits

\* Where a loop is left is a number.
LEMMA FirstOf ==
  ASSUME NEW S, S \subseteq Nat, S # {}
  PROVE  Min(S) \in Nat
<1>1. \E x \in S : \A y \in S : x <= y  BY Least
<1> QED  BY <1>1 DEF Min

-----------------------------------------------------------------------------
(* The operands.                                                           *)

\* The address of an operand in memory is a number.
LEMMA AddressInt ==
  ASSUME NEW mem, NEW d \in Runs(mem), NEW o \in Operands, Addressable(o), o.mode # "Register",
         NEW n \in {1, 2, 4}
  PROVE  EffectiveAddress(d, o, n) \in Int
<1> DEFINE base == IF HasRegister(o) THEN gpr(d, o.reg) ELSE d.pc
           x    == IF o.index = NoIndex THEN 0 ELSE gpr(d, o.index) * n
<1>1. o.reg \in 0 .. SP /\ (o.index # NoIndex => o.index \in 0 .. SP)  BY DEF Operands
<1>2. d.pc \in Nat /\ o.disp \in Nat /\ o.disp2 \in Nat
  BY Sizes DEF Runs, Calls, Word, Operands
<1>3. base \in Int  BY <1>1, <1>2, RegisterNat
<1>4. x \in Int
  <2>1. CASE o.index = NoIndex  BY <2>1
  <2>2. CASE o.index # NoIndex
    <3>1. gpr(d, o.index) \in Int  BY <1>1, <2>2, RegisterNat
    <3> QED  BY <2>2, <3>1
  <2> QED  BY <2>1, <2>2
<1> HIDE DEF base, x
<1>5. o.disp \in Int /\ base + o.disp \in Int  BY <1>2, <1>3
<1>6. rw(d, o.disp) \in Int /\ rw(d, base + o.disp) \in Int  BY <1>5, Reads
<1>7. o.mode \in {"RegisterIndirect", "Autoincrement", "Autodecrement", "Displacement",
                  "PCDisplacement", "DisplacementIndirect", "PCDisplacementIndirect",
                  "DoubleDisplacement", "DirectAddress", "DirectAddressDeferred"}
  BY DEF Addressable, AMRegister, AMAuto, AMPlain
<1>8. EffectiveAddress(d, o, n) =
        CASE o.mode \in {"RegisterIndirect", "Autoincrement"} -> base
          [] o.mode = "Autodecrement"                         -> base - n
          [] o.mode \in {"Displacement", "PCDisplacement"}    -> base + o.disp + x
          [] o.mode \in {"DisplacementIndirect", "PCDisplacementIndirect"} -> rw(d, base + o.disp)
          [] o.mode = "DoubleDisplacement"    -> rw(d, base + o.disp) + o.disp2
          [] o.mode = "DirectAddress"         -> o.disp + x
          [] o.mode = "DirectAddressDeferred" -> rw(d, o.disp)
  BY DEF EffectiveAddress, base, x
<1> QED  BY <1>2, <1>3, <1>4, <1>6, <1>7, <1>8

\* What an operand can be asked for is a number.
LEMMA OperandInt ==
  ASSUME NEW mem, NEW d \in Runs(mem), NEW o \in Operands, NEW n \in {1, 2, 4}
  PROVE  /\ Readable(o) => decode_read_am(d, o, n) \in Int
         /\ Addressable(o) => decode_read_am_address(d, o, n).value \in Int
         /\ LET a == decode_read_am_address(d, o, n) IN a.flag => a.value \in 0 .. SP
<1>1. o.reg \in 0 .. SP /\ o.reg \in Int  BY DEF Operands
<1>2. o.disp \in Int  BY Sizes DEF Operands, Word
<1>3. gpr(d, o.reg) \in Int  BY <1>1, RegisterNat
<1>4. Cut(gpr(d, o.reg), n) \in Int /\ Cut(o.disp, n) \in Int  BY <1>2, <1>3, CutNat
<1>5. ASSUME Addressable(o), o.mode # "Register"
      PROVE  /\ EffectiveAddress(d, o, n) % WORD \in Int
             /\ read(d, EffectiveAddress(d, o, n), n) \in Int
  <2>1. EffectiveAddress(d, o, n) \in Int  BY <1>5, AddressInt
  <2> QED  BY <2>1, ReadNat, Sizes
<1>6. ASSUME Readable(o)
      PROVE  decode_read_am(d, o, n) \in Int
  <2>1. CASE o.mode = "Register"  BY <1>4, <2>1 DEF decode_read_am, AMConstant
  <2>2. CASE o.mode \in AMConstant  BY <1>4, <2>2 DEF decode_read_am, AMConstant
  <2>3. CASE o.mode # "Register" /\ o.mode \notin AMConstant
    BY <1>5, <1>6, <2>3 DEF decode_read_am, Readable
  <2> QED  BY <2>1, <2>2, <2>3
<1>7. ASSUME Addressable(o)
      PROVE  decode_read_am_address(d, o, n).value \in Int
  BY <1>1, <1>5, <1>7 DEF decode_read_am_address
<1>8. ASSUME decode_read_am_address(d, o, n).flag
      PROVE  decode_read_am_address(d, o, n).value \in 0 .. SP
  BY <1>1, <1>8 DEF decode_read_am_address
<1> QED  BY <1>6, <1>7, <1>8

\* So is what an operand of bits can be asked for.
LEMMA BitsInt ==
  ASSUME NEW mem, NEW d \in Runs(mem), NEW o \in Operands
  PROVE  /\ BitReadable(o) => decode_bit_read_am(d, o) \in Int
         /\ BitAddressable(o) => decode_bit_read_am_address(d, o) \in Int
<1>1. o.reg \in 0 .. SP /\ o.reg \in Int  BY DEF Operands
<1>2. o.disp \in Int  BY Sizes DEF Operands, Word
<1>3. gpr(d, o.reg) \in Int  BY <1>1, RegisterNat
<1>4. ASSUME o.mode \in {"Register", "Autoincrement", "Autodecrement", "RegisterIndirect",
                         "Displacement", "DoubleDisplacement", "DirectAddress"}
      PROVE  BitAddress(d, o) \in Int
  <2>1. gpr(d, o.reg) + o.disp \in Int  BY <1>2, <1>3
  <2>2. rw(d, gpr(d, o.reg) + o.disp) \in Int  BY <2>1, Reads
  <2> QED  BY <1>1, <1>2, <1>3, <1>4, <2>1, <2>2 DEF BitAddress, AMAuto
<1>5. ASSUME BitReadable(o)
      PROVE  decode_bit_read_am(d, o) \in Int
  <2>1. CASE o.mode = "Immediate"  BY <1>2, <2>1 DEF decode_bit_read_am
  <2>2. CASE o.mode # "Immediate"
    <3>1. BitAddress(d, o) \in Int  BY <1>4, <1>5, <2>2 DEF BitReadable, AMAuto
    <3> QED  BY <2>2, <3>1, Reads DEF decode_bit_read_am
  <2> QED  BY <2>1, <2>2
<1>6. ASSUME BitAddressable(o)
      PROVE  decode_bit_read_am_address(d, o) \in Int
  <2>1. BitAddress(d, o) \in Int  BY <1>4, <1>6 DEF BitAddressable
  <2> QED  BY <2>1, Sizes DEF decode_bit_read_am_address
<1> QED  BY <1>5, <1>6

\* So is a length.
LEMMA LengthInt ==
  ASSUME NEW mem, NEW d \in Runs(mem), NEW l \in Length
  PROVE  decode_len_byte(d, l) \in Int
<1>1. CASE l.reg
  <2>1. l.n \in 0 .. SP  BY <1>1 DEF Length
  <2> QED  BY <1>1, <2>1, RegisterNat DEF decode_len_byte
<1>2. CASE ~l.reg
  <2>1. l.n \in Nat  BY <1>2, Sizes DEF Length
  <2> QED  BY <1>2, <2>1 DEF decode_len_byte
<1> QED  BY <1>1, <1>2

\* Two strings.
Pair == [op1 : Int, lenop1 : Int, op2 : Int, lenop2 : Int]

\* And what the operations on two strings begin with.
LEMMA PairInt ==
  ASSUME NEW mem, NEW d \in Runs(mem), NEW i \in Instruction, NEW n \in {1, 2, 4},
         Addressable(i.src), Addressable(i.to)
  PROVE  f7a_decode(d, i, n) \in Pair
<1>1. i.src \in Operands /\ i.to \in Operands /\ i.len1 \in Length /\ i.len2 \in Length
  BY DEF Instruction
<1>2. decode_len_byte(d, i.len1) \in Int /\ decode_len_byte(d, i.len2) \in Int
  BY <1>1, LengthInt
<1>3. /\ decode_read_am_address(d, i.src, n).value \in Int
      /\ decode_read_am_address(d, i.to, n).value \in Int
  BY <1>1, OperandInt
<1> QED  BY <1>2, <1>3 DEF f7a_decode, Pair

-----------------------------------------------------------------------------
(* The operations on strings.                                              *)

\* The codes an operation answers with.
LEMMA CodesSZC ==
  ASSUME NEW mem, NEW q \in Runs(mem), NEW a \in BOOLEAN, NEW b \in BOOLEAN, NEW c \in BOOLEAN
  PROVE  [q EXCEPT !.codes.s = a, !.codes.z = b, !.codes.cy = c] \in Runs(mem)
<1> DEFINE x == [q.codes EXCEPT !.s = a, !.z = b, !.cy = c]
<1>1. q.codes \in ConditionCodes /\ q \in Calls  BY DEF Runs, Calls
<1>2. x \in ConditionCodes  BY <1>1 DEF ConditionCodes
<1>3. [q EXCEPT !.codes.s = a, !.codes.z = b, !.codes.cy = c] = [q EXCEPT !.codes = x]
  BY <1>1 DEF Calls, ConditionCodes
<1> HIDE DEF x
<1> QED  BY <1>2, <1>3, CodesRuns

\* The same of one that decides the carry and whether it is zero.
LEMMA CodesCZ ==
  ASSUME NEW mem, NEW q \in Runs(mem), NEW b \in BOOLEAN, NEW c \in BOOLEAN
  PROVE  [q EXCEPT !.codes.cy = c, !.codes.z = b] \in Runs(mem)
<1> DEFINE x == [q.codes EXCEPT !.cy = c, !.z = b]
<1>1. q.codes \in ConditionCodes /\ q \in Calls  BY DEF Runs, Calls
<1>2. x \in ConditionCodes  BY <1>1 DEF ConditionCodes
<1>3. [q EXCEPT !.codes.cy = c, !.codes.z = b] = [q EXCEPT !.codes = x]
  BY <1>1 DEF Calls, ConditionCodes
<1> HIDE DEF x
<1> QED  BY <1>2, <1>3, CodesRuns

\* And of one that decides no more than the latter.
LEMMA CodesZ ==
  ASSUME NEW mem, NEW q \in Runs(mem), NEW b \in BOOLEAN
  PROVE  [q EXCEPT !.codes.z = b] \in Runs(mem)
<1> DEFINE x == [q.codes EXCEPT !.z = b]
<1>1. q.codes \in ConditionCodes /\ q \in Calls  BY DEF Runs, Calls
<1>2. x \in ConditionCodes  BY <1>1 DEF ConditionCodes
<1>3. [q EXCEPT !.codes.z = b] = [q EXCEPT !.codes = x]
  BY <1>1 DEF Calls, ConditionCodes
<1> HIDE DEF x
<1> QED  BY <1>2, <1>3, CodesRuns

\* Strings of characters compared.
LEMMA ComparesRuns ==
  ASSUME NEW mem, NEW d \in Runs(mem), NEW i \in Instruction, NEW s \in Pair
  PROVE  op_cmpstr(d, i, s) \in Runs(mem)
<1> DEFINE u == i.unit
           dest == IF s.lenop1 < s.lenop2 THEN s.lenop1 ELSE s.lenop2
           filled ==
             IF ~i.fill THEN d
             ELSE IF s.lenop1 < s.lenop2 THEN fill(d, s.lenop1, s.lenop2, s.op1, u, u)
             ELSE fill(d, s.lenop2, s.lenop1, s.op2, u, u)
           c1(j) == read(filled, s.op1 + j * u, u)
           c2(j) == read(filled, s.op2 + j * u, u)
           stops(j) == i.stop /\ (c1(j) = fill_char(d, u) \/ c2(j) = fill_char(d, u))
           S == {j \in 0 .. dest - 1 : c1(j) > c2(j) \/ c2(j) > c1(j) \/ stops(j)}
           k == IF S = {} THEN dest ELSE Min(S)
           q == work(filled, s.lenop1 + k * u, s.lenop2 + k * u)
           sign == s.lenop1 > s.lenop2
           same == s.lenop1 = s.lenop2
           both == i.stop \/ q.codes.cy
           more == c1(k) > c2(k)
           carry == IF i.stop THEN c1(k) # c2(k) ELSE q.codes.cy
<1>1. op_cmpstr(d, i, s) =
        IF k = dest
        THEN [q EXCEPT !.codes.s = sign, !.codes.z = same, !.codes.cy = both]
        ELSE [q EXCEPT !.codes.s = more, !.codes.z = FALSE, !.codes.cy = carry]
  BY DEF op_cmpstr, Until
<1>2. /\ s.op1 \in Int /\ s.lenop1 \in Int /\ s.op2 \in Int /\ s.lenop2 \in Int
      /\ u \in {1, 2} /\ u \in Int /\ i.stop \in BOOLEAN
  BY DEF Pair, Instruction
<1> HIDE DEF u
<1>3. filled \in Runs(mem)  BY <1>2, FillRuns
<1>4. k \in Int
  <2>1. dest \in Int /\ S \subseteq Nat  BY <1>2
  <2> HIDE DEF S, dest
  <2>2. S # {} => Min(S) \in Nat  BY <2>1, FirstOf
  <2> QED  BY <2>1, <2>2
<1> HIDE DEF filled, k
<1>5. q \in Runs(mem)
  <2>1. k * u \in Int  BY <1>2, <1>4
  <2>2. s.lenop1 + k * u \in Int /\ s.lenop2 + k * u \in Int  BY <1>2, <2>1
  <2> QED  BY <1>3, <2>2, WorkRuns
<1> HIDE DEF q
<1>6. q.codes.cy \in BOOLEAN  BY <1>5 DEF Runs, Calls, ConditionCodes
<1>7. sign \in BOOLEAN /\ same \in BOOLEAN /\ both \in BOOLEAN /\ carry \in BOOLEAN
  <2>1. sign \in BOOLEAN /\ same \in BOOLEAN  OBVIOUS
  <2>2. both \in BOOLEAN  OBVIOUS
  <2> HIDE DEF c1, c2
  <2>3. carry \in BOOLEAN  BY <1>6
  <2> QED  BY <2>1, <2>2, <2>3
<1>8. more \in BOOLEAN  OBVIOUS
<1> HIDE DEF sign, same, both, carry, more
<1>9. [q EXCEPT !.codes.s = sign, !.codes.z = same, !.codes.cy = both] \in Runs(mem)
  BY <1>5, <1>7, CodesSZC
<1>10. [q EXCEPT !.codes.s = more, !.codes.z = FALSE, !.codes.cy = carry] \in Runs(mem)
  <2>1. FALSE \in BOOLEAN  OBVIOUS
  <2> QED  BY <1>5, <1>7, <1>8, <2>1, CodesSZC
<1> QED  BY <1>1, <1>9, <1>10

\* Moved from the first on.
LEMMA MoveUpRuns ==
  ASSUME NEW mem, NEW d \in Runs(mem), NEW i \in Instruction, NEW s \in Pair
  PROVE  op_movstr_up(d, i, s) \in Runs(mem)
<1> DEFINE u == i.unit
           dest == IF s.lenop1 < s.lenop2 THEN s.lenop1 ELSE s.lenop2
           l == Moved(d, i, s, dest)
<1>1. /\ s.op1 \in Int /\ s.lenop1 \in Int /\ s.op2 \in Int /\ s.lenop2 \in Int
      /\ u \in {1, 2} /\ u \in Int /\ dest \in Int
  BY DEF Pair, Instruction
<1>2. l.d \in Runs(mem) /\ l.i \in Int
  <2> HIDE DEF dest
  <2>1. l \in [d : Runs(mem), over : BOOLEAN, i : Nat]  BY <1>1, MovedRuns
  <2> HIDE DEF l
  <2> QED  BY <2>1
<1>3. op_movstr_up(d, i, s) =
        IF i.fill /\ s.lenop1 < s.lenop2
        THEN work(fill(l.d, l.i, s.lenop2, s.op2, u, u), s.op1 + l.i * u, s.op2 + s.lenop2 * u)
        ELSE work(l.d, s.op1 + l.i * u, s.op2 + l.i * u)
  BY DEF op_movstr_up
<1> HIDE DEF l, u
<1>4. l.i * u \in Int /\ s.lenop2 * u \in Int  BY <1>1, <1>2
<1>5. /\ s.op1 + l.i * u \in Int /\ s.op2 + l.i * u \in Int /\ s.op2 + s.lenop2 * u \in Int
  BY <1>1, <1>4
<1>6. fill(l.d, l.i, s.lenop2, s.op2, u, u) \in Runs(mem)  BY <1>1, <1>2, FillRuns
<1> QED  BY <1>2, <1>3, <1>5, <1>6, WorkRuns

\* And from the last on.
LEMMA MoveDownRuns ==
  ASSUME NEW mem, NEW d \in Runs(mem), NEW i \in Instruction, NEW s \in Pair
  PROVE  op_movstr_down(d, i, s) \in Runs(mem)
<1> DEFINE u == i.unit
           dest == IF s.lenop1 < s.lenop2 THEN s.lenop1 ELSE s.lenop2
           l == Moved(d, i, s, dest)
           base == IF u = 1 THEN s.op2 + dest ELSE s.op2
           top == base + (s.lenop2 - 1) * u
           x28 == s.op1 + (s.lenop1 - l.i - 1) * u
           x27 == s.op2 + (s.lenop2 - l.i - 1) * u
<1>1. /\ s.op1 \in Int /\ s.lenop1 \in Int /\ s.op2 \in Int /\ s.lenop2 \in Int
      /\ u \in {1, 2} /\ u \in Int /\ -u \in Int /\ dest \in Int
  BY DEF Pair, Instruction
<1>2. l.d \in Runs(mem) /\ l.i \in Int
  <2> HIDE DEF dest
  <2>1. l \in [d : Runs(mem), over : BOOLEAN, i : Nat]  BY <1>1, MovedRuns
  <2> HIDE DEF l
  <2> QED  BY <2>1
<1>3. op_movstr_down(d, i, s) =
        IF i.fill /\ s.lenop1 < s.lenop2
        THEN work(fill(l.d, l.i, s.lenop2, top, -u, u), x28, s.op2 - u)
        ELSE work(l.d, x28, x27)
  BY DEF op_movstr_down
<1> HIDE DEF l, u, dest
<1>4. base \in Int  BY <1>1
<1>5. \A n \in Int : n * u \in Int  BY <1>1
<1>6. top \in Int /\ x28 \in Int /\ x27 \in Int /\ s.op2 - u \in Int
  <2> HIDE DEF base
  <2> QED  BY <1>1, <1>2, <1>4, <1>5
<1> HIDE DEF top, x28, x27
<1>7. fill(l.d, l.i, s.lenop2, top, -u, u) \in Runs(mem)  BY <1>1, <1>2, <1>6, FillRuns
<1> QED  BY <1>2, <1>3, <1>6, <1>7, WorkRuns

\* Looked through for a character.
LEMMA SearchRuns ==
  ASSUME NEW mem, NEW d \in Runs(mem), NEW i \in Instruction,
         BitAddressable(i.src)
  PROVE  op_search_up(d, i) \in Runs(mem) /\ op_search_down(d, i) \in Runs(mem)
<1> DEFINE u == i.unit
           op1 == decode_bit_read_am_address(d, i.src)
           n == decode_len_byte(d, i.len1)
           op2 == decode_read_am(d, i.to, u)
           up == {j \in 0 .. n - 1 : IF read(d, op1 + j * u, u) = op2 THEN i.want ELSE ~i.want}
           k1 == IF up = {} THEN n ELSE Min(up)
           start == IF u = 1 THEN n ELSE n - 1
           down == {j \in 0 .. (start + 1) - 1 :
                      IF read(d, op1 + (start - j) * u, u) = op2 THEN i.want ELSE ~i.want}
           k2 == start - (IF down = {} THEN start + 1 ELSE Min(down))
<1>1. op_search_up(d, i) = [work(d, op1 + k1 * u, k1) EXCEPT !.codes.z = k1 = n]
  BY DEF op_search_up, Until
<1>2. op_search_down(d, i) = [work(d, op1 + k2 * u, k2) EXCEPT !.codes.z = k2 = n]
  BY DEF op_search_down, Until
<1>3. u \in Int /\ i.src \in Operands /\ i.len1 \in Length  BY DEF Instruction
<1>4. n \in Int /\ op1 \in Int  BY <1>3, LengthInt, BitsInt
<1> HIDE DEF n, op1, op2, u
<1>5. start \in Int  BY <1>4
<1>6. k1 \in Int
  <2>1. up \subseteq Nat  BY <1>4
  <2> HIDE DEF up
  <2>2. up # {} => Min(up) \in Nat  BY <2>1, FirstOf
  <2> QED  BY <1>4, <2>2
<1>7. k2 \in Int
  <2>1. down \subseteq Nat  BY <1>5
  <2> HIDE DEF down, start
  <2>2. down # {} => Min(down) \in Nat  BY <2>1, FirstOf
  <2> QED  BY <1>5, <2>2
<1> HIDE DEF k1, k2
<1>8. ASSUME NEW k \in Int
      PROVE  [work(d, op1 + k * u, k) EXCEPT !.codes.z = k = n] \in Runs(mem)
  <2> DEFINE found == k = n
  <2>1. found \in BOOLEAN  OBVIOUS
  <2>2. op1 + k * u \in Int  BY <1>3, <1>4
  <2>3. work(d, op1 + k * u, k) \in Runs(mem)  BY <2>2, WorkRuns
  <2> HIDE DEF found
  <2>4. [work(d, op1 + k * u, k) EXCEPT !.codes.z = found] \in Runs(mem)  BY <2>1, <2>3, CodesZ
  <2> QED  BY <2>4 DEF found
<1> QED  BY <1>1, <1>2, <1>6, <1>7, <1>8

\* A word that goes to a register or to memory.
LEMMA WordResultRuns ==
  ASSUME NEW mem, NEW d \in Runs(mem), NEW o \in Operands, Addressable(o), NEW v \in Int
  PROVE  PutWordResult(d, o, v) \in Runs(mem)
<1> DEFINE am2 == decode_read_am_address(d, o, 4)
<1>1. am2.value \in Int /\ (am2.flag => am2.value \in 0 .. SP)
  <2>1. 4 \in {1, 2, 4}  OBVIOUS
  <2> QED  BY <2>1, OperandInt
<1>2. PutWordResult(d, o, v) = IF am2.flag THEN add_wr(d, am2.value, v) ELSE ww(d, am2.value, v)
  BY DEF PutWordResult
<1> HIDE DEF am2
<1> QED  BY <1>1, <1>2, RegisterRuns, WordRuns

\* Bits looked through for one.
LEMMA SearchBitsRuns ==
  ASSUME NEW mem, NEW d \in Runs(mem), NEW i \in Instruction,
         BitAddressable(i.src), Addressable(i.to)
  PROVE  op_schbs(d, i) \in Runs(mem)
<1> DEFINE op1 == decode_bit_read_am_address(d, i.src)
           n == decode_len_byte(d, i.len1)
           S == {j \in 0 .. n - 1 : bit(rb(d, op1 + j \div BYTE_BITS), j % BYTE_BITS) = i.want}
           k == IF S = {} THEN n ELSE Min(S)
           q == IF n > 0 THEN add_wr(d, R28, op1) ELSE d
           none == k = n
<1>1. op_schbs(d, i) = [PutWordResult(q, i.to, k) EXCEPT !.codes.z = none]
  BY DEF op_schbs, Until
<1>2. i.src \in Operands /\ i.to \in Operands /\ i.len1 \in Length  BY DEF Instruction
<1>3. n \in Int /\ op1 \in Int  BY <1>2, LengthInt, BitsInt
<1> HIDE DEF n, op1
<1>4. k \in Int
  <2>1. S \subseteq Nat  BY <1>3
  <2> HIDE DEF S
  <2>2. S # {} => Min(S) \in Nat  BY <2>1, FirstOf
  <2> QED  BY <1>3, <2>2
<1>5. q \in Runs(mem)
  <2>1. add_wr(d, R28, op1) \in Runs(mem)  BY <1>3, Registers, RegisterRuns
  <2> QED  BY <2>1
<1>6. none \in BOOLEAN  OBVIOUS
<1> HIDE DEF k, q, none
<1>7. PutWordResult(q, i.to, k) \in Runs(mem)  BY <1>2, <1>4, <1>5, WordResultRuns
<1> QED  BY <1>1, <1>6, <1>7, CodesZ

-----------------------------------------------------------------------------
(* The operations on bit fields and decimals.                              *)

\* A field of bits read.
LEMMA ExtractRuns ==
  ASSUME NEW mem, NEW d \in Runs(mem), NEW i \in Instruction, i.op \in Extracts, Understood(i)
  PROVE  op_extbf(d, i) \in Runs(mem)
<1> DEFINE n == i.len1.n
           v == low(decode_bit_read_am(d, i.src), n)
           signed == IF bit(v, n - 1) THEN v + (WORD - shifted(n)) ELSE v
           left == v * shifted(WORD_BITS - n)
           r == CASE i.op = "EXTBFZ" -> v
                  [] i.op = "EXTBFS" -> signed
                  [] i.op = "EXTBFL" -> left
<1>1. i.src \in Operands /\ i.to \in Operands  BY DEF Instruction
<1>2. n \in 1 .. WORD_BITS - 1  BY DEF Understood
<1>3. BitReadable(i.src) /\ Addressable(i.to)
  BY DEF Understood, Extracts, Inserts, Decimals
<1>4. shifted(n) \in Nat \ {0} /\ shifted(WORD_BITS - n) \in Nat \ {0}
  <2>1. n \in Nat /\ WORD_BITS - n \in Nat  BY <1>2, Bits
  <2> HIDE DEF n
  <2> QED  BY <2>1, ShiftedNat
<1>5. op_extbf(d, i) = PutWordResult(d, i.to, r)  BY DEF op_extbf
<1>6. v \in Int
  <2>1. decode_bit_read_am(d, i.src) \in Int  BY <1>1, <1>3, BitsInt
  <2> QED  BY <1>4, <2>1 DEF low
<1> HIDE DEF n, v
<1>7. signed \in Int /\ left \in Int  BY <1>4, <1>6, Sizes
<1> HIDE DEF signed, left
<1>8. r \in Int  BY <1>6, <1>7 DEF Extracts
<1> HIDE DEF r
<1> QED  BY <1>1, <1>3, <1>5, <1>8, WordResultRuns

\* A field of bits written.
LEMMA InsertRuns ==
  ASSUME NEW mem, NEW d \in Runs(mem), NEW i \in Instruction, i.op \in Inserts, Understood(i)
  PROVE  op_insbf(d, i) \in Runs(mem)
<1> DEFINE n == i.len1.n
           op1 == decode_read_am(d, i.src, 4)
           at == decode_bit_read_am_address(d, i.to)
           v == IF i.op = "INSBFR" THEN op1 ELSE op1 \div shifted(WORD_BITS - n)
           old == rw(d, at)
           new == (old - low(old, n)) + low(v, n)
<1>1. i.src \in Operands /\ i.to \in Operands  BY DEF Instruction
<1>2. n \in 1 .. WORD_BITS - 1  BY DEF Understood
<1>3. Readable(i.src) /\ BitAddressable(i.to)
  BY DEF Understood, Extracts, Inserts, Decimals
<1>4. shifted(n) \in Nat \ {0} /\ shifted(WORD_BITS - n) \in Nat \ {0}
  <2>1. n \in Nat /\ WORD_BITS - n \in Nat  BY <1>2, Bits
  <2> HIDE DEF n
  <2> QED  BY <2>1, ShiftedNat
<1>5. op_insbf(d, i) = ww(d, at, new)  BY DEF op_insbf
<1>6. op1 \in Int /\ at \in Int
  <2>1. 4 \in {1, 2, 4}  OBVIOUS
  <2> QED  BY <1>1, <1>3, <2>1, OperandInt, BitsInt
<1> HIDE DEF n, op1, at
<1>7. v \in Int  BY <1>4, <1>6
<1>8. old \in Int  BY <1>6, Reads
<1> HIDE DEF v, old
<1>9. low(old, n) \in Int /\ low(v, n) \in Int  BY <1>4, <1>7, <1>8 DEF low
<1>10. new \in Int  BY <1>8, <1>9
<1> HIDE DEF new
<1> QED  BY <1>5, <1>6, <1>10, WordRuns

\* A result that goes to a part of a register or to memory.
LEMMA ResultRuns ==
  ASSUME NEW mem, NEW d \in Runs(mem), NEW a, a.flag => a.value \in 0 .. SP, a.value \in Int,
         NEW n \in {1, 2, 4}, NEW v \in Int
  PROVE  PutResult(d, a, n, v) \in Runs(mem)
<1>1. CASE a.flag
  <2>1. gpr(d, a.value) \in Int  BY <1>1, RegisterNat
  <2>2. SetReg(gpr(d, a.value), n, v) \in Int  BY <2>1, CutNat DEF SetReg
  <2> QED  BY <1>1, <2>2, RegisterRuns DEF PutResult
<1>2. CASE ~a.flag
  BY <1>2, WriteRuns DEF PutResult
<1> QED  BY <1>1, <1>2

\* Decimal digits are numbers.
LEMMA DigitsInt ==
  ASSUME NEW v \in Int
  PROVE  digits(v) \in Int /\ value(v) \in Int
<1>1. RADIX \in Nat \ {0} /\ DIGIT \in Nat \ {0}  BY StringsAssumption
<1> DEFINE q == quotient(v, RADIX)
           x == v - q * RADIX
<1>2. q \in Int  BY <1>1, QuotientInt
<1>3. digits(v) = (IF x < 0 THEN x ELSE q * DIGIT + x) % BYTE  BY DEF digits
<1> HIDE DEF q
<1>4. x \in Int  BY <1>1, <1>2
<1> HIDE DEF x
<1>5. (IF x < 0 THEN x ELSE q * DIGIT + x) \in Int  BY <1>1, <1>2, <1>4
<1>6. digits(v) \in Int  BY <1>3, <1>5, Sizes
<1>7. v \div DIGIT \in Int /\ v % DIGIT \in Int  BY <1>1
<1>8. value(v) \in Int  BY <1>1, <1>7 DEF value
<1> QED  BY <1>6, <1>8

\* Decimals added and subtracted.
LEMMA DecimalRuns ==
  ASSUME NEW mem, NEW d \in Runs(mem), NEW i \in Instruction,
         i.op \in {"ADDDC", "SUBDC", "SUBRDC"}, Readable(i.src), Addressable(i.to)
  PROVE  op_decimal(d, i) \in Runs(mem)
<1> DEFINE op1 == decode_read_am(d, i.src, 1)
           am2 == decode_read_am_address(d, i.to, 1)
           src == value(op1)
           there == IF am2.flag THEN gpr(d, am2.value) % BYTE ELSE rb(d, am2.value)
           dst == value(there)
           cy == IF d.codes.cy THEN 1 ELSE 0
           r == CASE i.op = "ADDDC"  -> src + dst + cy
                  [] i.op = "SUBDC"  -> dst - src - cy
                  [] i.op = "SUBRDC" -> src - dst - cy
           most == RADIX * RADIX
           carry == IF i.op = "ADDDC" THEN r >= most ELSE r < 0
           result == IF ~carry THEN r ELSE IF i.op = "ADDDC" THEN r - most ELSE r + most
           put == PutResult(d, am2, 1, digits(result))
           zero == IF result # 0 \/ carry THEN FALSE ELSE put.codes.z
<1>1. op_decimal(d, i) = [put EXCEPT !.codes.cy = carry, !.codes.z = zero]
  BY DEF op_decimal
<1>2. i.src \in Operands /\ i.to \in Operands /\ 1 \in {1, 2, 4}  BY DEF Instruction
<1>3. op1 \in Int /\ am2.value \in Int /\ (am2.flag => am2.value \in 0 .. SP)
  BY <1>2, OperandInt
<1> HIDE DEF op1, am2
<1>4. there \in Int
  <2>1. CASE am2.flag
    <3>1. gpr(d, am2.value) \in Int  BY <1>3, <2>1, RegisterNat
    <3> QED  BY <2>1, <3>1, Sizes
  <2>2. CASE ~am2.flag
    <3>1. rb(d, am2.value) \in Nat  BY <1>3, Reads
    <3> QED  BY <2>2, <3>1
  <2> QED  BY <2>1, <2>2
<1> HIDE DEF there
<1>5. src \in Int /\ dst \in Int /\ cy \in Int  BY <1>3, <1>4, DigitsInt
<1> HIDE DEF src, dst, cy
<1>6. r \in Int  BY <1>5
<1>7. most \in Int  BY StringsAssumption
<1> HIDE DEF r, most
<1>8. carry \in BOOLEAN
  <2>1. CASE i.op = "ADDDC"  BY <2>1
  <2>2. CASE i.op # "ADDDC"  BY <2>2
  <2> QED  BY <2>1, <2>2
<1> HIDE DEF carry
<1>9. result \in Int  BY <1>6, <1>7
<1> HIDE DEF result
<1>10. put \in Runs(mem)
  <2>1. digits(result) \in Int  BY <1>9, DigitsInt
  <2> QED  BY <1>2, <1>3, <2>1, ResultRuns
<1> HIDE DEF put
<1>11. zero \in BOOLEAN
  <2>1. put.codes.z \in BOOLEAN  BY <1>10 DEF Runs, Calls, ConditionCodes
  <2> QED  BY <2>1
<1> HIDE DEF zero
<1>12. [put EXCEPT !.codes.cy = carry, !.codes.z = zero] \in Runs(mem)
  BY <1>8, <1>10, <1>11, CodesCZ
<1> QED  BY <1>1, <1>12

\* Digits unpacked and packed.
LEMMA ConvertRuns ==
  ASSUME NEW mem, NEW d \in Runs(mem), NEW i \in Instruction, Readable(i.src), Addressable(i.to)
  PROVE  op_cvtdpz(d, i) \in Runs(mem) /\ op_cvtdzp(d, i) \in Runs(mem)
<1>1. i.src \in Operands /\ i.to \in Operands /\ i.len1 \in Length  BY DEF Instruction
<1>2. 1 \in {1, 2, 4} /\ 2 \in {1, 2, 4}  OBVIOUS
<1>3. DIGIT \in Nat \ {0}  BY StringsAssumption
<1>4. ASSUME NEW q \in Runs(mem), NEW a \in BOOLEAN
      PROVE  [q EXCEPT !.codes.z = IF a THEN FALSE ELSE q.codes.z] \in Runs(mem)
  <2> DEFINE z == IF a THEN FALSE ELSE q.codes.z
  <2>1. z \in BOOLEAN  BY DEF Runs, Calls, ConditionCodes
  <2> HIDE DEF z
  <2>2. [q EXCEPT !.codes.z = z] \in Runs(mem)  BY <2>1, CodesZ
  <2> QED  BY <2>2 DEF z
<1>5. op_cvtdpz(d, i) \in Runs(mem)
  <2> DEFINE op1 == decode_read_am(d, i.src, 1)
             am2 == decode_read_am_address(d, i.to, 2)
             n == Cut(decode_len_byte(d, i.len1), 2)
             v == or(or((op1 \div DIGIT) + (op1 % DIGIT) * BYTE, n), Cut(n * BYTE, 2))
             put == PutResult(d, am2, 2, v)
             some == op1 # 0
  <2>1. op_cvtdpz(d, i) = [put EXCEPT !.codes.z = IF some THEN FALSE ELSE put.codes.z]
    BY DEF op_cvtdpz
  <2>2. v \in Int  BY OrInt
  <2>3. am2.value \in Int /\ (am2.flag => am2.value \in 0 .. SP)  BY <1>1, <1>2, OperandInt
  <2> HIDE DEF v, am2
  <2>4. put \in Runs(mem)  BY <1>2, <2>2, <2>3, ResultRuns
  <2>5. some \in BOOLEAN  OBVIOUS
  <2> HIDE DEF put, some
  <2> QED  BY <1>4, <2>1, <2>4, <2>5
<1>6. op_cvtdzp(d, i) \in Runs(mem)
  <2> DEFINE op1 == decode_read_am(d, i.src, 2)
             am2 == decode_read_am_address(d, i.to, 1)
             v == ((op1 \div BYTE) % DIGIT) + (op1 % DIGIT) * DIGIT
             put == PutResult(d, am2, 1, v)
             some == v # 0
  <2>1. op_cvtdzp(d, i) = [put EXCEPT !.codes.z = IF some THEN FALSE ELSE put.codes.z]
    BY DEF op_cvtdzp
  <2>2. am2.value \in Int /\ (am2.flag => am2.value \in 0 .. SP)  BY <1>1, <1>2, OperandInt
  <2>3. v \in Int
    <3>1. op1 \in Int  BY <1>1, <1>2, OperandInt
    <3> HIDE DEF op1
    <3>2. op1 \div BYTE \in Int /\ op1 % DIGIT \in Int  BY <1>3, <3>1, Sizes
    <3>3. (op1 \div BYTE) % DIGIT \in Int  BY <1>3, <3>2
    <3>4. (op1 % DIGIT) * DIGIT \in Int  BY <1>3, <3>2
    <3> QED  BY <3>3, <3>4
  <2>4. some \in BOOLEAN  OBVIOUS
  <2> HIDE DEF v, am2
  <2>5. put \in Runs(mem)  BY <1>2, <2>2, <2>3, ResultRuns
  <2> HIDE DEF put, some
  <2> QED  BY <1>4, <2>1, <2>4, <2>5
<1> QED  BY <1>5, <1>6

\* Whatever the instruction, the routine answers with one of those states.
LEMMA ExecRuns ==
  ASSUME NEW mem, NEW d \in Runs(mem), NEW i \in Instruction, Understood(i)
  PROVE  v60_string_exec(d, i) \in Runs(mem)
<1>1. i.op \in StringOps /\ i.len1 \in Length /\ i.unit \in {1, 2, 4} /\ 1 \in {1, 2, 4}
  BY DEF Instruction
<1>2. CASE i.op = "CMPC"
  <2>1. Addressable(i.src) /\ Addressable(i.to)  BY <1>2 DEF Understood, Extracts, Inserts, Decimals
  <2>2. f7a_decode(d, i, 1) \in Pair  BY <1>1, <2>1, PairInt
  <2> QED  BY <1>2, <2>2, ComparesRuns DEF v60_string_exec, Extracts, Inserts
<1>3. CASE i.op = "MOVC"
  <2>1. Addressable(i.src) /\ Addressable(i.to)  BY <1>3 DEF Understood, Extracts, Inserts, Decimals
  <2>2. f7a_decode(d, i, i.unit) \in Pair  BY <1>1, <2>1, PairInt
  <2> QED  BY <1>3, <2>2, MoveUpRuns, MoveDownRuns DEF v60_string_exec, Extracts, Inserts
<1>4. CASE i.op = "SEARCH"
  <2>1. BitAddressable(i.src)
    BY <1>4 DEF Understood, Extracts, Inserts, Decimals
  <2> QED  BY <1>4, <2>1, SearchRuns DEF v60_string_exec, Extracts, Inserts
<1>5. CASE i.op = "SCHBS"
  <2>1. BitAddressable(i.src) /\ Addressable(i.to)
    BY <1>5 DEF Understood, Extracts, Inserts, Decimals
  <2> QED  BY <1>5, <2>1, SearchBitsRuns DEF v60_string_exec, Extracts, Inserts
<1>6. CASE i.op = "MOVBS"
  <2>1. BitAddressable(i.src) /\ BitAddressable(i.to)
    BY <1>6 DEF Understood, Extracts, Inserts, Decimals
  <2>2. i.src \in Operands /\ i.to \in Operands  BY DEF Instruction
  <2>3. /\ decode_len_byte(d, i.len1) \in Int
        /\ decode_bit_read_am_address(d, i.src) \in Int
        /\ decode_bit_read_am_address(d, i.to) \in Int
    BY <1>1, <2>1, <2>2, LengthInt, BitsInt
  <2> QED  BY <1>6, <2>3, MovedUpRuns, MovedDownRuns DEF v60_string_exec, Extracts, Inserts
<1>7. CASE i.op \in Extracts
  <2>1. op_extbf(d, i) \in Runs(mem)  BY <1>7, ExtractRuns
  <2> QED  BY <1>7, <2>1 DEF v60_string_exec, Extracts, Inserts
<1>8. CASE i.op \in Inserts
  <2>1. op_insbf(d, i) \in Runs(mem)  BY <1>8, InsertRuns
  <2> QED  BY <1>8, <2>1 DEF v60_string_exec, Extracts, Inserts
<1>9. CASE i.op \in Decimals
  <2>1. Readable(i.src) /\ Addressable(i.to)
    BY <1>9 DEF Understood, Extracts, Inserts, Decimals
  <2>2. op_cvtdpz(d, i) \in Runs(mem) /\ op_cvtdzp(d, i) \in Runs(mem)  BY <2>1, ConvertRuns
  <2>3. CASE i.op = "CVTDPZ"  BY <2>2, <2>3 DEF v60_string_exec, Extracts, Inserts
  <2>4. CASE i.op = "CVTDZP"  BY <2>2, <2>4 DEF v60_string_exec, Extracts, Inserts
  <2>5. CASE i.op \in {"ADDDC", "SUBDC", "SUBRDC"}
    <3>1. op_decimal(d, i) \in Runs(mem)  BY <2>1, <2>5, DecimalRuns
    <3> QED  BY <2>5, <3>1 DEF v60_string_exec, Extracts, Inserts
  <2> QED  BY <1>9, <2>3, <2>4, <2>5 DEF Decimals
<1> QED
  BY <1>1, <1>2, <1>3, <1>4, <1>5, <1>6, <1>7, <1>8, <1>9 DEF StringOps, Searches

-----------------------------------------------------------------------------
(* What the test bench makes of the buffer.                                *)

\* A set of numbers up to n has a greatest element.
LEMMA Greatest ==
  ASSUME NEW n \in Nat, NEW S \in SUBSET (1 .. n), S # {}
  PROVE  \E x \in S : \A y \in S : x >= y
<1> DEFINE T == {n - x : x \in S}
<1>1. T \subseteq Nat /\ T # {}
  <2>1. PICK x \in S : TRUE  OBVIOUS
  <2>2. n - x \in T  OBVIOUS
  <2>3. \A y \in S : n - y \in Nat  OBVIOUS
  <2> QED  BY <2>2, <2>3
<1> HIDE DEF T
<1>2. PICK t \in T : \A u \in T : t <= u  BY <1>1, Least
<1>3. PICK x \in S : t = n - x  BY DEF T
<1>4. ASSUME NEW y \in S
      PROVE  x >= y
  <2>1. n - y \in T  BY DEF T
  <2>2. n - x <= n - y  BY <1>2, <1>3, <2>1
  <2> QED  BY <2>2
<1> QED  BY <1>4

\* The memory mem with the writes w made in it.
AppliedOf(w, mem) ==
  [a \in DOMAIN mem |->
     LET S == {k \in DOMAIN w : w[k].addr = a} IN IF S = {} THEN mem[a] ELSE w[Max(S)].data]

\* A byte becomes what the last write to it says, if there is one.
LEMMA AppliedTo ==
  ASSUME NEW w \in Seq(MemWrite), NEW mem \in Memory, NEW a \in Address
  PROVE  /\ (\A k \in 1 .. Len(w) : w[k].addr # a) => AppliedOf(w, mem)[a] = mem[a]
         /\ \A k : IsLast(w, k, a) => AppliedOf(w, mem)[a] = w[k].data
<1> DEFINE S == {k \in DOMAIN w : w[k].addr = a}
<1>1. DOMAIN w = 1 .. Len(w) /\ Len(w) \in Nat /\ a \in DOMAIN mem
  BY DEF Memory, Address
<1>2. AppliedOf(w, mem)[a] = IF S = {} THEN mem[a] ELSE w[Max(S)].data
  BY <1>1 DEF AppliedOf
<1>3. ASSUME \A k \in 1 .. Len(w) : w[k].addr # a
      PROVE  S = {}
  BY <1>1, <1>3
<1>4. ASSUME NEW k, IsLast(w, k, a)
      PROVE  S # {} /\ Max(S) = k
  <2>1. k \in S /\ \A j \in S : ~(j > k)  BY <1>1, <1>4 DEF IsLast
  <2>2. S \subseteq Nat  BY <1>1
  <2> HIDE DEF S
  <2>3. k \in S /\ \A j \in S : k >= j  BY <2>1, <2>2
  <2>4. Max(S) \in S /\ \A j \in S : Max(S) >= j  BY <2>3 DEF Max
  <2>5. Max(S) \in Nat /\ k \in Nat  BY <2>2, <2>3, <2>4
  <2>6. Max(S) >= k /\ k >= Max(S)  BY <2>3, <2>4
  <2>7. Max(S) = k
    <3> HIDE DEF Max
    <3> QED  BY <2>5, <2>6
  <2> QED  BY <2>1, <2>7
<1> HIDE DEF S
<1> QED  BY <1>2, <1>3, <1>4

\* With all writes made it is a memory.
LEMMA AppliedMemory ==
  ASSUME NEW w \in Seq(MemWrite), NEW mem \in Memory
  PROVE  AppliedOf(w, mem) \in Memory
<1>1. ASSUME NEW a \in Address
      PROVE  AppliedOf(w, mem)[a] \in 0 .. BYTE - 1
  <2>1. mem[a] \in 0 .. BYTE - 1  BY DEF Memory, Address
  <2>2. CASE \A k \in 1 .. Len(w) : w[k].addr # a  BY <2>1, <2>2, AppliedTo
  <2>3. CASE \E k \in 1 .. Len(w) : w[k].addr = a
    <3> DEFINE S == {k \in 1 .. Len(w) : w[k].addr = a}
    <3>1. Len(w) \in Nat /\ S \in SUBSET (1 .. Len(w)) /\ S # {}  BY <2>3
    <3> HIDE DEF S
    <3>2. PICK k \in S : \A j \in S : k >= j  BY <3>1, Greatest
    <3>3. IsLast(w, k, a)  BY <3>1, <3>2 DEF IsLast, S
    <3>4. k \in 1 .. Len(w)  BY <3>1
    <3>5. w[k] \in MemWrite  BY <3>4, ElementOfSeq
    <3>6. AppliedOf(w, mem)[a] = w[k].data  BY <3>3, AppliedTo
    <3> QED  BY <3>5, <3>6 DEF MemWrite
  <2> QED  BY <2>2, <2>3
<1>2. AppliedOf(w, mem) = [a \in Address |-> AppliedOf(w, mem)[a]]
  BY DEF AppliedOf, Memory, Address
<1> QED  BY <1>1, <1>2 DEF Memory, Address

\* Without writes it stays what it is.
LEMMA AppliedNone ==
  ASSUME NEW mem \in Memory, NEW a \in Address
  PROVE  AppliedOf(<<>>, mem)[a] = mem[a]
<1>1. <<>> \in Seq(MemWrite) /\ \A k \in 1 .. Len(<<>>) : <<>>[k].addr # a  OBVIOUS
<1> QED  BY <1>1, AppliedTo

-----------------------------------------------------------------------------
(* The type invariant.                                                     *)

\* Fewer conjuncts at a time.
LEMMA CoreKeepsType ==
  ASSUME NEW c \in Core, NEW mem \in Memory
  PROVE  [c EXCEPT !.mem = mem] \in Core
  BY DEF Core

\* A program starts with everything of its type.
LEMMA InitTyped == Init => TypeOK
<1> SUFFICES ASSUME Init
             PROVE  TypeOK
  OBVIOUS
<1>1. m \in Core  BY StringMemoryAssumption DEF Init
<1>2. m.mem \in Memory /\ m.codes \in ConditionCodes  BY <1>1 DEF Core
<1>3. str \in [regs : Seq(RegWrite), codes : ConditionCodes, len : Nat, step : Nat]
  BY <1>2 DEF Init
<1>4. str.step <= Len(str.regs) /\ Len(str.regs) <= 3  BY DEF Init
<1>5. count \in [strings : 0 .. INSTRUCTIONS, stores : 0 .. STORES]
  BY StringMemoryAssumption DEF Init
<1>6. writes \in Seq(MemWrite) /\ Len(writes) <= WRITES /\ writes = <<>>
  BY Sizes DEF Init
<1>7. /\ state = "ST_DECODE" /\ inst = NoInst
      /\ before \in Core /\ shadow \in Memory /\ last \in Memory
      /\ stored \cup lost \subseteq 0 .. MEM - 1
  BY <1>1, <1>2 DEF Init
<1> QED  BY <1>1, <1>3, <1>4, <1>5, <1>6, <1>7 DEF TypeOK

\* What the parts of TypeOK are; a step keeps each of them.
Started ==
  /\ state \in {"ST_DECODE", "ST_EXECUTE", "ST_STRING_LOOP", "ST_WRITEBACK"}
  /\ inst = NoInst => state = "ST_DECODE"
  /\ inst # NoInst => inst \in Instruction /\ Taken(inst) # {}
Machinery ==
  /\ m \in Core /\ before \in Core /\ shadow \in Memory /\ last \in Memory
  /\ stored \cup lost \subseteq 0 .. MEM - 1
Buffered ==
  /\ writes \in Seq(MemWrite) /\ Len(writes) <= WRITES
  /\ writes # <<>> => state = "ST_STRING_LOOP"
Answered ==
  /\ str \in [regs : Seq(RegWrite), codes : ConditionCodes, len : Nat, step : Nat]
  /\ str.step <= Len(str.regs) /\ Len(str.regs) <= 3
  /\ count \in [strings : 0 .. INSTRUCTIONS, stores : 0 .. STORES]

\* They are all of it.
LEMMA TypeParts == TypeOK <=> Started /\ Machinery /\ Buffered /\ Answered
  BY DEF TypeOK, Started, Machinery, Buffered, Answered

\* An ordinary store keeps the types.
LEMMA StoreTyped == TypeOK /\ StoreInstruction => TypeOK'
<1> SUFFICES ASSUME TypeOK, StoreInstruction
             PROVE  (Started /\ Machinery /\ Buffered /\ Answered)'
  BY TypeParts, PTL
<1>1. Started /\ Machinery /\ Buffered /\ Answered  BY TypeParts
<1>2. PICK s \in Stores : /\ m' = [m EXCEPT !.mem[s.addr] = s.data]
                          /\ last' = [last EXCEPT ![s.addr] = s.data]
                          /\ stored' = stored \cup {s.addr}
                          /\ lost' = lost \ {s.addr}
  BY DEF StoreInstruction
<1>3. s.addr \in 0 .. MEM - 1 /\ s.data \in 0 .. BYTE - 1
  BY StringMemoryAssumption DEF MemWrite
<1>4. Machinery'
  <2>1. [m.mem EXCEPT ![s.addr] = s.data] \in Memory  BY <1>1, <1>3 DEF Machinery, Core, Memory
  <2>2. m' = [m EXCEPT !.mem = [m.mem EXCEPT ![s.addr] = s.data]]  BY <1>2
  <2>3. m' \in Core  BY <1>1, <2>1, <2>2, CoreKeepsType DEF Machinery
  <2>4. last' \in Memory  BY <1>1, <1>2, <1>3 DEF Machinery, Memory
  <2>5. (stored \cup lost)' \subseteq 0 .. MEM - 1  BY <1>1, <1>2, <1>3 DEF Machinery
  <2>6. before' \in Core /\ shadow' \in Memory  BY <1>1 DEF StoreInstruction, Machinery
  <2> QED  BY <2>3, <2>4, <2>5, <2>6 DEF Machinery
<1>5. Started' /\ Buffered'  BY <1>1 DEF StoreInstruction, Started, Buffered
<1>6. Answered'
  <2>1. count' \in [strings : 0 .. INSTRUCTIONS, stores : 0 .. STORES]
    BY <1>1, StringMemoryAssumption DEF StoreInstruction, Answered
  <2> QED  BY <1>1, <2>1 DEF StoreInstruction, Answered
<1> QED  BY <1>4, <1>5, <1>6

\* So does the decoding of an instruction.
LEMMA DecodeTyped == TypeOK /\ Decode => TypeOK'
<1> SUFFICES ASSUME TypeOK, Decode
             PROVE  (Started /\ Machinery /\ Buffered /\ Answered)'
  BY TypeParts, PTL
<1>1. Started /\ Machinery /\ Buffered /\ Answered  BY TypeParts
<1>2. inst' \in Instruction /\ Taken(inst') # {}
  <2>1. inst' \in Instructions \cup Later  BY DEF Decode
  <2> QED  BY <2>1, StringMemoryAssumption
<1>3. inst' # NoInst
  <2>1. inst'.op \in StringOps  BY <1>2 DEF Instruction
  <2>2. NoInst.op = "none"  BY DEF NoInst
  <2>3. "none" \notin StringOps  BY DEF StringOps, Searches, Extracts, Inserts, Decimals
  <2> QED  BY <2>1, <2>2, <2>3
<1>4. Started'  BY <1>2, <1>3 DEF Decode, Started
<1>5. Machinery'
  <2>1. before' \in Core  BY <1>1, CoreKeepsType DEF Decode, Machinery
  <2> QED  BY <1>1, <2>1 DEF Decode, Machinery
<1>6. Buffered'
  <2>1. writes = <<>> /\ writes' = writes  BY <1>1 DEF Decode, Buffered
  <2> QED  BY <1>1, <2>1 DEF Buffered
<1>7. Answered'
  <2>1. count' \in [strings : 0 .. INSTRUCTIONS, stores : 0 .. STORES]
    BY <1>1, StringMemoryAssumption DEF Decode, Answered
  <2> QED  BY <1>1, <2>1 DEF Decode, Answered
<1> QED  BY <1>4, <1>5, <1>6, <1>7

\* The length of an operand is a number.
LEMMA OperandLength ==
  ASSUME NEW o, NEW size \in {1, 2, 4}, NEW n \in {1, 2, 4}
  PROVE  am_length(o, size, n) \in Nat /\ bit_am_length(o, size) \in Nat
<1>1. am_length(o, size, n) \in Nat  BY SMT DEF am_length
<1>2. bit_am_length(o, size) \in Nat  BY SMT DEF bit_am_length
<1> QED  BY <1>1, <1>2

\* An operand taken for another one is an operand.
LEMMA Misreading ==
  ASSUME NEW o \in Operands, Misread(o), NEW disp \in Word
  PROVE  MisreadAs(o, disp) \in Operands /\ MisreadSize(o) \in {1, 2, 4}
<1>1. R16 \in Int /\ R16 + 3 \in Int  BY Sizes DEF R16
<1>2. o.reg - R16 + 1 \in {1, 2, 3, 4}  BY <1>1 DEF Misread, Operands
<1> DEFINE k == o.reg - R16 + 1
<1> HIDE DEF k
<1>3. k \in {1, 2, 3, 4} => <<1, 2, 4, 4>>[k] \in {1, 2, 4}  OBVIOUS
<1>4. MisreadSize(o) \in {1, 2, 4}  BY <1>2, <1>3 DEF MisreadSize, k
<1> DEFINE mode == IF o.reg = R16 + 3 THEN "DirectAddress" ELSE "PCDisplacement"
<1>5. mode \in AMPlain  BY DEF AMPlain
<1>6. MisreadAs(o, disp) = [o EXCEPT !.mode = mode, !.disp = disp]  BY DEF MisreadAs
<1> HIDE DEF mode
<1>7. MisreadAs(o, disp) \in Operands  BY <1>5, <1>6 DEF Operands, AMMemory
<1> QED  BY <1>4, <1>7

\* What an instruction is taken for is one too.
LEMMA TakenTyped ==
  ASSUME NEW i \in Instruction, NEW j \in Taken(i)
  PROVE  j \in Instruction
<1> DEFINE Own(o) == [disp |-> o.disp, len1 |-> i.len1, to |-> i.to, size2 |-> i.size2,
                      len2 |-> i.len2]
           Behind(o, size) == IF Fits(o, size) THEN {Own(o)} ELSE Tails
           Later1 == i.op \in Inserts \cup Decimals
<1>1. /\ i.src \in Operands /\ i.to \in Operands /\ i.len1 \in Length /\ i.len2 \in Length
      /\ i.size1 \in {1, 2, 4} /\ i.size2 \in {1, 2, 4} /\ i.unit \in {1, 2}
  BY DEF Instruction
<1>2. ASSUME NEW o \in Operands, NEW size, NEW t \in Behind(o, size)
      PROVE  /\ t.disp \in Word /\ t.len1 \in Length /\ t.to \in Operands
             /\ t.size2 \in {1, 2, 4} /\ t.len2 \in Length
  <2>1. CASE Fits(o, size)
    <3>1. t = Own(o)  BY <1>2, <2>1
    <3>2. o.disp \in Word  BY DEF Operands
    <3> QED  BY <1>1, <3>1, <3>2
  <2>2. CASE ~Fits(o, size)  BY <1>2, <2>2, WritesAssumption
  <2> QED  BY <2>1, <2>2
<1>3. CASE Misread(i.src)
  <2>1. PICK t \in Behind(i.src, i.size1) :
          j = [i EXCEPT !.src = MisreadAs(@, t.disp), !.size1 = MisreadSize(i.src),
                        !.len1 = t.len1, !.to = t.to, !.size2 = t.size2, !.len2 = t.len2]
    BY <1>3 DEF Taken
  <2> HIDE DEF Behind, Own
  <2>2. /\ t.disp \in Word /\ t.len1 \in Length /\ t.to \in Operands
        /\ t.size2 \in {1, 2, 4} /\ t.len2 \in Length
    BY <1>1, <1>2
  <2>3. MisreadAs(i.src, t.disp) \in Operands /\ MisreadSize(i.src) \in {1, 2, 4}
    BY <1>1, <1>3, <2>2, Misreading
  <2>4. j = [i EXCEPT !.src = MisreadAs(i.src, t.disp), !.size1 = MisreadSize(i.src),
                      !.len1 = t.len1, !.to = t.to, !.size2 = t.size2, !.len2 = t.len2]
    BY <2>1
  <2> QED  BY <2>2, <2>3, <2>4 DEF Instruction
<1>4. CASE ~Misread(i.src) /\ i.op \in Extracts /\ i.src.mode = "DoubleDisplacement"
  <2>1. PICK t \in Tails : j = [i EXCEPT !.len1 = t.len1, !.to = t.to, !.size2 = t.size2]
    BY <1>4 DEF Taken
  <2>2. t.len1 \in Length /\ t.to \in Operands /\ t.size2 \in {1, 2, 4}
    BY <2>1, WritesAssumption
  <2> QED  BY <2>1, <2>2 DEF Instruction
<1>5. CASE /\ ~Misread(i.src) /\ ~(i.op \in Extracts /\ i.src.mode = "DoubleDisplacement")
           /\ Misread(i.to)
  <2>1. PICK t \in Behind(i.to, i.size2) :
          j = [i EXCEPT !.to = MisreadAs(@, t.disp), !.size2 = MisreadSize(i.to),
                        !.len1 = IF Later1 THEN t.len1 ELSE @, !.len2 = t.len2]
    BY <1>5 DEF Taken
  <2> HIDE DEF Behind, Own
  <2>2. t.disp \in Word /\ t.len1 \in Length /\ t.len2 \in Length  BY <1>1, <1>2
  <2>3. MisreadAs(i.to, t.disp) \in Operands /\ MisreadSize(i.to) \in {1, 2, 4}
    BY <1>1, <1>5, <2>2, Misreading
  <2> DEFINE len1 == IF Later1 THEN t.len1 ELSE i.len1
  <2>4. len1 \in Length  BY <1>1, <2>2
  <2>5. j = [i EXCEPT !.to = MisreadAs(i.to, t.disp), !.size2 = MisreadSize(i.to),
                      !.len1 = len1, !.len2 = t.len2]
    BY <2>1
  <2> HIDE DEF len1
  <2> QED  BY <2>2, <2>3, <2>4, <2>5 DEF Instruction
<1>6. CASE /\ ~Misread(i.src) /\ ~(i.op \in Extracts /\ i.src.mode = "DoubleDisplacement")
           /\ ~Misread(i.to)
  BY <1>6 DEF Taken
<1> QED  BY <1>3, <1>4, <1>5, <1>6

\* It is understood, and its length is a number.
LEMMA TakenInstruction ==
  ASSUME NEW i \in Instruction, NEW j \in Taken(i)
  PROVE  j \in Instruction /\ Understood(j) /\ ilen(j) \in Nat
<1>1. Understood(j)  BY DEF Taken
<1>2. j \in Instruction  BY TakenTyped
<1>3. j.size1 \in {1, 2, 4} /\ j.size2 \in {1, 2, 4} /\ j.unit \in {1, 2, 4}
  BY <1>2 DEF Instruction
<1>4. \A n \in {1, 2, 4} : /\ am_length(j.src, j.size1, n) \in Nat
                           /\ am_length(j.to, j.size2, n) \in Nat
  BY <1>3, OperandLength
<1>5. bit_am_length(j.src, j.size1) \in Nat /\ bit_am_length(j.to, j.size2) \in Nat
  BY <1>3, OperandLength
<1>6. ilen(j) \in Nat  BY <1>3, <1>4, <1>5 DEF ilen
<1> QED  BY <1>1, <1>2, <1>6

\* What the routine answers with when it is called.
LEMMA Answers ==
  ASSUME TypeOK, Execute, writes = <<>>
  PROVE  \E i \in Taken(inst) :
           LET d == v60_string_exec(Called(m, shadow, writes), i)
           IN /\ d \in Runs(shadow) /\ ilen(i) \in Nat
              /\ shadow' = d.mem /\ writes' = d.writes
              /\ str' = [regs |-> d.regs, codes |-> d.codes, len |-> ilen(i), step |-> 0]
              /\ last' = [a \in DOMAIN last |-> IF a \in d.touched THEN d.mem[a] ELSE last[a]]
              /\ stored' = stored \ d.touched
              /\ lost' = (lost \ d.touched) \cup d.full
<1>1. PICK i \in Taken(inst) :
        \E d \in {v60_string_exec(Called(m, shadow, writes), i)} :
          /\ shadow' = d.mem /\ writes' = d.writes
          /\ str' = [regs |-> d.regs, codes |-> d.codes, len |-> ilen(i), step |-> 0]
          /\ last' = [a \in DOMAIN last |-> IF a \in d.touched THEN d.mem[a] ELSE last[a]]
          /\ stored' = stored \ d.touched
          /\ lost' = (lost \ d.touched) \cup d.full
  BY DEF Execute
<1> DEFINE d == v60_string_exec(Called(m, shadow, writes), i)
<1>2. Called(m, shadow, writes) \in Runs(shadow)  BY CalledRuns DEF TypeOK
<1>3. inst \in Instruction  BY DEF TypeOK, Execute
<1>4. i \in Instruction /\ Understood(i) /\ ilen(i) \in Nat  BY <1>3, TakenInstruction
<1>5. d \in Runs(shadow)  BY <1>2, <1>4, ExecRuns
<1> HIDE DEF d
<1>6. /\ shadow' = d.mem /\ writes' = d.writes
      /\ str' = [regs |-> d.regs, codes |-> d.codes, len |-> ilen(i), step |-> 0]
      /\ last' = [a \in DOMAIN last |-> IF a \in d.touched THEN d.mem[a] ELSE last[a]]
      /\ stored' = stored \ d.touched
      /\ lost' = (lost \ d.touched) \cup d.full
  BY <1>1 DEF d
<1> QED  BY <1>4, <1>5, <1>6 DEF d

\* And its execution.
LEMMA ExecuteTyped == TypeOK /\ Execute /\ writes = <<>> => TypeOK'
<1> SUFFICES ASSUME TypeOK, Execute, writes = <<>>
             PROVE  (Started /\ Machinery /\ Buffered /\ Answered)'
  BY TypeParts, PTL
<1>1. Started /\ Machinery /\ Buffered /\ Answered  BY TypeParts
<1>8. PICK i \in Taken(inst) :
        LET d == v60_string_exec(Called(m, shadow, writes), i)
        IN /\ d \in Runs(shadow) /\ ilen(i) \in Nat
           /\ shadow' = d.mem /\ writes' = d.writes
           /\ str' = [regs |-> d.regs, codes |-> d.codes, len |-> ilen(i), step |-> 0]
           /\ last' = [a \in DOMAIN last |-> IF a \in d.touched THEN d.mem[a] ELSE last[a]]
           /\ stored' = stored \ d.touched
           /\ lost' = (lost \ d.touched) \cup d.full
  BY Answers
<1> DEFINE d == v60_string_exec(Called(m, shadow, writes), i)
<1>2. /\ d \in Runs(shadow) /\ ilen(i) \in Nat
      /\ shadow' = d.mem /\ writes' = d.writes
      /\ str' = [regs |-> d.regs, codes |-> d.codes, len |-> ilen(i), step |-> 0]
      /\ last' = [a \in DOMAIN last |-> IF a \in d.touched THEN d.mem[a] ELSE last[a]]
      /\ stored' = stored \ d.touched
      /\ lost' = (lost \ d.touched) \cup d.full
  BY <1>8
<1> HIDE DEF d
<1>3. /\ d \in Calls /\ Len(d.writes) <= WRITES /\ Len(d.regs) <= 3
  BY <1>2 DEF Runs
<1>4. Started'  BY <1>1 DEF Execute, Started
<1>5. Machinery'
  <2>1. shadow' \in Memory  BY <1>2, <1>3 DEF Calls
  <2>2. last' \in Memory
    <3>1. last \in Memory /\ d.mem \in Memory  BY <1>1, <1>3 DEF Machinery, Calls
    <3> QED  BY <1>2, <3>1 DEF Memory
  <2>3. stored' \cup lost' \subseteq 0 .. MEM - 1
    BY <1>1, <1>2, <1>3 DEF Machinery, Calls, Address
  <2>4. m' \in Core /\ before' \in Core  BY <1>1 DEF Execute, Machinery
  <2> QED  BY <2>1, <2>2, <2>3, <2>4 DEF Machinery
<1>6. Buffered'
  <2>1. writes' \in Seq(MemWrite) /\ Len(writes') <= WRITES  BY <1>2, <1>3 DEF Calls
  <2>2. state' = "ST_STRING_LOOP"  BY DEF Execute
  <2> QED  BY <2>1, <2>2 DEF Buffered
<1>7. Answered'
  <2>2. d.regs \in Seq(RegWrite) /\ d.codes \in ConditionCodes  BY <1>3 DEF Calls
  <2>3. /\ str' \in [regs : Seq(RegWrite), codes : ConditionCodes, len : Nat, step : Nat]
        /\ str'.step <= Len(str'.regs) /\ Len(str'.regs) <= 3
    BY <1>2, <1>3, <2>2
  <2> QED  BY <1>1, <2>3 DEF Execute, Answered
<1> QED  BY <1>4, <1>5, <1>6, <1>7

\* And the test bench's writes.
LEMMA ApplyTyped == TypeOK /\ Apply => TypeOK'
<1> SUFFICES ASSUME TypeOK, Apply
             PROVE  (Started /\ Machinery /\ Buffered /\ Answered)'
  BY TypeParts, PTL
<1>1. Started /\ Machinery /\ Buffered /\ Answered  BY TypeParts
<1>2. m.mem \in Memory /\ writes \in Seq(MemWrite)  BY <1>1 DEF Machinery, Buffered, Core
<1>3. Applied(m.mem) \in Memory
  <2>1. Applied(m.mem) = AppliedOf(writes, m.mem)  BY DEF Applied, AppliedOf
  <2> QED  BY <1>2, <2>1, AppliedMemory
<1>4. m' = [m EXCEPT !.mem = Applied(m.mem)]  BY DEF Apply
<1>5. m' \in Core  BY <1>1, <1>3, <1>4, CoreKeepsType DEF Machinery
<1>6. Machinery'  BY <1>1, <1>5 DEF Apply, Machinery
<1>7. Buffered'  BY Sizes DEF Apply, Buffered
<1>8. Started' /\ Answered'  BY <1>1 DEF Apply, Started, Answered
<1> QED  BY <1>6, <1>7, <1>8

\* And the writing of the registers.
LEMMA LoopTyped == TypeOK /\ StringLoop /\ writes = <<>> => TypeOK'
<1> SUFFICES ASSUME TypeOK, StringLoop, writes = <<>>
             PROVE  (Started /\ Machinery /\ Buffered /\ Answered)'
  BY TypeParts, PTL
<1>1. Started /\ Machinery /\ Buffered /\ Answered  BY TypeParts
<1>2. Buffered'  BY <1>1 DEF StringLoop, Buffered
<1>3. CASE str.step < Len(str.regs)
  <2> DEFINE w == str.regs[str.step + 1]
  <2>1. m' = [m EXCEPT !.reg[w.idx] = w.val] /\ str' = [str EXCEPT !.step = str.step + 1]
        /\ state' = state
    BY <1>3 DEF StringLoop
  <2>2. w \in RegWrite
    <3>1. str.regs \in Seq(RegWrite) /\ str.step \in Nat  BY <1>1 DEF Answered
    <3>2. str.step + 1 \in 1 .. Len(str.regs)  BY <1>3, <3>1
    <3> QED  BY <3>1, <3>2, ElementOfSeq
  <2> HIDE DEF w
  <2>3. m' \in Core  BY <1>1, <2>1, <2>2 DEF Machinery, Core, RegWrite
  <2>4. Machinery'  BY <1>1, <2>3 DEF StringLoop, Machinery
  <2>5. Answered'
    <3>1. Len(str.regs) \in Nat  BY <1>1 DEF Answered
    <3> QED  BY <1>1, <1>3, <2>1, <3>1 DEF StringLoop, Answered
  <2>6. Started'  BY <1>1, <2>1 DEF StringLoop, Started
  <2> QED  BY <1>2, <2>4, <2>5, <2>6
<1>4. CASE ~(str.step < Len(str.regs))
  <2>1. state' = "ST_WRITEBACK" /\ m' = m /\ str' = str  BY <1>4 DEF StringLoop
  <2>2. Machinery' /\ Answered'  BY <1>1, <2>1 DEF StringLoop, Machinery, Answered
  <2>3. Started'  BY <1>1, <2>1 DEF StringLoop, Started
  <2> QED  BY <1>2, <2>2, <2>3
<1> QED  BY <1>3, <1>4

\* And the end of the instruction.
LEMMA WritebackTyped == TypeOK /\ Writeback /\ writes = <<>> => TypeOK'
<1> SUFFICES ASSUME TypeOK, Writeback, writes = <<>>
             PROVE  (Started /\ Machinery /\ Buffered /\ Answered)'
  BY TypeParts, PTL
<1>1. Started /\ Machinery /\ Buffered /\ Answered  BY TypeParts
<1>2. m' \in Core
  <2>1. m.pc \in Nat /\ str.len \in Nat /\ str.codes \in ConditionCodes /\ m \in Core
    <3>1. m.pc \in Word /\ m \in Core  BY <1>1 DEF Machinery, Core
    <3>2. m.pc \in Nat  BY <3>1, Sizes DEF Word
    <3>3. str.len \in Nat /\ str.codes \in ConditionCodes  BY <1>1 DEF Answered
    <3> QED  BY <3>1, <3>2, <3>3
  <2>2. (m.pc + str.len) % WORD \in Word  BY <2>1, Sizes DEF Word
  <2>3. m' = [m EXCEPT !.pc = (m.pc + str.len) % WORD, !.codes = str.codes]
    BY DEF Writeback
  <2> QED  BY <2>1, <2>2, <2>3 DEF Core
<1>3. Machinery'  BY <1>1, <1>2 DEF Writeback, Machinery
<1>4. Started' /\ Buffered' /\ Answered'
  BY <1>1 DEF Writeback, Started, Buffered, Answered
<1> QED  BY <1>3, <1>4

\* TypeOK: everything is of its type; whatever the instruction, the buffer is not overrun,
\* at most three registers are asked for, and the test bench has written the buffer's bytes
\* before the state machine goes on.
THEOREM TypeCorrect == Spec => []TypeOK
<1>1. Init => TypeOK  BY InitTyped
<1>2. TypeOK /\ [Next]_vars => TypeOK'
  <2> SUFFICES ASSUME TypeOK, [Next]_vars
               PROVE  TypeOK'
    OBVIOUS
  <2>1. CASE Apply  BY <2>1, ApplyTyped
  <2>2. CASE writes = <<>> /\ Clocked
    BY <2>2, StoreTyped, DecodeTyped, ExecuteTyped, LoopTyped, WritebackTyped DEF Clocked
  <2>3. CASE UNCHANGED vars  BY <2>3 DEF vars, TypeOK
  <2> QED  BY <2>1, <2>2, <2>3 DEF Next
<1> QED  BY <1>1, <1>2, PTL DEF Spec

-----------------------------------------------------------------------------
(* What is kept.                                                           *)

\* MemoryKept says this of the moments between instructions.  At any other the test bench
\* may not yet have made the writes: what holds then is said of the memory it will make.
Kept ==
  \A a \in Address :
    /\ a \notin lost => AppliedOf(writes, m.mem)[a] = last[a]
    /\ shadow[a] # AppliedOf(writes, m.mem)[a] => a \in stored \cup lost

\* With nothing to write it is said of memory itself.
LEMMA KeptEmpty ==
  ASSUME TypeOK, writes = <<>>
  PROVE  Kept <=> \A a \in Address : /\ a \notin lost => m.mem[a] = last[a]
                                     /\ shadow[a] # m.mem[a] => a \in stored \cup lost
<1>1. m.mem \in Memory  BY DEF TypeOK, Core
<1>2. \A a \in Address : AppliedOf(writes, m.mem)[a] = m.mem[a]  BY <1>1, AppliedNone
<1> QED  BY <1>2 DEF Kept

\* The steps that write no memory keep it.
LEMMA KeptSame ==
  ASSUME Kept, m'.mem = m.mem, UNCHANGED <<writes, shadow, last, stored, lost>>
  PROVE  Kept'
  BY DEF Kept

\* An ordinary store writes memory, and is the last to write it.
LEMMA StoreKept == TypeOK /\ TypeOK' /\ Kept /\ StoreInstruction /\ writes = <<>> => Kept'
<1> SUFFICES ASSUME TypeOK, TypeOK', Kept, StoreInstruction, writes = <<>>
             PROVE  Kept'
  OBVIOUS
<1>1. PICK s \in Stores : /\ m' = [m EXCEPT !.mem[s.addr] = s.data]
                          /\ last' = [last EXCEPT ![s.addr] = s.data]
                          /\ stored' = stored \cup {s.addr}
                          /\ lost' = lost \ {s.addr}
  BY DEF StoreInstruction
<1>2. s.addr \in Address  BY StringMemoryAssumption DEF MemWrite, Address
<1>3. m \in Core /\ m.mem \in Memory /\ last \in Memory  BY DEF TypeOK, Core
<1>4. m'.mem = [m.mem EXCEPT ![s.addr] = s.data]  BY <1>1, <1>3 DEF Core
<1>5. shadow' = shadow /\ writes' = <<>>  BY DEF StoreInstruction
<1>6. ASSUME NEW a \in Address
      PROVE  /\ a \notin lost' => m'.mem[a] = last'[a]
             /\ shadow'[a] # m'.mem[a] => a \in stored' \cup lost'
  <2>1. CASE a = s.addr
    <3>1. m'.mem[a] = s.data /\ last'[a] = s.data
      BY <1>1, <1>2, <1>3, <1>4, <2>1 DEF Memory, Address
    <3> QED  BY <1>1, <2>1, <3>1
  <2>2. CASE a # s.addr
    <3>1. m'.mem[a] = m.mem[a] /\ last'[a] = last[a]
      BY <1>1, <1>2, <1>3, <1>4, <2>2 DEF Memory, Address
    <3>2. a \in lost' <=> a \in lost  BY <1>1, <2>2
    <3>3. /\ a \notin lost => m.mem[a] = last[a]
          /\ shadow[a] # m.mem[a] => a \in stored \cup lost
      BY KeptEmpty
    <3> QED  BY <1>1, <1>5, <3>1, <3>2, <3>3
  <2> QED  BY <2>1, <2>2
<1> QED  BY <1>5, <1>6, AppliedNone DEF Kept, TypeOK, Core

\* The routine writes its copy, and the buffer tells the test bench what.
LEMMA ExecuteKept == TypeOK /\ Kept /\ Execute /\ writes = <<>> => Kept'
<1> SUFFICES ASSUME TypeOK, Kept, Execute, writes = <<>>
             PROVE  Kept'
  OBVIOUS
<1>5. PICK i \in Taken(inst) :
        LET d == v60_string_exec(Called(m, shadow, writes), i)
        IN /\ d \in Runs(shadow)
           /\ shadow' = d.mem /\ writes' = d.writes
           /\ last' = [a \in DOMAIN last |-> IF a \in d.touched THEN d.mem[a] ELSE last[a]]
           /\ stored' = stored \ d.touched
           /\ lost' = (lost \ d.touched) \cup d.full
  BY Answers
<1> DEFINE d == v60_string_exec(Called(m, shadow, writes), i)
<1>1. /\ d \in Runs(shadow)
      /\ shadow' = d.mem /\ writes' = d.writes
      /\ last' = [a \in DOMAIN last |-> IF a \in d.touched THEN d.mem[a] ELSE last[a]]
      /\ stored' = stored \ d.touched
      /\ lost' = (lost \ d.touched) \cup d.full
  BY <1>5
<1> HIDE DEF d
<1>2. m' = m /\ m.mem \in Memory /\ last \in Memory  BY DEF Execute, TypeOK, Core
<1>3. d \in Calls /\ d.writes \in Seq(MemWrite) /\ d.full \subseteq d.touched
  BY <1>1 DEF Runs, Calls
<1>4. ASSUME NEW a \in Address
      PROVE  /\ a \notin lost' => AppliedOf(d.writes, m.mem)[a] = last'[a]
             /\ d.mem[a] # AppliedOf(d.writes, m.mem)[a] => a \in stored' \cup lost'
  <2>1. last'[a] = IF a \in d.touched THEN d.mem[a] ELSE last[a]
    BY <1>1, <1>2 DEF Memory, Address
  <2>2. CASE a \notin d.touched
    <3>1. d.mem[a] = shadow[a] /\ \A k \in 1 .. Len(d.writes) : d.writes[k].addr # a
      BY <1>1, <2>2 DEF Runs
    <3>2. AppliedOf(d.writes, m.mem)[a] = m.mem[a]  BY <1>2, <1>3, <3>1, AppliedTo
    <3>3. /\ a \notin lost => m.mem[a] = last[a]
          /\ shadow[a] # m.mem[a] => a \in stored \cup lost
      BY KeptEmpty
    <3>4. (a \in lost => a \in lost') /\ (a \in stored => a \in stored')  BY <1>1, <2>2
    <3> QED  BY <2>1, <2>2, <3>1, <3>2, <3>3, <3>4
  <2>3. CASE a \in d.touched \ d.full
    <3>1. PICK k \in 1 .. Len(d.writes) : IsLast(d.writes, k, a) /\ d.writes[k].data = d.mem[a]
      BY <1>1, <2>3 DEF Runs
    <3>2. AppliedOf(d.writes, m.mem)[a] = d.mem[a]  BY <1>2, <1>3, <3>1, AppliedTo
    <3> QED  BY <2>1, <2>3, <3>2
  <2>4. CASE a \in d.full
    <3>1. a \in lost'  BY <1>1, <2>4
    <3> QED  BY <3>1
  <2> QED  BY <2>2, <2>3, <2>4
<1> QED  BY <1>1, <1>2, <1>4 DEF Kept

\* The test bench makes the memory that was to be made.
LEMMA ApplyKept == TypeOK /\ TypeOK' /\ Kept /\ Apply => Kept'
<1> SUFFICES ASSUME TypeOK, TypeOK', Kept, Apply
             PROVE  Kept'
  OBVIOUS
<1>1. m'.mem = AppliedOf(writes, m.mem)  BY DEF Apply, Applied, AppliedOf, TypeOK, Core
<1>2. m'.mem \in Memory  BY DEF TypeOK, Core
<1>3. writes' = <<>> /\ UNCHANGED <<shadow, last, stored, lost>>  BY DEF Apply
<1>4. \A a \in Address : AppliedOf(writes', m'.mem)[a] = AppliedOf(writes, m.mem)[a]
  BY <1>1, <1>2, <1>3, AppliedNone
<1> QED  BY <1>3, <1>4 DEF Kept

\* MemoryKept: between instructions every byte of memory is what was last written to it,
\* by an instruction on strings or another, unless the buffer was full; and the routine's
\* copy differs from it only where another instruction wrote last, or the buffer was full.
\* It holds of every program of instructions the routine understands, on every memory.
THEOREM MemoryIsKept == Spec => []MemoryKept
<1>1. Init => Kept
  <2> SUFFICES ASSUME Init
               PROVE  Kept
    OBVIOUS
  <2>1. TypeOK /\ writes = <<>>  BY InitTyped DEF Init
  <2>2. shadow = m.mem /\ last = m.mem  BY DEF Init
  <2> QED  BY <2>1, <2>2, KeptEmpty
<1>2. TypeOK /\ TypeOK' /\ Kept /\ [Next]_vars => Kept'
  <2> SUFFICES ASSUME TypeOK, TypeOK', Kept, [Next]_vars
               PROVE  Kept'
    OBVIOUS
  <2>1. CASE Apply  BY <2>1, ApplyKept
  <2>2. CASE writes = <<>> /\ StoreInstruction  BY <2>2, StoreKept
  <2>3. CASE writes = <<>> /\ Execute  BY <2>3, ExecuteKept
  <2>4. CASE Decode  BY <2>4, KeptSame DEF Decode
  <2>5. CASE StringLoop
    <3>1. m'.mem = m.mem
      <4>1. m \in Core  BY DEF TypeOK
      <4> QED  BY <2>5, <4>1 DEF StringLoop, Core
    <3> QED  BY <2>5, <3>1, KeptSame DEF StringLoop
  <2>6. CASE Writeback
    <3>1. m'.mem = m.mem
      <4>1. m \in Core  BY DEF TypeOK
      <4> QED  BY <2>6, <4>1 DEF Writeback, Core
    <3> QED  BY <2>6, <3>1, KeptSame DEF Writeback
  <2>7. CASE UNCHANGED vars  BY <2>7, KeptSame DEF vars
  <2> QED  BY <2>1, <2>2, <2>3, <2>4, <2>5, <2>6, <2>7 DEF Next, Clocked
<1>3. TypeOK /\ Kept => MemoryKept
  <2> SUFFICES ASSUME TypeOK, Kept, state = "ST_DECODE"
               PROVE  \A a \in DOMAIN shadow :
                        /\ a \notin lost => m.mem[a] = last[a]
                        /\ shadow[a] # m.mem[a] => a \in stored \cup lost
    BY DEF MemoryKept
  <2>1. writes = <<>>  BY DEF TypeOK
  <2>2. DOMAIN shadow = Address  BY DEF TypeOK, Memory, Address
  <2> QED  BY <2>1, <2>2, KeptEmpty
<1> QED  BY <1>1, <1>2, <1>3, TypeCorrect, PTL DEF Spec
=============================================================================
