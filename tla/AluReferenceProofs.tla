------------------------- MODULE AluReferenceProofs -------------------------
(***************************************************************************)
(* The integer and floating-point units do what the emulator's routines    *)
(* do, for every width of the operands and of the fields of a float, in    *)
(* all but the differences listed in AluProgram.                           *)
(*                                                                         *)
(* A register is told by its bits, or by its digits in base two.  Each     *)
(* operation is compared with its routine (the lemmas called ...Agrees),   *)
(* then each group of instructions with what the emulator executes for it, *)
(* and the inductive invariant says so of the instruction done last.       *)
(*                                                                         *)
(* The emulator's float is the one nearest to the true value.  Where its   *)
(* last place is follows from the number of bits of the value; the unit    *)
(* rounds at that place, or the difference is a listed one.                *)
(***************************************************************************)
EXTENDS AluProofs

-----------------------------------------------------------------------------
(* The bits of a number.                                                   *)

\* The bits of a number put together from two parts are those of its parts.
LEMMA BitSplit ==
  ASSUME NEW i \in Nat, NEW l \in 0 .. Two[i] - 1, NEW m \in Nat, NEW j \in Nat
  PROVE  Bit(l + Two[i] * m, j) = IF j < i THEN Bit(l, j) ELSE Bit(m, j - i)
<1> DEFINE P == Two[i]
           J == Two[j]
           x == l + P * m
<1>1. P \in Nat \ {0} /\ J \in Nat \ {0} /\ l \in Nat /\ l < P  BY TwoIs
<1>2. CASE j < i
  <2> DEFINE d == i - j
             K == Two[d - 1]
             q == l \div J
             e == l % J
             km == K * m
  <2>1. d \in Nat /\ d - 1 \in Nat /\ (d - 1) + 1 = d /\ j + d = i  BY <1>2
  <2>2. P = J * Two[d] /\ Two[d] = 2 * K /\ K \in Nat \ {0}
    <3> HIDE DEF d
    <3>1. Two[j + d] = Two[j] * Two[d]  BY <2>1, TwoSum
    <3>2. Two[(d - 1) + 1] = 2 * Two[d - 1] /\ Two[d - 1] \in Nat \ {0}  BY <2>1, TwoIs
    <3> QED  BY <2>1, <3>1, <3>2
  <2> HIDE DEF P, J, K
  <2>3. q \in Nat /\ e \in 0 .. J - 1 /\ l = J * q + e  BY <1>1, Division
  <2> HIDE DEF q, e
  <2>4. km \in Nat  BY <2>2, Products, SMTT(20)
  <2>5. x = J * (q + 2 * km) + e
    <3>1. P * m = J * (2 * km)
      <4>1. (J * (2 * K)) * m = J * (2 * (K * m))  BY <1>1, <2>2, SMTT(20)
      <4> QED  BY <2>2, <4>1
    <3>2. J * (q + 2 * km) = J * q + J * (2 * km)  BY <1>1, <2>3, <2>4, SMTT(20)
    <3> DEFINE A == J * q
               B == J * (2 * km)
               C == P * m
    <3>3. A \in Nat /\ B \in Nat /\ C = B /\ l = A + e  BY <1>1, <2>3, <2>4, <3>1, Products, SMTT(20)
    <3>4. J * (q + 2 * km) = A + B /\ x = l + C  BY <3>2
    <3> HIDE DEF A, B, C, km, x
    <3> QED  BY <2>3, <3>3, <3>4
  <2> HIDE DEF km, x
  <2>6. x \div J = q + 2 * km
    <3> DEFINE y == q + 2 * km
    <3>1. y \in Nat  BY <2>3, <2>4
    <3>2. x = J * y + e  BY <2>5
    <3> HIDE DEF y
    <3>3. (J * y + e) \div J = y  BY <1>1, <2>3, <3>1, DivideOnce
    <3> QED  BY <3>2, <3>3 DEF y
  <2>7. (q + 2 * km) % 2 = q % 2  BY <2>3, <2>4
  <2>8. Bit(x, j) = Bit(l, j)  BY <2>6, <2>7 DEF Bit, J, q
  <2> QED  BY <1>2, <2>8 DEF x, P
<1>3. CASE ~(j < i)
  <2> DEFINE d == j - i
             D == Two[d]
             q == m \div D
             e == m % D
  <2>1. d \in Nat /\ i + d = j  BY <1>3
  <2>2. J = P * D /\ D \in Nat \ {0}
    <3> HIDE DEF d
    <3> QED  BY <2>1, TwoSum, TwoIs
  <2> HIDE DEF P, J, D
  <2>3. q \in Nat /\ e \in 0 .. D - 1 /\ m = D * q + e  BY <2>2, Division
  <2> HIDE DEF q, e
  <2> DEFINE g == P * e + l
  <2>4. g \in 0 .. J - 1
    <3>1. e * P + P <= D * P /\ e * P = P * e /\ D * P = P * D /\ P * e \in Nat
      BY <1>1, <2>2, <2>3, Products, SMTT(20)
    <3> DEFINE A == P * e
    <3>2. A + P <= J /\ A \in Nat  BY <2>2, <3>1
    <3> HIDE DEF A
    <3>3. A + l \in 0 .. J - 1  BY <1>1, <2>2, <3>2
    <3> QED  BY <3>3 DEF A
  <2>5. x = J * q + g
    <3>1. P * (D * q + e) = (P * D) * q + P * e  BY <1>1, <2>2, <2>3, SMTT(20)
    <3> DEFINE A == J * q
               B == P * e
    <3>2. P * m = A + B /\ A \in Nat /\ B \in Nat  BY <1>1, <2>2, <2>3, <3>1, Products, SMTT(20)
    <3> HIDE DEF A, B
    <3>3. l + (A + B) = A + (B + l)  BY <1>1, <3>2
    <3> QED  BY <3>2, <3>3 DEF A, B
  <2> HIDE DEF g, x
  <2>6. x \div J = q
    <3>1. J \in Nat \ {0}  BY <1>1
    <3>2. (J * q + g) \div J = q  BY <2>3, <2>4, <3>1, DivideOnce
    <3> QED  BY <2>5, <3>2
  <2>7. Bit(x, j) = Bit(m, j - i)  BY <2>6 DEF Bit, J, q, D
  <2> QED  BY <1>3, <2>7 DEF x, P
<1> QED  BY <1>2, <1>3

\* There are none above its length.
LEMMA BitsBelow ==
  ASSUME NEW N \in Nat, NEW x \in 0 .. Two[N] - 1, NEW j \in Nat, j >= N
  PROVE  ~Bit(x, j)
<1>1. Two[N] \in Nat \ {0} /\ Two[j] \in Nat \ {0} /\ Two[N] <= Two[j]  BY TwoGrows
<1> DEFINE J == Two[j]
<1>2. x \in Nat /\ x < J  BY <1>1
<1> HIDE DEF J
<1>3. J \in Nat \ {0}  BY <1>1 DEF J
<1>4. J * 0 + x = x /\ (J * 0 + x) \div J = 0
  <2>1. x \in 0 .. J - 1  BY <1>2, <1>3
  <2> QED  BY <1>2, <1>3, <2>1, DivideOnce
<1> QED  BY <1>4 DEF Bit, J

\* The lowest bit and the others.
LEMMA LowestBit ==
  ASSUME NEW x \in Nat
  PROVE  /\ x \div 2 \in Nat /\ x = 2 * (x \div 2) + (IF Bit(x, 0) THEN 1 ELSE 0)
         /\ \A j \in Nat : Bit(x, j + 1) = Bit(x \div 2, j)
<1> DEFINE h == x \div 2
           c == x % 2
<1>1. h \in Nat /\ c \in 0 .. 1 /\ x = 2 * h + c  OBVIOUS
<1>2. Bit(x, 0) = (c = 1)
  <2>1. Two[0] = 1 /\ x \div 1 = x  BY TwoIs
  <2> QED  BY <2>1 DEF Bit
<1> HIDE DEF h, c
<1>3. Two[1] = 2
  <2>1. Two[0 + 1] = 2 * Two[0] /\ Two[0] = 1  BY TwoIs
  <2> QED  BY <2>1
<1>4. ASSUME NEW j \in Nat
      PROVE  Bit(x, j + 1) = Bit(h, j)
  <2>1. 1 \in Nat /\ c \in 0 .. Two[1] - 1 /\ j + 1 \in Nat /\ ~(j + 1 < 1) /\ (j + 1) - 1 = j
    BY <1>1, <1>3
  <2>2. Bit(c + Two[1] * h, j + 1) = IF j + 1 < 1 THEN Bit(c, j + 1) ELSE Bit(h, (j + 1) - 1)
    BY <1>1, <2>1, BitSplit
  <2>3. c + Two[1] * h = x  BY <1>1, <1>3
  <2> QED  BY <2>1, <2>2, <2>3
<1>5. x = 2 * h + (IF Bit(x, 0) THEN 1 ELSE 0)
  <2> DEFINE in == Bit(x, 0)
  <2>1. (c = 1 => in) /\ (c # 1 => ~in)  BY <1>2
  <2> HIDE DEF in
  <2>2. c = IF in THEN 1 ELSE 0  BY <1>1, <2>1
  <2>3. x = 2 * h + (IF in THEN 1 ELSE 0)  BY <1>1, <2>2
  <2> QED  BY <2>3 DEF in
<1> QED  BY <1>1, <1>4, <1>5 DEF h

\* A number is told by its bits.
LEMMA SameBits ==
  ASSUME NEW N \in Nat, NEW x \in 0 .. Two[N] - 1, NEW y \in 0 .. Two[N] - 1,
         \A j \in 0 .. N - 1 : Bit(x, j) = Bit(y, j)
  PROVE  x = y
<1> DEFINE T == {n \in Nat : \A a, b \in 0 .. Two[n] - 1 :
                               (\A j \in 0 .. n - 1 : Bit(a, j) = Bit(b, j)) => a = b}
<1>1. 0 \in T
  <2>1. 0 .. Two[0] - 1 = {0}  BY TwoIs
  <2> QED  BY <2>1
<1>2. ASSUME NEW n \in Nat, n \in T
      PROVE  n + 1 \in T
  <2> SUFFICES ASSUME NEW a \in 0 .. Two[n + 1] - 1, NEW b \in 0 .. Two[n + 1] - 1,
                      \A j \in 0 .. (n + 1) - 1 : Bit(a, j) = Bit(b, j)
               PROVE  a = b
    OBVIOUS
  <2>1. Two[n + 1] = 2 * Two[n] /\ Two[n] \in Nat \ {0} /\ n + 1 \in Nat  BY TwoIs
  <2>2. a \in Nat /\ b \in Nat  BY <2>1
  <2> DEFINE p == a \div 2
             q == b \div 2
  <2>3. /\ p \in Nat /\ a = 2 * p + (IF Bit(a, 0) THEN 1 ELSE 0)
        /\ \A j \in Nat : Bit(a, j + 1) = Bit(p, j)
    BY <2>2, LowestBit
  <2>4. /\ q \in Nat /\ b = 2 * q + (IF Bit(b, 0) THEN 1 ELSE 0)
        /\ \A j \in Nat : Bit(b, j + 1) = Bit(q, j)
    BY <2>2, LowestBit
  <2> HIDE DEF p, q
  <2>5. p \in 0 .. Two[n] - 1 /\ q \in 0 .. Two[n] - 1  BY <2>1, <2>3, <2>4
  <2>6. ASSUME NEW j \in 0 .. n - 1
        PROVE  Bit(p, j) = Bit(q, j)
    <3>1. j \in Nat /\ j + 1 \in 0 .. (n + 1) - 1  OBVIOUS
    <3> QED  BY <2>3, <2>4, <3>1
  <2>7. p = q  BY <1>2, <2>5, <2>6
  <2>8. Bit(a, 0) = Bit(b, 0)
    <3>1. 0 \in 0 .. (n + 1) - 1  OBVIOUS
    <3> QED  BY <3>1
  <2> QED  BY <2>3, <2>4, <2>7, <2>8
<1>3. Nat \subseteq T
  <2> HIDE DEF T
  <2> QED  BY <1>1, <1>2, Induct
<1> QED  BY <1>3

\* A word put together has the bits it was put together from.
LEMMA FromBitsBits ==
  ASSUME NEW S, NEW j \in 0 .. WordBits - 1
  PROVE  Bit(FromBits(S), j) = (j \in S)
<1>1. PICK h : Together(h, S)  BY FromBitsIs
<1>2. WordBits \in Nat
  <2>1. "SZ_WORD" \in Size  BY DEF Size
  <2> QED  BY <2>1, Vectors
<1> DEFINE T == {n \in Nat : h[n] \in Nat
                   /\ \A k \in 0 .. n - 1 : Bit(h[n], k) = ((WordBits - n) + k \in S)}
<1>3. 0 \in T  BY <1>1 DEF Together
<1>4. ASSUME NEW n \in Nat, n \in T
      PROVE  n + 1 \in T
  <2> DEFINE in == WordBits - (n + 1) \in S
             c  == IF in THEN 1 ELSE 0
             g == h[n]
             x == h[n + 1]
  <2>1. x = 2 * g + c /\ g \in Nat /\ c \in {0, 1}
        /\ \A k \in 0 .. n - 1 : Bit(g, k) = ((WordBits - n) + k \in S)
    BY <1>1, <1>4 DEF Together
  <2> HIDE DEF g, x, in
  <2>2. x \in Nat  BY <2>1
  <2>3. Bit(x, 0) = in
    <3>1. Bit(x, 0) = (x % 2 = 1)
      <4>1. Two[0] = 1 /\ x \div 1 = x  BY <2>2, TwoIs
      <4> QED  BY <4>1 DEF Bit
    <3>2. in \in BOOLEAN  BY DEF in
    <3>3. in => x % 2 = 1  BY <2>1
    <3>4. ~in => x % 2 # 1  BY <2>1
    <3> QED  BY <3>1, <3>2, <3>3, <3>4
  <2>4. x \div 2 = g  BY <2>1
  <2>5. \A k \in Nat : Bit(x, k + 1) = Bit(g, k)  BY <2>2, <2>4, LowestBit
  <2>6. ASSUME NEW k \in 0 .. (n + 1) - 1
        PROVE  Bit(x, k) = ((WordBits - (n + 1)) + k \in S)
    <3>1. CASE k = 0
      <4>1. (WordBits - (n + 1)) + k = WordBits - (n + 1)  BY <1>2, <3>1
      <4> QED  BY <2>3, <3>1, <4>1 DEF in
    <3>2. CASE k # 0
      <4>1. k - 1 \in 0 .. n - 1 /\ k - 1 \in Nat /\ (k - 1) + 1 = k
            /\ (WordBits - n) + (k - 1) = (WordBits - (n + 1)) + k
        BY <1>2, <3>2
      <4> QED  BY <2>1, <2>5, <4>1
    <3> QED  BY <3>1, <3>2
  <2> QED  BY <2>2, <2>6 DEF x
<1>5. Nat \subseteq T
  <2> HIDE DEF T
  <2> QED  BY <1>3, <1>4, Induct
<1>6. Bit(h[WordBits], j) = ((WordBits - WordBits) + j \in S)  BY <1>2, <1>5
<1>7. (WordBits - WordBits) + j = j  BY <1>2
<1> QED  BY <1>1, <1>6, <1>7 DEF Together

-----------------------------------------------------------------------------
(* What the arithmetic unit leaves and what the reference does.            *)

\* A number is put together from its quotient and its remainder in one way, below zero too.
LEMMA DivideInt ==
  ASSUME NEW O \in Nat \ {0}, NEW q \in Int, NEW f \in 0 .. O - 1
  PROVE  (O * q + f) \div O = q /\ (O * q + f) % O = f
<1> DEFINE x == O * q + f
           d == x \div O
           r == x % O
<1>1. x \in Int /\ O * q \in Int  OBVIOUS
<1>2. d \in Int /\ r \in 0 .. O - 1 /\ x = O * d + r /\ O * d \in Int
  <2> HIDE DEF x
  <2> QED  BY <1>1, SMTT(20)
<1> HIDE DEF d, r
<1>3. d < q => O * d + O <= O * q  BY <1>2, Apart
<1>4. q < d => O * q + O <= O * d  BY <1>2, Apart
<1>5. d = q
  <2> DEFINE A == O * d
             B == O * q
  <2>1. A \in Int /\ B \in Int /\ x = A + r /\ x = B + f
        /\ (d < q => A + O <= B) /\ (q < d => B + O <= A)
    BY <1>1, <1>2, <1>3, <1>4
  <2> HIDE DEF A, B, x
  <2> QED  BY <1>2, <2>1
<1>6. r = f
  <2> DEFINE B == O * q
  <2>1. B \in Int /\ x = B + r /\ x = B + f  BY <1>1, <1>2, <1>5
  <2> HIDE DEF B, x
  <2> QED  BY <1>2, <2>1
<1> QED  BY <1>5, <1>6 DEF d, r

\* Quotient and remainder of a number that may be below zero.
LEMMA IntDivision ==
  ASSUME NEW x \in Int, NEW O \in Nat \ {0}
  PROVE  x \div O \in Int /\ x % O \in 0 .. O - 1 /\ x = O * (x \div O) + (x % O)
  BY SMTT(20)

\* What is left in a vector of a number that is out of it by less than its size.
LEMMA ModWithin ==
  ASSUME NEW s \in Size, NEW x \in Int, -Mod(s) <= x, x < 2 * Mod(s)
  PROVE  x % Mod(s) = IF x < 0 THEN x + Mod(s) ELSE IF x < Mod(s) THEN x ELSE x - Mod(s)
<1> DEFINE H == Half[s]
           M == Mod(s)
<1>1. H \in Nat \ {0} /\ M = 2 * H /\ -M <= x /\ x < 2 * M  BY Halves
<1> HIDE DEF H, M
<1>2. -2 * H <= x /\ x < 4 * H  BY <1>1
<1>3. /\ 0 <= x /\ x < 2 * H => x % (2 * H) = x
      /\ 2 * H <= x => x % (2 * H) = x - 2 * H
      /\ x < 0 => x % (2 * H) = x + 2 * H
  BY <1>1, <1>2, ModOnce
<1>4. x % M = IF x < 0 THEN x + M ELSE IF x < M THEN x ELSE x - M  BY <1>1, <1>3
<1> QED  BY <1>4 DEF M

\* The sign of a number is the highest bit of what is left of it in a vector, and its
\* carry or borrow the bit above that.
LEMMA SignIs ==
  ASSUME NEW s \in Size, NEW x \in Int
  PROVE  /\ Sign(x, s) <=> x % Mod(s) >= Half[s]
         /\ -Mod(s) <= x /\ x < 2 * Mod(s) => (Bit(x, Width[s]) <=> (x < 0 \/ x >= Mod(s)))
<1> DEFINE H == Half[s]
           M == Mod(s)
           q == x \div M
           r == x % M
<1>1. /\ H \in Nat \ {0, 1} /\ M = 2 * H /\ M \in Nat \ {0}
      /\ H = Two[Width[s] - 1] /\ M = Two[Width[s]]
  <2>1. H \in Nat \ {0, 1} /\ M = 2 * H  BY Halves
  <2> QED  BY <2>1, Vectors, HalfAssumption
<1> HIDE DEF H, M
<1>2. q \in Int /\ r \in 0 .. M - 1 /\ x = M * q + r  BY <1>1, IntDivision
<1> HIDE DEF q, r
<1>3. x \div H = IF r >= H THEN 2 * q + 1 ELSE 2 * q
  <2> DEFINE k == IF r >= H THEN 2 * q + 1 ELSE 2 * q
             f == IF r >= H THEN r - H ELSE r
  <2>1. k \in Int /\ f \in 0 .. H - 1 /\ H \in Nat \ {0}  BY <1>1, <1>2
  <2>2. x = H * k + f
    <3>1. (2 * H) * q = H * (2 * q) /\ H * (2 * q + 1) = H * (2 * q) + H  BY <1>1, <1>2, SMTT(20)
    <3> DEFINE A == H * (2 * q)
    <3>2. A \in Int /\ x = A + r /\ H * (2 * q + 1) = A + H  BY <1>1, <1>2, <3>1
    <3>3. CASE r >= H
      <4>1. k = 2 * q + 1 /\ f = r - H  BY <3>3
      <4> HIDE DEF A, k, f
      <4> QED  BY <1>1, <1>2, <3>2, <4>1
    <3>4. CASE ~(r >= H)
      <4>1. k = 2 * q /\ f = r  BY <3>4
      <4> QED  BY <3>2, <4>1
    <3> QED  BY <3>3, <3>4
  <2> HIDE DEF k, f
  <2>3. (H * k + f) \div H = k  BY <2>1, DivideInt
  <2> QED  BY <2>2, <2>3 DEF k
<1>4. Sign(x, s) <=> r >= H
  <2>1. Sign(x, s) <=> (x \div H) % 2 = 1  BY <1>1 DEF Sign, Bit
  <2>2. (2 * q + 1) % 2 = 1 /\ (2 * q) % 2 = 0  BY <1>2
  <2> QED  BY <1>3, <2>1, <2>2
<1>5. ASSUME -M <= x, x < 2 * M
      PROVE  Bit(x, Width[s]) <=> (x < 0 \/ x >= M)
  <2>1. Bit(x, Width[s]) <=> q % 2 = 1  BY <1>1 DEF Bit, q
  <2> DEFINE A == M * q
  <2>2. /\ q < -1 => A + M <= M * (-1) /\ M * (-1) = -M
        /\ q < 0 => A + M <= M * 0 /\ M * 0 = 0
        /\ 0 < q => M * 0 + M <= A /\ M * 0 = 0
        /\ 1 < q => M * 1 + M <= A /\ M * 1 = M
        /\ q = 0 => A = 0
        /\ A \in Int
    BY <1>1, <1>2, Apart
  <2> HIDE DEF A
  <2>3. x = A + r  BY <1>2 DEF A
  <2>4. q \in {-1, 0, 1}  BY <1>1, <1>2, <1>5, <2>2, <2>3
  <2>5. (-1) % 2 = 1 /\ 0 % 2 = 0 /\ 1 % 2 = 1
    <3>1. 2 \in Nat \ {0} /\ -1 \in Int /\ 1 \in 0 .. 2 - 1  OBVIOUS
    <3>2. (2 * (-1) + 1) % 2 = 1  BY <3>1, DivideInt
    <3>3. 2 * (-1) + 1 = -1  OBVIOUS
    <3> QED  BY <3>2, <3>3
  <2>6. q = -1 => x < 0
    BY <1>1, <1>2, <2>2, <2>3
  <2>7. q = 0 => 0 <= x /\ x < M
    BY <1>1, <1>2, <2>2, <2>3
  <2>8. q = 1 => x >= M
    BY <1>1, <1>2, <2>2, <2>3
  <2> QED  BY <1>1, <2>1, <2>4, <2>5, <2>6, <2>7, <2>8
<1> QED  BY <1>4, <1>5 DEF H, M, r

\* An outcome o of the unit is that of the reference, but for what is unlike.
Agrees(s, o, ref, unlike) ==
  /\ "reg" \in unlike \/ o.result % Mod(s) = ref.val
  /\ \A n \in {"z", "s", "ov", "cy"} \ unlike : o.flags[n] = ref.flags[n]

\* The common part of an outcome is that of the reference.
LEMMA OutcomeAgrees ==
  ASSUME NEW s \in Size, NEW res \in Int, NEW r, r = res % Mod(s), NEW unlike,
         NEW cy, NEW ov, NEW refcy, NEW refov,
         "cy" \in unlike \/ cy = refcy, "ov" \in unlike \/ ov = refov
  PROVE  Agrees(s, Outcome(s, r, cy, ov), Result(s, res, refcy, refov), unlike)
<1> DEFINE o == Outcome(s, r, cy, ov)
           p == Result(s, res, refcy, refov)
<1>1. r \in 0 .. Mod(s) - 1 /\ Mod(s) \in Nat \ {0}  BY ModRange, Vectors
<1>2. r % Mod(s) = r
  <2> DEFINE M == Mod(s)
  <2>1. r \in 0 .. M - 1 /\ M \in Nat \ {0}  BY <1>1
  <2> HIDE DEF M
  <2>2. r % M = r  BY <2>1, SMTT(20)
  <2> QED  BY <2>2 DEF M
<1>3. Sign(res, s) <=> r >= Half[s]  BY SignIs
<1>4. /\ o.result = r /\ p.val = r
      /\ o.flags["z"] = (r = 0) /\ p.flags["z"] = (r = 0)
      /\ o.flags["s"] = Msb(r, s) /\ p.flags["s"] = Sign(res, s)
      /\ o.flags["ov"] = ov /\ p.flags["ov"] = refov
      /\ o.flags["cy"] = cy /\ p.flags["cy"] = refcy
  BY DEF Outcome, Result
<1>5. Msb(r, s) = Sign(res, s)  BY <1>3 DEF Msb, Sign, Bit
<1> HIDE DEF o, p
<1> QED  BY <1>2, <1>4, <1>5 DEF Agrees, o, p

\* ADD and ADDC. The reference adds the carry to the operand.
LEMMA AddAgrees ==
  ASSUME NEW s \in Size, NEW b \in 0 .. Mod(s) - 1, NEW a \in 0 .. Mod(s) - 1, NEW c \in {0, 1},
         NEW unlike,
         c = 1 /\ a = Mod(s) - 1 => "cy" \in unlike, c = 1 /\ a = Half[s] - 1 => "ov" \in unlike
  PROVE  Agrees(s, Add(s, a, b, c), RefAdd(s, b, (a + c) % Mod(s)), unlike)
<1> DEFINE H == Half[s]
           M == Mod(s)
           t == b + a + c
           r == t % M
           e == (a + c) % M
           res == b + e
           cy == t >= M
           ov == (Msb(a, s) <=> Msb(b, s)) /\ ~(Msb(r, s) <=> Msb(a, s))
           refcy == Bit(res, Width[s])
           refov == Sign(res, s) # Sign(e, s) /\ Sign(res, s) # Sign(b, s)
<1>1. H \in Nat \ {0, 1} /\ M = 2 * H /\ M \in Nat \ {0}  BY Halves
<1>2. /\ Add(s, a, b, c) = Outcome(s, r, cy, ov)
      /\ RefAdd(s, b, (a + c) % Mod(s)) = Result(s, res, refcy, refov)
  BY DEF Add, RefAdd
<1>3. /\ a \in 0 .. M - 1 /\ b \in 0 .. M - 1
      /\ c = 1 /\ a = M - 1 => "cy" \in unlike
      /\ c = 1 /\ a = H - 1 => "ov" \in unlike
  OBVIOUS
<1>4. \A x \in Int : 0 <= x /\ x < 2 * M => x % M = IF x < M THEN x ELSE x - M
  <2> SUFFICES ASSUME NEW x \in Int, 0 <= x, x < 2 * M
               PROVE  x % M = IF x < M THEN x ELSE x - M
    OBVIOUS
  <2>1. -M <= x /\ ~(x < 0)
    <3> HIDE DEF M
    <3> QED  BY <1>1
  <2>2. x % M = IF x < 0 THEN x + M ELSE IF x < M THEN x ELSE x - M  BY <2>1, ModWithin
  <2> QED  BY <2>1, <2>2
<1>5. /\ Sign(res, s) <=> res % M >= H
      /\ Sign(e, s) <=> e % M >= H
      /\ Sign(b, s) <=> b % M >= H
      /\ refcy <=> res >= M
  <2>1. e \in 0 .. M - 1  BY <1>1, ModRange
  <2>2. res \in Int /\ e \in Int /\ b \in Int /\ -M <= res /\ res < 2 * M /\ ~(res < 0)
    <3> HIDE DEF M, e
    <3> QED  BY <1>1, <1>3, <2>1
  <2> HIDE DEF M, e, res
  <2> QED  BY <2>2, SignIs DEF M
<1>6. (Msb(a, s) <=> a >= H) /\ (Msb(b, s) <=> b >= H) /\ (Msb(r, s) <=> r >= H)  BY DEF Msb
<1>7. ov <=> ((a >= H <=> b >= H) /\ ~(r >= H <=> a >= H))  BY <1>6
<1>8. refov <=> (~(res % M >= H <=> e % M >= H) /\ ~(res % M >= H <=> b % M >= H))
  BY <1>5 DEF Sign, Bit
<1> DEFINE g == a + c
<1>9. /\ g = a + c /\ t = b + g /\ e = g % M /\ res = b + e /\ r = t % M
      /\ (cy <=> t >= M)
  BY <1>1
<1> HIDE DEF H, M, r, e, res, g, t
<1>10. t \in Int /\ 0 <= t /\ t < 2 * M /\ g \in Int /\ 0 <= g /\ g < 2 * M
  BY <1>1, <1>3, <1>9
<1>11. e = IF g < M THEN g ELSE g - M
  BY <1>1, <1>4, <1>9, <1>10
<1>12. res \in Int /\ 0 <= res /\ res < 2 * M /\ e \in Int /\ 0 <= e /\ e < M
  BY <1>1, <1>3, <1>9, <1>10, <1>11
<1>13. /\ r = IF t < M THEN t ELSE t - M
       /\ res % M = IF res < M THEN res ELSE res - M
       /\ e % M = e /\ b % M = b
  <2>1. r = IF t < M THEN t ELSE t - M  BY <1>1, <1>4, <1>9, <1>10
  <2>2. res % M = IF res < M THEN res ELSE res - M  BY <1>1, <1>4, <1>12
  <2>3. e < 2 * M /\ b \in Int /\ 0 <= b /\ b < 2 * M /\ b < M  BY <1>1, <1>3, <1>12
  <2>4. e % M = e /\ b % M = b  BY <1>4, <1>12, <2>3
  <2> QED  BY <2>1, <2>2, <2>4
<1> DEFINE k == res % M
<1> HIDE DEF k, cy, ov, refcy, refov
<1>14. r = k  BY <1>1, <1>3, <1>9, <1>11, <1>13 DEF k
<1>15. "cy" \in unlike \/ cy = refcy
  <2> SUFFICES ASSUME ~(c = 1 /\ a = M - 1)
               PROVE  cy = refcy
    BY <1>3
  <2>1. g < M  BY <1>1, <1>3, <1>9
  <2>2. (t >= M) <=> (res >= M)  BY <1>9, <1>11, <2>1
  <2> QED  BY <1>5, <1>9, <2>2 DEF cy, refcy, Bit
<1>16. "ov" \in unlike \/ ov = refov
  <2> SUFFICES ASSUME ~(c = 1 /\ a = H - 1)
               PROVE  ov = refov
    BY <1>3
  <2>1. ((a >= H <=> b >= H) /\ ~(r >= H <=> a >= H))
          <=> (~(k >= H <=> e >= H) /\ ~(k >= H <=> b >= H))
    <3>1. CASE g < M
      <4>1. a >= H <=> e >= H  BY <1>1, <1>3, <1>9, <3>1
      <4> QED  BY <1>14, <4>1
    <3>2. CASE ~(g < M)
      <4>1. e = 0 /\ a >= H /\ k = b  BY <1>1, <1>3, <1>9, <1>11, <1>13, <3>2 DEF k
      <4> QED  BY <1>14, <4>1
    <3> QED  BY <3>1, <3>2
  <2>2. ov <=> refov  BY <1>7, <1>8, <1>13, <2>1 DEF k
  <2> QED  BY <2>2 DEF ov, refov
<1>17. res \in Int /\ r = res % Mod(s)  BY <1>12, <1>14 DEF k, M
<1>18. Agrees(s, Outcome(s, r, cy, ov), Result(s, res, refcy, refov), unlike)
  BY <1>15, <1>16, <1>17, OutcomeAgrees
<1> QED  BY <1>2, <1>18 DEF M, t, r, e, res, cy, ov, refcy, refov

\* SUB, CMP and SUBC.
LEMMA SubAgrees ==
  ASSUME NEW s \in Size, NEW b \in 0 .. Mod(s) - 1, NEW a \in 0 .. Mod(s) - 1, NEW c \in {0, 1},
         NEW unlike,
         c = 1 /\ a = Mod(s) - 1 => "cy" \in unlike, c = 1 /\ a = Half[s] - 1 => "ov" \in unlike
  PROVE  Agrees(s, Subtract(s, a, b, c), RefSub(s, b, (a + c) % Mod(s)), unlike)
<1> DEFINE H == Half[s]
           M == Mod(s)
           t == b - a - c
           r == t % M
           e == (a + c) % M
           res == b - e
           cy == t < 0
           ov == ~(Msb(a, s) <=> Msb(b, s)) /\ ~(Msb(r, s) <=> Msb(b, s))
           refcy == Bit(res, Width[s])
           refov == Sign(b, s) # Sign(e, s) /\ Sign(b, s) # Sign(res, s)
<1>1. H \in Nat \ {0, 1} /\ M = 2 * H /\ M \in Nat \ {0}  BY Halves
<1>2. /\ Subtract(s, a, b, c) = Outcome(s, r, cy, ov)
      /\ RefSub(s, b, (a + c) % Mod(s)) = Result(s, res, refcy, refov)
  BY DEF Subtract, RefSub
<1>3. /\ a \in 0 .. M - 1 /\ b \in 0 .. M - 1
      /\ c = 1 /\ a = M - 1 => "cy" \in unlike
      /\ c = 1 /\ a = H - 1 => "ov" \in unlike
  OBVIOUS
<1>4. \A x \in Int : -M <= x /\ x < 2 * M =>
        x % M = IF x < 0 THEN x + M ELSE IF x < M THEN x ELSE x - M
  BY ModWithin
<1>5. /\ Sign(res, s) <=> res % M >= H
      /\ Sign(e, s) <=> e % M >= H
      /\ Sign(b, s) <=> b % M >= H
      /\ refcy <=> res < 0
  <2>1. e \in 0 .. M - 1  BY <1>1, ModRange
  <2>2. res \in Int /\ e \in Int /\ b \in Int /\ -M <= res /\ res < M
    <3> HIDE DEF M, e
    <3> QED  BY <1>1, <1>3, <2>1
  <2>3. res < 2 * M /\ ~(res >= M)
    <3> HIDE DEF M, e, res
    <3> QED  BY <1>1, <2>2
  <2> HIDE DEF M, e, res
  <2> QED  BY <2>2, <2>3, SignIs DEF M
<1>6. (Msb(a, s) <=> a >= H) /\ (Msb(b, s) <=> b >= H) /\ (Msb(r, s) <=> r >= H)  BY DEF Msb
<1>7. ov <=> (~(a >= H <=> b >= H) /\ ~(r >= H <=> b >= H))  BY <1>6
<1>8. refov <=> (~(b % M >= H <=> e % M >= H) /\ ~(b % M >= H <=> res % M >= H))
  BY <1>5 DEF Sign, Bit
<1> DEFINE g == a + c
<1>9. /\ g = a + c /\ t = b - g /\ e = g % M /\ res = b - e /\ r = t % M
      /\ (cy <=> t < 0)
  BY <1>1
<1> HIDE DEF H, M, r, e, res, g, t
<1>10. t \in Int /\ -M <= t /\ t < 2 * M /\ g \in Int /\ 0 <= g /\ g < 2 * M /\ -M <= g
  BY <1>1, <1>3, <1>9
<1>11. e = IF g < M THEN g ELSE g - M
  <2>1. g % M = IF g < 0 THEN g + M ELSE IF g < M THEN g ELSE g - M  BY <1>4, <1>10
  <2>2. ~(g < 0) /\ e = g % M  BY <1>9, <1>10
  <2> QED  BY <2>1, <2>2
<1>12. res \in Int /\ -M <= res /\ res < M /\ res < 2 * M /\ e \in Int /\ 0 <= e /\ e < M
  BY <1>1, <1>3, <1>9, <1>10, <1>11
<1>13. /\ r = IF t < 0 THEN t + M ELSE t
       /\ res % M = IF res < 0 THEN res + M ELSE res
       /\ e % M = e /\ b % M = b
  <2>1. t < M  BY <1>1, <1>3, <1>9
  <2>2. r = IF t < 0 THEN t + M ELSE t  BY <1>1, <1>4, <1>9, <1>10, <2>1
  <2>3. res % M = IF res < 0 THEN res + M ELSE res  BY <1>1, <1>4, <1>12
  <2>4. /\ e < 2 * M /\ -M <= e
        /\ b \in Int /\ 0 <= b /\ b < 2 * M /\ b < M /\ -M <= b
    BY <1>1, <1>3, <1>12
  <2>5. e % M = e /\ b % M = b  BY <1>4, <1>12, <2>4
  <2> QED  BY <2>2, <2>3, <2>5
<1> DEFINE k == res % M
<1> HIDE DEF k, cy, ov, refcy, refov
<1>14. r = k  BY <1>1, <1>3, <1>9, <1>11, <1>13 DEF k
<1>15. "cy" \in unlike \/ cy = refcy
  <2> SUFFICES ASSUME ~(c = 1 /\ a = M - 1)
               PROVE  cy = refcy
    BY <1>3
  <2>1. g < M  BY <1>1, <1>3, <1>9
  <2>2. (t < 0) <=> (res < 0)  BY <1>9, <1>11, <2>1
  <2> QED  BY <1>5, <1>9, <2>2 DEF cy, refcy, Bit
<1>16. "ov" \in unlike \/ ov = refov
  <2> SUFFICES ASSUME ~(c = 1 /\ a = H - 1)
               PROVE  ov = refov
    BY <1>3
  <2>1. (~(a >= H <=> b >= H) /\ ~(r >= H <=> b >= H))
          <=> (~(b >= H <=> e >= H) /\ ~(b >= H <=> k >= H))
    <3>1. CASE g < M
      <4>1. a >= H <=> e >= H  BY <1>1, <1>3, <1>9, <3>1
      <4> QED  BY <1>14, <4>1
    <3>2. CASE ~(g < M)
      <4>1. e = 0 /\ a >= H /\ k = b  BY <1>1, <1>3, <1>9, <1>11, <1>13, <3>2 DEF k
      <4> QED  BY <1>14, <4>1
    <3> QED  BY <3>1, <3>2
  <2>2. ov <=> refov  BY <1>7, <1>8, <1>13, <2>1 DEF k
  <2> QED  BY <2>2 DEF ov, refov
<1>17. res \in Int /\ r = res % Mod(s)  BY <1>12, <1>14 DEF k, M
<1>18. Agrees(s, Outcome(s, r, cy, ov), Result(s, res, refcy, refov), unlike)
  BY <1>15, <1>16, <1>17, OutcomeAgrees
<1> QED  BY <1>2, <1>18 DEF M, t, r, e, res, cy, ov, refcy, refov

\* INC adds one, DEC subtracts one, NEG subtracts from zero.
LEMMA CountIs ==
  ASSUME NEW s \in Size, NEW a \in 0 .. Mod(s) - 1
  PROVE  /\ Increment(s, a) = Add(s, 1, a, 0)
         /\ Decrement(s, a) = Subtract(s, 1, a, 0)
         /\ Negate(s, a) = Subtract(s, a, 0, 0)
<1> DEFINE H == Half[s]
           M == Mod(s)
<1>1. H \in Nat \ {0, 1} /\ M = 2 * H /\ a \in 0 .. M - 1  BY Halves
<1>2. \A x : Msb(x, s) <=> x >= H  BY DEF Msb
<1>3. \A x \in Int : -M <= x /\ x < 2 * M =>
        x % M = IF x < 0 THEN x + M ELSE IF x < M THEN x ELSE x - M
  BY ModWithin
<1>4. Increment(s, a) = Add(s, 1, a, 0)
  <2> DEFINE t == a + 1
             r == t % M
  <2>1. a + 1 + 0 = t /\ t \in Int /\ -M <= t /\ t < 2 * M  BY <1>1
  <2>2. r = IF t < M THEN t ELSE t - M
    <3> HIDE DEF M
    <3> QED  BY <1>1, <1>3, <2>1
  <2>3. /\ Increment(s, a) = Outcome(s, r, t >= M, ~Msb(a, s) /\ Msb(r, s) /\ a = H - 1)
        /\ Add(s, 1, a, 0) =
             Outcome(s, r, t >= M, (Msb(1, s) <=> Msb(a, s)) /\ ~(Msb(r, s) <=> Msb(1, s)))
    BY <2>1 DEF Increment, Add
  <2> HIDE DEF M, r, H
  <2>4. (~Msb(a, s) /\ Msb(r, s) /\ a = H - 1)
          = ((Msb(1, s) <=> Msb(a, s)) /\ ~(Msb(r, s) <=> Msb(1, s)))
    BY <1>1, <1>2, <2>2
  <2> QED  BY <2>3, <2>4
<1>5. Decrement(s, a) = Subtract(s, 1, a, 0)
  <2> DEFINE t == a - 1
             r == t % M
  <2>1. a - 1 - 0 = t /\ t \in Int /\ -M <= t /\ t < 2 * M  BY <1>1
  <2>2. r = IF t < 0 THEN t + M ELSE t
    <3> HIDE DEF M
    <3> QED  BY <1>1, <1>3, <2>1
  <2>3. /\ Decrement(s, a) = Outcome(s, r, a = 0, Msb(a, s) /\ ~Msb(r, s))
        /\ Subtract(s, 1, a, 0) =
             Outcome(s, r, t < 0, ~(Msb(1, s) <=> Msb(a, s)) /\ ~(Msb(r, s) <=> Msb(a, s)))
    BY <2>1 DEF Decrement, Subtract
  <2> HIDE DEF M, r, H
  <2>4. (Msb(a, s) /\ ~Msb(r, s))
          = (~(Msb(1, s) <=> Msb(a, s)) /\ ~(Msb(r, s) <=> Msb(a, s)))
    BY <1>1, <1>2, <2>2
  <2>5. (a = 0) = (t < 0)  BY <1>1
  <2> QED  BY <2>3, <2>4, <2>5
<1>6. Negate(s, a) = Subtract(s, a, 0, 0)
  <2> DEFINE t == -a
             r == t % M
  <2>1. 0 - a - 0 = t  BY <1>1
  <2>2. /\ Negate(s, a) = Outcome(s, r, a # 0, Msb(a, s) /\ Msb(r, s))
        /\ Subtract(s, a, 0, 0) =
             Outcome(s, r, t < 0, ~(Msb(a, s) <=> Msb(0, s)) /\ ~(Msb(r, s) <=> Msb(0, s)))
    BY <2>1 DEF Negate, Subtract
  <2> HIDE DEF M, r, H
  <2>3. (Msb(a, s) /\ Msb(r, s)) = (~(Msb(a, s) <=> Msb(0, s)) /\ ~(Msb(r, s) <=> Msb(0, s)))
    BY <1>1, <1>2
  <2>4. (a # 0) = (t < 0)  BY <1>1
  <2> QED  BY <2>2, <2>3, <2>4
<1> QED  BY <1>4, <1>5, <1>6

\* They agree, with no carry in.
LEMMA CountAgrees ==
  ASSUME NEW s \in Size, NEW a \in 0 .. Mod(s) - 1, NEW b \in 0 .. Mod(s) - 1, NEW unlike
  PROVE  /\ Agrees(s, Add(s, a, b, 0), RefAdd(s, b, a), unlike)
         /\ Agrees(s, Subtract(s, a, b, 0), RefSub(s, b, a), unlike)
         /\ Agrees(s, Increment(s, b), RefAdd(s, b, 1), unlike)
         /\ Agrees(s, Decrement(s, b), RefSub(s, b, 1), unlike)
         /\ Agrees(s, Negate(s, a), RefNeg(s, a), unlike)
<1> DEFINE H == Half[s]
           M == Mod(s)
<1>1. H \in Nat \ {0, 1} /\ M = 2 * H  BY Halves
<1>2. \A x \in 0 .. M - 1 : (x + 0) % Mod(s) = x
  <2> SUFFICES ASSUME NEW x \in 0 .. M - 1
               PROVE  (x + 0) % M = x
    OBVIOUS
  <2> HIDE DEF M
  <2>1. x \in Int /\ x + 0 = x /\ -M <= x /\ x < 2 * M /\ ~(x < 0) /\ x < M  BY <1>1
  <2> QED  BY <2>1, ModWithin DEF M
<1>3. 1 \in 0 .. M - 1 /\ 0 \in 0 .. M - 1
  <2> HIDE DEF M, H
  <2> QED  BY <1>1
<1>4. \A x, y \in 0 .. M - 1 : /\ Agrees(s, Add(s, x, y, 0), RefAdd(s, y, x), unlike)
                               /\ Agrees(s, Subtract(s, x, y, 0), RefSub(s, y, x), unlike)
  <2> SUFFICES ASSUME NEW x \in 0 .. M - 1, NEW y \in 0 .. M - 1
               PROVE  /\ Agrees(s, Add(s, x, y, 0), RefAdd(s, y, x), unlike)
                      /\ Agrees(s, Subtract(s, x, y, 0), RefSub(s, y, x), unlike)
    OBVIOUS
  <2>1. (x + 0) % Mod(s) = x /\ 0 \in {0, 1} /\ 0 # 1  BY <1>2
  <2>2. /\ Agrees(s, Add(s, x, y, 0), RefAdd(s, y, (x + 0) % Mod(s)), unlike)
        /\ Agrees(s, Subtract(s, x, y, 0), RefSub(s, y, (x + 0) % Mod(s)), unlike)
    BY <2>1, AddAgrees, SubAgrees
  <2> QED  BY <2>1, <2>2
<1>5. /\ Agrees(s, Increment(s, b), RefAdd(s, b, 1), unlike)
      /\ Agrees(s, Decrement(s, b), RefSub(s, b, 1), unlike)
  BY <1>3, <1>4, CountIs
<1>6. Agrees(s, Negate(s, a), RefNeg(s, a), unlike)
  <2> DEFINE o == Negate(s, a)
             p == RefSub(s, 0, a)
             q == RefNeg(s, a)
  <2>1. Agrees(s, o, p, {})
    <3>1. \A u : Agrees(s, Subtract(s, a, 0, 0), RefSub(s, 0, a), u)
      <4> SUFFICES ASSUME NEW u
                   PROVE  Agrees(s, Subtract(s, a, 0, 0), RefSub(s, 0, a), u)
        OBVIOUS
      <4>1. (a + 0) % Mod(s) = a /\ 0 \in {0, 1} /\ 0 # 1 /\ 0 \in 0 .. Mod(s) - 1  BY <1>2, <1>3
      <4>2. Agrees(s, Subtract(s, a, 0, 0), RefSub(s, 0, (a + 0) % Mod(s)), u)
        BY <4>1, SubAgrees
      <4> QED  BY <4>1, <4>2
    <3> QED  BY <3>1, CountIs
  <2>2. q = [p EXCEPT !.flags.cy = p.val # 0]  BY DEF RefNeg
  <2>3. /\ q.val = p.val /\ q.flags["z"] = p.flags["z"] /\ q.flags["s"] = p.flags["s"]
        /\ q.flags["ov"] = p.flags["ov"] /\ q.flags["cy"] = (p.val # 0)
    BY <2>2 DEF RefSub, Result
  <2>4. o.flags["cy"] = (a # 0) /\ o.result = (-a) % M  BY DEF Negate, Outcome
  <2>5. o.result = IF a = 0 THEN 0 ELSE M - a
    <3>1. a \in 0 .. M - 1  OBVIOUS
    <3> HIDE DEF M, o
    <3>2. -a \in Int /\ -M <= -a /\ -a < 2 * M /\ (-a < 0 <=> a # 0) /\ ~(-a >= M)
      BY <1>1, <3>1
    <3>3. (-a) % M = IF -a < 0 THEN -a + M ELSE IF -a < M THEN -a ELSE -a - M
      BY <3>2, ModWithin DEF M
    <3> QED  BY <1>1, <2>4, <3>1, <3>2, <3>3
  <2>6. o.result % M = p.val  BY <2>1 DEF Agrees
  <2>7. o.result \in 0 .. M - 1 /\ (o.result # 0 <=> a # 0)
    <3>1. a \in 0 .. M - 1  OBVIOUS
    <3> HIDE DEF M, o
    <3> QED  BY <1>1, <2>5, <3>1
  <2>8. o.result % M = o.result
    <3> DEFINE x == o.result
    <3>1. x \in 0 .. M - 1  BY <2>7
    <3> HIDE DEF x
    <3>2. (x + 0) % Mod(s) = x /\ x + 0 = x  BY <1>2, <3>1
    <3> QED  BY <3>2 DEF x
  <2>9. (a # 0) = (p.val # 0)  BY <2>6, <2>7, <2>8
  <2>10. /\ o.flags["z"] = p.flags["z"] /\ o.flags["s"] = p.flags["s"]
         /\ o.flags["ov"] = p.flags["ov"]
    BY <2>1 DEF Agrees
  <2> HIDE DEF o, p, q
  <2> QED  BY <2>3, <2>4, <2>6, <2>9, <2>10 DEF Agrees, o, q, M
<1> QED  BY <1>4, <1>5, <1>6

\* What is in a vector is left as it is.
LEMMA ModSame ==
  ASSUME NEW s \in Size, NEW x \in 0 .. Mod(s) - 1
  PROVE  x % Mod(s) = x
<1> DEFINE M == Mod(s)
<1>1. M \in Nat \ {0} /\ x \in 0 .. M - 1  BY Vectors
<1> HIDE DEF M
<1>2. x \in Int /\ -M <= x /\ x < 2 * M /\ ~(x < 0) /\ x < M  BY <1>1
<1> QED  BY <1>2, ModWithin DEF M

\* MUL and MULU: the product is out of the vector when its upper part is not zero.
LEMMA MultiplyAgrees ==
  ASSUME NEW s \in Size, NEW x \in Int, NEW y \in Int, NEW f, NEW unlike
  PROVE  Agrees(s, Multiply(s, x, y, f), RefMul(s, y, x, f), unlike)
<1> DEFINE M == Mod(s)
           p == x * y
           q == p \div M
           r == p % M
<1>1. p \in Int /\ M \in Nat \ {0} /\ y * x = p  BY Vectors, SMTT(20)
<1> HIDE DEF p, M
<1>2. q \in Int /\ r \in 0 .. M - 1 /\ p = M * q + r  BY <1>1, IntDivision
<1>3. (p \notin 0 .. M - 1) = (q # 0)
  <2>1. q # 0 => p \notin 0 .. M - 1
    <3> DEFINE A == M * q
    <3>1. /\ q < 0 => A + M <= M * 0 /\ M * 0 = 0
          /\ 0 < q => M * 0 + M <= A /\ M * 0 = 0
          /\ A \in Int
      BY <1>1, <1>2, Apart
    <3>2. p = A + r  BY <1>2
    <3> HIDE DEF A, q, r
    <3> QED  BY <1>1, <1>2, <3>1, <3>2
  <2>2. q = 0 => p \in 0 .. M - 1
    <3> HIDE DEF q, r
    <3>1. q = 0 => M * q = 0  BY <1>1
    <3> QED  BY <1>1, <1>2, <3>1
  <2> QED  BY <2>1, <2>2
<1>4. /\ Multiply(s, x, y, f) = Outcome(s, r, f.cy, p \notin 0 .. M - 1)
      /\ RefMul(s, y, x, f) = Result(s, p, f.cy, q # 0)
  BY <1>1 DEF Multiply, RefMul, p, M
<1>5. Agrees(s, Outcome(s, r, f.cy, p \notin 0 .. M - 1), Result(s, p, f.cy, q # 0), unlike)
  <2>1. r = p % Mod(s)  BY DEF M
  <2> HIDE DEF r, q
  <2> QED  BY <1>1, <1>3, <2>1, OutcomeAgrees
<1> QED  BY <1>4, <1>5

\* What is left of quotients and remainders of vectors.
LEMMA QuotientFits ==
  ASSUME NEW s \in Size, NEW a \in 0 .. Mod(s) - 1, NEW b \in 0 .. Mod(s) - 1, a # 0
  PROVE  /\ b \div a \in 0 .. Mod(s) - 1 /\ b % a \in 0 .. Mod(s) - 1
         /\ b - a * (b \div a) = b % a
<1> DEFINE M == Mod(s)
<1>1. M \in Nat \ {0} /\ a \in 0 .. M - 1 /\ b \in 0 .. M - 1  BY Vectors
<1> HIDE DEF M
<1>2. b \in Nat /\ a \in Nat \ {0}  BY <1>1
<1>3. b \div a \in 0 .. b /\ b % a \in 0 .. a - 1  BY <1>2, Quotients
<1>4. b = a * (b \div a) + (b % a)  BY <1>2, Division
<1>5. b - a * (b \div a) = b % a
  <2> DEFINE A == a * (b \div a)
             q == b \div a
             r == b % a
  <2>1. A \in Int
    <3>1. q \in Int  BY <1>3
    <3> HIDE DEF q
    <3>2. a * q \in Int  BY <1>2, <3>1
    <3> QED  BY <3>2 DEF q
  <2>2. b = A + r /\ r \in Int  BY <1>3, <1>4
  <2> HIDE DEF A, r
  <2>3. b - A = r  BY <2>1, <2>2
  <2> QED  BY <2>3 DEF A, r
<1>6. b \div a \in 0 .. M - 1 /\ b % a \in 0 .. M - 1  BY <1>1, <1>3
<1> QED  BY <1>5, <1>6 DEF M

\* DIVU and REMU.
LEMMA DivideUnsignedAgrees ==
  ASSUME NEW s \in Size, NEW a \in 0 .. Mod(s) - 1, NEW b \in 0 .. Mod(s) - 1, NEW f, NEW unlike
  PROVE  /\ Agrees(s, DivideUnsigned(s, a, b, f), RefDivU(s, b, a, f), unlike)
         /\ Agrees(s, RemainderUnsigned(s, a, b, f), RefRemU(s, b, a, f), unlike)
<1> DEFINE q == IF a # 0 THEN b \div a ELSE b
           r == IF a # 0 THEN b % a ELSE b
<1>1. q \in 0 .. Mod(s) - 1 /\ r \in 0 .. Mod(s) - 1
  <2>1. CASE a = 0  BY <2>1
  <2>2. CASE a # 0  BY <2>2, QuotientFits
  <2> QED  BY <2>1, <2>2
<1>2. /\ DivideUnsigned(s, a, b, f) = Outcome(s, q, f.cy, FALSE)
      /\ RefDivU(s, b, a, f) = Result(s, q, f.cy, FALSE)
      /\ RemainderUnsigned(s, a, b, f) = Outcome(s, r, f.cy, FALSE)
      /\ RefRemU(s, b, a, f) = Result(s, r, f.cy, FALSE)
  BY DEF DivideUnsigned, RefDivU, RemainderUnsigned, RefRemU
<1> HIDE DEF q, r
<1>3. q = q % Mod(s) /\ r = r % Mod(s) /\ q \in Int /\ r \in Int  BY <1>1, ModSame
<1> QED  BY <1>2, <1>3, OutcomeAgrees

\* DIV and REM, of numbers that are not negative.
LEMMA DivideAgrees ==
  ASSUME NEW s \in Size, NEW a \in 0 .. Mod(s) - 1, NEW b \in 0 .. Mod(s) - 1, NEW f, NEW unlike,
         a # 0 /\ (Msb(a, s) \/ Msb(b, s)) => {"reg", "z", "s"} \subseteq unlike
  PROVE  /\ Agrees(s, Divide(s, a, b, f), RefDiv(s, b, a, f), unlike)
         /\ Agrees(s, Remainder(s, a, b, f), RefRem(s, b, a, f), unlike)
<1> DEFINE M == Mod(s)
           ov == b = Half[s] /\ a = Mod(s) - 1
           q == IF a # 0 /\ ~ov THEN (Sext(b, s) \div Sext(a, s)) % Mod(s) ELSE b
           rq == IF a # 0 /\ ~ov THEN Quotient(Signed(b, s), Signed(a, s)) ELSE b
           x == Signed(b, s)
           y == Signed(a, s)
           r == IF a # 0 THEN (Sext(b, s) % Sext(a, s)) % Mod(s) ELSE b
           rr == IF a # 0 THEN x - y * Quotient(x, y) ELSE b
<1>1. /\ Divide(s, a, b, f) = Outcome(s, q, f.cy, ov)
      /\ RefDiv(s, b, a, f) = Result(s, rq, f.cy, ov)
      /\ Remainder(s, a, b, f) = Outcome(s, r, f.cy, FALSE)
      /\ RefRem(s, b, a, f) = Result(s, rr, f.cy, FALSE)
  BY DEF Divide, RefDiv, Remainder, RefRem, DivideOverflow
<1>2. ASSUME a # 0, Msb(a, s) \/ Msb(b, s)
      PROVE  /\ Agrees(s, Divide(s, a, b, f), RefDiv(s, b, a, f), unlike)
             /\ Agrees(s, Remainder(s, a, b, f), RefRem(s, b, a, f), unlike)
  <2>1. "reg" \in unlike /\ "z" \in unlike /\ "s" \in unlike  BY <1>2
  <2> HIDE DEF q, rq, r, rr, ov
  <2>2. /\ \A o, t, c : Outcome(s, o, c, t).flags["cy"] = c /\ Outcome(s, o, c, t).flags["ov"] = t
        /\ \A o, t, c : Result(s, o, c, t).flags["cy"] = c /\ Result(s, o, c, t).flags["ov"] = t
    BY DEF Outcome, Result
  <2>3. \A n \in {"z", "s", "ov", "cy"} \ unlike : n = "ov" \/ n = "cy"  BY <2>1
  <2>4. /\ Divide(s, a, b, f).flags["cy"] = f.cy /\ RefDiv(s, b, a, f).flags["cy"] = f.cy
        /\ Divide(s, a, b, f).flags["ov"] = ov /\ RefDiv(s, b, a, f).flags["ov"] = ov
    BY <1>1, <2>2
  <2>5. /\ Remainder(s, a, b, f).flags["cy"] = f.cy /\ RefRem(s, b, a, f).flags["cy"] = f.cy
        /\ Remainder(s, a, b, f).flags["ov"] = FALSE /\ RefRem(s, b, a, f).flags["ov"] = FALSE
    <3>1. /\ Outcome(s, r, f.cy, FALSE).flags["ov"] = FALSE
          /\ Outcome(s, r, f.cy, FALSE).flags["cy"] = f.cy
      BY DEF Outcome
    <3>2. /\ Result(s, rr, f.cy, FALSE).flags["ov"] = FALSE
          /\ Result(s, rr, f.cy, FALSE).flags["cy"] = f.cy
      BY DEF Result
    <3> QED  BY <1>1, <3>1, <3>2
  <2>6. Agrees(s, Divide(s, a, b, f), RefDiv(s, b, a, f), unlike)
    BY <2>1, <2>3, <2>4 DEF Agrees
  <2>7. Agrees(s, Remainder(s, a, b, f), RefRem(s, b, a, f), unlike)
    BY <2>1, <2>3, <2>5 DEF Agrees
  <2> QED  BY <2>6, <2>7
<1>3. ASSUME ~(a # 0 /\ (Msb(a, s) \/ Msb(b, s)))
      PROVE  /\ Agrees(s, Divide(s, a, b, f), RefDiv(s, b, a, f), unlike)
             /\ Agrees(s, Remainder(s, a, b, f), RefRem(s, b, a, f), unlike)
  <2>1. /\ rq \in 0 .. M - 1 /\ q = rq
        /\ rr \in 0 .. M - 1 /\ r = rr
    <3>1. CASE a = 0
      <4>1. q = b /\ rq = b /\ r = b /\ rr = b  BY <3>1
      <4> QED  BY <4>1
    <3>2. CASE a # 0
      <4>1. ~Msb(a, s) /\ ~Msb(b, s)  BY <1>3, <3>2
      <4>2. Signed(a, s) = a /\ Signed(b, s) = b  BY <4>1 DEF Signed
      <4>3. Sext(a, s) = a /\ Sext(b, s) = b
        <5>1. "SZ_WORD" \in Size  BY DEF Size
        <5>2. a \in 0 .. Mod("SZ_WORD") - 1 /\ b \in 0 .. Mod("SZ_WORD") - 1
          BY VectorWord DEF Register
        <5> QED  BY <4>2, <5>1, <5>2, ModSame DEF Sext
      <4>4. ~ov
        <5>1. Half[s] >= Half[s]  BY Halves
        <5> QED  BY <4>1, <5>1 DEF Msb
      <4>5. Quotient(b, a) = b \div a
        <5>1. a \in Nat /\ b \in Nat  BY Vectors
        <5>2. ~(a < 0) /\ ~(b < 0)  BY <5>1
        <5> QED  BY <5>2 DEF Quotient, Abs
      <4> DEFINE d == b \div a
                 e == b % a
      <4>6. d \in 0 .. M - 1 /\ e \in 0 .. M - 1 /\ b - a * d = e  BY <3>2, QuotientFits
      <4>7. q = d % Mod(s) /\ rq = d /\ r = e % Mod(s) /\ rr = b - a * d
        <5>1. q = (b \div a) % Mod(s)  BY <3>2, <4>3, <4>4
        <5>2. rq = b \div a  BY <3>2, <4>2, <4>4, <4>5
        <5>3. r = (b % a) % Mod(s)  BY <3>2, <4>3
        <5>4. rr = b - a * (b \div a)  BY <3>2, <4>2, <4>5
        <5> QED  BY <5>1, <5>2, <5>3, <5>4
      <4> HIDE DEF d, e
      <4>8. d % Mod(s) = d /\ e % Mod(s) = e  BY <4>6, ModSame
      <4> QED  BY <4>6, <4>7, <4>8
    <3> QED  BY <3>1, <3>2
  <2> HIDE DEF q, rq, r, rr
  <2>2. q = rq % Mod(s) /\ r = rr % Mod(s) /\ rq \in Int /\ rr \in Int  BY <2>1, ModSame
  <2> QED  BY <1>1, <2>2, OutcomeAgrees
<1> QED  BY <1>2, <1>3

\* The bits of a vector are below its width, and what has only those is a vector.
LEMMA BitsFit ==
  ASSUME NEW s \in Size
  PROVE  /\ \A x \in 0 .. Mod(s) - 1 : \A j \in Bits(x) : j \in 0 .. Width[s] - 1
         /\ \A S : (\A j \in S \cap (0 .. WordBits - 1) : j < Width[s]) =>
                     FromBits(S) \in 0 .. Mod(s) - 1
<1> DEFINE w == Width[s]
           M == Mod(s)
<1>1. /\ w \in Nat \ {0, 1} /\ WordBits \in Nat \ {0, 1} /\ w <= WordBits
      /\ M = Two[w] /\ Mod("SZ_WORD") = Two[WordBits] /\ M \in Nat \ {0}
  BY Vectors
<1>2. ASSUME NEW x \in 0 .. M - 1, NEW j \in Bits(x)
      PROVE  j \in 0 .. w - 1
  <2>1. j \in 0 .. WordBits - 1 /\ Bit(x, j)  BY DEF Bits
  <2>2. CASE j < w  BY <1>1, <2>1, <2>2
  <2>3. CASE ~(j < w)
    <3> HIDE DEF M, w
    <3>1. x \in 0 .. Two[w] - 1 /\ w \in Nat /\ j \in Nat /\ j >= w  BY <1>1, <2>1, <2>3
    <3> QED  BY <2>1, <3>1, BitsBelow
  <2> QED  BY <2>2, <2>3
<1>3. ASSUME NEW S, \A j \in S \cap (0 .. WordBits - 1) : j < w
      PROVE  FromBits(S) \in 0 .. M - 1
  <2> DEFINE x == FromBits(S)
             r == x % M
             q == x \div M
  <2>1. x \in Nat /\ x \in 0 .. Two[WordBits] - 1  BY <1>1, FromBitsWord DEF Register
  <2>2. \A j \in 0 .. WordBits - 1 : Bit(x, j) = (j \in S)  BY FromBitsBits
  <2> HIDE DEF x, M, w
  <2>3. r \in 0 .. M - 1 /\ q \in Nat /\ x = M * q + r  BY <1>1, <2>1, Division
  <2> HIDE DEF r, q
  <2>4. r \in 0 .. Two[WordBits] - 1
    <3>1. Two[w] <= Two[WordBits] /\ Two[WordBits] \in Nat  BY <1>1, TwoGrows
    <3> QED  BY <1>1, <2>3, <3>1
  <2>5. ASSUME NEW j \in 0 .. WordBits - 1
        PROVE  Bit(x, j) = Bit(r, j)
    <3>1. w \in Nat /\ r \in 0 .. Two[w] - 1 /\ j \in Nat  BY <1>1, <2>3
    <3>2. CASE j < w
      <4>1. Bit(r + Two[w] * q, j) = IF j < w THEN Bit(r, j) ELSE Bit(q, j - w)
        BY <2>3, <3>1, BitSplit
      <4>2. r + Two[w] * q = x
        <5> DEFINE A == M * q
        <5>1. A \in Nat /\ x = A + r /\ A = Two[w] * q  BY <1>1, <2>3, Products, SMTT(20)
        <5> HIDE DEF A
        <5> QED  BY <2>3, <5>1
      <4> QED  BY <3>2, <4>1, <4>2
    <3>3. CASE ~(j < w)
      <4>1. ~Bit(r, j)  BY <1>1, <3>1, <3>3, BitsBelow
      <4>2. j \notin S  BY <1>3, <3>3
      <4>3. ~Bit(x, j)  BY <2>2, <4>2
      <4>4. Bit(r, j) = FALSE /\ Bit(x, j) = FALSE  BY <4>1, <4>3 DEF Bit
      <4> QED  BY <4>4
    <3> QED  BY <3>2, <3>3
  <2>6. x = r  BY <1>1, <2>1, <2>4, <2>5, SameBits
  <2> QED  BY <2>3, <2>6 DEF x
<1> QED  BY <1>2, <1>3

\* A word with given bits is the one put together from them.
LEMMA FromBitsSame ==
  ASSUME NEW S, NEW x \in Register, \A j \in 0 .. WordBits - 1 : Bit(x, j) = (j \in S)
  PROVE  FromBits(S) = x
<1>1. "SZ_WORD" \in Size  BY DEF Size
<1>2. WordBits \in Nat /\ Mod("SZ_WORD") = Two[WordBits]  BY <1>1, Vectors
<1>3. FromBits(S) \in 0 .. Two[WordBits] - 1 /\ x \in 0 .. Two[WordBits] - 1
  BY <1>2, FromBitsWord DEF Register
<1>4. \A j \in 0 .. WordBits - 1 : Bit(FromBits(S), j) = Bit(x, j)  BY FromBitsBits
<1> QED  BY <1>2, <1>3, <1>4, SameBits

\* AND, OR and XOR, and the carry the core clears.
LEMMA LogicAgrees ==
  ASSUME NEW s \in Size, NEW S, \A j \in S \cap (0 .. WordBits - 1) : j < Width[s],
         NEW f, f.cy \in BOOLEAN, NEW unlike, f.cy => "cy" \in unlike
  PROVE  Agrees(s, Logic(s, S), RefLogic(s, S, f), unlike)
<1> DEFINE x == FromBits(S)
<1>1. x \in 0 .. Mod(s) - 1  BY BitsFit
<1>2. Logic(s, S) = Outcome(s, x, FALSE, FALSE) /\ RefLogic(s, S, f) = Result(s, x, f.cy, FALSE)
  BY DEF Logic, RefLogic
<1>3. "cy" \in unlike \/ FALSE = f.cy  OBVIOUS
<1> HIDE DEF x
<1>4. x = x % Mod(s) /\ x \in Int  BY <1>1, ModSame
<1> DEFINE no == FALSE
<1>5. "cy" \in unlike \/ no = f.cy  BY <1>3
<1>6. "ov" \in unlike \/ no = no  OBVIOUS
<1> HIDE DEF no
<1>7. Agrees(s, Outcome(s, x, no, no), Result(s, x, f.cy, no), unlike)
  BY <1>4, <1>5, <1>6, OutcomeAgrees
<1> QED  BY <1>2, <1>7 DEF no

\* What is missing from ones has the bits a number has not.
LEMMA NotBits ==
  ASSUME NEW N \in Nat, NEW x \in 0 .. Two[N] - 1, NEW j \in 0 .. N - 1
  PROVE  Bit((Two[N] - 1) - x, j) <=> ~Bit(x, j)
<1> DEFINE D == Two[j]
           q == x \div D
           r == x % D
           k == (N - j) - 1
           E == Two[k]
<1>1. k \in Nat /\ j \in Nat /\ j + (k + 1) = N /\ k + 1 \in Nat  OBVIOUS
<1>2. E \in Nat \ {0} /\ D \in Nat \ {0} /\ Two[k + 1] = 2 * E  BY <1>1, TwoIs
<1>3. Two[N] = D * (2 * E)
  <2>1. Two[j + (k + 1)] = Two[j] * Two[k + 1]
    <3> HIDE DEF k
    <3> QED  BY <1>1, TwoSum
  <2> HIDE DEF k, E, D
  <2>2. Two[N] = D * Two[k + 1]
    <3>1. Two[N] = Two[j] * Two[k + 1]  BY <1>1, <2>1
    <3> QED  BY <3>1 DEF D
  <2> QED  BY <1>2, <2>2
<1> HIDE DEF D, E, k
<1>4. q \in Nat /\ r \in 0 .. D - 1 /\ x = D * q + r
  <2>1. x \in Nat  BY <1>2, TwoIs
  <2> QED  BY <1>2, <2>1, Division
<1> HIDE DEF q, r
<1> DEFINE p == (2 * E - 1) - q
           e == (D - 1) - r
<1>5. p \in Int /\ e \in 0 .. D - 1  BY <1>2, <1>4
<1>6. (Two[N] - 1) - x = D * p + e
  <2>1. D * p = D * (2 * E) - D - D * q
    <3>1. D * ((2 * E - 1) - q) = D * (2 * E) - D - D * q  BY <1>2, <1>4, SMTT(20)
    <3> QED  BY <3>1
  <2> DEFINE A == D * (2 * E)
             B == D * q
  <2>2. A \in Int /\ B \in Int  BY <1>2, <1>4
  <2>3. D * p = A - D - B /\ x = B + r /\ Two[N] = A  BY <1>3, <1>4, <2>1
  <2> HIDE DEF A, B
  <2>4. D * p \in Int  BY <1>2, <2>2, <2>3
  <2> QED  BY <1>2, <1>4, <2>2, <2>3, <2>4
<1>7. ((Two[N] - 1) - x) \div D = p
  <2> HIDE DEF p, e
  <2>1. (D * p + e) \div D = p  BY <1>2, <1>5, DivideInt
  <2> QED  BY <1>6, <2>1
<1>8. x \div D = q
  <2>1. (D * q + r) \div D = q  BY <1>2, <1>4, DivideInt
  <2> QED  BY <1>4, <2>1
<1>9. p % 2 = 1 <=> q % 2 # 1
  BY <1>2, <1>4
<1> QED  BY <1>7, <1>8, <1>9 DEF Bit, D

\* NOT of the reference.
Inverted(s, a, f) == Result(s, -a - 1, f.cy, FALSE)

\* NOT.
LEMMA NotAgrees ==
  ASSUME NEW s \in Size, NEW a \in 0 .. Mod(s) - 1,
         NEW f, f.cy \in BOOLEAN, NEW unlike, f.cy => "cy" \in unlike
  PROVE  Agrees(s, Logic(s, Bits(Mod(s) - 1) \ Bits(a)), Inverted(s, a, f), unlike)
<1> DEFINE M == Mod(s)
           w == Width[s]
           S == Bits(M - 1) \ Bits(a)
           x == (M - 1) - a
<1>1. /\ w \in Nat \ {0, 1} /\ WordBits \in Nat \ {0, 1} /\ w <= WordBits
      /\ M = Two[w] /\ Mod("SZ_WORD") = Two[WordBits] /\ M \in Nat \ {0}
  BY Vectors
<1>2. a \in 0 .. M - 1 /\ x \in 0 .. M - 1 /\ M - 1 \in 0 .. M - 1 /\ 0 \in 0 .. M - 1
  <2>1. a \in 0 .. M - 1  OBVIOUS
  <2> HIDE DEF M
  <2> QED  BY <1>1, <2>1
<1>3. ASSUME NEW j \in 0 .. WordBits - 1
      PROVE  Bit(x, j) = (j \in S)
  <2>1. j \in S <=> Bit(M - 1, j) /\ ~Bit(a, j)  BY DEF Bits
  <2>2. CASE j < w
    <3>1. j \in 0 .. w - 1 /\ w \in Nat  BY <1>1, <2>2
    <3>2. Bit((Two[w] - 1) - a, j) <=> ~Bit(a, j)  BY <1>1, <1>2, <3>1, NotBits
    <3>3. Bit((Two[w] - 1) - 0, j) <=> ~Bit(0, j)  BY <1>1, <1>2, <3>1, NotBits
    <3>4. ~Bit(0, j)
      <4>1. Two[j] \in Nat \ {0} /\ 0 \div Two[j] = 0
        <5>1. Two[j] \in Nat \ {0}  BY <3>1, TwoIs
        <5> DEFINE D == Two[j]
        <5> HIDE DEF D
        <5>2. D \in Nat \ {0}  BY <5>1 DEF D
        <5>3. D * 0 + 0 = 0 /\ (D * 0 + 0) \div D = 0  BY <5>2, DivideInt
        <5> QED  BY <5>1, <5>3 DEF D
      <4> QED  BY <4>1 DEF Bit
    <3>5. (Two[w] - 1) - 0 = M - 1 /\ (Two[w] - 1) - a = x
      <4> HIDE DEF M
      <4> QED  BY <1>1
    <3>6. Bit(x, j) <=> ~Bit(a, j)
      <4> HIDE DEF x
      <4> QED  BY <3>2, <3>5
    <3>7. Bit(M - 1, j)
      <4> HIDE DEF M
      <4> QED  BY <3>3, <3>4, <3>5
    <3> HIDE DEF x, M, S
    <3>8. Bit(x, j) <=> j \in S  BY <2>1, <3>6, <3>7
    <3> QED  BY <3>8 DEF Bit
  <2>3. CASE ~(j < w)
    <3>1. w \in Nat /\ j \in Nat /\ j >= w  BY <1>1, <2>3
    <3>2. ~Bit(x, j)
      <4> HIDE DEF x
      <4> QED  BY <1>1, <1>2, <3>1, BitsBelow
    <3>3. ~Bit(M - 1, j)
      <4> DEFINE y == M - 1
      <4>1. y \in 0 .. Two[w] - 1  BY <1>1, <1>2
      <4> HIDE DEF y
      <4>2. ~Bit(y, j)  BY <3>1, <4>1, BitsBelow
      <4> QED  BY <4>2 DEF y
    <3> HIDE DEF x, M, S
    <3>4. Bit(x, j) = FALSE /\ (j \in S) = FALSE  BY <2>1, <3>2, <3>3 DEF Bit
    <3> QED  BY <3>4
  <2> QED  BY <2>2, <2>3
<1> HIDE DEF x, S
<1>4. x \in Register
  <2>1. x \in 0 .. Mod(s) - 1  BY <1>2
  <2> QED  BY <2>1, VectorWord
<1>5. FromBits(S) = x  BY <1>3, <1>4, FromBitsSame
<1>6. (-a - 1) % M = x
  <2> HIDE DEF M
  <2>1. -a - 1 \in Int /\ -M <= -a - 1 /\ -a - 1 < 2 * M /\ -a - 1 < 0  BY <1>1, <1>2
  <2>2. (-a - 1) % M = -a - 1 + M  BY <2>1, ModWithin DEF M
  <2> QED  BY <1>1, <1>2, <2>2 DEF x
<1> DEFINE no == FALSE
           n == -a - 1
<1>7. Logic(s, S) = Outcome(s, x, no, no)  BY <1>5 DEF Logic
<1>8. "cy" \in unlike \/ no = f.cy  OBVIOUS
<1>9. x = n % Mod(s) /\ n \in Int
  <2> HIDE DEF M
  <2>1. n \in Int  BY <1>1, <1>2
  <2> QED  BY <1>6, <2>1 DEF M
<1> HIDE DEF no, n
<1>10. Agrees(s, Outcome(s, x, no, no), Result(s, n, f.cy, no), unlike)
  BY <1>8, <1>9, OutcomeAgrees
<1> QED  BY <1>7, <1>10 DEF no, n, S, M, Inverted

\* One bit turned round is the only one that changes.
LEMMA BitTurned ==
  ASSUME NEW b \in Nat, NEW i \in Nat, NEW j \in Nat
  PROVE  /\ Bit(b, i) => (Bit(b - Two[i], j) <=> Bit(b, j) /\ j # i)
         /\ ~Bit(b, i) => (Bit(b + Two[i], j) <=> Bit(b, j) \/ j = i)
<1> DEFINE P == Two[i]
           m == b \div P
           l == b % P
<1>1. P \in Nat \ {0}  BY TwoIs
<1> HIDE DEF P
<1>2. m \in Nat /\ l \in 0 .. P - 1 /\ b = P * m + l  BY <1>1, Division
<1>3. Bit(b, i) <=> m % 2 = 1  BY DEF Bit, P
<1> HIDE DEF m, l
<1>4. \A x \in Nat : Bit(l + P * x, j) = IF j < i THEN Bit(l, j) ELSE Bit(x, j - i)
  BY <1>2, BitSplit DEF P
<1>5. ASSUME NEW x \in Nat, x % 2 = 0
      PROVE  /\ ~Bit(x, 0) /\ Bit(x + 1, 0)
             /\ \A k \in Nat : Bit(x + 1, k + 1) <=> Bit(x, k + 1)
  <2>1. x + 1 \in Nat /\ (x + 1) % 2 = 1 /\ (x + 1) \div 2 = x \div 2  BY <1>5
  <2>2. Two[0] = 1 /\ x \div 1 = x /\ (x + 1) \div 1 = x + 1  BY TwoIs
  <2>3. ~Bit(x, 0) /\ Bit(x + 1, 0)  BY <1>5, <2>1, <2>2 DEF Bit
  <2>4. \A k \in Nat : Bit(x, k + 1) = Bit(x \div 2, k)  BY LowestBit
  <2>5. \A k \in Nat : Bit(x + 1, k + 1) = Bit((x + 1) \div 2, k)  BY <2>1, LowestBit
  <2> QED  BY <2>1, <2>3, <2>4, <2>5
<1>6. ASSUME NEW x \in Nat, x % 2 = 0
      PROVE  Bit(l + P * (x + 1), j) <=> Bit(l + P * x, j) \/ j = i
  <2>1. x + 1 \in Nat  OBVIOUS
  <2>2. Bit(l + P * x, j) = IF j < i THEN Bit(l, j) ELSE Bit(x, j - i)  BY <1>4
  <2>3. Bit(l + P * (x + 1), j) = IF j < i THEN Bit(l, j) ELSE Bit(x + 1, j - i)  BY <1>4, <2>1
  <2>4. CASE j < i
    <3>1. j # i  BY <2>4
    <3> QED  BY <2>2, <2>3, <2>4, <3>1
  <2>5. CASE j = i
    <3>1. j - i = 0 /\ ~(j < i)  BY <2>5
    <3>2. Bit(x + 1, 0)  BY <1>6, <1>5
    <3> QED  BY <2>3, <2>5, <3>1, <3>2
  <2>6. CASE j > i
    <3> DEFINE k == (j - i) - 1
    <3>1. k \in Nat /\ j - i = k + 1 /\ ~(j < i) /\ j # i  BY <2>6
    <3> HIDE DEF k
    <3>2. Bit(x + 1, k + 1) <=> Bit(x, k + 1)  BY <1>6, <1>5, <3>1
    <3> QED  BY <2>2, <2>3, <3>1, <3>2
  <2> QED  BY <2>4, <2>5, <2>6
<1>7. ASSUME Bit(b, i)
      PROVE  Bit(b - P, j) <=> Bit(b, j) /\ j # i
  <2> DEFINE x == m - 1
  <2>1. x \in Nat /\ x % 2 = 0 /\ m = x + 1  BY <1>2, <1>3, <1>7
  <2>2. P * m = P * x + P /\ P * x \in Nat
    <3> HIDE DEF x
    <3>1. P * (x + 1) = P * x + P /\ P * x \in Nat  BY <1>1, <2>1, Products, SMTT(20)
    <3> QED  BY <2>1, <3>1
  <2> HIDE DEF x
  <2>3. b = l + P * (x + 1) /\ b - P = l + P * x
    <3> DEFINE A == P * x
               B == P * m
    <3>1. B = A + P /\ A \in Nat /\ b = B + l /\ B = P * (x + 1)  BY <1>2, <2>1, <2>2
    <3> HIDE DEF A, B
    <3>2. b = l + B /\ b - P = l + A  BY <1>1, <1>2, <3>1
    <3> QED  BY <3>1, <3>2 DEF A
  <2>4. Bit(b, j) <=> Bit(b - P, j) \/ j = i  BY <1>6, <2>1, <2>3
  <2>5. j = i => ~Bit(b - P, j)
    <3>1. SUFFICES ASSUME j = i
                   PROVE  ~Bit(b - P, j)
      OBVIOUS
    <3>2. Bit(l + P * x, j) = IF j < i THEN Bit(l, j) ELSE Bit(x, j - i)  BY <1>4, <2>1
    <3>3. ~(j < i) /\ j - i = 0  BY <3>1
    <3>4. ~Bit(x, 0)  BY <1>5, <2>1
    <3> QED  BY <2>3, <3>2, <3>3, <3>4
  <2> QED  BY <2>4, <2>5
<1>8. ASSUME ~Bit(b, i)
      PROVE  Bit(b + P, j) <=> Bit(b, j) \/ j = i
  <2>1. m % 2 = 0  BY <1>2, <1>3, <1>8
  <2>2. P * (m + 1) = P * m + P /\ P * m \in Nat  BY <1>1, <1>2, Products, SMTT(20)
  <2>3. b = l + P * m /\ b + P = l + P * (m + 1)
    <3> DEFINE A == P * m
               B == P * (m + 1)
    <3>1. B = A + P /\ A \in Nat /\ b = A + l  BY <1>2, <2>2
    <3> HIDE DEF A, B
    <3>2. b = l + A /\ b + P = l + B  BY <1>1, <1>2, <3>1
    <3> QED  BY <3>2 DEF A, B
  <2> QED  BY <1>2, <1>6, <2>1, <2>3
<1> QED  BY <1>7, <1>8 DEF P

\* The operations on one bit, of an index that is in a word.
LEMMA BitAgrees ==
  ASSUME NEW op \in {"ALU_SET1", "ALU_CLR1", "ALU_NOT1", "ALU_TEST1"},
         NEW i \in 0 .. WordBits - 1, NEW b \in Register, NEW f, NEW unlike
  PROVE  Agrees("SZ_WORD", BitOperation(op, i, b, f), RefBit(op, i, b, f), unlike)
<1> DEFINE cy == Bit(b, i)
           o == BitOperation(op, i, b, f)
           p == RefBit(op, i, b, f)
<1>0. "SZ_WORD" \in Size  BY DEF Size
<1>1. WordBits \in Nat \ {0, 1} /\ b \in Nat /\ b \in 0 .. Mod("SZ_WORD") - 1
  BY <1>0, Vectors DEF Register
<1>2. i % WordBits = i /\ i \in Nat
  <2> DEFINE w == WordBits
  <2>1. i \in 0 .. w - 1 /\ w \in Nat \ {0}  BY <1>1
  <2> HIDE DEF w
  <2>2. i % w = i  BY <2>1, SMTT(20)
  <2> QED  BY <1>1, <2>2 DEF w
<1>3. FromBits(Bits(b) \cup {i}) = IF cy THEN b ELSE b + Two[i]
  <2> DEFINE x == IF cy THEN b ELSE b + Two[i]
             S == Bits(b) \cup {i}
  <2>1. x \in Register
    <3>1. CASE cy  BY <3>1
    <3>2. CASE ~cy  BY <3>2, TurnBit
    <3> QED  BY <3>1, <3>2
  <2>2. ASSUME NEW j \in 0 .. WordBits - 1
        PROVE  Bit(x, j) = (j \in S)
    <3>1. j \in Nat /\ (j \in S <=> Bit(b, j) \/ j = i)  BY DEF Bits
    <3>2. CASE cy
      <4>1. Bit(x, j) <=> j \in S  BY <3>1, <3>2
      <4> QED  BY <4>1 DEF Bit
    <3>3. CASE ~cy
      <4>1. Bit(b + Two[i], j) <=> Bit(b, j) \/ j = i  BY <1>1, <1>2, <3>1, <3>3, BitTurned
      <4>2. Bit(x, j) <=> j \in S  BY <3>1, <3>3, <4>1
      <4> QED  BY <4>2 DEF Bit
    <3> QED  BY <3>2, <3>3
  <2> HIDE DEF x, S
  <2>3. FromBits(S) = x  BY <2>1, <2>2, FromBitsSame
  <2> QED  BY <2>3 DEF x, S
<1>4. FromBits(Bits(b) \ {i}) = IF cy THEN b - Two[i] ELSE b
  <2> DEFINE x == IF cy THEN b - Two[i] ELSE b
             S == Bits(b) \ {i}
  <2>1. x \in Register
    <3>1. CASE cy  BY <3>1, TurnBit
    <3>2. CASE ~cy  BY <3>2
    <3> QED  BY <3>1, <3>2
  <2>2. ASSUME NEW j \in 0 .. WordBits - 1
        PROVE  Bit(x, j) = (j \in S)
    <3>1. j \in Nat /\ (j \in S <=> Bit(b, j) /\ j # i)  BY DEF Bits
    <3>2. CASE ~cy
      <4>1. Bit(b, j) => j # i  BY <3>2
      <4>2. Bit(x, j) <=> j \in S  BY <3>1, <3>2, <4>1
      <4> QED  BY <4>2 DEF Bit
    <3>3. CASE cy
      <4>1. Bit(b - Two[i], j) <=> Bit(b, j) /\ j # i  BY <1>1, <1>2, <3>1, <3>3, BitTurned
      <4>2. Bit(x, j) <=> j \in S  BY <3>1, <3>3, <4>1
      <4> QED  BY <4>2 DEF Bit
    <3> QED  BY <3>2, <3>3
  <2> HIDE DEF x, S
  <2>3. FromBits(S) = x  BY <2>1, <2>2, FromBitsSame
  <2> QED  BY <2>3 DEF x, S
<1> DEFINE set == FromBits(Bits(b) \cup {i})
           clr == FromBits(Bits(b) \ {i})
           not == IF cy THEN b - Two[i] ELSE b + Two[i]
<1>5. not \in Register
  <2>1. CASE cy  BY <2>1, TurnBit
  <2>2. CASE ~cy  BY <2>2, TurnBit
  <2> QED  BY <2>1, <2>2
<1>6. set \in Register /\ clr \in Register  BY FromBitsWord
<1>7. /\ o.result = CASE op = "ALU_SET1"  -> set
                      [] op = "ALU_CLR1"  -> clr
                      [] op = "ALU_NOT1"  -> not
                      [] op = "ALU_TEST1" -> b
      /\ o.flags = [f EXCEPT !.cy = cy, !.z = ~cy]
  BY <1>2 DEF BitOperation
<1>8. /\ p.val = CASE op = "ALU_SET1"  -> set
                   [] op = "ALU_CLR1"  -> clr
                   [] op = "ALU_NOT1"  -> not
                   [] op = "ALU_TEST1" -> b
      /\ p.flags = [f EXCEPT !.cy = cy, !.z = ~cy]
  <2>1. /\ p.val = CASE op = "ALU_SET1"  -> (IF cy THEN b ELSE b + Two[i])
                     [] op = "ALU_CLR1"  -> (IF cy THEN b - Two[i] ELSE b)
                     [] op = "ALU_NOT1"  -> not
                     [] op = "ALU_TEST1" -> b
        /\ p.flags = [f EXCEPT !.cy = cy, !.z = ~cy]
    BY DEF RefBit
  <2> HIDE DEF cy, p, not
  <2> QED  BY <1>3, <1>4, <2>1
<1> HIDE DEF o, p, set, clr, not, cy
<1>9. o.result = p.val /\ o.flags = p.flags  BY <1>7, <1>8
<1>10. o.result \in Register  BY <1>5, <1>6, <1>7
<1>11. o.result % Mod("SZ_WORD") = o.result
  <2> DEFINE x == o.result
  <2>1. x \in 0 .. Mod("SZ_WORD") - 1  BY <1>10 DEF Register
  <2> HIDE DEF x
  <2>2. x % Mod("SZ_WORD") = x  BY <1>0, <2>1, ModSame
  <2> QED  BY <2>2 DEF x
<1> QED  BY <1>9, <1>11 DEF Agrees, o, p

\* The bits of what is left of a number and of what is cut off.
LEMMA LowBits ==
  ASSUME NEW x \in Nat, NEW N \in Nat, NEW j \in Nat
  PROVE  /\ x % Two[N] \in 0 .. Two[N] - 1 /\ x \div Two[N] \in Nat
         /\ j < N => Bit(x % Two[N], j) = Bit(x, j)
         /\ ~(j < N) => ~Bit(x % Two[N], j)
         /\ Bit(x \div Two[N], j) = Bit(x, j + N)
<1> DEFINE P == Two[N]
           m == x \div P
           l == x % P
<1>1. P \in Nat \ {0}  BY TwoIs
<1> HIDE DEF P
<1>2. m \in Nat /\ l \in 0 .. P - 1 /\ x = P * m + l  BY <1>1, Division
<1>3. l \in Nat  BY <1>1, <1>2
<1> HIDE DEF m, l
<1>4. \A k \in Nat : Bit(l + P * m, k) = IF k < N THEN Bit(l, k) ELSE Bit(m, k - N)
  BY <1>2, BitSplit DEF P
<1>5. x = l + P * m
  <2> DEFINE A == P * m
  <2>1. A \in Nat /\ x = A + l  BY <1>1, <1>2, Products, SMTT(20)
  <2> HIDE DEF A
  <2>2. x = l + A  BY <1>3, <2>1
  <2> QED  BY <2>2 DEF A
<1>6. j < N => Bit(l, j) = Bit(x, j)  BY <1>4, <1>5
<1>7. Bit(m, j) = Bit(x, j + N)
  <2>1. j + N \in Nat /\ ~(j + N < N) /\ (j + N) - N = j  OBVIOUS
  <2>2. Bit(l + P * m, j + N) = Bit(m, (j + N) - N)  BY <1>4, <2>1
  <2> QED  BY <1>5, <2>1, <2>2
<1>8. ~(j < N) => ~Bit(l, j)
  <2>1. l \in 0 .. Two[N] - 1  BY <1>2 DEF P
  <2> QED  BY <2>1, BitsBelow
<1> QED  BY <1>2, <1>6, <1>7, <1>8 DEF l, m, P

\* RVBIT: there is one byte with the bits in reverse.
LEMMA ReverseBitsAgrees ==
  ASSUME NEW a \in Register
  PROVE  ReverseBits(a) % Mod("SZ_BYTE") = SwapBits(Sized(a, "SZ_BYTE"))
<1> DEFINE n == Width["SZ_BYTE"]
           M == Mod("SZ_BYTE")
           S == {n - 1 - i : i \in {j \in 0 .. n - 1 : Bit(a, j)}}
           y == FromBits(S)
           x == Sized(a, "SZ_BYTE")
           Q(z) == \A k \in 0 .. n - 1 : Bit(z, k) = Bit(x, n - 1 - k)
<1>0. "SZ_BYTE" \in Size  BY DEF Size
<1>1. n \in Nat \ {0, 1} /\ WordBits \in Nat \ {0, 1} /\ n <= WordBits /\ M = Two[n]
      /\ M \in Nat \ {0}
  BY <1>0, Vectors
<1>2. a \in Nat
  <2>1. Mod("SZ_WORD") \in Nat  BY Vectors DEF Size
  <2> QED  BY <2>1 DEF Register
<1>3. y \in 0 .. M - 1
  <2>1. \A j \in S \cap (0 .. WordBits - 1) : j < Width["SZ_BYTE"]
    <3> HIDE DEF n
    <3>1. \A j \in S : j < n  BY <1>1
    <3> QED  BY <3>1 DEF n
  <2> HIDE DEF S
  <2> QED  BY <1>0, <2>1, BitsFit
<1>4. \A k \in 0 .. n - 1 : Bit(y, k) = Bit(a, n - 1 - k)
  <2> SUFFICES ASSUME NEW k \in 0 .. n - 1
               PROVE  Bit(y, k) = Bit(a, n - 1 - k)
    OBVIOUS
  <2>1. k \in 0 .. WordBits - 1  BY <1>1
  <2>2. k \in S <=> Bit(a, n - 1 - k)
    <3> HIDE DEF n
    <3>1. k \in S => Bit(a, n - 1 - k)
      <4> SUFFICES ASSUME k \in S
                   PROVE  Bit(a, n - 1 - k)
        OBVIOUS
      <4>1. PICK i \in 0 .. n - 1 : Bit(a, i) /\ k = n - 1 - i  OBVIOUS
      <4>2. i = n - 1 - k  BY <1>1, <4>1
      <4> QED  BY <4>1, <4>2
    <3>2. Bit(a, n - 1 - k) => k \in S
      <4>1. n - 1 - k \in 0 .. n - 1 /\ n - 1 - (n - 1 - k) = k  BY <1>1
      <4> QED  BY <4>1
    <3> QED  BY <3>1, <3>2
  <2> HIDE DEF S
  <2>3. Bit(FromBits(S), k) = (k \in S)  BY <2>1, FromBitsBits
  <2> QED  BY <2>2, <2>3 DEF Bit
<1>5. \A j \in 0 .. n - 1 : Bit(x, j) = Bit(a, j)
  <2> SUFFICES ASSUME NEW j \in 0 .. n - 1
               PROVE  Bit(x, j) = Bit(a, j)
    OBVIOUS
  <2>1. j \in Nat /\ n \in Nat /\ j < n  BY <1>1
  <2>2. x = a % Two[n]  BY <1>1 DEF Sized
  <2> HIDE DEF n, x
  <2>3. Bit(a % Two[n], j) = Bit(a, j)  BY <1>2, <2>1, LowBits
  <2> QED  BY <2>2, <2>3
<1>6. Q(y)
  <2> SUFFICES ASSUME NEW k \in 0 .. n - 1
               PROVE  Bit(y, k) = Bit(x, n - 1 - k)
    OBVIOUS
  <2>1. n - 1 - k \in 0 .. n - 1
    <3> HIDE DEF n
    <3> QED  BY <1>1
  <2> HIDE DEF y, x, n
  <2> QED  BY <1>4, <1>5, <2>1
<1>7. SwapBits(x) = CHOOSE z \in 0 .. M - 1 : Q(z)  BY DEF SwapBits
<1> DEFINE c == CHOOSE z \in 0 .. M - 1 : Q(z)
<1>8. c \in 0 .. M - 1 /\ Q(c)
  <2> HIDE DEF y, Q
  <2> QED  BY <1>3, <1>6
<1>9. c = y
  <2>1. \A j \in 0 .. n - 1 : Bit(c, j) = Bit(y, j)  BY <1>6, <1>8
  <2> HIDE DEF c, y, M, Q
  <2> QED  BY <1>1, <1>3, <1>8, <2>1, SameBits
<1>10. ReverseBits(a) = y  BY DEF ReverseBits
<1>11. y % M = y
  <2> HIDE DEF y
  <2> QED  BY <1>0, <1>3, ModSame
<1> QED  BY <1>7, <1>9, <1>10, <1>11

\* The bits of a byte of a word.
LEMMA ByteBits ==
  ASSUME NEW y \in Nat, NEW m \in Nat
  PROVE  LET n == Width["SZ_BYTE"]
         IN /\ Byte(y, m) \in 0 .. Mod("SZ_BYTE") - 1
            /\ \A k \in 0 .. n - 1 : Bit(Byte(y, m), k) = Bit(y, k + m * n)
<1> DEFINE n == Width["SZ_BYTE"]
           d == m * n
           h == y \div Two[d]
<1>1. n \in Nat \ {0, 1} /\ Mod("SZ_BYTE") = Two[n]  BY Vectors DEF Size
<1> HIDE DEF n
<1>2. d \in Nat  BY <1>1
<1> HIDE DEF d
<1>3. 0 \in Nat /\ h \in Nat  BY <1>2, LowBits
<1>4. Byte(y, m) = h % Two[n]  BY <1>1 DEF Byte, d, n
<1> HIDE DEF h
<1>5. h % Two[n] \in 0 .. Two[n] - 1
  <2>1. n \in Nat  BY <1>1
  <2> QED  BY <1>3, <2>1, LowBits
<1>6. ASSUME NEW k \in 0 .. n - 1
      PROVE  Bit(h % Two[n], k) = Bit(y, k + d)
  <2>1. k \in Nat /\ n \in Nat /\ k < n  BY <1>1
  <2>2. Bit(h % Two[n], k) = Bit(h, k)  BY <1>3, <2>1, LowBits
  <2>3. Bit(y \div Two[d], k) = Bit(y, k + d)  BY <1>2, <2>1, LowBits
  <2> QED  BY <2>2, <2>3 DEF h
<1> QED  BY <1>1, <1>4, <1>5, <1>6 DEF n, d

\* RVBYT: there is one word with the bytes in reverse.
LEMMA ReverseBytesAgrees ==
  ASSUME NEW a \in Register
  PROVE  ReverseBytes(a) % Mod("SZ_WORD") = SwapBytes(a)
<1> DEFINE n == Width["SZ_BYTE"]
           M == Mod("SZ_WORD")
           to(i) == ((WordBits - n) - (n * (i \div n))) + (i % n)
           S == {to(i) : i \in Bits(a)}
           y == FromBits(S)
           Q(z) == \A m \in 0 .. 3 : Byte(z, m) = Byte(a, 3 - m)
<1>0. "SZ_BYTE" \in Size /\ "SZ_WORD" \in Size  BY DEF Size
<1>1. /\ n \in Nat \ {0, 1} /\ WordBits \in Nat \ {0, 1} /\ WordBits = 4 * n
      /\ M = Two[WordBits] /\ Mod("SZ_BYTE") = Two[n]
  BY <1>0, Vectors, UnitAssumption
<1>2. a \in Nat /\ a \in 0 .. M - 1
  <2>1. Mod("SZ_WORD") \in Nat  BY Vectors DEF Size
  <2> QED  BY <2>1 DEF Register
<1>3. y \in 0 .. M - 1 /\ y \in Nat
  <2>1. FromBits(S) \in Register
    <3> HIDE DEF S
    <3> QED  BY FromBitsWord
  <2>2. Mod("SZ_WORD") \in Nat  BY Vectors DEF Size
  <2> QED  BY <2>1, <2>2 DEF Register
<1>4. ASSUME NEW m \in 0 .. 3, NEW k \in 0 .. n - 1
      PROVE  /\ k + m * n \in 0 .. WordBits - 1
             /\ k + (3 - m) * n \in 0 .. WordBits - 1
             /\ Bit(y, k + m * n) = Bit(a, k + (3 - m) * n)
  <2> DEFINE t == k + m * n
             g == k + (3 - m) * n
  <2> HIDE DEF n
  <2>1. /\ m = 0 => t = k /\ g = k + 3 * n
        /\ m = 1 => t = k + n /\ g = k + 2 * n
        /\ m = 2 => t = k + 2 * n /\ g = k + n
        /\ m = 3 => t = k + 3 * n /\ g = k
    BY <1>1
  <2> HIDE DEF t, g
  <2>2. t \in 0 .. WordBits - 1 /\ g \in 0 .. WordBits - 1  BY <1>1, <2>1
  <2>3. ASSUME NEW i \in 0 .. WordBits - 1
        PROVE  t = to(i) <=> i = g
    <3> DEFINE q == i \div n
               r == i % n
               e == n * q
    <3>1. q \in Nat /\ r \in 0 .. n - 1 /\ i = e + r
      <4>1. i \in Nat /\ n \in Nat \ {0}  BY <1>1
      <4> QED  BY <4>1, Division
    <3> HIDE DEF q, r
    <3>2. /\ q = 0 => e = 0
          /\ q = 1 => e = n
          /\ q = 2 => e = 2 * n
          /\ q = 3 => e = 3 * n
          /\ e \in Nat
          /\ 3 < q => n * 3 + n <= e
      <4>1. 3 < q => n * 3 + n <= n * q  BY <1>1, <3>1, Apart
      <4>2. e \in Nat  BY <1>1, <3>1, Products
      <4> QED  BY <1>1, <4>1, <4>2
    <3>3. t = to(i) <=> t = ((WordBits - n) - e) + r  BY DEF q, r, e
    <3> HIDE DEF e, to
    <3>4. q \in {0, 1, 2, 3}  BY <1>1, <3>1, <3>2
    <3> QED  BY <1>1, <2>1, <3>1, <3>2, <3>3, <3>4
  <2>4. t \in S <=> Bit(a, g)
    <3>1. t \in S <=> \E i \in Bits(a) : t = to(i)  OBVIOUS
    <3> HIDE DEF to, S
    <3>2. \A i \in 0 .. WordBits - 1 : t = to(i) <=> i = g  BY <2>3
    <3>3. \A i : i \in Bits(a) <=> i \in 0 .. WordBits - 1 /\ Bit(a, i)  BY DEF Bits
    <3>4. t \in S => Bit(a, g)  BY <3>1, <3>2, <3>3
    <3>5. Bit(a, g) => t \in S
      <4> SUFFICES ASSUME Bit(a, g)
                   PROVE  \E i \in Bits(a) : t = to(i)
        BY <3>1
      <4>1. g \in Bits(a) /\ t = to(g)  BY <2>2, <3>2, <3>3
      <4> QED  BY <4>1
    <3> QED  BY <3>4, <3>5
  <2> HIDE DEF S
  <2>5. Bit(FromBits(S), t) = (t \in S)  BY <2>2, FromBitsBits
  <2>6. Bit(y, t) = Bit(a, g)  BY <2>4, <2>5 DEF Bit
  <2> QED  BY <2>2, <2>6 DEF t, g, n
<1>5. ASSUME NEW z \in Nat, NEW m \in Nat
      PROVE  /\ Byte(z, m) \in 0 .. Two[n] - 1
             /\ \A k \in 0 .. n - 1 : Bit(Byte(z, m), k) = Bit(z, k + m * n)
  BY <1>1, ByteBits
<1> HIDE DEF y, to
<1>6. Q(y)
  <2> SUFFICES ASSUME NEW m \in 0 .. 3
               PROVE  Byte(y, m) = Byte(a, 3 - m)
    OBVIOUS
  <2>1. m \in Nat /\ 3 - m \in Nat  OBVIOUS
  <2>2. Byte(y, m) \in 0 .. Two[n] - 1 /\ Byte(a, 3 - m) \in 0 .. Two[n] - 1
    BY <1>2, <1>3, <1>5, <2>1
  <2>3. \A k \in 0 .. n - 1 : Bit(Byte(y, m), k) = Bit(Byte(a, 3 - m), k)
    <3> SUFFICES ASSUME NEW k \in 0 .. n - 1
                 PROVE  Bit(Byte(y, m), k) = Bit(Byte(a, 3 - m), k)
      OBVIOUS
    <3>1. Bit(Byte(y, m), k) = Bit(y, k + m * n)  BY <1>3, <1>5, <2>1
    <3>2. Bit(Byte(a, 3 - m), k) = Bit(a, k + (3 - m) * n)  BY <1>2, <1>5, <2>1
    <3> QED  BY <1>4, <3>1, <3>2
  <2> HIDE DEF n
  <2>4. n \in Nat  BY <1>1
  <2> QED  BY <2>2, <2>3, <2>4, SameBits
<1>7. ASSUME NEW z \in 0 .. M - 1, Q(z)
      PROVE  z = y
  <2>1. z \in Nat /\ z \in 0 .. Two[WordBits] - 1 /\ y \in 0 .. Two[WordBits] - 1
        /\ WordBits \in Nat
    <3>1. M \in Nat  BY <1>0, Vectors
    <3> HIDE DEF M
    <3> QED  BY <1>1, <1>3, <3>1
  <2>2. ASSUME NEW j \in 0 .. WordBits - 1
        PROVE  Bit(z, j) = Bit(y, j)
    <3> DEFINE m == j \div n
               k == j % n
    <3>1. m \in 0 .. 3 /\ k \in 0 .. n - 1 /\ j = k + m * n
      <4> HIDE DEF n
      <4>1. m \in Nat /\ k \in 0 .. n - 1 /\ j = n * m + k
        <5>1. j \in Nat /\ n \in Nat \ {0}  BY <1>1
        <5> QED  BY <5>1, Division
      <4> HIDE DEF m, k
      <4> DEFINE e == n * m
      <4>2. e \in Nat /\ m * n = e /\ (3 < m => n * 3 + n <= e)
        BY <1>1, <4>1, Apart, Products
      <4> HIDE DEF e
      <4>3. j = e + k  BY <4>1 DEF e
      <4> QED  BY <1>1, <4>1, <4>2, <4>3
    <3> HIDE DEF m, k
    <3>2. m \in Nat  BY <3>1
    <3>3. Bit(Byte(z, m), k) = Bit(z, j) /\ Bit(Byte(y, m), k) = Bit(y, j)
      BY <1>3, <1>5, <2>1, <3>1, <3>2
    <3>4. Byte(z, m) = Byte(y, m)  BY <1>6, <1>7, <3>1
    <3> QED  BY <3>3, <3>4
  <2> QED  BY <2>1, <2>2, SameBits
<1>8. SwapBytes(a) = CHOOSE z \in 0 .. M - 1 : Q(z)  BY DEF SwapBytes
<1> HIDE DEF Q
<1>9. SwapBytes(a) = y  BY <1>3, <1>6, <1>7, <1>8
<1>10. ReverseBytes(a) = y  BY DEF ReverseBytes, y, S, to, n
<1>11. y % M = y  BY <1>0, <1>3, ModSame
<1> QED  BY <1>9, <1>10, <1>11

\* What is left in a shorter vector of what is left in a longer one.
LEMMA ModTwice ==
  ASSUME NEW x \in Int, NEW w \in Nat, NEW N \in Nat, w <= N
  PROVE  (x % Two[N]) % Two[w] = x % Two[w]
<1> DEFINE P == Two[w]
           d == N - w
           D == Two[d]
           W == Two[N]
<1>1. d \in Nat /\ w + d = N  OBVIOUS
<1>2. P \in Nat \ {0} /\ D \in Nat \ {0} /\ W \in Nat \ {0} /\ W = P * D
  <2> HIDE DEF d
  <2>1. Two[w + d] = Two[w] * Two[d]  BY <1>1, TwoSum
  <2> QED  BY <1>1, <2>1, TwoIs
<1> HIDE DEF P, D, W, d
<1> DEFINE q == x \div W
           r == x % W
           e == r \div P
           f == r % P
<1>3. q \in Int /\ r \in 0 .. W - 1 /\ x = W * q + r  BY <1>2, IntDivision
<1>4. e \in Int /\ f \in 0 .. P - 1 /\ r = P * e + f
  <2> HIDE DEF r
  <2>1. r \in Int  BY <1>2, <1>3
  <2> QED  BY <1>2, <2>1, IntDivision
<1> HIDE DEF q, r, e, f
<1> DEFINE k == D * q + e
<1>5. k \in Int /\ W * q + (P * e + f) = P * k + f
  <2>1. (P * D) * q + P * e = P * (D * q + e)  BY <1>2, <1>3, <1>4, SMTT(20)
  <2> DEFINE A == W * q
             B == P * e
             C == P * (D * q + e)
  <2>2. A + B = C /\ A \in Int /\ B \in Int /\ D * q \in Int  BY <1>2, <1>3, <1>4, <2>1
  <2>3. A + (B + f) = C + f
    <3> HIDE DEF A, B, C
    <3> QED  BY <1>2, <1>4, <2>2
  <2>4. D * q + e \in Int  BY <1>4, <2>2
  <2> QED  BY <2>3, <2>4
<1> HIDE DEF k
<1>6. (P * k + f) % P = f  BY <1>2, <1>4, <1>5, DivideInt
<1>7. x % P = f  BY <1>3, <1>4, <1>5, <1>6
<1> QED  BY <1>7 DEF f, r, P, W

\* The common part of outcomes of which no flag is unlike.
LEMMA ResultAgrees ==
  ASSUME NEW s \in Size, NEW res \in Int, NEW r, r = res % Mod(s), NEW unlike,
         NEW cy, NEW ov
  PROVE  Agrees(s, Outcome(s, r, cy, ov), Result(s, res, cy, ov), unlike)
  BY OutcomeAgrees

\* SHL, of a count for which the reference is defined.
LEMMA ShiftLogicalAgrees ==
  ASSUME NEW s \in Size, NEW b \in 0 .. Mod(s) - 1, NEW n \in 1 - WordBits .. WordBits - 1,
         NEW unlike
  PROVE  Agrees(s, ShiftLogical(s, n, b), RefShl(s, n, b), unlike)
<1> DEFINE w == Width[s]
           M == Mod(s)
           no == FALSE
<1>1. /\ w \in Nat \ {0, 1} /\ WordBits \in Nat \ {0, 1} /\ w <= WordBits
      /\ M = Two[w] /\ b \in Nat /\ n \in Int
  BY Vectors
<1>2. b = b % M /\ b \in Int  BY ModSame
<1>3. CASE n > 0
  <2> DEFINE N == IF s = "SZ_WORD" THEN 2 * WordBits ELSE WordBits
             x == b * Two[n]
             left == Shl(b, n, N)
  <2>1. N \in Nat /\ n < N /\ w < N
    <3>1. s # "SZ_WORD" => w < WordBits
      <4>1. s \in {"SZ_BYTE", "SZ_HALF", "SZ_WORD"}  BY DEF Size
      <4>2. /\ Width["SZ_BYTE"] < WordBits /\ Width["SZ_HALF"] < WordBits
        <5>1. Width["SZ_BYTE"] \in Nat /\ Width["SZ_HALF"] \in Nat  BY Vectors DEF Size
        <5> HIDE DEF w
        <5> QED  BY <1>1, <5>1, UnitAssumption
      <4> QED  BY <4>1, <4>2
    <3> HIDE DEF w
    <3> QED  BY <1>1, <3>1
  <2>2. x \in Nat
    <3>1. Two[n] \in Nat  BY <1>3, TwoIs
    <3> QED  BY <1>1, <3>1, Products
  <2>3. left = x % Two[N]
    <3> HIDE DEF N
    <3>1. ~(n >= N)  BY <1>1, <2>1
    <3> QED  BY <3>1 DEF Shl
  <2>4. ShiftLogical(s, n, b) = Outcome(s, left % M, Bit(left, w), no)
    <3>1. n # 0 /\ ~(n < 0)  BY <1>3
    <3> QED  BY <1>3, <3>1, Zenon DEF ShiftLogical
  <2>5. RefShl(s, n, b) = Result(s, x, Bit(x, w), no)  BY <1>3 DEF RefShl
  <2> HIDE DEF x, N, left, no
  <2>6. Bit(x % Two[N], w) = Bit(x, w)
    <3> HIDE DEF w
    <3>1. w \in Nat  BY <1>1
    <3> QED  BY <2>1, <2>2, <3>1, LowBits
  <2>7. left % M = x % M /\ x \in Int
    <3> HIDE DEF w, M
    <3>1. w \in Nat /\ w <= N /\ x \in Int  BY <1>1, <2>1, <2>2
    <3>2. (x % Two[N]) % Two[w] = x % Two[w]  BY <2>1, <3>1, ModTwice
    <3> QED  BY <1>1, <2>3, <3>1, <3>2
  <2>8. Bit(left, w) = Bit(x, w)  BY <2>3, <2>6
  <2> DEFINE cy == Bit(x, w)
  <2> HIDE DEF cy
  <2>9. Agrees(s, Outcome(s, left % M, cy, no), Result(s, x, cy, no), unlike)
    BY <2>7, ResultAgrees
  <2> QED  BY <2>4, <2>5, <2>8, <2>9 DEF cy
<1>4. CASE n = 0
  <2>1. ShiftLogical(s, n, b) = Outcome(s, b, no, no)  BY <1>4 DEF ShiftLogical
  <2>2. RefShl(s, n, b) = Result(s, b, no, no)  BY <1>4 DEF RefShl
  <2> HIDE DEF no
  <2> QED  BY <1>2, <2>1, <2>2, ResultAgrees
<1>5. CASE n < 0
  <2> DEFINE k == -n
             e == k - 1
             x == b \div Two[k]
  <2>1. k \in Nat /\ e \in Nat /\ k < WordBits /\ e < WordBits /\ -n - 1 = e  BY <1>1, <1>5
  <2>2. ShiftLogical(s, n, b) = Outcome(s, Shr(b, -n), Bit(Shr(b, -n - 1), 0), no)
    BY <1>5 DEF ShiftLogical
  <2>3. RefShl(s, n, b) = Result(s, b \div Two[-n], Bit(b, -n - 1), no)
    <3>1. ~(n > 0) /\ n # 0  BY <1>5
    <3> QED  BY <3>1 DEF RefShl
  <2>4. -n = k  OBVIOUS
  <2> HIDE DEF k, e, no
  <2>5. Shr(b, k) = x /\ Shr(b, e) = b \div Two[e]
    <3>1. ~(k >= WordBits) /\ ~(e >= WordBits)  BY <1>1, <2>1
    <3> QED  BY <3>1 DEF Shr
  <2>6. Bit(b \div Two[e], 0) = Bit(b, e)
    <3>1. 0 \in Nat /\ 0 + e = e  BY <2>1
    <3>2. Bit(b \div Two[e], 0) = Bit(b, 0 + e)  BY <1>1, <2>1, <3>1, LowBits
    <3> QED  BY <3>1, <3>2
  <2>7. x \in 0 .. M - 1
    <3>1. Shr(b, k) \in 0 .. Mod(s) - 1  BY <2>1, Narrow
    <3> QED  BY <2>5, <3>1
  <2> DEFINE cy == Bit(b, e)
  <2> HIDE DEF cy, x
  <2>8. x = x % M /\ x \in Int  BY <2>7, ModSame
  <2>9. Agrees(s, Outcome(s, x, cy, no), Result(s, x, cy, no), unlike)
    BY <2>8, ResultAgrees
  <2>10. ShiftLogical(s, n, b) = Outcome(s, x, cy, no)
    BY <2>1, <2>2, <2>4, <2>5, <2>6 DEF cy
  <2>11. RefShl(s, n, b) = Result(s, x, cy, no)
    BY <2>1, <2>3, <2>4 DEF cy, x
  <2> QED  BY <2>9, <2>10, <2>11
<1> QED  BY <1>1, <1>3, <1>4, <1>5

\* Zero has no bits and the highest number of n bits has them all.
LEMMA PlainBits ==
  /\ \A j \in Nat : ~Bit(0, j)
  /\ \A n \in Nat : /\ Two[n] - 1 \in 0 .. Two[n] - 1 /\ 0 \in 0 .. Two[n] - 1
                    /\ \A j \in 0 .. n - 1 : Bit(Two[n] - 1, j)
<1>1. ASSUME NEW j \in Nat
      PROVE  ~Bit(0, j)
  <2>1. 0 \in Nat /\ 0 \in 0 .. Two[0] - 1 /\ j >= 0  BY TwoIs
  <2> QED  BY <2>1, BitsBelow
<1>2. ASSUME NEW n \in Nat
      PROVE  Two[n] - 1 \in 0 .. Two[n] - 1 /\ 0 \in 0 .. Two[n] - 1
  <2>1. Two[n] \in Nat \ {0}  BY TwoIs
  <2> QED  BY <2>1
<1>3. ASSUME NEW n \in Nat, NEW j \in 0 .. n - 1
      PROVE  Bit(Two[n] - 1, j)
  <2>1. 0 \in 0 .. Two[n] - 1 /\ j \in Nat  BY <1>2
  <2>2. Bit((Two[n] - 1) - 0, j) <=> ~Bit(0, j)  BY <2>1, NotBits
  <2>3. (Two[n] - 1) - 0 = Two[n] - 1
    <3>1. Two[n] \in Nat \ {0}  BY TwoIs
    <3> QED  BY <3>1
  <2> QED  BY <1>1, <2>1, <2>2, <2>3
<1> QED  BY <1>1, <1>2, <1>3

\* The n highest bits of a number of w bits.
LEMMA TopBits ==
  ASSUME NEW w \in Nat, NEW n \in Nat, n <= w, NEW b \in 0 .. Two[w] - 1
  PROVE  LET top == b \div Two[w - n]
         IN /\ top = 0 <=> \A j \in w - n .. w - 1 : ~Bit(b, j)
            /\ top = Two[n] - 1 <=> \A j \in w - n .. w - 1 : Bit(b, j)
<1> DEFINE d == w - n
           P == Two[d]
           top == b \div P
           l == b % P
<1>1. d \in Nat /\ d + n = w  OBVIOUS
<1>2. P \in Nat \ {0} /\ Two[n] \in Nat \ {0} /\ Two[w] = P * Two[n]
  <2> HIDE DEF d
  <2>1. Two[d + n] = Two[d] * Two[n]  BY <1>1, TwoSum
  <2> QED  BY <1>1, <2>1, TwoIs
<1>3. b \in Nat /\ b < Two[w]  BY TwoIs
<1>4. \A k \in Nat : Bit(b \div Two[d], k) = Bit(b, k + d)  BY <1>1, <1>3, LowBits
<1>5. \A k \in Nat : Bit(top, k) = Bit(b, k + d)  BY <1>4
<1> HIDE DEF P, d
<1>6. top \in Nat /\ l \in 0 .. P - 1 /\ b = P * top + l  BY <1>2, <1>3, Division
<1> HIDE DEF top, l
<1>7. top \in 0 .. Two[n] - 1
  <2> SUFFICES ASSUME Two[n] <= top
               PROVE  FALSE
    BY <1>2, <1>6
  <2> DEFINE T == Two[n]
             A == P * top
             B == P * T
  <2>1. B <= A /\ A \in Nat /\ B \in Nat /\ b = A + l /\ b < B
    <3>1. T * P <= top * P /\ T * P = P * T /\ top * P = P * top /\ top * P \in Nat /\ T * P \in Nat
      BY <1>2, <1>6, Products, SMTT(20)
    <3> QED  BY <1>2, <1>3, <1>6, <3>1
  <2> HIDE DEF A, B
  <2> QED  BY <1>2, <1>6, <2>1
<1>8. \A j \in w - n .. w - 1 : Bit(b, j) = Bit(top, j - d) /\ j - d \in 0 .. n - 1
  <2> SUFFICES ASSUME NEW j \in w - n .. w - 1
               PROVE  Bit(b, j) = Bit(top, j - d) /\ j - d \in 0 .. n - 1
    OBVIOUS
  <2>1. j - d \in 0 .. n - 1 /\ j - d \in Nat /\ (j - d) + d = j  BY <1>1
  <2> QED  BY <1>5, <2>1
<1>9. \A k \in 0 .. n - 1 : k + d \in w - n .. w - 1 /\ Bit(top, k) = Bit(b, k + d)
  <2> SUFFICES ASSUME NEW k \in 0 .. n - 1
               PROVE  k + d \in w - n .. w - 1 /\ Bit(top, k) = Bit(b, k + d)
    OBVIOUS
  <2>1. k \in Nat /\ k + d \in w - n .. w - 1  BY <1>1
  <2> QED  BY <1>5, <2>1
<1>10. /\ 0 \in 0 .. Two[n] - 1 /\ Two[n] - 1 \in 0 .. Two[n] - 1
       /\ \A k \in 0 .. n - 1 : ~Bit(0, k) /\ Bit(Two[n] - 1, k)
  <2>1. \A k \in 0 .. n - 1 : k \in Nat  OBVIOUS
  <2> QED  BY <2>1, PlainBits
<1>11. top = 0 => \A j \in w - n .. w - 1 : ~Bit(b, j)  BY <1>8, <1>10
<1>12. top = Two[n] - 1 => \A j \in w - n .. w - 1 : Bit(b, j)  BY <1>8, <1>10
<1>13. ASSUME \A j \in w - n .. w - 1 : ~Bit(b, j)
       PROVE  top = 0
  <2>1. \A k \in 0 .. n - 1 : Bit(top, k) = Bit(0, k)
    <3> SUFFICES ASSUME NEW k \in 0 .. n - 1
                 PROVE  Bit(top, k) = Bit(0, k)
      OBVIOUS
    <3>1. ~Bit(top, k) /\ ~Bit(0, k)  BY <1>9, <1>10, <1>13
    <3>2. Bit(top, k) = FALSE /\ Bit(0, k) = FALSE  BY <3>1 DEF Bit
    <3> QED  BY <3>2
  <2> QED  BY <1>7, <1>10, <2>1, SameBits
<1>14. ASSUME \A j \in w - n .. w - 1 : Bit(b, j)
       PROVE  top = Two[n] - 1
  <2> DEFINE y == Two[n] - 1
  <2>1. \A k \in 0 .. n - 1 : Bit(y, k)  BY <1>10
  <2>2. y \in 0 .. Two[n] - 1  BY <1>10
  <2> HIDE DEF y
  <2>3. \A k \in 0 .. n - 1 : Bit(top, k) = Bit(y, k)
    <3> SUFFICES ASSUME NEW k \in 0 .. n - 1
                 PROVE  Bit(top, k) = Bit(y, k)
      OBVIOUS
    <3>1. Bit(top, k) /\ Bit(y, k)  BY <1>9, <1>14, <2>1
    <3>2. Bit(top, k) = TRUE /\ Bit(y, k) = TRUE  BY <3>1 DEF Bit
    <3> QED  BY <3>2
  <2>4. top = y  BY <1>7, <2>2, <2>3, SameBits
  <2> QED  BY <2>4 DEF y
<1> QED  BY <1>11, <1>12, <1>13, <1>14 DEF top, P, d

\* The counts and distances of an arithmetic shift to the left of less than a word.
LEMMA ShortLeft ==
  ASSUME NEW s \in Size, s # "SZ_WORD", NEW n \in 1 .. Width[s]
  PROVE  /\ Width[s] < WordBits /\ LeftDistance(s, n) = Width[s] - n
         /\ Width[s] - n \in Nat /\ Width[s] - n < WordBits
<1> DEFINE w == Width[s]
           T == Two[COUNT_LOW]
           U == Two[COUNT_BITS]
<1>1. w \in Nat \ {0, 1} /\ WordBits \in Nat \ {0, 1} /\ w <= WordBits  BY Vectors
<1>2. w < WordBits
  <2>1. s \in {"SZ_BYTE", "SZ_HALF", "SZ_WORD"}  BY DEF Size
  <2>2. /\ Width["SZ_BYTE"] < WordBits /\ Width["SZ_HALF"] < WordBits
    <3>1. Width["SZ_BYTE"] \in Nat /\ Width["SZ_HALF"] \in Nat  BY Vectors DEF Size
    <3> HIDE DEF w
    <3> QED  BY <1>1, <3>1, UnitAssumption
  <2> QED  BY <2>1, <2>2
<1>3. T \in Nat /\ U \in Nat /\ T <= U /\ WordBits < T
  <2>1. COUNT_BITS \in Nat /\ COUNT_LOW \in Nat /\ COUNT_LOW <= COUNT_BITS  BY SizeAssumption
  <2> QED  BY <2>1, TwoGrows, UnitAssumption
<1>4. Low(n) = n % T /\ LeftDistance(s, n) = ((w % WordBits) - Low(n)) % U
  BY DEF Low, LeftDistance
<1>5. n \in 1 .. w  OBVIOUS
<1> HIDE DEF w, T, U
<1> DEFINE W == WordBits
<1> HIDE DEF W
<1>6. n % T = n
  <2>1. n \in 0 .. T - 1 /\ T \in Nat \ {0}  BY <1>1, <1>2, <1>3, <1>5
  <2> QED  BY <2>1, SMTT(20)
<1>7. w % W = w
  <2>1. w \in 0 .. W - 1 /\ W \in Nat \ {0}  BY <1>1, <1>2 DEF W
  <2> QED  BY <2>1, SMTT(20)
<1>8. (w - n) % U = w - n
  <2> DEFINE d == w - n
  <2>1. d \in 0 .. U - 1 /\ U \in Nat \ {0}  BY <1>1, <1>2, <1>3, <1>5
  <2> HIDE DEF d
  <2>2. d % U = d  BY <2>1, SMTT(20)
  <2> QED  BY <2>2 DEF d
<1>9. LeftDistance(s, n) = w - n  BY <1>4, <1>6, <1>7, <1>8 DEF W
<1>10. w - n \in Nat /\ w - n < WordBits  BY <1>1, <1>2, <1>5
<1> QED  BY <1>2, <1>9, <1>10 DEF w

\* The count as far as it is compared.
LEMMA LowSame ==
  ASSUME NEW n \in 0 .. WordBits
  PROVE  Low(n) = n
<1> DEFINE T == Two[COUNT_LOW]
<1>1. WordBits \in Nat  BY Vectors DEF Size
<1>2. T \in Nat /\ WordBits < T
  <2>1. COUNT_LOW \in Nat  BY SizeAssumption
  <2> QED  BY <2>1, TwoIs, UnitAssumption
<1>3. Low(n) = n % T  BY DEF Low
<1> HIDE DEF T
<1>4. n \in 0 .. T - 1 /\ T \in Nat \ {0}  BY <1>1, <1>2
<1>5. n % T = n  BY <1>4, SMTT(20)
<1> QED  BY <1>3, <1>5

\* The mask of the bits an arithmetic shift to the left moves through the sign: ones where
\* they are, or everywhere when they are all.
LEMMA MaskBits ==
  ASSUME NEW s \in Size, s # "SZ_WORD", NEW n \in 1 .. Width[s]
  PROVE  Bits(OvMask(s, n)) = IF n = Width[s] THEN 0 .. WordBits - 1
                              ELSE Width[s] - n .. Width[s] - 1
<1> DEFINE w == Width[s]
           d == w - n
           T == Two[n]
           D == Two[d]
           W == WordBits
           M == Two[W]
           m == T - 1
           p == m * D
<1>1. /\ w \in Nat \ {0, 1} /\ W \in Nat \ {0, 1} /\ w < W /\ n \in 1 .. w
      /\ LeftDistance(s, n) = d /\ d \in Nat /\ d < W /\ d + n = w /\ n \in Nat
  BY Vectors, ShortLeft
<1>2. Low(n) = n
  <2> HIDE DEF w
  <2>1. n \in 0 .. WordBits  BY <1>1
  <2> QED  BY <2>1, LowSame
<1>3. CASE n = w
  <2>1. OvMask(s, n) = Two[WordBits] - 1
    <3>1. Low(n) >= Width[s]  BY <1>1, <1>2, <1>3
    <3> QED  BY <3>1 DEF OvMask
  <2>2. \A j \in 0 .. WordBits - 1 : Bit(Two[WordBits] - 1, j)
    <3>1. WordBits \in Nat  BY <1>1
    <3> QED  BY <3>1, PlainBits
  <2>3. Bits(Two[WordBits] - 1) = 0 .. WordBits - 1  BY <2>2 DEF Bits
  <2> QED  BY <1>3, <2>1, <2>3
<1>4. CASE n # w
  <2>0. n < w /\ n < W  BY <1>1, <1>4
  <2>1. OvMask(s, n) = Shl((Shl(1, n, W) - 1) % M, d, W)
    <3>1. ~(Low(n) >= Width[s])  BY <1>1, <1>2, <2>0
    <3> QED  BY <1>1, <3>1 DEF OvMask
  <2>2. /\ T \in Nat \ {0} /\ D \in Nat \ {0} /\ M \in Nat \ {0} /\ Two[w] \in Nat \ {0}
        /\ T < M /\ Two[w] <= M /\ Two[w] = D * T
    <3>1. Two[d + n] = Two[d] * Two[n]
      <4> HIDE DEF d
      <4> QED  BY <1>1, TwoSum
    <3>2. Two[n] \in Nat \ {0} /\ Two[W] \in Nat \ {0} /\ 2 * Two[n] <= Two[W]
      <4> HIDE DEF w, W, d
      <4> QED  BY <1>1, <2>0, TwoGrows
    <3>3. Two[w] \in Nat \ {0} /\ Two[w] <= Two[W]
      <4> HIDE DEF w, W, d
      <4> QED  BY <1>1, TwoGrows
    <3>4. Two[d] \in Nat \ {0}  BY <1>1, TwoIs
    <3>5. Two[d + n] = Two[w]  BY <1>1
    <3> HIDE DEF d, w, W
    <3> QED  BY <3>1, <3>2, <3>3, <3>4, <3>5
  <2>3. Shl(1, n, W) = T
    <3>1. ~(n >= W)  BY <1>1, <2>0
    <3>2. Shl(1, n, W) = (1 * T) % M
      <4> HIDE DEF W
      <4> QED  BY <3>1 DEF Shl
    <3> HIDE DEF T, M
    <3>3. 1 * T = T /\ T \in 0 .. M - 1  BY <2>2
    <3>4. T % M = T  BY <2>2, <3>3, SMTT(20)
    <3> QED  BY <3>2, <3>3, <3>4
  <2>4. (Shl(1, n, W) - 1) % M = m /\ m \in Nat /\ m < T
    <3> HIDE DEF T, M
    <3>1. m \in 0 .. M - 1 /\ m \in Nat /\ m < T  BY <2>2
    <3> HIDE DEF m
    <3>2. m % M = m  BY <2>2, <3>1, SMTT(20)
    <3> QED  BY <2>3, <3>1, <3>2 DEF m
  <2>5. Shl(m, d, W) = p % M
    <3>1. ~(d >= W)  BY <1>1
    <3> HIDE DEF W, d, m
    <3> QED  BY <3>1 DEF Shl, D, M, p
  <2>6. p \in 0 .. M - 1
    <3> HIDE DEF T, D, M, m, w
    <3>1. m * D + D <= T * D /\ T * D = D * T /\ m * D \in Nat  BY <2>2, <2>4, Products, SMTT(20)
    <3> DEFINE A == D * T
    <3>2. p + D <= A /\ p \in Nat /\ A <= M /\ A \in Nat  BY <2>2, <3>1
    <3>3. D \in Nat \ {0} /\ M \in Nat  BY <2>2
    <3> HIDE DEF p, A
    <3> QED  BY <3>2, <3>3
  <2> HIDE DEF p
  <2>7. p % M = p
    <3> HIDE DEF M
    <3> QED  BY <2>2, <2>6, SMTT(20)
  <2>8. OvMask(s, n) = p  BY <2>1, <2>4, <2>5, <2>7
  <2>9. ASSUME NEW j \in Nat
        PROVE  Bit(p, j) <=> d <= j /\ j < w
    <3> HIDE DEF d, m
    <3>1. 0 \in 0 .. Two[d] - 1  BY <2>2
    <3>2. Bit(0 + Two[d] * m, j) = IF j < d THEN Bit(0, j) ELSE Bit(m, j - d)
      BY <1>1, <2>4, <3>1, BitSplit
    <3>3. 0 + Two[d] * m = p
      <4> HIDE DEF D
      <4>1. D * m = m * D /\ m * D \in Nat  BY <2>2, <2>4, Products, SMTT(20)
      <4>2. 0 + D * m = p  BY <4>1 DEF p
      <4> QED  BY <4>2 DEF D
    <3>4. CASE j < d
      <4>1. ~Bit(0, j)  BY PlainBits
      <4>2. ~(d <= j)  BY <1>1, <3>4
      <4> QED  BY <3>2, <3>3, <3>4, <4>1, <4>2
    <3>5. CASE ~(j < d)
      <4> DEFINE k == j - d
      <4>1. k \in Nat /\ d <= j /\ (k < n <=> j < w)  BY <1>1, <3>5
      <4>2. Bit(p, j) = Bit(m, k)  BY <3>2, <3>3, <3>5
      <4>3. m \in 0 .. Two[n] - 1  BY <2>2, <2>4 DEF T
      <4> HIDE DEF k
      <4>4. k < n => Bit(m, k)
        <5>1. k < n => k \in 0 .. n - 1  BY <1>1, <4>1
        <5> QED  BY <1>1, <5>1, PlainBits DEF m, T
      <4>5. ~(k < n) => ~Bit(m, k)
        <5>1. ~(k < n) => k >= n  BY <1>1, <4>1
        <5> QED  BY <1>1, <4>1, <4>3, <5>1, BitsBelow
      <4> QED  BY <4>1, <4>2, <4>4, <4>5
    <3> QED  BY <3>4, <3>5
  <2>10. Bits(p) = d .. w - 1
    <3>1. \A j : j \in Bits(p) <=> j \in 0 .. WordBits - 1 /\ Bit(p, j)  BY DEF Bits
    <3>2. \A j \in 0 .. WordBits - 1 : Bit(p, j) <=> d <= j /\ j < w  BY <2>9
    <3>3. d .. w - 1 \subseteq 0 .. WordBits - 1  BY <1>1
    <3>4. \A j \in 0 .. WordBits - 1 : j \in d .. w - 1 <=> d <= j /\ j < w  BY <1>1
    <3> HIDE DEF d, w
    <3> QED  BY <3>1, <3>2, <3>3, <3>4
  <2> QED  BY <1>4, <2>8, <2>10
<1> QED  BY <1>3, <1>4

\* The overflow of an arithmetic shift to the left, of less than a word.
LEMMA OverflowAgrees ==
  ASSUME NEW s \in Size, s # "SZ_WORD", NEW n \in 1 .. Width[s], NEW b \in 0 .. Mod(s) - 1,
         ~(n = Width[s] /\ b = Mod(s) - 1)
  PROVE  LET ovs == Bits(b) \cap Bits(OvMask(s, n))
             top == b \div Two[Width[s] - n]
         IN (IF Msb(b, s) THEN ovs # Bits(OvMask(s, n)) ELSE ovs # {})
              = (IF Sign(b, s) THEN top # Two[n] - 1 ELSE top # 0)
<1> DEFINE w == Width[s]
           R == IF n = w THEN 0 .. WordBits - 1 ELSE w - n .. w - 1
           ovs == Bits(b) \cap R
           top == b \div Two[w - n]
           neg == Msb(b, s)
           core == IF neg THEN ovs # R ELSE ovs # {}
           ref == IF neg THEN top # Two[n] - 1 ELSE top # 0
<1>1. /\ w \in Nat \ {0, 1} /\ WordBits \in Nat \ {0, 1} /\ w < WordBits /\ Mod(s) = Two[w]
      /\ n \in Nat /\ n <= w
  BY Vectors, ShortLeft
<1>2. Bits(OvMask(s, n)) = R  BY MaskBits
<1>3. Sign(b, s) = neg
  <2>1. b % Mod(s) = b /\ b \in Int  BY ModSame
  <2>2. Sign(b, s) <=> b >= Half[s]  BY <2>1, SignIs
  <2> QED  BY <2>2 DEF Sign, Bit, Msb
<1>4. \A j \in 0 .. WordBits - 1 : j \in Bits(b) <=> Bit(b, j)  BY DEF Bits
<1>5. /\ top = 0 <=> \A j \in w - n .. w - 1 : ~Bit(b, j)
      /\ top = Two[n] - 1 <=> \A j \in w - n .. w - 1 : Bit(b, j)
  <2>1. w \in Nat /\ b \in 0 .. Two[w] - 1  BY <1>1
  <2> HIDE DEF w
  <2> QED  BY <1>1, <2>1, TopBits
<1>6. \A j \in 0 .. WordBits - 1 : ~(j < w) => ~Bit(b, j)
  <2> SUFFICES ASSUME NEW j \in 0 .. WordBits - 1, ~(j < w)
               PROVE  ~Bit(b, j)
    OBVIOUS
  <2>1. w \in Nat /\ b \in 0 .. Two[w] - 1 /\ j \in Nat /\ j >= w  BY <1>1
  <2> HIDE DEF w
  <2> QED  BY <2>1, BitsBelow
<1> HIDE DEF top
<1>7. CASE n # w
  <2>1. R = w - n .. w - 1 /\ R \subseteq 0 .. WordBits - 1
    <3> HIDE DEF w
    <3> QED  BY <1>1, <1>7
  <2> HIDE DEF R
  <2>2. ovs = {} <=> \A j \in R : ~Bit(b, j)  BY <1>4, <2>1
  <2>3. ovs = R <=> \A j \in R : Bit(b, j)  BY <1>4, <2>1
  <2> HIDE DEF ovs, neg, w
  <2>4. (ovs = {}) = (top = 0) /\ (ovs = R) = (top = Two[n] - 1)
    BY <1>5, <2>1, <2>2, <2>3
  <2>5. core = ref
    BY <2>4
  <2> QED  BY <1>2, <1>3, <2>5 DEF w, top, ovs, neg
<1>8. CASE n = w
  <2>1. R = 0 .. WordBits - 1 /\ w - n .. w - 1 = 0 .. w - 1
    <3> HIDE DEF w
    <3> QED  BY <1>1, <1>8
  <2> HIDE DEF R
  <2>2. ovs # R
    <3> SUFFICES ASSUME ovs = R
                 PROVE  FALSE
      OBVIOUS
    <3>1. w \in R /\ w \in 0 .. WordBits - 1 /\ ~(w < w)  BY <1>1, <2>1
    <3>2. ~Bit(b, w)  BY <1>6, <3>1
    <3> QED  BY <1>4, <3>1, <3>2
  <2>3. ovs = {} <=> top = 0
    <3>1. ovs = {} <=> \A j \in 0 .. WordBits - 1 : ~Bit(b, j)
      BY <1>4, <2>1
    <3>2. (\A j \in 0 .. WordBits - 1 : ~Bit(b, j)) <=> \A j \in 0 .. w - 1 : ~Bit(b, j)
      <4>1. \A j \in 0 .. w - 1 : j \in 0 .. WordBits - 1  BY <1>1
      <4>2. \A j \in 0 .. WordBits - 1 : j < w => j \in 0 .. w - 1  BY <1>1
      <4> HIDE DEF w
      <4> QED  BY <1>6, <4>1, <4>2
    <3> QED  BY <1>5, <2>1, <3>1, <3>2
  <2>4. top = b
    <3>1. w - n = 0  BY <1>1, <1>8
    <3>2. Two[0] = 1 /\ b \div 1 = b  BY TwoIs
    <3> QED  BY <3>1, <3>2 DEF top
  <2>5. top # Two[n] - 1  BY <1>1, <1>8, <2>4
  <2> HIDE DEF ovs, neg, w
  <2>6. (ovs = {}) = (top = 0)  BY <2>3
  <2>7. core = ref
    BY <2>2, <2>5, <2>6
  <2> QED  BY <1>2, <1>3, <2>7 DEF w, top, ovs, neg
<1> QED  BY <1>7, <1>8

\* SHA, of a count for which the reference is defined.
LEMMA ShiftArithmeticAgrees ==
  ASSUME NEW s \in Size, NEW b \in 0 .. Mod(s) - 1, NEW n \in -WordBits .. Width[s],
         NEW u, NEW unlike,
         s = "SZ_WORD" /\ n > 0 => {"ov", "cy"} \subseteq unlike,
         n = Width[s] /\ b = Mod(s) - 1 => "ov" \in unlike
  PROVE  Agrees(s, ShiftArithmetic(s, n, b, u), RefSha(s, n, b), unlike)
<1> DEFINE w == Width[s]
           M == Mod(s)
           no == FALSE
           neg == Msb(b, s)
<1>1. /\ w \in Nat \ {0, 1} /\ WordBits \in Nat \ {0, 1} /\ w <= WordBits
      /\ M = Two[w] /\ M \in Nat \ {0, 1} /\ b \in Nat /\ n \in Int
  BY Vectors
<1>2. b = b % M /\ b \in Int  BY ModSame
<1>3. Sign(b, s) = neg
  <2>1. Sign(b, s) <=> b >= Half[s]
    <3>1. b % Mod(s) = b /\ b \in Int  BY ModSame
    <3> QED  BY <3>1, SignIs
  <2> QED  BY <2>1 DEF Sign, Bit, Msb
<1>4. 0 % M = 0 /\ (M - 1) % M = M - 1 /\ M - 1 \in Int
  <2> DEFINE e == M - 1
  <2>1. e \in 0 .. Mod(s) - 1 /\ 0 \in 0 .. Mod(s) - 1 /\ e \in Int
    <3> HIDE DEF w
    <3> QED  BY <1>1
  <2> HIDE DEF e
  <2>2. e % Mod(s) = e /\ 0 % Mod(s) = 0  BY <2>1, ModSame
  <2> QED  BY <2>1, <2>2 DEF e
<1>5. CASE n = 0
  <2>1. ShiftArithmetic(s, n, b, u) = Outcome(s, b, no, no)  BY <1>5 DEF ShiftArithmetic
  <2>2. RefSha(s, n, b) = Result(s, b, no, no)
    <3>1. ~(n > 0)  BY <1>5
    <3> QED  BY <1>5, <3>1 DEF RefSha
  <2> HIDE DEF no
  <2> QED  BY <1>2, <2>1, <2>2, ResultAgrees
<1>6. CASE n > 0
  <2> DEFINE ovs == Bits(b) \cap Bits(OvMask(s, n))
             top == b \div Two[w - n]
             r == IF Low(n) >= w THEN 0 ELSE Shl(b, n, WordBits) % M
             res == IF n >= w THEN 0 ELSE b * Two[n]
             cy == Select(b, LeftDistance(s, n), u)
             refcy == Bit(b, w - n)
             ov == IF neg THEN ovs # Bits(OvMask(s, n)) ELSE ovs # {}
             refov == IF Sign(b, s) THEN top # Two[n] - 1 ELSE top # 0
  <2>1. ShiftArithmetic(s, n, b, u) = Outcome(s, r, cy, ov)
    <3>1. n # 0 /\ ~(n < 0)  BY <1>6
    <3> QED  BY <1>6, <3>1, Zenon DEF ShiftArithmetic
  <2>2. RefSha(s, n, b) = Result(s, res, refcy, refov)  BY <1>6 DEF RefSha
  <2>3. n \in 1 .. Width[s] /\ n \in Nat  BY <1>1, <1>6
  <2>4. "cy" \in unlike \/ cy = refcy
    <3>1. CASE s = "SZ_WORD"  BY <1>6, <3>1
    <3>2. CASE s # "SZ_WORD"
      <4>1. LeftDistance(s, n) = w - n /\ w - n < WordBits  BY <2>3, <3>2, ShortLeft
      <4> QED  BY <4>1 DEF Select
    <3> QED  BY <3>1, <3>2
  <2>5. "ov" \in unlike \/ ov = refov
    <3>1. CASE s = "SZ_WORD"  BY <1>6, <3>1
    <3>2. CASE s # "SZ_WORD"
      <4>1. CASE n = Width[s] /\ b = Mod(s) - 1  BY <4>1
      <4>2. CASE ~(n = Width[s] /\ b = Mod(s) - 1)
        <5>1. ov = refov  BY <2>3, <3>2, <4>2, OverflowAgrees
        <5> QED  BY <5>1
      <4> QED  BY <4>1, <4>2
    <3> QED  BY <3>1, <3>2
  <2>6. Low(n) = n
    <3>1. n \in 0 .. WordBits  BY <1>1, <2>3
    <3> QED  BY <3>1, LowSame
  <2>7. r = res % M /\ res \in Int
    <3>1. CASE n >= w
      <4>1. r = 0 /\ res = 0  BY <2>6, <3>1
      <4> HIDE DEF r, res
      <4> QED  BY <1>4, <4>1
    <3>2. CASE ~(n >= w)
      <4> DEFINE x == b * Two[n]
      <4>1. r = Shl(b, n, WordBits) % M /\ res = x  BY <2>6, <3>2
      <4>2. x \in Nat
        <5>1. Two[n] \in Nat  BY <2>3, TwoIs
        <5> QED  BY <1>1, <5>1, Products
      <4>3. Shl(b, n, WordBits) = x % Two[WordBits]
        <5>1. ~(n >= WordBits)  BY <1>1, <3>2
        <5> QED  BY <5>1 DEF Shl
      <4> HIDE DEF x, r, res, w, M
      <4>4. (x % Two[WordBits]) % Two[w] = x % Two[w]
        <5>1. w \in Nat /\ WordBits \in Nat /\ x \in Int  BY <1>1, <4>2
        <5> QED  BY <1>1, <5>1, ModTwice
      <4> QED  BY <1>1, <4>1, <4>2, <4>3, <4>4
    <3> QED  BY <3>1, <3>2
  <2> HIDE DEF r, res, cy, ov, refcy, refov
  <2>8. Agrees(s, Outcome(s, r, cy, ov), Result(s, res, refcy, refov), unlike)
    BY <2>4, <2>5, <2>7, OutcomeAgrees
  <2> QED  BY <2>1, <2>2, <2>8
<1>7. CASE n < 0
  <2> DEFINE k == -n
             r == IF Low(-n) >= w THEN IF neg THEN M - 1 ELSE 0
                  ELSE (Signed(b, s) \div Two[Min({-n, WordBits})]) % M
             res == IF -n >= w THEN (IF Sign(b, s) THEN M - 1 ELSE 0)
                    ELSE Signed(b, s) \div Two[-n]
             cy == Select(b, -n - 1, u)
             refcy == Bit(b, -n - 1)
  <2>1. ShiftArithmetic(s, n, b, u) = Outcome(s, r, cy, no)  BY <1>7 DEF ShiftArithmetic
  <2>2. RefSha(s, n, b) = Result(s, res, refcy, no)
    <3>1. ~(n > 0) /\ n # 0  BY <1>7
    <3> QED  BY <3>1 DEF RefSha
  <2>3. k \in 1 .. WordBits /\ k \in 0 .. WordBits /\ -n - 1 < WordBits /\ -n = k  BY <1>1, <1>7
  <2>4. cy = refcy  BY <2>3 DEF Select
  <2>5. Low(-n) = -n  BY <2>3, LowSame
  <2>6. Min({-n, WordBits}) = -n
    <3>1. -n \in {-n, WordBits} /\ -n \in Int /\ WordBits \in Int /\ -n <= WordBits  BY <1>1, <2>3
    <3> DEFINE S == {-n, WordBits}
               c == Min(S)
    <3>2. -n \in S /\ \A y \in S : -n <= y  BY <3>1
    <3>3. c \in S /\ \A y \in S : c <= y
      <4> HIDE DEF S
      <4> QED  BY <3>2 DEF Min
    <3>4. c = -n \/ c = WordBits  BY <3>3
    <3>5. c <= -n  BY <3>2, <3>3
    <3> HIDE DEF c
    <3> QED  BY <3>1, <3>4, <3>5 DEF c
  <2>7. r = res % M /\ res \in Int
    <3>1. CASE -n >= w
      <4>1. r = (IF neg THEN M - 1 ELSE 0) /\ res = r  BY <1>3, <2>5, <3>1
      <4> HIDE DEF r, res
      <4>2. CASE neg  BY <1>4, <4>1, <4>2
      <4>3. CASE ~neg  BY <1>4, <4>1, <4>3
      <4> QED  BY <4>2, <4>3
    <3>2. CASE ~(-n >= w)
      <4>1. res = Signed(b, s) \div Two[-n]  BY <3>2
      <4>2. r = (Signed(b, s) \div Two[-n]) % M
        <5> HIDE DEF M, w, res
        <5> QED  BY <2>5, <2>6, <3>2 DEF r
      <4>3. res \in Int
        <5>1. Two[-n] \in Nat \ {0} /\ Signed(b, s) \in Int  BY <1>7, TwoIs, Extended
        <5> DEFINE x == Signed(b, s)
                   y == Two[-n]
        <5> HIDE DEF x, y, res
        <5>2. x \div y \in Int  BY <5>1, IntDivision DEF x, y
        <5> QED  BY <4>1, <5>2 DEF x, y
      <4> QED  BY <4>1, <4>2, <4>3
    <3> QED  BY <3>1, <3>2
  <2> HIDE DEF r, res, cy, refcy, no
  <2>8. Agrees(s, Outcome(s, r, refcy, no), Result(s, res, refcy, no), unlike)
    BY <2>7, ResultAgrees
  <2> QED  BY <2>1, <2>2, <2>4, <2>8
<1> QED  BY <1>1, <1>5, <1>6, <1>7

\* A ring of N bits turned to the left once.
RingTurn(v, N) == IF v >= Two[N - 1] THEN 2 * v - Two[N] + 1 ELSE 2 * v

\* What is left of k turns of it.
RingAt(x, k, N) == ((x * Two[k]) % Two[N]) + (x \div Two[N - k])

LEMMA RingAtIs ==
  ASSUME NEW N \in Nat, NEW x \in 0 .. Two[N] - 1, NEW k \in 0 .. N,
         NEW h \in Nat, NEW l \in 0 .. Two[N - k] - 1, x = Two[N - k] * h + l
  PROVE  RingAt(x, k, N) = Two[k] * l + h /\ h \in 0 .. Two[k] - 1
<1> DEFINE d == N - k
           P == Two[d]
           T == Two[k]
           W == Two[N]
           A == T * l
           B == W * h
<1>1. d \in Nat /\ k \in Nat /\ k + d = N  OBVIOUS
<1>2. P \in Nat \ {0} /\ T \in Nat \ {0} /\ W \in Nat \ {0} /\ W = T * P
  <2> HIDE DEF d
  <2>1. Two[k + d] = Two[k] * Two[d]  BY <1>1, TwoSum
  <2> QED  BY <1>1, <2>1, TwoIs
<1>3. l \in 0 .. P - 1 /\ x = P * h + l /\ x \in Nat /\ x < W /\ N - k = d
  <2>1. l \in 0 .. P - 1 /\ x = P * h + l /\ N - k = d  OBVIOUS
  <2>2. x \in 0 .. W - 1  OBVIOUS
  <2> HIDE DEF W, P, d
  <2> QED  BY <1>2, <2>1, <2>2
<1> HIDE DEF d, P, T, W
<1>4. x * T = B + A /\ A \in 0 .. W - 1 /\ B \in Int
  <2>1. (P * h + l) * T = (T * P) * h + T * l  BY <1>2, <1>3, SMTT(20)
  <2>2. l * T + T <= P * T /\ l * T = T * l /\ P * T = T * P /\ l * T \in Nat
    BY <1>2, <1>3, Products, SMTT(20)
  <2>3. B \in Int  BY <1>2
  <2>4. x * T = B + A  BY <1>2, <1>3, <2>1
  <2>5. A + T <= W /\ A \in Nat  BY <1>2, <2>2
  <2> HIDE DEF A, B
  <2> QED  BY <1>2, <2>3, <2>4, <2>5
<1>5. (x * T) % W = A
  <2> HIDE DEF A
  <2>0. h \in Int  OBVIOUS
  <2>1. (W * h + A) % W = A  BY <1>2, <1>4, <2>0, DivideInt
  <2> QED  BY <1>4, <2>1
<1>6. x \div P = h
  <2>0. h \in Int  OBVIOUS
  <2>1. (P * h + l) \div P = h  BY <1>2, <1>3, <2>0, DivideInt
  <2> QED  BY <1>3, <2>1
<1>7. h < T
  <2> SUFFICES ASSUME T <= h
               PROVE  FALSE
    BY <1>2
  <2> DEFINE C == P * h
             D == T * P
  <2>1. T * P <= h * P /\ h * P = P * h /\ h * P \in Nat  BY <1>2, Products, SMTT(20)
  <2>2. D <= C /\ C \in Nat /\ x = C + l /\ W = D  BY <1>2, <1>3, <2>1
  <2> HIDE DEF C, D
  <2> QED  BY <1>2, <1>3, <2>2
<1>8. RingAt(x, k, N) = A + h  BY <1>3, <1>5, <1>6 DEF RingAt, T, W, P
<1> QED  BY <1>2, <1>7, <1>8 DEF T

\* One turn more.
LEMMA RingOnce ==
  ASSUME NEW N \in Nat \ {0}, NEW x \in 0 .. Two[N] - 1, NEW k \in 0 .. N - 1
  PROVE  /\ RingAt(x, k, N) \in 0 .. Two[N] - 1
         /\ RingAt(x, k + 1, N) = RingTurn(RingAt(x, k, N), N)
<1> DEFINE d == (N - k) - 1
           P == Two[d]
           T == Two[k]
           H == Two[N - 1]
           g == x \div P
           l == x % P
           c == g % 2
           h == g \div 2
<1>1. /\ d \in Nat /\ k \in Nat /\ N - 1 \in Nat /\ k + d = N - 1 /\ N - k = d + 1
      /\ N - (k + 1) = d /\ k + 1 \in 0 .. N /\ k \in 0 .. N /\ (N - 1) + 1 = N
  OBVIOUS
<1>2. /\ P \in Nat \ {0} /\ T \in Nat \ {0} /\ H \in Nat \ {0} /\ H = T * P
      /\ Two[N - k] = 2 * P /\ Two[k + 1] = 2 * T /\ Two[N] = 2 * H
      /\ Two[N - (k + 1)] = P
  <2>1. Two[k + d] = Two[k] * Two[d]
    <3> HIDE DEF d
    <3> QED  BY <1>1, TwoSum
  <2>2. Two[d + 1] = 2 * Two[d] /\ Two[d] \in Nat \ {0}
    <3> HIDE DEF d
    <3> QED  BY <1>1, TwoIs
  <2>3. Two[(N - 1) + 1] = 2 * Two[N - 1] /\ Two[N - 1] \in Nat \ {0}  BY <1>1, TwoIs
  <2>4. Two[k + 1] = 2 * Two[k] /\ Two[k] \in Nat \ {0}  BY <1>1, TwoIs
  <2>5. Two[k + d] = H /\ Two[(N - 1) + 1] = Two[N] /\ Two[d + 1] = Two[N - k]
        /\ Two[N - (k + 1)] = Two[d]
    BY <1>1
  <2> HIDE DEF d
  <2> QED  BY <2>1, <2>2, <2>3, <2>4, <2>5
<1>3. x \in Nat /\ x < 2 * H
  <2>1. x \in 0 .. 2 * H - 1  BY <1>2
  <2> HIDE DEF H
  <2> QED  BY <1>2, <2>1
<1> HIDE DEF P, T, H, d
<1>4. g \in Nat /\ l \in 0 .. P - 1 /\ x = P * g + l  BY <1>2, <1>3, Division
<1> HIDE DEF g, l
<1>5. h \in Nat /\ c \in {0, 1} /\ g = 2 * h + c  BY <1>4
<1> HIDE DEF h, c
<1> DEFINE e == P * c + l
           A == T * l
           v == T * e + h
<1>6. e \in 0 .. 2 * P - 1 /\ x = (2 * P) * h + e
  <2>1. P * (2 * h + c) = (2 * P) * h + P * c  BY <1>2, <1>5, SMTT(20)
  <2>2. c = 0 => P * c = 0  BY <1>2
  <2>3. c = 1 => P * c = P  BY <1>2
  <2> DEFINE C == P * c
             D == (2 * P) * h
             E == P * g
  <2>4. C \in {0, P} /\ D \in Int /\ E = D + C /\ x = E + l /\ e = C + l
    BY <1>2, <1>4, <1>5, <2>1, <2>2, <2>3
  <2> HIDE DEF C, D, E, e
  <2>5. e \in 0 .. 2 * P - 1 /\ x = D + e  BY <1>2, <1>4, <2>4
  <2> QED  BY <2>5 DEF D
<1>7. RingAt(x, k, N) = v /\ h \in 0 .. T - 1
  <2> HIDE DEF e
  <2>1. N \in Nat /\ e \in 0 .. Two[N - k] - 1 /\ x = Two[N - k] * h + e  BY <1>2, <1>6
  <2> QED  BY <1>1, <1>5, <2>1, RingAtIs DEF T
<1>8. RingAt(x, k + 1, N) = 2 * A + g
  <2>1. l \in 0 .. Two[N - (k + 1)] - 1 /\ x = Two[N - (k + 1)] * g + l /\ N \in Nat
    BY <1>2, <1>4
  <2>2. RingAt(x, k + 1, N) = Two[k + 1] * l + g
    <3> DEFINE m == k + 1
    <3>1. /\ l \in 0 .. Two[N - m] - 1 /\ x = Two[N - m] * g + l /\ N \in Nat
          /\ m \in 0 .. N /\ g \in Nat
      BY <1>1, <1>4, <2>1
    <3> HIDE DEF m
    <3>2. RingAt(x, m, N) = Two[m] * l + g  BY <3>1, RingAtIs
    <3> QED  BY <3>2 DEF m
  <2>3. (2 * T) * l = 2 * (T * l)  BY <1>2, <1>4, SMTT(20)
  <2> QED  BY <1>2, <2>2, <2>3
<1>9. A \in Nat /\ A + T <= H
  <2>1. l * T + T <= P * T /\ l * T = T * l /\ P * T = T * P /\ l * T \in Nat
    BY <1>2, <1>4, Products, SMTT(20)
  <2> QED  BY <1>2, <2>1
<1>10. T * e = H * c + A
  <2>1. T * (P * c + l) = (T * P) * c + T * l  BY <1>2, <1>4, <1>5, SMTT(20)
  <2> QED  BY <1>2, <2>1
<1>11. H * c = IF c = 1 THEN H ELSE 0
  <2>1. c = 0 => H * c = 0  BY <1>2
  <2>2. c = 1 => H * c = H  BY <1>2
  <2> QED  BY <1>5, <2>1, <2>2
<1>12. v = (IF c = 1 THEN H ELSE 0) + A + h
  <2> DEFINE C == T * e
             D == H * c
  <2>1. C = D + A /\ v = C + h  BY <1>10
  <2> HIDE DEF A, v, C
  <2> QED  BY <1>2, <1>5, <1>9, <1>11, <2>1
<1> HIDE DEF A, v
<1>13. v \in 0 .. 2 * H - 1 /\ 2 * A + g = IF v >= H THEN 2 * v - 2 * H + 1 ELSE 2 * v
  BY <1>2, <1>5, <1>7, <1>9, <1>12
<1> QED  BY <1>2, <1>7, <1>8, <1>13 DEF RingTurn, H

\* A turn of a ring, of any number of turns to the left or to the right.
LEMMA RingNext ==
  ASSUME NEW N \in Nat \ {0}, NEW x \in 0 .. Two[N] - 1, NEW n \in Int
  PROVE  /\ Ring(x, n, N) \in 0 .. Two[N] - 1
         /\ Ring(x, n + 1, N) = RingTurn(Ring(x, n, N), N)
         /\ Ring(x, 0, N) = x
<1> DEFINE W == Two[N]
           q == n \div N
           k == n % N
<1>0. W \in Nat \ {0} /\ x \in 0 .. W - 1  BY TwoIs
<1>1. q \in Int /\ k \in 0 .. N - 1 /\ n = N * q + k  BY IntDivision
<1>2. \A m : Ring(x, m, N) = RingAt(x, m % N, N)  BY DEF Ring, RingAt
<1>3. RingAt(x, 0, N) = x /\ RingAt(x, N, N) = x
  <2>1. RingAt(x, 0, N) = Two[0] * x + 0
    <3> HIDE DEF W
    <3>1. N \in Nat /\ 0 \in 0 .. N /\ 0 \in Nat /\ N - 0 = N  OBVIOUS
    <3>2. x \in 0 .. Two[N - 0] - 1  BY <3>1
    <3>3. x = Two[N - 0] * 0 + x
      <4>1. W * 0 + x = x  BY <1>0
      <4> QED  BY <3>1, <4>1 DEF W
    <3> QED  BY <3>1, <3>2, <3>3, RingAtIs
  <2>2. RingAt(x, N, N) = Two[N] * 0 + x
    <3>1. N \in Nat /\ N \in 0 .. N /\ N - N = 0 /\ Two[0] = 1  BY TwoIs
    <3>2. x \in Nat /\ 0 \in 0 .. Two[N - N] - 1  BY <1>0, <3>1
    <3>3. x = Two[N - N] * x + 0
      <4>1. 1 * x + 0 = x  BY <3>2
      <4> QED  BY <3>1, <4>1
    <3> QED  BY <3>1, <3>2, <3>3, RingAtIs
  <2>3. Two[0] * x + 0 = x
    <3>1. Two[0] = 1 /\ 1 * x + 0 = x  BY <1>0, TwoIs
    <3> QED  BY <3>1
  <2>4. Two[N] * 0 + x = x
    <3> HIDE DEF W
    <3>1. W * 0 + x = x  BY <1>0
    <3> QED  BY <3>1 DEF W
  <2> QED  BY <2>1, <2>2, <2>3, <2>4
<1> HIDE DEF W, q, k
<1>4. Ring(x, n, N) = RingAt(x, k, N)  BY <1>2 DEF k
<1>5. Ring(x, n + 1, N) = RingAt(x, k + 1, N)
  <2> DEFINE A == N * q
  <2>1. A \in Int /\ n = A + k  BY <1>1
  <2>2. CASE k + 1 < N
    <3>1. k + 1 \in 0 .. N - 1  BY <1>1, <2>2
    <3>2. (N * q + (k + 1)) % N = k + 1  BY <1>1, <3>1, DivideInt
    <3>3. n + 1 = A + (k + 1)
      <4> HIDE DEF A
      <4> QED  BY <1>1, <2>1
    <3> QED  BY <1>2, <3>2, <3>3
  <2>3. CASE ~(k + 1 < N)
    <3>1. k + 1 = N /\ q + 1 \in Int /\ 0 \in 0 .. N - 1  BY <1>1, <2>3
    <3>2. (N * (q + 1) + 0) % N = 0  BY <3>1, DivideInt
    <3>3. N * (q + 1) = N * q + N  BY <1>1, SMTT(20)
    <3>4. n + 1 = N * (q + 1) + 0
      <4> DEFINE B == N * (q + 1)
      <4>1. B = A + N  BY <3>3
      <4> HIDE DEF A, B
      <4>2. n + 1 = B + 0  BY <1>1, <2>1, <3>1, <4>1
      <4> QED  BY <4>2 DEF B
    <3> QED  BY <1>2, <1>3, <3>1, <3>2, <3>4
  <2> QED  BY <2>2, <2>3
<1>6. Ring(x, 0, N) = x
  <2>1. 0 \in 0 .. N - 1 /\ 0 \in Int /\ N * 0 + 0 = 0  OBVIOUS
  <2>2. (N * 0 + 0) % N = 0  BY <2>1, DivideInt
  <2> QED  BY <1>2, <1>3, <2>1, <2>2
<1> QED  BY <1>1, <1>4, <1>5, <1>6, RingOnce

\* One turn of the unit, and its opposite.
LEMMA OneTurn ==
  ASSUME NEW s \in Size, NEW v \in 0 .. Mod(s) - 1, NEW c \in BOOLEAN
  PROVE  LET H == Half[s]
             d == IF c THEN 1 ELSE 0
         IN /\ Left(s, v, c).val = (IF v >= H THEN 2 * v - 2 * H ELSE 2 * v) + d
            /\ Left(s, v, c).out <=> v >= H
            /\ \E q \in Nat, e \in {0, 1} :
                 /\ v = 2 * q + e
                 /\ Right(s, v, c).val = IF c THEN q + H ELSE q
                 /\ Right(s, v, c).out <=> e = 1
                 /\ Bit(v, 0) <=> e = 1
<1> DEFINE H == Half[s]
           M == Mod(s)
           d == IF c THEN 1 ELSE 0
           t == 2 * v
           q == v \div 2
           e == v % 2
<1>1. H \in Nat \ {0, 1} /\ M = 2 * H /\ v \in 0 .. M - 1 /\ v \in Nat  BY Halves
<1>2. t % M = IF v >= H THEN t - 2 * H ELSE t
  <2> HIDE DEF H, M
  <2>1. t \in Int /\ -M <= t /\ t < 2 * M /\ ~(t < 0) /\ (t < M <=> ~(v >= H))  BY <1>1
  <2> HIDE DEF t
  <2>2. t % M = IF t < 0 THEN t + M ELSE IF t < M THEN t ELSE t - M  BY <2>1, ModWithin DEF M
  <2> QED  BY <1>1, <2>1, <2>2
<1>3. Left(s, v, c).val = (t % M) + d /\ Left(s, v, c).out = Msb(v, s)  BY DEF Left
<1>4. /\ Right(s, v, c).val = q + (IF c THEN H ELSE 0) /\ Right(s, v, c).out = Bit(v, 0)
  BY DEF Right
<1>5. q \in Nat /\ e \in {0, 1} /\ v = 2 * q + e  BY <1>1
<1>6. Bit(v, 0) <=> e = 1
  <2>1. Two[0] = 1 /\ v \div 1 = v  BY <1>1, TwoIs
  <2> QED  BY <2>1 DEF Bit
<1> HIDE DEF q, e, d, H, M
<1>7. Left(s, v, c).val = (IF v >= H THEN 2 * v - 2 * H ELSE 2 * v) + d  BY <1>2, <1>3
<1>8. Left(s, v, c).out <=> v >= H  BY <1>3 DEF Msb, H
<1>9. Right(s, v, c).val = IF c THEN q + H ELSE q  BY <1>1, <1>4, <1>5
<1>10. Right(s, v, c).out <=> e = 1  BY <1>4, <1>6
<1> QED  BY <1>5, <1>6, <1>7, <1>8, <1>9, <1>10 DEF d, H

\* The ring a rotation turns: the vector alone or with the carry above it.
RingOf(s, carry, t) == IF carry /\ t.out THEN t.val + Mod(s) ELSE t.val
RingSize(s, carry) == IF carry THEN Width[s] + 1 ELSE Width[s]

\* A turn of the unit is one of the ring.
LEMMA TurnRing ==
  ASSUME NEW s \in Size, NEW carry \in BOOLEAN, NEW n \in Int,
         NEW t \in [val : 0 .. Mod(s) - 1, out : BOOLEAN],
         Turn(s, n, carry, t) \in [val : 0 .. Mod(s) - 1, out : BOOLEAN]
  PROVE  LET N == RingSize(s, carry)
             r == RingOf(s, carry, Turn(s, n, carry, t))
         IN /\ n > 0 => r = RingTurn(RingOf(s, carry, t), N)
            /\ ~(n > 0) => \A u \in 0 .. Two[N] - 1 : RingOf(s, carry, t) = RingTurn(u, N) => r = u
<1> DEFINE H == Half[s]
           M == Mod(s)
           w == Width[s]
           v == t.val
           o == t.out
           N == RingSize(s, carry)
           z == Turn(s, n, carry, t)
<1>1. /\ H \in Nat \ {0, 1} /\ M = 2 * H /\ M = Two[w] /\ H = Two[w - 1] /\ w \in Nat \ {0, 1}
  BY Halves, Vectors, HalfAssumption
<1>2. Two[w + 1] = 2 * M /\ (w + 1) - 1 = w  BY <1>1, TwoIs
<1>3. v \in 0 .. M - 1 /\ o \in BOOLEAN /\ z.val \in 0 .. M - 1 /\ z.out \in BOOLEAN
  <2> HIDE DEF M, z
  <2> QED  BY DEF M, z
<1>4. /\ carry => Two[N] = 2 * M /\ Two[N - 1] = M
      /\ ~carry => Two[N] = M /\ Two[N - 1] = H
  BY <1>1, <1>2 DEF RingSize
<1>5. \A u : /\ carry => RingTurn(u, N) = IF u >= M THEN 2 * u - 2 * M + 1 ELSE 2 * u
             /\ ~carry => RingTurn(u, N) = IF u >= H THEN 2 * u - M + 1 ELSE 2 * u
  BY <1>4 DEF RingTurn
<1>6. /\ \A y : carry => RingOf(s, carry, y) = IF y.out THEN y.val + M ELSE y.val
      /\ \A y : ~carry => RingOf(s, carry, y) = y.val
  BY DEF RingOf
<1>7. CASE n > 0
  <2> DEFINE c == IF carry THEN o ELSE Msb(v, s)
             d == IF c THEN 1 ELSE 0
  <2>1. z = Left(s, v, c)  BY <1>7 DEF Turn
  <2>2. c \in BOOLEAN
    <3>1. Msb(v, s) \in BOOLEAN  BY DEF Msb
    <3> QED  BY <1>3, <3>1
  <2>3. Msb(v, s) <=> v >= H  BY DEF Msb
  <2>4. carry => c = o  OBVIOUS
  <2>5. ~carry => (c <=> v >= H)  BY <2>3
  <2> HIDE DEF c
  <2>6. z.val = (IF v >= H THEN 2 * v - 2 * H ELSE 2 * v) + d /\ (z.out <=> v >= H)
    BY <1>3, <2>1, <2>2, OneTurn
  <2>7. RingOf(s, carry, z) = RingTurn(RingOf(s, carry, t), N)
    <3>1. CASE carry
      <4>1. RingOf(s, carry, z) = IF z.out THEN z.val + M ELSE z.val  BY <1>6, <3>1
      <4>2. RingOf(s, carry, t) = IF o THEN v + M ELSE v  BY <1>6, <3>1
      <4> DEFINE y == RingOf(s, carry, t)
      <4>3. RingTurn(y, N) = IF y >= M THEN 2 * y - 2 * M + 1 ELSE 2 * y  BY <1>5, <3>1
      <4> HIDE DEF y, M, H, v, o, z, N
      <4>4. y = IF o THEN v + M ELSE v  BY <4>2 DEF y
      <4>5. (o => d = 1) /\ (~o => d = 0)  BY <2>4, <3>1
      <4>6. CASE o  BY <1>1, <1>3, <2>6, <4>1, <4>3, <4>4, <4>5, <4>6 DEF y
      <4>7. CASE ~o  BY <1>1, <1>3, <2>6, <4>1, <4>3, <4>4, <4>5, <4>7 DEF y
      <4> QED  BY <4>6, <4>7
    <3>2. CASE ~carry
      <4>1. RingOf(s, carry, z) = z.val /\ RingOf(s, carry, t) = v  BY <1>6, <3>2
      <4>2. RingTurn(v, N) = IF v >= H THEN 2 * v - M + 1 ELSE 2 * v  BY <1>5, <3>2
      <4>3. (v >= H => d = 1) /\ (~(v >= H) => d = 0)  BY <2>5, <3>2
      <4> HIDE DEF M, H, v, o, z, N, d
      <4> QED  BY <1>1, <1>3, <2>6, <4>1, <4>2, <4>3
    <3> QED  BY <3>1, <3>2
  <2> QED  BY <1>7, <2>7
<1>8. CASE ~(n > 0)
  <2> SUFFICES ASSUME NEW u \in 0 .. Two[N] - 1, RingOf(s, carry, t) = RingTurn(u, N)
               PROVE  RingOf(s, carry, z) = u
    BY <1>8
  <2> DEFINE c == IF carry THEN o ELSE Bit(v, 0)
  <2>1. z = Right(s, v, c)  BY <1>8 DEF Turn
  <2>2. c \in BOOLEAN  BY <1>3 DEF Bit
  <2>3. carry => c = o  OBVIOUS
  <2>4. ~carry => c = Bit(v, 0)  OBVIOUS
  <2> HIDE DEF c
  <2>5. PICK q \in Nat, e \in {0, 1} :
           /\ v = 2 * q + e
           /\ Right(s, v, c).val = IF c THEN q + H ELSE q
           /\ Right(s, v, c).out <=> e = 1
           /\ Bit(v, 0) <=> e = 1
    BY <1>3, <2>2, OneTurn
  <2>6. (z.val = IF c THEN q + H ELSE q) /\ (z.out <=> e = 1)  BY <2>1, <2>5
  <2>7. CASE carry
    <3>1. RingOf(s, carry, z) = IF z.out THEN z.val + M ELSE z.val  BY <1>6, <2>7
    <3>2. RingOf(s, carry, t) = IF o THEN v + M ELSE v  BY <1>6, <2>7
    <3>3. RingTurn(u, N) = IF u >= M THEN 2 * u - 2 * M + 1 ELSE 2 * u  BY <1>5, <2>7
    <3>4. u \in 0 .. 2 * M - 1  BY <1>4, <2>7
    <3>5. c = o  BY <2>3, <2>7
    <3> DEFINE y == IF o THEN v + M ELSE v
    <3>6. y = IF u >= M THEN 2 * u - 2 * M + 1 ELSE 2 * u  BY <3>2, <3>3
    <3> HIDE DEF M, H, v, o, z, N
    <3>7. CASE o
      <4>1. v + M = IF u >= M THEN 2 * u - 2 * M + 1 ELSE 2 * u  BY <3>6, <3>7
      <4>2. z.val = q + H  BY <2>6, <3>5, <3>7
      <4> QED  BY <1>1, <1>3, <2>5, <2>6, <3>1, <3>4, <4>1, <4>2
    <3>8. CASE ~o
      <4>1. v = IF u >= M THEN 2 * u - 2 * M + 1 ELSE 2 * u  BY <3>6, <3>8
      <4>2. z.val = q  BY <2>6, <3>5, <3>8
      <4> QED  BY <1>1, <1>3, <2>5, <2>6, <3>1, <3>4, <4>1, <4>2
    <3> QED  BY <3>7, <3>8
  <2>8. CASE ~carry
    <3>1. RingOf(s, carry, z) = z.val /\ RingOf(s, carry, t) = v  BY <1>6, <2>8
    <3>2. RingTurn(u, N) = IF u >= H THEN 2 * u - M + 1 ELSE 2 * u  BY <1>5, <2>8
    <3>3. u \in 0 .. M - 1  BY <1>4, <2>8
    <3>4. c <=> e = 1  BY <2>4, <2>5, <2>8
    <3>5. v = IF u >= H THEN 2 * u - M + 1 ELSE 2 * u  BY <3>1, <3>2
    <3>6. z.val = IF e = 1 THEN q + H ELSE q  BY <2>6, <3>4
    <3> HIDE DEF M, H, v, o, z, N
    <3>7. z.val = u  BY <1>1, <1>3, <2>5, <3>3, <3>5, <3>6
    <3> QED  BY <3>1, <3>7
  <2> QED  BY <2>7, <2>8
<1> QED  BY <1>7, <1>8

\* A rotation turns the ring by its count, to the left or to the right.
LEMMA TurnsRing ==
  ASSUME NEW s \in Size, NEW n \in Int, NEW b \in 0 .. Mod(s) - 1, NEW f \in Flags,
         NEW carry \in BOOLEAN
  PROVE  RingOf(s, carry, Turns(s, n, b, f, carry)) =
           Ring(RingOf(s, carry, [val |-> b, out |-> f.cy]), n, RingSize(s, carry))
<1> DEFINE N == RingSize(s, carry)
           R == [val : 0 .. Mod(s) - 1, out : BOOLEAN]
           x == RingOf(s, carry, [val |-> b, out |-> f.cy])
           at(m) == IF n > 0 THEN m ELSE 0 - m
<1>1. PICK h : Turned(h, s, n, b, f, carry)  BY TurnsAre
<1>2. /\ h[0] = [val |-> b, out |-> f.cy]
      /\ \A m \in Nat : h[m + 1] = Turn(s, n, carry, h[m])
      /\ \A m \in Nat : h[m] \in R
      /\ Turns(s, n, b, f, carry) = h[IF n > 0 THEN n ELSE -n]
  BY <1>1 DEF Turned
<1>3. N \in Nat \ {0} /\ \A t \in R : RingOf(s, carry, t) \in 0 .. Two[N] - 1
  <2> DEFINE M == Mod(s)
             w == Width[s]
  <2>1. w \in Nat \ {0, 1} /\ M = Two[w] /\ M \in Nat \ {0}  BY Vectors
  <2>2. Two[w + 1] = 2 * M /\ w + 1 \in Nat \ {0}  BY <2>1, TwoIs
  <2>3. ASSUME NEW t \in R
        PROVE  RingOf(s, carry, t) \in 0 .. Two[N] - 1
    <3>1. t.val \in 0 .. M - 1 /\ t.out \in BOOLEAN  OBVIOUS
    <3>2. CASE carry
      <4>1. Two[N] = 2 * M  BY <2>2, <3>2 DEF RingSize
      <4>2. RingOf(s, carry, t) = IF t.out THEN t.val + M ELSE t.val  BY <3>2 DEF RingOf
      <4> HIDE DEF M, N, w
      <4> QED  BY <2>1, <3>1, <4>1, <4>2
    <3>3. CASE ~carry
      <4>1. Two[N] = M  BY <2>1, <3>3 DEF RingSize
      <4>2. RingOf(s, carry, t) = t.val  BY <3>3 DEF RingOf
      <4> HIDE DEF M, N, w
      <4> QED  BY <3>1, <4>1, <4>2
    <3> QED  BY <3>2, <3>3
  <2>4. N \in Nat \ {0}  BY <2>1, <2>2 DEF RingSize
  <2> QED  BY <2>3, <2>4
<1>4. x \in 0 .. Two[N] - 1
  <2>1. 0 \in Nat /\ x = RingOf(s, carry, h[0])  BY <1>2
  <2> HIDE DEF x, N, R
  <2> QED  BY <1>2, <1>3, <2>1
<1> HIDE DEF x, N
<1> DEFINE T == {m \in Nat : RingOf(s, carry, h[m]) = Ring(x, at(m), N)}
<1>5. 0 \in T
  <2>1. at(0) = 0 /\ 0 \in Int  OBVIOUS
  <2>2. Ring(x, 0, N) = x  BY <1>3, <1>4, <2>1, RingNext
  <2>3. RingOf(s, carry, h[0]) = x  BY <1>2 DEF x
  <2> HIDE DEF at
  <2> QED  BY <2>1, <2>2, <2>3
<1>6. ASSUME NEW m \in Nat, m \in T
      PROVE  m + 1 \in T
  <2> DEFINE t == h[m]
             z == h[m + 1]
  <2>1. t \in R /\ z \in R /\ z = Turn(s, n, carry, t)  BY <1>2
  <2>2. RingOf(s, carry, t) = Ring(x, at(m), N)  BY <1>6
  <2> HIDE DEF t, z
  <2>3. CASE n > 0
    <3>1. RingOf(s, carry, z) = RingTurn(RingOf(s, carry, t), N)
      BY <2>1, <2>3, TurnRing DEF N
    <3>2. at(m) = m /\ at(m + 1) = m + 1 /\ m \in Int  BY <2>3
    <3> HIDE DEF at
    <3>3. Ring(x, m + 1, N) = RingTurn(Ring(x, m, N), N)  BY <1>3, <1>4, <3>2, RingNext
    <3>4. RingOf(s, carry, z) = Ring(x, at(m + 1), N)  BY <2>2, <3>1, <3>2, <3>3
    <3> QED  BY <3>4 DEF z
  <2>4. CASE ~(n > 0)
    <3> DEFINE k == (0 - m) - 1
               u == Ring(x, k, N)
    <3>1. at(m) = k + 1 /\ at(m + 1) = k /\ k \in Int  BY <2>4
    <3> HIDE DEF at, k
    <3>2. u \in 0 .. Two[N] - 1 /\ Ring(x, k + 1, N) = RingTurn(u, N)
      BY <1>3, <1>4, <3>1, RingNext
    <3> HIDE DEF u
    <3>3. RingOf(s, carry, t) = RingTurn(u, N)  BY <2>2, <3>1, <3>2
    <3>4. RingOf(s, carry, z) = u  BY <2>1, <2>4, <3>2, <3>3, TurnRing DEF N
    <3>5. RingOf(s, carry, z) = Ring(x, at(m + 1), N)  BY <3>1, <3>4 DEF u
    <3> QED  BY <3>5 DEF z
  <2> QED  BY <2>3, <2>4
<1>7. Nat \subseteq T
  <2> HIDE DEF T
  <2> QED  BY <1>5, <1>6, Induct
<1> DEFINE k == IF n > 0 THEN n ELSE -n
<1>8. k \in Nat /\ at(k) = n  OBVIOUS
<1> HIDE DEF at, k
<1>9. RingOf(s, carry, h[k]) = Ring(x, n, N)  BY <1>7, <1>8
<1> QED  BY <1>2, <1>9 DEF x, N, k

\* ROT.
LEMMA RotateAgrees ==
  ASSUME NEW s \in Size, NEW n \in Int, NEW b \in 0 .. Mod(s) - 1, NEW f \in Flags, NEW unlike
  PROVE  Agrees(s, Rotate(s, n, b, f), RefRot(s, n, b), unlike)
<1> DEFINE t == Turns(s, n, b, f, FALSE)
           r == t.val
           cy == IF n > 0 THEN Bit(r, 0) ELSE n < 0 /\ Msb(r, s)
           no == FALSE
<1>1. FALSE \in BOOLEAN  OBVIOUS
<1>2. t \in [val : 0 .. Mod(s) - 1, out : BOOLEAN]  BY <1>1, TurnsFit
<1>3. RingOf(s, FALSE, t) =
        Ring(RingOf(s, FALSE, [val |-> b, out |-> f.cy]), n, RingSize(s, FALSE))
  BY <1>1, TurnsRing
<1>4. r = Ring(b, n, Width[s])
  <2> HIDE DEF t
  <2>1. RingOf(s, FALSE, t) = r /\ RingOf(s, FALSE, [val |-> b, out |-> f.cy]) = b
        /\ RingSize(s, FALSE) = Width[s]
    BY DEF RingOf, RingSize
  <2> QED  BY <1>3, <2>1
<1>5. r \in 0 .. Mod(s) - 1
  <2> HIDE DEF t
  <2> QED  BY <1>2
<1>6. Rotate(s, n, b, f) = Outcome(s, r, cy, no)  BY DEF Rotate
<1> HIDE DEF t, no
<1>7. RefRot(s, n, b) = Result(s, r, IF n > 0 THEN Bit(r, 0) ELSE n < 0 /\ Sign(r, s), no)
  BY <1>4 DEF RefRot, no
<1> HIDE DEF r
<1>8. r % Mod(s) = r /\ r \in Int  BY <1>5, ModSame
<1>9. Sign(r, s) = Msb(r, s)
  <2>1. Sign(r, s) <=> r >= Half[s]  BY <1>8, SignIs
  <2> QED  BY <2>1 DEF Sign, Bit, Msb
<1>10. RefRot(s, n, b) = Result(s, r, cy, no)  BY <1>7, <1>9
<1> HIDE DEF cy
<1>11. Agrees(s, Outcome(s, r, cy, no), Result(s, r, cy, no), unlike)  BY <1>8, ResultAgrees
<1> QED  BY <1>6, <1>10, <1>11

\* ROTC.
LEMMA RotateCarryAgrees ==
  ASSUME NEW s \in Size, NEW n \in Int, NEW b \in 0 .. Mod(s) - 1, NEW f \in Flags, NEW unlike
  PROVE  Agrees(s, RotateCarry(s, n, b, f), RefRotc(s, n, b, f), unlike)
<1> DEFINE M == Mod(s)
           t == Turns(s, n, b, f, TRUE)
           r == t.val
           c == IF t.out THEN 1 ELSE 0
           ring == Ring(b + Mod(s) * Carry(f), n, Width[s] + 1)
           no == FALSE
<1>1. TRUE \in BOOLEAN  OBVIOUS
<1>2. t \in [val : 0 .. Mod(s) - 1, out : BOOLEAN]  BY <1>1, TurnsFit
<1>3. RingOf(s, TRUE, t) =
        Ring(RingOf(s, TRUE, [val |-> b, out |-> f.cy]), n, RingSize(s, TRUE))
  BY <1>1, TurnsRing
<1>4. M \in Nat \ {0, 1} /\ M = Two[Width[s]] /\ b \in Nat  BY Vectors
<1>5. RingOf(s, TRUE, [val |-> b, out |-> f.cy]) = b + Mod(s) * Carry(f)
  <2> DEFINE y == [val |-> b, out |-> f.cy]
  <2>1. y.val = b /\ y.out = f.cy  OBVIOUS
  <2> HIDE DEF y
  <2>2. RingOf(s, TRUE, y) = IF f.cy THEN b + M ELSE b  BY <2>1 DEF RingOf
  <2> HIDE DEF M
  <2>3. M * 1 = M /\ M * 0 = 0 /\ b + 0 = b  BY <1>4
  <2>4. b + M * Carry(f) = IF f.cy THEN b + M ELSE b
    <3>1. CASE f.cy
      <4>1. Carry(f) = 1  BY <3>1 DEF Carry
      <4> QED  BY <2>3, <3>1, <4>1
    <3>2. CASE ~f.cy
      <4>1. Carry(f) = 0  BY <3>2 DEF Carry
      <4> QED  BY <2>3, <3>2, <4>1
    <3> QED  BY <3>1, <3>2
  <2> DEFINE e == IF f.cy THEN b + M ELSE b
  <2>5. RingOf(s, TRUE, y) = e /\ b + M * Carry(f) = e  BY <2>2, <2>4
  <2> HIDE DEF e
  <2>6. RingOf(s, TRUE, y) = b + M * Carry(f)  BY <2>5
  <2> QED  BY <2>6 DEF y, M
<1>6. RingSize(s, TRUE) = Width[s] + 1  BY DEF RingSize
<1>7. RotateCarry(s, n, b, f) = Outcome(s, r, n # 0 /\ t.out, no)  BY DEF RotateCarry
<1>8. RefRotc(s, n, b, f) = Result(s, ring % M, n # 0 /\ Bit(ring, Width[s]), no)
  BY DEF RefRotc
<1> HIDE DEF t, no
<1>9. r \in 0 .. M - 1 /\ t.out \in BOOLEAN /\ RingOf(s, TRUE, t) = IF t.out THEN r + M ELSE r
  BY <1>2 DEF RingOf
<1>10. ring = RingOf(s, TRUE, t)  BY <1>3, <1>5, <1>6
<1> HIDE DEF ring, r
<1>11. ring = M * c + r /\ c \in {0, 1} /\ (t.out <=> c = 1)
  <2> HIDE DEF M
  <2>1. M * 1 = M /\ M * 0 = 0  BY <1>4
  <2>2. CASE t.out
    <3>1. c = 1 /\ ring = r + M  BY <1>9, <1>10, <2>2
    <3> HIDE DEF c
    <3>2. M * c = M /\ r + M = M + r  BY <1>4, <1>9, <2>1, <3>1
    <3> QED  BY <2>2, <3>1, <3>2
  <2>3. CASE ~t.out
    <3>1. c = 0 /\ ring = r  BY <1>9, <1>10, <2>3
    <3> HIDE DEF c
    <3>2. M * c = 0 /\ r = 0 + r  BY <1>4, <1>9, <2>1, <3>1
    <3> QED  BY <2>3, <3>1, <3>2
  <2> QED  BY <2>2, <2>3
<1> HIDE DEF c
<1>12. ring % M = r /\ ring \div M = c
  <2> HIDE DEF M
  <2>1. M \in Nat \ {0} /\ c \in Int /\ r \in 0 .. M - 1  BY <1>4, <1>9, <1>11
  <2>2. (M * c + r) % M = r /\ (M * c + r) \div M = c  BY <2>1, DivideInt
  <2> QED  BY <1>11, <2>2
<1>13. Bit(ring, Width[s]) <=> t.out
  <2>1. Bit(ring, Width[s]) <=> c % 2 = 1  BY <1>4, <1>12 DEF Bit
  <2> QED  BY <1>11, <2>1
<1> DEFINE cy == n # 0 /\ t.out
<1>14. (n # 0 /\ Bit(ring, Width[s])) = cy  BY <1>9, <1>13 DEF Bit
<1>15. RefRotc(s, n, b, f) = Result(s, r, cy, no)  BY <1>8, <1>12, <1>14
<1> HIDE DEF cy
<1>16. r = r % Mod(s) /\ r \in Int  BY <1>9, ModSame
<1>17. Agrees(s, Outcome(s, r, cy, no), Result(s, r, cy, no), unlike)  BY <1>16, ResultAgrees
<1> QED  BY <1>7, <1>15, <1>17 DEF cy

\* The register written in the bytes of its size, or whole when it is of a word.
LEMMA MergedAgrees ==
  ASSUME NEW i, NEW old \in Register, NEW r \in Register, NEW s \in Size,
         ~(i.sp /\ s # "SZ_WORD")
  PROVE  Merged(i, old, r, s) = (old - (old % Mod(s))) + (r % Mod(s))
<1>1. CASE ~i.sp  BY <1>1 DEF Merged, Sized
<1>2. CASE i.sp
  <2>1. s = "SZ_WORD"  BY <1>2
  <2> DEFINE M == Mod("SZ_WORD")
  <2>2. old % M = old /\ r % M = r
    <3>1. old \in 0 .. Mod("SZ_WORD") - 1 /\ r \in 0 .. Mod("SZ_WORD") - 1 /\ "SZ_WORD" \in Size
      BY <2>1 DEF Register
    <3> QED  BY <3>1, ModSame
  <2>3. (old - old) + r = r
    <3>1. M \in Nat  BY <2>1, Vectors
    <3>2. old \in Int /\ r \in Int  BY <3>1 DEF Register
    <3> QED  BY <3>2
  <2>4. Merged(i, old, r, s) = r  BY <1>2 DEF Merged
  <2> QED  BY <2>1, <2>2, <2>3, <2>4
<1> QED  BY <1>1, <1>2

\* The condition of a code is met when the reference meets it.
LEMMA ConditionAgrees ==
  ASSUME NEW f \in Flags, NEW k \in 0 .. 15
  PROVE  /\ k + 1 \in DOMAIN Conditions
         /\ CondMet(f, Conditions[k + 1]) = RefCond(k, f)
<1>1. f.z \in BOOLEAN /\ f.s \in BOOLEAN /\ f.ov \in BOOLEAN /\ f.cy \in BOOLEAN  BY Booleans
<1>2. k + 1 \in DOMAIN Conditions  BY DEF Conditions
<1> DEFINE h == k \div 2
           even == CASE h = 0 -> f.ov
                     [] h = 1 -> f.cy
                     [] h = 2 -> f.z
                     [] h = 3 -> f.cy \/ f.z
                     [] h = 4 -> f.s
                     [] h = 5 -> TRUE
                     [] h = 6 -> f.s # f.ov
                     [] h = 7 -> (f.s # f.ov) \/ f.z
           c == Conditions[k + 1]
<1>3. RefCond(k, f) = (even = (k % 2 = 0))  BY DEF RefCond
<1>4. /\ k = 0 => c = "CC_BV" /\ h = 0 /\ k % 2 = 0
      /\ k = 1 => c = "CC_BNV" /\ h = 0 /\ k % 2 = 1
      /\ k = 2 => c = "CC_BL" /\ h = 1 /\ k % 2 = 0
      /\ k = 3 => c = "CC_BNL" /\ h = 1 /\ k % 2 = 1
      /\ k = 4 => c = "CC_BE" /\ h = 2 /\ k % 2 = 0
      /\ k = 5 => c = "CC_BNE" /\ h = 2 /\ k % 2 = 1
      /\ k = 6 => c = "CC_BNH" /\ h = 3 /\ k % 2 = 0
      /\ k = 7 => c = "CC_BH" /\ h = 3 /\ k % 2 = 1
  BY DEF Conditions
<1>5. /\ k = 8 => c = "CC_BN" /\ h = 4 /\ k % 2 = 0
      /\ k = 9 => c = "CC_BP" /\ h = 4 /\ k % 2 = 1
      /\ k = 10 => c = "CC_BR" /\ h = 5 /\ k % 2 = 0
      /\ k = 11 => c = "CC_NOP" /\ h = 5 /\ k % 2 = 1
      /\ k = 12 => c = "CC_BLT" /\ h = 6 /\ k % 2 = 0
      /\ k = 13 => c = "CC_BGE" /\ h = 6 /\ k % 2 = 1
      /\ k = 14 => c = "CC_BLE" /\ h = 7 /\ k % 2 = 0
      /\ k = 15 => c = "CC_BGT" /\ h = 7 /\ k % 2 = 1
  BY DEF Conditions
<1>6. k \in {0, 1, 2, 3, 4, 5, 6, 7, 8, 9, 10, 11, 12, 13, 14, 15}  OBVIOUS
<1> DEFINE p == k % 2
<1> HIDE DEF h, c, p
<1>7. /\ h = 0 => even = f.ov
      /\ h = 1 => even = f.cy
      /\ h = 2 => even = f.z
      /\ h = 3 => even = (f.cy \/ f.z)
      /\ h = 4 => even = f.s
      /\ h = 5 => even = TRUE
      /\ h = 6 => even = (f.s # f.ov)
      /\ h = 7 => even = ((f.s # f.ov) \/ f.z)
  <2>1. h = 0 => even = f.ov  BY <1>1
  <2>2. h = 1 => even = f.cy  BY <1>1
  <2>3. h = 2 => even = f.z  BY <1>1
  <2>4. h = 3 => even = (f.cy \/ f.z)  BY <1>1
  <2>5. h = 4 => even = f.s  BY <1>1
  <2>6. h = 5 => even = TRUE  BY <1>1
  <2>7. h = 6 => even = (f.s # f.ov)  BY <1>1
  <2>8. h = 7 => even = ((f.s # f.ov) \/ f.z)  BY <1>1
  <2> HIDE DEF even
  <2> QED  BY <2>1, <2>2, <2>3, <2>4, <2>5, <2>6, <2>7, <2>8
<1> HIDE DEF even
<1>8. /\ c = "CC_BV"  => CondMet(f, c) = f.ov
      /\ c = "CC_BNV" => CondMet(f, c) = (~f.ov)
      /\ c = "CC_BL"  => CondMet(f, c) = (f.cy)
      /\ c = "CC_BNL" => CondMet(f, c) = (~f.cy)
      /\ c = "CC_BE"  => CondMet(f, c) = (f.z)
      /\ c = "CC_BNE" => CondMet(f, c) = (~f.z)
      /\ c = "CC_BNH" => CondMet(f, c) = (f.cy \/ f.z)
      /\ c = "CC_BH"  => CondMet(f, c) = (~f.cy /\ ~f.z)
  BY DEF CondMet
<1>9. /\ c = "CC_BN"  => CondMet(f, c) = f.s
      /\ c = "CC_BP"  => CondMet(f, c) = (~f.s)
      /\ c = "CC_BR"  => CondMet(f, c) = (TRUE)
      /\ c = "CC_NOP" => CondMet(f, c) = (FALSE)
      /\ c = "CC_BLT" => CondMet(f, c) = (~(f.s <=> f.ov))
      /\ c = "CC_BGE" => CondMet(f, c) = ((f.s <=> f.ov))
      /\ c = "CC_BLE" => CondMet(f, c) = (~(f.s <=> f.ov) \/ f.z)
      /\ c = "CC_BGT" => CondMet(f, c) = ((f.s <=> f.ov) /\ ~f.z)
  BY DEF CondMet
<1>10. CondMet(f, c) = (even = (p = 0))
  <2>1. CASE k = 0
    <3>1. c = "CC_BV" /\ h = 0 /\ p = 0  BY <1>4, <2>1 DEF p
    <3> QED  BY <1>1, <1>7, <1>8, <3>1
  <2>2. CASE k = 1
    <3>1. c = "CC_BNV" /\ h = 0 /\ p = 1  BY <1>4, <2>2 DEF p
    <3> QED  BY <1>1, <1>7, <1>8, <3>1
  <2>3. CASE k = 2
    <3>1. c = "CC_BL" /\ h = 1 /\ p = 0  BY <1>4, <2>3 DEF p
    <3> QED  BY <1>1, <1>7, <1>8, <3>1
  <2>4. CASE k = 3
    <3>1. c = "CC_BNL" /\ h = 1 /\ p = 1  BY <1>4, <2>4 DEF p
    <3> QED  BY <1>1, <1>7, <1>8, <3>1
  <2>5. CASE k = 4
    <3>1. c = "CC_BE" /\ h = 2 /\ p = 0  BY <1>4, <2>5 DEF p
    <3> QED  BY <1>1, <1>7, <1>8, <3>1
  <2>6. CASE k = 5
    <3>1. c = "CC_BNE" /\ h = 2 /\ p = 1  BY <1>4, <2>6 DEF p
    <3> QED  BY <1>1, <1>7, <1>8, <3>1
  <2>7. CASE k = 6
    <3>1. c = "CC_BNH" /\ h = 3 /\ p = 0  BY <1>4, <2>7 DEF p
    <3> QED  BY <1>1, <1>7, <1>8, <3>1
  <2>8. CASE k = 7
    <3>1. c = "CC_BH" /\ h = 3 /\ p = 1  BY <1>4, <2>8 DEF p
    <3> QED  BY <1>1, <1>7, <1>8, <3>1
  <2>9. CASE k = 8
    <3>1. c = "CC_BN" /\ h = 4 /\ p = 0  BY <1>5, <2>9 DEF p
    <3> QED  BY <1>1, <1>7, <1>9, <3>1
  <2>10. CASE k = 9
    <3>1. c = "CC_BP" /\ h = 4 /\ p = 1  BY <1>5, <2>10 DEF p
    <3> QED  BY <1>1, <1>7, <1>9, <3>1
  <2>11. CASE k = 10
    <3>1. c = "CC_BR" /\ h = 5 /\ p = 0  BY <1>5, <2>11 DEF p
    <3> QED  BY <1>1, <1>7, <1>9, <3>1
  <2>12. CASE k = 11
    <3>1. c = "CC_NOP" /\ h = 5 /\ p = 1  BY <1>5, <2>12 DEF p
    <3>2. CondMet(f, c) = FALSE  BY <1>9, <3>1
    <3>3. even = TRUE  BY <1>7, <3>1
    <3>4. (p = 0) = FALSE  BY <3>1
    <3>5. (TRUE = FALSE) = FALSE  OBVIOUS
    <3> QED  BY <3>2, <3>3, <3>4, <3>5
  <2>13. CASE k = 12
    <3>1. c = "CC_BLT" /\ h = 6 /\ p = 0  BY <1>5, <2>13 DEF p
    <3> QED  BY <1>1, <1>7, <1>9, <3>1
  <2>14. CASE k = 13
    <3>1. c = "CC_BGE" /\ h = 6 /\ p = 1  BY <1>5, <2>14 DEF p
    <3>2. CondMet(f, c) = (f.s <=> f.ov)  BY <1>9, <3>1
    <3>3. even = (f.s # f.ov)  BY <1>7, <3>1
    <3>4. (p = 0) = FALSE  BY <3>1
    <3>5. (f.s <=> f.ov) = ((f.s # f.ov) = FALSE)  BY <1>1
    <3> QED  BY <3>2, <3>3, <3>4, <3>5
  <2>15. CASE k = 14
    <3>1. c = "CC_BLE" /\ h = 7 /\ p = 0  BY <1>5, <2>15 DEF p
    <3> QED  BY <1>1, <1>7, <1>9, <3>1
  <2>16. CASE k = 15
    <3>1. c = "CC_BGT" /\ h = 7 /\ p = 1  BY <1>5, <2>16 DEF p
    <3> QED  BY <1>1, <1>7, <1>9, <3>1
  <2> QED  BY <1>6, <2>1, <2>2, <2>3, <2>4, <2>5, <2>6, <2>7, <2>8, <2>9, <2>10, <2>11, <2>12, <2>13, <2>14, <2>15, <2>16
<1> QED  BY <1>2, <1>3, <1>10 DEF c, p

\* UPDPSW: the flags as bits.
LEMMA PswAgrees ==
  ASSUME NEW f \in Flags, NEW old, NEW src
  PROVE  FlagsOf((FlagBits(f) \ Bits(old)) \cup (Bits(src) \cap Bits(old)))
           = [z  |-> IF Bit(old, 0) THEN Bit(src, 0) ELSE f.z,
              s  |-> IF Bit(old, 1) THEN Bit(src, 1) ELSE f.s,
              ov |-> IF Bit(old, 2) THEN Bit(src, 2) ELSE f.ov,
              cy |-> IF Bit(old, 3) THEN Bit(src, 3) ELSE f.cy]
<1> DEFINE B == (FlagBits(f) \ Bits(old)) \cup (Bits(src) \cap Bits(old))
<1>1. f.z \in BOOLEAN /\ f.s \in BOOLEAN /\ f.ov \in BOOLEAN /\ f.cy \in BOOLEAN
      /\ \A x, n : Bit(x, n) \in BOOLEAN
  BY Booleans
<1>2. \A n \in 0 .. 3 : n \in 0 .. WordBits - 1
  <2>1. Width["SZ_BYTE"] \in Nat \ {0, 1} /\ WordBits = 4 * Width["SZ_BYTE"]
    BY Vectors, UnitAssumption DEF Size
  <2> QED  BY <2>1
<1>3. \A x : \A n \in 0 .. 3 : n \in Bits(x) <=> Bit(x, n)  BY <1>2 DEF Bits
<1>4. /\ 0 \in FlagBits(f) <=> f.z
      /\ 1 \in FlagBits(f) <=> f.s
      /\ 2 \in FlagBits(f) <=> f.ov
      /\ 3 \in FlagBits(f) <=> f.cy
  <2> DEFINE t == <<f.z, f.s, f.ov, f.cy>>
  <2>1. t[1] = f.z /\ t[2] = f.s /\ t[3] = f.ov /\ t[4] = f.cy  OBVIOUS
  <2>2. \A n : n \in FlagBits(f) <=> n \in 0 .. 3 /\ t[n + 1]  BY DEF FlagBits
  <2> HIDE DEF t
  <2>3. /\ 0 \in 0 .. 3 /\ 0 + 1 = 1 /\ 1 \in 0 .. 3 /\ 1 + 1 = 2
        /\ 2 \in 0 .. 3 /\ 2 + 1 = 3 /\ 3 \in 0 .. 3 /\ 3 + 1 = 4
    OBVIOUS
  <2>4. 0 \in FlagBits(f) <=> t[0 + 1]  BY <2>2, <2>3
  <2>5. 1 \in FlagBits(f) <=> t[1 + 1]  BY <2>2, <2>3
  <2>6. 2 \in FlagBits(f) <=> t[2 + 1]  BY <2>2, <2>3
  <2>7. 3 \in FlagBits(f) <=> t[3 + 1]  BY <2>2, <2>3
  <2> QED  BY <2>1, <2>3, <2>4, <2>5, <2>6, <2>7
<1>5. \A n : n \in B <=> \/ n \in FlagBits(f) /\ n \notin Bits(old)
                         \/ n \in Bits(src) /\ n \in Bits(old)
  OBVIOUS
<1> HIDE DEF B
<1>6. 0 \in 0 .. 3 /\ 1 \in 0 .. 3 /\ 2 \in 0 .. 3 /\ 3 \in 0 .. 3  OBVIOUS
<1>7. (0 \in B) = IF Bit(old, 0) THEN Bit(src, 0) ELSE f.z
  <2>1. 0 \in Bits(old) <=> Bit(old, 0)  BY <1>3, <1>6
  <2>2. 0 \in Bits(src) <=> Bit(src, 0)  BY <1>3, <1>6
  <2>3. 0 \in B <=> \/ 0 \in FlagBits(f) /\ 0 \notin Bits(old)
                    \/ 0 \in Bits(src) /\ 0 \in Bits(old)
    BY <1>5
  <2> QED  BY <1>1, <1>4, <2>1, <2>2, <2>3
<1>8. (1 \in B) = IF Bit(old, 1) THEN Bit(src, 1) ELSE f.s
  <2>1. 1 \in Bits(old) <=> Bit(old, 1)  BY <1>3, <1>6
  <2>2. 1 \in Bits(src) <=> Bit(src, 1)  BY <1>3, <1>6
  <2>3. 1 \in B <=> \/ 1 \in FlagBits(f) /\ 1 \notin Bits(old)
                    \/ 1 \in Bits(src) /\ 1 \in Bits(old)
    BY <1>5
  <2> QED  BY <1>1, <1>4, <2>1, <2>2, <2>3
<1>9. (2 \in B) = IF Bit(old, 2) THEN Bit(src, 2) ELSE f.ov
  <2>1. 2 \in Bits(old) <=> Bit(old, 2)  BY <1>3, <1>6
  <2>2. 2 \in Bits(src) <=> Bit(src, 2)  BY <1>3, <1>6
  <2>3. 2 \in B <=> \/ 2 \in FlagBits(f) /\ 2 \notin Bits(old)
                    \/ 2 \in Bits(src) /\ 2 \in Bits(old)
    BY <1>5
  <2> QED  BY <1>1, <1>4, <2>1, <2>2, <2>3
<1>10. (3 \in B) = IF Bit(old, 3) THEN Bit(src, 3) ELSE f.cy
  <2>1. 3 \in Bits(old) <=> Bit(old, 3)  BY <1>3, <1>6
  <2>2. 3 \in Bits(src) <=> Bit(src, 3)  BY <1>3, <1>6
  <2>3. 3 \in B <=> \/ 3 \in FlagBits(f) /\ 3 \notin Bits(old)
                    \/ 3 \in Bits(src) /\ 3 \in Bits(old)
    BY <1>5
  <2> QED  BY <1>1, <1>4, <2>1, <2>2, <2>3
<1>11. FlagsOf(B) = [z |-> 0 \in B, s |-> 1 \in B, ov |-> 2 \in B, cy |-> 3 \in B]
  BY DEF FlagsOf
<1> QED  BY <1>7, <1>8, <1>9, <1>10, <1>11 DEF B

\* MOVS and MOVZ: of a vector extended to a word the lowest bits are those of its extension
\* to any size.
LEMMA ExtendAgrees ==
  ASSUME NEW s \in Size, NEW d \in Size, Width[s] < Width[d], NEW a \in 0 .. Mod(s) - 1
  PROVE  Sext(a, s) % Mod(d) = Signed(a, s) % Mod(d) /\ a % Mod(d) = a
<1>1. /\ Width[s] \in Nat /\ Width[d] \in Nat /\ WordBits \in Nat /\ Width[d] <= WordBits
      /\ Mod(s) = Two[Width[s]] /\ Mod(d) = Two[Width[d]] /\ Mod("SZ_WORD") = Two[WordBits]
      /\ Mod(s) \in Nat /\ Mod(d) \in Nat
  BY Vectors
<1>2. Sext(a, s) % Mod(d) = Signed(a, s) % Mod(d)
  <2> DEFINE x == Signed(a, s)
             w == Width[d]
             N == WordBits
  <2>1. x \in Int  BY Extended
  <2>2. w \in Nat /\ N \in Nat /\ w <= N  BY <1>1
  <2> HIDE DEF x, w, N
  <2>3. (x % Two[N]) % Two[w] = x % Two[w]  BY <2>1, <2>2, ModTwice
  <2> QED  BY <1>1, <2>3 DEF Sext, x, w, N
<1>3. a % Mod(d) = a
  <2>1. Mod(s) <= Mod(d)
    <3> DEFINE v == Width[s]
               w == Width[d]
    <3>1. v \in Nat /\ w \in Nat /\ v <= w  BY <1>1
    <3> HIDE DEF v, w
    <3>2. Two[v] <= Two[w]  BY <3>1, TwoGrows
    <3> QED  BY <1>1, <3>2 DEF v, w
  <2>2. a \in 0 .. Mod(d) - 1  BY <1>1, <2>1
  <2> QED  BY <2>2, ModSame
<1> QED  BY <1>2, <1>3

\* MOVT: the bits cut off are copies of the sign when the number is the same.
LEMMA TruncateAgrees ==
  ASSUME NEW s \in Size, NEW d \in Size, Width[d] < Width[s], NEW x \in Register
  PROVE  LET src  == Sized(x, s)
             r    == Sized(x, d)
             from == IF d = "SZ_BYTE" /\ s = "SZ_HALF" THEN "SZ_HALF" ELSE "SZ_WORD"
             cut  == (x \div Mod(d)) % (Mod(from) \div Mod(d))
             ones == (Mod(from) \div Mod(d)) - 1
         IN /\ r % Mod(d) = src % Mod(d)
            /\ (cut # (IF Msb(r, d) THEN ones ELSE 0))
                 = (Signed(src, s) # Signed(src % Mod(d), d))
<1> DEFINE W    == Mod(s)
           M    == Mod(d)
           src  == Sized(x, s)
           r    == Sized(x, d)
           from == IF d = "SZ_BYTE" /\ s = "SZ_HALF" THEN "SZ_HALF" ELSE "SZ_WORD"
           K    == Two[Width[s] - Width[d]]
           L    == Two[(Width[s] - Width[d]) - 1]
           q    == x \div M
           cut  == q % K
           t    == q \div K
<1>1. from = s
  <2>1. Width[s] <= WordBits /\ Width[d] <= WordBits /\ Width[s] \in Nat /\ Width[d] \in Nat
    BY Vectors
  <2>2. s = "SZ_WORD" => from = s  OBVIOUS
  <2>3. s = "SZ_HALF" => d = "SZ_BYTE"  BY <2>1, UnitAssumption DEF Size, WordBits
  <2>4. s # "SZ_BYTE"  BY <2>1, UnitAssumption DEF Size, WordBits
  <2> QED  BY <2>2, <2>3, <2>4 DEF Size
<1>2. /\ M \in Nat \ {0} /\ W = M * K /\ K = 2 * L /\ K \in Nat \ {0} /\ L \in Nat \ {0}
      /\ Half[s] = M * L /\ Half[d] \in Nat \ {0} /\ M = 2 * Half[d] /\ W \in Nat \ {0}
  <2> DEFINE v == Width[s]
             w == Width[d]
             k == v - w
  <2>1. v \in Nat /\ w \in Nat \ {0, 1} /\ k \in Nat \ {0} /\ v = w + k
        /\ Mod(s) = Two[v] /\ Mod(d) = Two[w]
    BY Vectors
  <2>2. k - 1 \in Nat /\ (k - 1) + 1 = k  BY <2>1
  <2>3. Half[s] \in Nat \ {0, 1} /\ Mod(s) = 2 * Half[s] /\ Half[d] \in Nat \ {0, 1}
        /\ Mod(d) = 2 * Half[d]
    BY Halves
  <2> HIDE DEF v, w, k
  <2>4. Two[v] = Two[w] * Two[k]  BY <2>1, TwoSum
  <2>5. Two[k] = 2 * Two[k - 1] /\ Two[k] \in Nat \ {0} /\ Two[k - 1] \in Nat \ {0}
        /\ Two[w] \in Nat \ {0}
    <3>1. Two[(k - 1) + 1] = 2 * Two[k - 1]  BY <2>2, TwoIs
    <3> QED  BY <2>1, <2>2, <3>1, TwoIs
  <2> DEFINE A == Two[w]
             B == Two[k - 1]
             C == Half[s]
             P == A * B
  <2>6. 2 * C = A * (2 * B) /\ A \in Nat /\ B \in Nat /\ C \in Nat
    BY <2>1, <2>3, <2>4, <2>5
  <2> HIDE DEF A, B, C
  <2>7. A * (2 * B) = 2 * P /\ P \in Nat  BY <2>6
  <2> HIDE DEF P
  <2>8. C = P  BY <2>6, <2>7
  <2>9. Mod(s) = Mod(d) * Two[k]  BY <2>1, <2>4
  <2>10. Half[s] = Mod(d) * Two[k - 1]  BY <2>1, <2>8 DEF A, B, C, P
  <2>11. Mod(d) \in Nat \ {0} /\ Half[d] \in Nat \ {0} /\ Mod(s) \in Nat \ {0}
    BY <2>3
  <2> HIDE DEF C, P, A, B
  <2> QED  BY <2>3, <2>5, <2>9, <2>10, <2>11 DEF k, v, w
<1>3. Mod(from) \div M = K
  <2>1. Mod(from) = M * K  BY <1>1, <1>2
  <2>2. (M * K) \div M = K
    <3> DEFINE A == M
               B == K
    <3>1. A \in Nat \ {0} /\ B \in Nat  BY <1>2
    <3> HIDE DEF A, B
    <3>2. (B * A) \div A = B /\ A * B = B * A  BY <3>1, Multiple
    <3> QED  BY <3>2 DEF A, B
  <2> QED  BY <2>1, <2>2
<1>4. x \in Nat  BY DEF Register
<1>5. /\ q \in Nat /\ r \in 0 .. M - 1 /\ x = M * q + r
      /\ t \in Nat /\ cut \in 0 .. K - 1 /\ q = K * t + cut
  <2> DEFINE A == M
             B == K
             p == x \div A
  <2>1. A \in Nat \ {0} /\ B \in Nat \ {0}  BY <1>2
  <2> HIDE DEF A, B
  <2>2. p \in Nat /\ x % A \in 0 .. A - 1 /\ x = A * p + (x % A)  BY <1>4, <2>1, Division
  <2> HIDE DEF p
  <2>3. p \div B \in Nat /\ p % B \in 0 .. B - 1 /\ p = B * (p \div B) + (p % B)
    BY <2>1, <2>2, Division
  <2> QED  BY <2>2, <2>3 DEF A, B, p, Sized
<1> HIDE DEF q, K, L, t, cut, r
<1>6. src = M * cut + r /\ M * cut \in Nat /\ M * cut + M <= W
  <2> DEFINE A == M
             V == W
             low == A * cut + r
  <2>1. A \in Nat \ {0} /\ V \in Nat \ {0} /\ V = A * K /\ r \in 0 .. A - 1  BY <1>2, <1>5
  <2>2. x = A * (K * t + cut) + r  BY <1>5
  <2>3. src = x % V  BY DEF Sized
  <2> HIDE DEF A, V, src
  <2>4. cut * A \in Nat /\ cut * A + A <= K * A /\ cut * A = A * cut /\ K * A = A * K
    BY <1>2, <1>5, <2>1, Products
  <2>5. low \in 0 .. V - 1
    <3> DEFINE P == A * cut
    <3>1. P \in Nat /\ P + A <= V  BY <2>1, <2>4
    <3> HIDE DEF P
    <3> QED  BY <2>1, <3>1 DEF P
  <2>6. x = V * t + low
    <3>1. A * (K * t + cut) = (A * K) * t + A * cut  BY <1>2, <1>5, <2>1
    <3> QED  BY <1>2, <1>5, <2>1, <2>2, <3>1
  <2> HIDE DEF low
  <2>7. x % V = low  BY <1>5, <2>1, <2>5, <2>6, DivideOnce
  <2> QED  BY <2>1, <2>3, <2>4, <2>7 DEF low, A, V
<1> HIDE DEF src
<1>7. src % M = r /\ r % M = r
  <2> DEFINE A == M
  <2>1. A \in Nat \ {0} /\ r \in 0 .. A - 1 /\ src = A * cut + r /\ cut \in Nat
    BY <1>2, <1>5, <1>6
  <2> HIDE DEF A
  <2>2. (A * cut + r) % A = r  BY <2>1, DivideOnce
  <2>3. r % A = r  BY <2>1, SMTT(20)
  <2> QED  BY <2>1, <2>2, <2>3 DEF A
<1> DEFINE high == cut >= L
           neg  == r >= Half[d]
           top  == cut - (IF high THEN K ELSE 0)
           bot  == IF neg THEN -1 ELSE 0
<1>8. Msb(src, s) <=> high
  <2> DEFINE A == M
             P == A * cut
             Q == A * L
  <2>1. A \in Nat \ {0} /\ r \in 0 .. A - 1  BY <1>2, <1>5
  <2>2. src = P + r /\ Half[s] = Q  BY <1>2, <1>6
  <2> HIDE DEF A
  <2>3. P \in Nat /\ Q \in Nat /\ (cut <= L => P <= Q) /\ (L <= cut => Q <= P)
        /\ (cut < L => P + A <= Q)
    <3>1. cut \in Nat /\ L \in Nat /\ A \in Nat  BY <1>2, <1>5, <2>1
    <3>2. /\ cut * A \in Nat /\ L * A \in Nat
          /\ cut <= L => cut * A <= L * A
          /\ cut < L => cut * A + A <= L * A
      BY <3>1, Products
    <3>3. L <= cut => L * A <= cut * A  BY <3>1, Products
    <3>4. cut * A = P /\ L * A = Q  BY <3>1
    <3> QED  BY <3>2, <3>3, <3>4
  <2> HIDE DEF P, Q
  <2>4. cut \in Nat /\ L \in Nat  BY <1>2, <1>5
  <2>5. P + r >= Q <=> cut >= L  BY <2>1, <2>3, <2>4
  <2> QED  BY <2>2, <2>5 DEF Msb
<1>9. Signed(src, s) = M * top + r /\ Signed(r, d) = M * bot + r
  <2> DEFINE A == M
  <2>1. A \in Nat \ {0} /\ r \in 0 .. A - 1 /\ src = A * cut + r /\ cut \in Nat /\ K \in Nat
        /\ A * cut \in Nat /\ W = A * K
    BY <1>2, <1>5, <1>6
  <2>2. Signed(src, s) = IF high THEN src - W ELSE src  BY <1>8 DEF Signed
  <2>3. Signed(r, d) = IF neg THEN r - A ELSE r  BY DEF Signed, Msb
  <2>4. A * K \in Int  BY <2>1
  <2> HIDE DEF A, neg, high
  <2>5. Signed(src, s) = A * top + r
    <3>1. CASE high
      <4>1. A * (cut - K) = A * cut - A * K  BY <2>1
      <4> QED  BY <2>1, <2>2, <2>4, <3>1, <4>1
    <3>2. CASE ~high
      <4>1. cut - 0 = cut  BY <2>1
      <4> QED  BY <2>1, <2>2, <3>2, <4>1
    <3> QED  BY <3>1, <3>2
  <2>6. Signed(r, d) = A * bot + r
    <3>1. CASE neg
      <4>1. A * (-1) = 0 - A  BY <2>1
      <4> QED  BY <2>1, <2>3, <3>1, <4>1
    <3>2. CASE ~neg
      <4>1. A * 0 = 0  BY <2>1
      <4> QED  BY <2>1, <2>3, <3>2, <4>1
    <3> QED  BY <3>1, <3>2
  <2> QED  BY <2>5, <2>6 DEF A
<1>10. top \in Int /\ bot \in Int /\ (Signed(src, s) = Signed(r, d) <=> top = bot)
  <2> DEFINE A == M
  <2>1. A \in Nat \ {0} /\ r \in Nat /\ top \in Int /\ bot \in Int  BY <1>2, <1>5
  <2>2. Signed(src, s) = A * top + r /\ Signed(r, d) = A * bot + r  BY <1>9
  <2> HIDE DEF A, top, bot
  <2>3. A * top \in Int /\ A * bot \in Int  BY <2>1
  <2>4. top < bot => A * top + A <= A * bot  BY <2>1, Apart
  <2>5. bot < top => A * bot + A <= A * top  BY <2>1, Apart
  <2>6. A * top + r = A * bot + r => top = bot
    <3> DEFINE p == A * top
               u == A * bot
    <3> HIDE DEF p, u
    <3>1. p + r = u + r => p = u  BY <2>1, <2>3 DEF p, u
    <3> QED  BY <2>1, <2>3, <2>4, <2>5, <3>1 DEF p, u
  <2> QED  BY <2>1, <2>2, <2>6
<1>11. top = bot <=> cut = (IF neg THEN K - 1 ELSE 0)
  BY <1>2, <1>5
<1>12. Msb(r, d) <=> neg  BY DEF Msb
<1> DEFINE want == IF Msb(r, d) THEN K - 1 ELSE 0
<1>13. cut = want <=> Signed(src, s) = Signed(r, d)
  <2>1. want = IF neg THEN K - 1 ELSE 0  BY <1>12
  <2> HIDE DEF top, bot, neg, want
  <2> QED  BY <1>10, <1>11, <2>1
<1> HIDE DEF want, top, bot, neg, high
<1>14. (cut # want) = (Signed(src, s) # Signed(src % M, d))  BY <1>7, <1>13
<1>15. (x \div Mod(d)) % (Mod(from) \div Mod(d)) = cut /\ (Mod(from) \div Mod(d)) - 1 = K - 1
  BY <1>3 DEF cut, q
<1> HIDE DEF from
<1>16. (x \div Mod(d)) % (Mod(from) \div Mod(d))
        # (IF Msb(Sized(x, d), d) THEN (Mod(from) \div Mod(d)) - 1 ELSE 0)
        <=> cut # want
  BY <1>15 DEF want, r
<1> QED  BY <1>7, <1>14, <1>16 DEF src, r, from

\* The sums and differences of the unit, and the operations on the bits of a vector.
LEMMA SumOperations ==
  ASSUME NEW op \in {"ALU_ADD", "ALU_ADDC", "ALU_SUB", "ALU_CMP", "ALU_SUBC", "ALU_NEG"},
         NEW s \in Size, NEW aw \in Register, NEW bw \in Register, NEW f \in Flags, NEW u,
         NEW unlike,
         op \in {"ALU_ADDC", "ALU_SUBC"} /\ f.cy /\ Sized(aw, s) = Mod(s) - 1 => "cy" \in unlike,
         op \in {"ALU_ADDC", "ALU_SUBC"} /\ f.cy /\ Sized(aw, s) = Half[s] - 1 => "ov" \in unlike
  PROVE  Agrees(s, AluOutcome(op, s, aw, bw, f, u),
                RefAlu(op, s, Sized(aw, s), Sized(bw, s), Count(aw), f), unlike)
<1> DEFINE a == Sized(aw, s)
           b == Sized(bw, s)
           c == Carry(f)
<1>1. a \in 0 .. Mod(s) - 1 /\ b \in 0 .. Mod(s) - 1
  <2>1. aw \in Nat /\ bw \in Nat  BY DEF Register
  <2> QED  BY <2>1, SizedRange
<1>2. c \in {0, 1} /\ (c = 1 <=> f.cy)  BY Booleans DEF Carry
<1> HIDE DEF a, b, c
<1>3. CASE op = "ALU_ADD"
  <2>1. AluOutcome(op, s, aw, bw, f, u) = Add(s, a, b, 0)  BY <1>3 DEF AluOutcome, a, b
  <2>2. RefAlu(op, s, Sized(aw, s), Sized(bw, s), Count(aw), f) = RefAdd(s, b, a)
    BY <1>3 DEF RefAlu, a, b
  <2> QED  BY <1>1, <2>1, <2>2, CountAgrees
<1>4. CASE op \in {"ALU_SUB", "ALU_CMP"}
  <2>1. AluOutcome(op, s, aw, bw, f, u) = Subtract(s, a, b, 0)  BY <1>4 DEF AluOutcome, a, b
  <2>2. RefAlu(op, s, Sized(aw, s), Sized(bw, s), Count(aw), f) = RefSub(s, b, a)
    BY <1>4 DEF RefAlu, a, b
  <2> QED  BY <1>1, <2>1, <2>2, CountAgrees
<1>5. CASE op = "ALU_NEG"
  <2>1. AluOutcome(op, s, aw, bw, f, u) = Negate(s, a)  BY <1>5 DEF AluOutcome, a
  <2>2. RefAlu(op, s, Sized(aw, s), Sized(bw, s), Count(aw), f) = RefNeg(s, a)
    BY <1>5 DEF RefAlu, a
  <2> QED  BY <1>1, <2>1, <2>2, CountAgrees
<1>6. CASE op \in {"ALU_ADDC", "ALU_SUBC"}
  <2>1. /\ c = 1 /\ a = Mod(s) - 1 => "cy" \in unlike
        /\ c = 1 /\ a = Half[s] - 1 => "ov" \in unlike
    BY <1>2, <1>6 DEF a
  <2>2. CASE op = "ALU_ADDC"
    <3>1. AluOutcome(op, s, aw, bw, f, u) = Add(s, a, b, c)  BY <2>2 DEF AluOutcome, a, b, c
    <3>2. RefAlu(op, s, Sized(aw, s), Sized(bw, s), Count(aw), f) = RefAdd(s, b, (a + c) % Mod(s))
      BY <2>2 DEF RefAlu, WithCarry, a, b, c
    <3> QED  BY <1>1, <1>2, <2>1, <3>1, <3>2, AddAgrees
  <2>3. CASE op = "ALU_SUBC"
    <3>1. AluOutcome(op, s, aw, bw, f, u) = Subtract(s, a, b, c)
      BY <2>3 DEF AluOutcome, a, b, c
    <3>2. RefAlu(op, s, Sized(aw, s), Sized(bw, s), Count(aw), f) = RefSub(s, b, (a + c) % Mod(s))
      BY <2>3 DEF RefAlu, WithCarry, a, b, c
    <3> QED  BY <1>1, <1>2, <2>1, <3>1, <3>2, SubAgrees
  <2> QED  BY <1>6, <2>2, <2>3
<1> QED  BY <1>3, <1>4, <1>5, <1>6

\* AND, OR, XOR and NOT.
LEMMA LogicOperations ==
  ASSUME NEW op \in {"ALU_AND", "ALU_OR", "ALU_XOR", "ALU_NOT"},
         NEW s \in Size, NEW aw \in Register, NEW bw \in Register, NEW f \in Flags, NEW u,
         NEW unlike, f.cy => "cy" \in unlike
  PROVE  Agrees(s, AluOutcome(op, s, aw, bw, f, u),
                RefAlu(op, s, Sized(aw, s), Sized(bw, s), Count(aw), f), unlike)
<1> DEFINE a == Sized(aw, s)
           b == Sized(bw, s)
           A == Bits(a)
           B == Bits(b)
           o == AluOutcome(op, s, aw, bw, f, u)
           r == RefAlu(op, s, Sized(aw, s), Sized(bw, s), Count(aw), f)
<1>1. a \in 0 .. Mod(s) - 1 /\ b \in 0 .. Mod(s) - 1
  <2>1. aw \in Nat /\ bw \in Nat  BY DEF Register
  <2> QED  BY <2>1, SizedRange
<1>2. f.cy \in BOOLEAN  BY Booleans
<1>3. (\A j \in A : j < Width[s]) /\ (\A j \in B : j < Width[s])
  <2>1. (\A j \in A : j \in 0 .. Width[s] - 1) /\ (\A j \in B : j \in 0 .. Width[s] - 1)
    BY <1>1, BitsFit
  <2>2. Width[s] \in Nat  BY Vectors
  <2> QED  BY <2>1, <2>2
<1>4. /\ op = "ALU_AND" => o = Logic(s, A \cap B) /\ r = RefLogic(s, B \cap A, f)
      /\ op = "ALU_OR"  => o = Logic(s, A \cup B) /\ r = RefLogic(s, B \cup A, f)
      /\ op = "ALU_XOR" => o = Logic(s, SymDiff(A, B)) /\ r = RefLogic(s, SymDiff(B, A), f)
  BY DEF AluOutcome, RefAlu, A, B, a, b
<1>5. op = "ALU_NOT" => /\ o = Logic(s, Bits(Mod(s) - 1) \ Bits(a))
                        /\ r = Inverted(s, a, f)
  BY DEF AluOutcome, RefAlu, Inverted, a
<1> HIDE DEF a, b, o, r, A, B
<1>6. A \cap B = B \cap A /\ A \cup B = B \cup A /\ SymDiff(A, B) = SymDiff(B, A)
      /\ SymDiff(A, B) \subseteq A \cup B
  BY DEF SymDiff
<1>7. ASSUME NEW S, S \subseteq A \cup B
      PROVE  Agrees(s, Logic(s, S), RefLogic(s, S, f), unlike)
  <2>1. \A j \in S \cap (0 .. WordBits - 1) : j < Width[s]  BY <1>3, <1>7
  <2> QED  BY <1>2, <2>1, LogicAgrees
<1>8. Agrees(s, Logic(s, Bits(Mod(s) - 1) \ Bits(a)), Inverted(s, a, f), unlike)
  BY <1>1, <1>2, NotAgrees
<1>9. Agrees(s, o, r, unlike)
  <2>1. CASE op = "ALU_AND"
    <3>1. A \cap B \subseteq A \cup B  OBVIOUS
    <3> QED  BY <1>4, <1>6, <1>7, <2>1, <3>1
  <2>2. CASE op = "ALU_OR"
    <3>1. A \cup B \subseteq A \cup B  OBVIOUS
    <3> QED  BY <1>4, <1>6, <1>7, <2>2, <3>1
  <2>3. CASE op = "ALU_XOR"  BY <1>4, <1>6, <1>7, <2>3
  <2>4. CASE op = "ALU_NOT"  BY <1>5, <1>8, <2>4
  <2> QED  BY <2>1, <2>2, <2>3, <2>4
<1> QED  BY <1>9 DEF o, r

\* The products and quotients.
LEMMA ProductOperations ==
  ASSUME NEW op \in {"ALU_MUL", "ALU_MULU", "ALU_DIV", "ALU_DIVU", "ALU_REM", "ALU_REMU"},
         NEW s \in Size, NEW aw \in Register, NEW bw \in Register, NEW f \in Flags, NEW u,
         NEW unlike,
         (op \in {"ALU_DIV", "ALU_REM"} /\ Sized(aw, s) # 0
            /\ (Msb(Sized(aw, s), s) \/ Msb(Sized(bw, s), s)))
           => {"reg", "z", "s"} \subseteq unlike
  PROVE  Agrees(s, AluOutcome(op, s, aw, bw, f, u),
                RefAlu(op, s, Sized(aw, s), Sized(bw, s), Count(aw), f), unlike)
<1> DEFINE a == Sized(aw, s)
           b == Sized(bw, s)
           x == Signed(a, s)
           y == Signed(b, s)
           o == AluOutcome(op, s, aw, bw, f, u)
           r == RefAlu(op, s, Sized(aw, s), Sized(bw, s), Count(aw), f)
<1>1. a \in 0 .. Mod(s) - 1 /\ b \in 0 .. Mod(s) - 1
  <2>1. aw \in Nat /\ bw \in Nat  BY DEF Register
  <2> QED  BY <2>1, SizedRange
<1>2. x \in Int /\ y \in Int /\ a \in Int /\ b \in Int
  <2>1. x \in Int /\ y \in Int  BY <1>1, Extended
  <2> QED  BY <1>1, <2>1
<1>3. /\ op = "ALU_MUL"  => o = Multiply(s, x, y, f) /\ r = RefMul(s, y, x, f)
      /\ op = "ALU_MULU" => o = Multiply(s, a, b, f) /\ r = RefMul(s, b, a, f)
      /\ op = "ALU_DIV"  => o = Divide(s, a, b, f) /\ r = RefDiv(s, b, a, f)
      /\ op = "ALU_DIVU" => o = DivideUnsigned(s, a, b, f) /\ r = RefDivU(s, b, a, f)
      /\ op = "ALU_REM"  => o = Remainder(s, a, b, f) /\ r = RefRem(s, b, a, f)
      /\ op = "ALU_REMU" => o = RemainderUnsigned(s, a, b, f) /\ r = RefRemU(s, b, a, f)
  BY DEF AluOutcome, RefAlu, a, b, x, y
<1>4. op \in {"ALU_DIV", "ALU_REM"} =>
        (a # 0 /\ (Msb(a, s) \/ Msb(b, s)) => {"reg", "z", "s"} \subseteq unlike)
  OBVIOUS
<1> HIDE DEF a, b, x, y, o, r
<1>5. Agrees(s, o, r, unlike)
  <2>1. CASE op \in {"ALU_MUL", "ALU_MULU"}
    <3>1. /\ Agrees(s, Multiply(s, x, y, f), RefMul(s, y, x, f), unlike)
          /\ Agrees(s, Multiply(s, a, b, f), RefMul(s, b, a, f), unlike)
      BY <1>2, MultiplyAgrees
    <3> QED  BY <1>3, <2>1, <3>1
  <2>2. CASE op \in {"ALU_DIVU", "ALU_REMU"}
    <3>1. /\ Agrees(s, DivideUnsigned(s, a, b, f), RefDivU(s, b, a, f), unlike)
          /\ Agrees(s, RemainderUnsigned(s, a, b, f), RefRemU(s, b, a, f), unlike)
      BY <1>1, DivideUnsignedAgrees
    <3> QED  BY <1>3, <2>2, <3>1
  <2>3. CASE op \in {"ALU_DIV", "ALU_REM"}
    <3>1. a # 0 /\ (Msb(a, s) \/ Msb(b, s)) => {"reg", "z", "s"} \subseteq unlike
      BY <1>4, <2>3
    <3>2. /\ Agrees(s, Divide(s, a, b, f), RefDiv(s, b, a, f), unlike)
          /\ Agrees(s, Remainder(s, a, b, f), RefRem(s, b, a, f), unlike)
      BY <1>1, <3>1, DivideAgrees
    <3> QED  BY <1>3, <2>3, <3>2
  <2> QED  BY <2>1, <2>2, <2>3
<1> QED  BY <1>5 DEF o, r

\* The shifts and rotations.
LEMMA ShiftOperations ==
  ASSUME NEW op \in {"ALU_SHL", "ALU_SHA", "ALU_ROT", "ALU_ROTC"},
         NEW s \in Size, NEW aw \in Register, NEW bw \in Register, NEW f \in Flags, NEW u,
         NEW unlike,
         op = "ALU_SHL" => Count(aw) \in 1 - WordBits .. WordBits - 1,
         op = "ALU_SHA" => Count(aw) \in -WordBits .. Width[s],
         op = "ALU_SHA" /\ s = "SZ_WORD" /\ Count(aw) > 0 => {"ov", "cy"} \subseteq unlike,
         op = "ALU_SHA" /\ Count(aw) = Width[s] /\ Sized(bw, s) = Mod(s) - 1 => "ov" \in unlike
  PROVE  Agrees(s, AluOutcome(op, s, aw, bw, f, u),
                RefAlu(op, s, Sized(aw, s), Sized(bw, s), Count(aw), f), unlike)
<1> DEFINE b == Sized(bw, s)
           n == Count(aw)
           o == AluOutcome(op, s, aw, bw, f, u)
           r == RefAlu(op, s, Sized(aw, s), Sized(bw, s), Count(aw), f)
<1>1. b \in 0 .. Mod(s) - 1 /\ n \in Int
  <2>1. aw \in Nat /\ bw \in Nat  BY DEF Register
  <2> QED  BY <2>1, SizedRange, CountRange
<1>2. /\ op = "ALU_SHL"  => o = ShiftLogical(s, n, b) /\ r = RefShl(s, n, b)
      /\ op = "ALU_SHA"  => o = ShiftArithmetic(s, n, b, u) /\ r = RefSha(s, n, b)
      /\ op = "ALU_ROT"  => o = Rotate(s, n, b, f) /\ r = RefRot(s, n, b)
      /\ op = "ALU_ROTC" => o = RotateCarry(s, n, b, f) /\ r = RefRotc(s, n, b, f)
  BY DEF AluOutcome, RefAlu, b, n
<1>3. /\ op = "ALU_SHL" => n \in 1 - WordBits .. WordBits - 1
      /\ op = "ALU_SHA" => n \in -WordBits .. Width[s]
      /\ op = "ALU_SHA" /\ s = "SZ_WORD" /\ n > 0 => {"ov", "cy"} \subseteq unlike
      /\ op = "ALU_SHA" /\ n = Width[s] /\ b = Mod(s) - 1 => "ov" \in unlike
  OBVIOUS
<1> HIDE DEF b, n, o, r
<1>4. Agrees(s, o, r, unlike)
  <2>1. CASE op = "ALU_SHL"
    <3>1. Agrees(s, ShiftLogical(s, n, b), RefShl(s, n, b), unlike)
      BY <1>1, <1>3, <2>1, ShiftLogicalAgrees
    <3> QED  BY <1>2, <2>1, <3>1
  <2>2. CASE op = "ALU_SHA"
    <3>1. Agrees(s, ShiftArithmetic(s, n, b, u), RefSha(s, n, b), unlike)
      BY <1>1, <1>3, <2>2, ShiftArithmeticAgrees
    <3> QED  BY <1>2, <2>2, <3>1
  <2>3. CASE op = "ALU_ROT"
    <3>1. Agrees(s, Rotate(s, n, b, f), RefRot(s, n, b), unlike)  BY <1>1, RotateAgrees
    <3> QED  BY <1>2, <2>3, <3>1
  <2>4. CASE op = "ALU_ROTC"
    <3>1. Agrees(s, RotateCarry(s, n, b, f), RefRotc(s, n, b, f), unlike)
      BY <1>1, RotateCarryAgrees
    <3> QED  BY <1>2, <2>4, <3>1
  <2> QED  BY <2>1, <2>2, <2>3, <2>4
<1> QED  BY <1>4 DEF o, r

\* The operations on one bit of a word.
LEMMA BitOperations ==
  ASSUME NEW op \in {"ALU_SET1", "ALU_CLR1", "ALU_NOT1", "ALU_TEST1"},
         NEW aw \in Register, NEW bw \in Register, NEW f \in Flags, NEW u, NEW unlike,
         Sized(aw, "SZ_WORD") < WordBits
  PROVE  Agrees("SZ_WORD", AluOutcome(op, "SZ_WORD", aw, bw, f, u),
                RefAlu(op, "SZ_WORD", Sized(aw, "SZ_WORD"), Sized(bw, "SZ_WORD"), Count(aw), f),
                unlike)
<1> DEFINE o == AluOutcome(op, "SZ_WORD", aw, bw, f, u)
           r == RefAlu(op, "SZ_WORD", Sized(aw, "SZ_WORD"), Sized(bw, "SZ_WORD"), Count(aw), f)
<1>1. Sized(aw, "SZ_WORD") = aw /\ Sized(bw, "SZ_WORD") = bw
  <2>1. "SZ_WORD" \in Size  BY DEF Size
  <2>2. aw \in 0 .. Mod("SZ_WORD") - 1 /\ bw \in 0 .. Mod("SZ_WORD") - 1  BY DEF Register
  <2> QED  BY <2>1, <2>2, ModSame DEF Sized
<1>2. aw \in 0 .. WordBits - 1 /\ WordBits \in Nat
  <2>1. "SZ_WORD" \in Size  BY DEF Size
  <2>2. WordBits \in Nat /\ Mod("SZ_WORD") \in Nat  BY <2>1, Vectors
  <2> QED  BY <1>1, <2>2 DEF Register
<1>3. o = BitOperation(op, aw, bw, f)  BY DEF AluOutcome
<1>4. r = RefBit(op, aw, bw, f)  BY <1>1 DEF RefAlu
<1> HIDE DEF o, r
<1>5. Agrees("SZ_WORD", o, r, unlike)  BY <1>2, <1>3, <1>4, BitAgrees
<1> QED  BY <1>5 DEF o, r

\* MOV and the reversals keep the flags.
LEMMA MoveOperations ==
  ASSUME NEW op \in {"ALU_MOV", "ALU_RVBIT", "ALU_RVBYT"},
         NEW s \in Size, NEW aw \in Register, NEW bw \in Register, NEW f \in Flags, NEW u,
         op = "ALU_RVBIT" => s = "SZ_BYTE", op = "ALU_RVBYT" => s = "SZ_WORD"
  PROVE  /\ AluOutcome(op, s, aw, bw, f, u).result % Mod(s)
              = RefAlu(op, s, Sized(aw, s), Sized(bw, s), Count(aw), f).val
         /\ RefAlu(op, s, Sized(aw, s), Sized(bw, s), Count(aw), f).flags = f
<1> DEFINE a == Sized(aw, s)
           o == AluOutcome(op, s, aw, bw, f, u)
           r == RefAlu(op, s, Sized(aw, s), Sized(bw, s), Count(aw), f)
<1>1. a \in 0 .. Mod(s) - 1 /\ a \in Register
  <2>1. aw \in Nat  BY DEF Register
  <2>2. a \in 0 .. Mod(s) - 1  BY <2>1, SizedRange
  <2> QED  BY <2>2, VectorWord
<1>2. CASE op = "ALU_MOV"
  <2>1. o.result = FromBits(Bits(a))  BY <1>2 DEF AluOutcome, Logic, Outcome
  <2>2. r.val = a /\ r.flags = f  BY <1>2 DEF RefAlu
  <2> HIDE DEF a, o, r
  <2>3. FromBits(Bits(a)) = a
    <3>1. \A j \in 0 .. WordBits - 1 : Bit(a, j) = (j \in Bits(a))  BY DEF Bits, Bit
    <3> QED  BY <1>1, <3>1, FromBitsSame
  <2>4. a % Mod(s) = a  BY <1>1, ModSame
  <2>5. o.result % Mod(s) = r.val /\ r.flags = f  BY <2>1, <2>2, <2>3, <2>4
  <2> QED  BY <2>5 DEF o, r
<1>3. CASE op = "ALU_RVBIT"
  <2>1. o.result = ReverseBits(aw)  BY <1>3 DEF AluOutcome
  <2>2. r.val = SwapBits(a) /\ r.flags = f  BY <1>3 DEF RefAlu
  <2> HIDE DEF o, r
  <2>3. ReverseBits(aw) % Mod(s) = SwapBits(a)  BY <1>3, ReverseBitsAgrees
  <2>4. o.result % Mod(s) = r.val /\ r.flags = f  BY <2>1, <2>2, <2>3
  <2> QED  BY <2>4 DEF o, r
<1>4. CASE op = "ALU_RVBYT"
  <2>1. o.result = ReverseBytes(aw)  BY <1>4 DEF AluOutcome
  <2>2. r.val = SwapBytes(a) /\ r.flags = f  BY <1>4 DEF RefAlu
  <2>3. a = aw
    <3>1. aw \in 0 .. Mod(s) - 1  BY <1>4 DEF Register
    <3> QED  BY <3>1, ModSame DEF Sized
  <2> HIDE DEF o, r, a
  <2>4. ReverseBytes(aw) % Mod(s) = SwapBytes(aw)  BY <1>4, ReverseBytesAgrees
  <2>5. o.result % Mod(s) = r.val /\ r.flags = f  BY <2>1, <2>2, <2>3, <2>4
  <2> QED  BY <2>5 DEF o, r
<1> QED  BY <1>2, <1>3, <1>4

\* What is listed as unlike.
LEMMA UnlikeHas ==
  ASSUME NEW i, NEW old, NEW f
  PROVE  LET s   == i.size
             src == Sized(i.src, s)
             dst == Sized(old, s)
             n   == Count(i.src)
             U   == Unlike(i, old, f)
         IN /\ i.sp /\ i.dst # "SZ_WORD" => "reg" \in U
            /\ i.op \in {"ALU_DIV", "ALU_REM"} /\ src # 0 /\ (Msb(src, s) \/ Msb(dst, s))
                 => {"reg", "z", "s"} \subseteq U
            /\ i.op \in {"ALU_AND", "ALU_OR", "ALU_XOR", "ALU_NOT"} /\ f.cy => "cy" \in U
            /\ i.op \in {"ALU_ADDC", "ALU_SUBC"} /\ f.cy /\ src = Mod(s) - 1 => "cy" \in U
            /\ i.op \in {"ALU_ADDC", "ALU_SUBC"} /\ f.cy /\ src = Half[s] - 1 => "ov" \in U
            /\ i.op = "ALU_SHA" /\ s = "SZ_WORD" /\ n > 0 => {"ov", "cy"} \subseteq U
            /\ i.op = "ALU_SHA" /\ n = Width[s] /\ dst = Mod(s) - 1 => "ov" \in U
<1> DEFINE s   == i.size
           src == Sized(i.src, s)
           dst == Sized(old, s)
           n   == Count(i.src)
           U   == Unlike(i, old, f)
           p1  == i.sp /\ i.dst # "SZ_WORD"
           p2  == i.op \in {"ALU_DIV", "ALU_REM"} /\ src # 0 /\ (Msb(src, s) \/ Msb(dst, s))
           p3  == i.op \in {"ALU_AND", "ALU_OR", "ALU_XOR", "ALU_NOT"} /\ f.cy
           p4  == i.op \in {"ALU_ADDC", "ALU_SUBC"} /\ f.cy /\ src = Mod(s) - 1
           p5  == i.op \in {"ALU_ADDC", "ALU_SUBC"} /\ f.cy /\ src = Half[s] - 1
           p6  == i.op = "ALU_SHA" /\ s = "SZ_WORD" /\ n > 0
           p7  == i.op = "ALU_SHA" /\ n = Width[s] /\ dst = Mod(s) - 1
           p8  == i.op = "ALU_ROTC" /\ n = -Two[COUNT_BITS - 1]
<1>1. U = UNION {IF p1 THEN {"reg"} ELSE {}, IF p2 THEN {"reg", "z", "s"} ELSE {},
                 IF p3 THEN {"cy"} ELSE {}, IF p4 THEN {"cy"} ELSE {},
                 IF p5 THEN {"ov"} ELSE {}, IF p6 THEN {"ov", "cy"} ELSE {},
                 IF p7 THEN {"ov"} ELSE {}, IF p8 THEN {"reg", "z", "s", "cy"} ELSE {}}
  BY DEF Unlike
<1> HIDE DEF p1, p2, p3, p4, p5, p6, p7, p8, U
<1>2. /\ p1 => "reg" \in U
      /\ p2 => {"reg", "z", "s"} \subseteq U
      /\ p3 => "cy" \in U
      /\ p4 => "cy" \in U
      /\ p5 => "ov" \in U
      /\ p6 => {"ov", "cy"} \subseteq U
      /\ p7 => "ov" \in U
  <2>1. p1 => "reg" \in U  BY <1>1
  <2>2. p2 => {"reg", "z", "s"} \subseteq U  BY <1>1
  <2>3. p3 => "cy" \in U  BY <1>1
  <2>4. p4 => "cy" \in U  BY <1>1
  <2>5. p5 => "ov" \in U  BY <1>1
  <2>6. p6 => {"ov", "cy"} \subseteq U  BY <1>1
  <2>7. p7 => "ov" \in U  BY <1>1
  <2> QED  BY <2>1, <2>2, <2>3, <2>4, <2>5, <2>6, <2>7
<1> QED  BY <1>2 DEF p1, p2, p3, p4, p5, p6, p7, U

\* The register r and the flags g are what the reference makes of old and f by the
\* instruction i, in all but what is unlike.
Like(i, old, f, r, g) ==
  RefDefined(i) =>
    /\ "reg" \in Unlike(i, old, f) \/ r = RefExecute(i, old, f).reg
    /\ \A n \in {"z", "s", "ov", "cy"} \ Unlike(i, old, f) :
         g[n] = RefExecute(i, old, f).flags[n]

\* An outcome of the unit that is the one of the reference leaves the register the
\* reference does, and the flags.
LEMMA OutcomeLike ==
  ASSUME NEW i, NEW old \in Register, NEW f, NEW r \in Register, NEW g, i.dst \in Size,
         RefDefined(i) =>
           Agrees(i.dst, [result |-> r, flags |-> g], RefOutcome(i, old, f), Unlike(i, old, f))
  PROVE  /\ i.op \notin {"ALU_CMP", "ALU_TEST1", "SYS_UPDPSW"} =>
              Like(i, old, f, Merged(i, old, r, i.dst), g)
         /\ i.op \in {"ALU_CMP", "ALU_TEST1", "SYS_UPDPSW"} => Like(i, old, f, old, g)
<1> DEFINE o == RefOutcome(i, old, f)
           e == RefExecute(i, old, f)
           U == Unlike(i, old, f)
           d == i.dst
           m == Merged(i, old, r, d)
<1>1. RefDefined(i) => /\ "reg" \in U \/ r % Mod(d) = o.val
                       /\ \A n \in {"z", "s", "ov", "cy"} \ U : g[n] = o.flags[n]
  BY DEF Agrees
<1>2. e.flags = o.flags
      /\ e.reg = IF i.op \in {"ALU_CMP", "ALU_TEST1", "SYS_UPDPSW"} THEN old
                 ELSE (old - (old % Mod(d))) + o.val
  BY DEF RefExecute
<1>3. "reg" \in U \/ m = (old - (old % Mod(d))) + (r % Mod(d))
  <2>1. i.sp /\ i.dst # "SZ_WORD" => "reg" \in U  BY UnlikeHas
  <2>2. d \in Size  OBVIOUS
  <2> HIDE DEF U, d
  <2>3. ~(i.sp /\ d # "SZ_WORD") => m = (old - (old % Mod(d))) + (r % Mod(d))
    BY <2>2, MergedAgrees
  <2> QED  BY <2>1, <2>3 DEF d
<1> HIDE DEF o, e, U, m, d
<1>4. RefDefined(i) /\ i.op \notin {"ALU_CMP", "ALU_TEST1", "SYS_UPDPSW"} =>
        ("reg" \in U \/ m = e.reg)
  BY <1>1, <1>2, <1>3
<1>5. i.op \in {"ALU_CMP", "ALU_TEST1", "SYS_UPDPSW"} => e.reg = old  BY <1>2
<1>6. RefDefined(i) => \A n \in {"z", "s", "ov", "cy"} \ U : g[n] = e.flags[n]  BY <1>1, <1>2
<1> QED  BY <1>4, <1>5, <1>6 DEF Like, o, e, U, m, d

\* An operation of the unit on operands of its size.
LEMMA OperationAgrees ==
  ASSUME NEW i \in Instructions \cup Follow, NEW old \in Contents[i.dst],
         i.op \in AluOps, NEW f \in Flags, NEW u, RefDefined(i)
  PROVE  LET o == AluOutcome(i.op, i.size, i.src, old, f, u)
         IN  Agrees(i.size, [result |-> o.result,
                             flags |-> IF WritesFlags(i) THEN o.flags ELSE f],
                    RefOutcome(i, old, f), Unlike(i, old, f))
<1> DEFINE op  == i.op
           s   == i.size
           aw  == i.src
           src == Sized(aw, s)
           dst == Sized(old, s)
           n   == Count(aw)
           U   == Unlike(i, old, f)
           o   == AluOutcome(op, s, aw, old, f, u)
           r   == RefAlu(op, s, src, dst, n, f)
           p   == [result |-> o.result, flags |-> IF WritesFlags(i) THEN o.flags ELSE f]
<1>1. s \in Size /\ aw \in Register /\ old \in Register  BY SizedDestination
<1>2. RefOutcome(i, old, f) = r
  <2>1. i.op \notin {"SYS_MOVSB", "SYS_MOVSH", "SYS_MOVZB", "SYS_MOVZH", "SYS_MOVT", "SYS_SETF",
                     "SYS_UPDPSW", "SYS_TASI"}
    BY DEF AluOps
  <2> QED  BY <2>1 DEF RefOutcome
<1>3. /\ op \in {"ALU_DIV", "ALU_REM"} /\ src # 0 /\ (Msb(src, s) \/ Msb(dst, s))
           => {"reg", "z", "s"} \subseteq U
      /\ op \in {"ALU_AND", "ALU_OR", "ALU_XOR", "ALU_NOT"} /\ f.cy => "cy" \in U
      /\ op \in {"ALU_ADDC", "ALU_SUBC"} /\ f.cy /\ src = Mod(s) - 1 => "cy" \in U
      /\ op \in {"ALU_ADDC", "ALU_SUBC"} /\ f.cy /\ src = Half[s] - 1 => "ov" \in U
      /\ op = "ALU_SHA" /\ s = "SZ_WORD" /\ n > 0 => {"ov", "cy"} \subseteq U
      /\ op = "ALU_SHA" /\ n = Width[s] /\ dst = Mod(s) - 1 => "ov" \in U
  BY UnlikeHas
<1>4. /\ op = "ALU_SHL" => n \in 1 - WordBits .. WordBits - 1
      /\ op = "ALU_SHA" => n \in -WordBits .. Width[s]
      /\ op \in {"ALU_SET1", "ALU_CLR1", "ALU_NOT1", "ALU_TEST1"} => src < WordBits
  BY DEF RefDefined
<1>5. /\ op \in {"ALU_SET1", "ALU_CLR1", "ALU_NOT1", "ALU_TEST1", "ALU_RVBYT"} => s = "SZ_WORD"
      /\ op = "ALU_RVBIT" => s = "SZ_BYTE"
  BY DecodedAssumption DEF Decoded
<1>6. WritesFlags(i) <=> op \notin {"ALU_MOV", "ALU_RVBIT", "ALU_RVBYT"}  BY DEF WritesFlags
<1>7. op \in AluOps  OBVIOUS
<1> HIDE DEF U, op, s, aw, n
<1>8. Agrees(s, p, r, U)
  <2>1. CASE op \notin {"ALU_MOV", "ALU_RVBIT", "ALU_RVBYT"}
    <3>1. Agrees(s, o, r, U)
      <4>1. CASE op \in {"ALU_ADD", "ALU_ADDC", "ALU_SUB", "ALU_CMP", "ALU_SUBC", "ALU_NEG"}
        BY <1>1, <1>3, <4>1, SumOperations DEF n
      <4>2. CASE op \in {"ALU_AND", "ALU_OR", "ALU_XOR", "ALU_NOT"}
        BY <1>1, <1>3, <4>2, LogicOperations DEF n
      <4>3. CASE op \in {"ALU_MUL", "ALU_MULU", "ALU_DIV", "ALU_DIVU", "ALU_REM", "ALU_REMU"}
        BY <1>1, <1>3, <4>3, ProductOperations DEF n
      <4>4. CASE op \in {"ALU_SHL", "ALU_SHA", "ALU_ROT", "ALU_ROTC"}
        BY <1>1, <1>3, <1>4, <4>4, ShiftOperations DEF n
      <4>5. CASE op \in {"ALU_SET1", "ALU_CLR1", "ALU_NOT1", "ALU_TEST1"}
        BY <1>1, <1>4, <1>5, <4>5, BitOperations DEF n
      <4> QED  BY <1>7, <2>1, <4>1, <4>2, <4>3, <4>4, <4>5 DEF AluOps
    <3> HIDE DEF o, r
    <3>2. p.result = o.result /\ p.flags = o.flags  BY <1>6, <2>1
    <3> HIDE DEF p
    <3> QED  BY <3>1, <3>2 DEF Agrees
  <2>2. CASE op \in {"ALU_MOV", "ALU_RVBIT", "ALU_RVBYT"}
    <3>1. o.result % Mod(s) = r.val /\ r.flags = f
      BY <1>1, <1>5, <2>2, MoveOperations DEF n
    <3> HIDE DEF o, r
    <3>2. p.result = o.result /\ p.flags = f  BY <1>6, <2>2
    <3> HIDE DEF p
    <3> QED  BY <3>1, <3>2 DEF Agrees
  <2> QED  BY <2>1, <2>2
<1> QED  BY <1>2, <1>8 DEF U, op, s, aw, n

\* The instructions of the arithmetic unit leave what the reference does.
LEMMA AluLike ==
  ASSUME NEW i \in Instructions \cup Follow, NEW old \in Contents[i.dst], flags \in Flags,
         NEW u \in BOOLEAN, ExecuteAlu(i, old, u)
  PROVE  Like(i, old, flags, reg', flags')
<1> DEFINE f == flags
           o == AluOutcome(i.op, i.size, i.src, old, f, u)
           g == IF WritesFlags(i) THEN o.flags ELSE f
<1>1. /\ i.op \in AluOps
      /\ reg' = IF WritesResult(i) THEN Merged(i, old, o.result, i.size) ELSE old
      /\ flags' = g
  BY DEF ExecuteAlu, Done
<1>2. i.size \in Size /\ i.src \in Register /\ old \in Register /\ f \in Flags
  BY SizedDestination
<1>3. i.dst = i.size  BY <1>1, DecodedAssumption DEF Decoded
<1>4. o.result \in Register
  <2> DEFINE op == i.op
             s == i.size
             a == i.src
  <2>1. op \in AluOps \cup CountOps /\ s \in Size /\ a \in Register  BY <1>1, <1>2
  <2> HIDE DEF op, s, a, f
  <2>2. Fits(AluOutcome(op, s, a, old, f, u))  BY <1>2, <2>1, AluFits
  <2> QED  BY <2>2 DEF op, s, a, Fits
<1> HIDE DEF f
<1>5. RefDefined(i) => Agrees(i.size, [result |-> o.result, flags |-> g],
                              RefOutcome(i, old, f), Unlike(i, old, f))
  BY <1>1, <1>2, OperationAgrees
<1> DEFINE r == o.result
<1>6. r \in Register  BY <1>4
<1>7. RefDefined(i) => Agrees(i.dst, [result |-> r, flags |-> g],
                              RefOutcome(i, old, f), Unlike(i, old, f))
  BY <1>3, <1>5
<1>8. reg' = IF i.op \notin {"ALU_CMP", "ALU_TEST1"} THEN Merged(i, old, r, i.dst) ELSE old
  BY <1>1, <1>3 DEF WritesResult
<1>9. i.op # "SYS_UPDPSW"  BY <1>1 DEF AluOps
<1> HIDE DEF g, o, r
<1>10. /\ i.op \notin {"ALU_CMP", "ALU_TEST1", "SYS_UPDPSW"} =>
            Like(i, old, f, Merged(i, old, r, i.dst), g)
       /\ i.op \in {"ALU_CMP", "ALU_TEST1", "SYS_UPDPSW"} => Like(i, old, f, old, g)
  BY <1>2, <1>3, <1>6, <1>7, OutcomeLike
<1>11. Like(i, old, f, reg', flags')
  <2>1. CASE i.op \in {"ALU_CMP", "ALU_TEST1"}  BY <1>1, <1>8, <1>10, <2>1
  <2>2. CASE i.op \notin {"ALU_CMP", "ALU_TEST1"}  BY <1>1, <1>8, <1>9, <1>10, <2>2
  <2> QED  BY <2>1, <2>2
<1> QED  BY <1>11 DEF f

\* So do INC, DEC and TASI.
LEMMA CountLike ==
  ASSUME NEW i \in Instructions \cup Follow, NEW old \in Contents[i.dst], flags \in Flags,
         Count1(i, old) \/ TestAndSet(i, old)
  PROVE  Like(i, old, flags, reg', flags')
<1> DEFINE f == flags
           s == i.size
           dst == Sized(old, s)
           U == Unlike(i, old, f)
<1>1. s \in Size /\ old \in Register /\ old \in Nat /\ f \in Flags  BY SizedDestination
<1>2. dst \in 0 .. Mod(s) - 1  BY <1>1, SizedRange
<1>3. i.op \in CountOps \cup {"SYS_TASI"}  BY DEF Count1, TestAndSet
<1>4. i.dst = s /\ (i.op = "SYS_TASI" => s = "SZ_BYTE")
  BY <1>3, DecodedAssumption DEF Decoded
<1>5. i.op \notin {"ALU_CMP", "ALU_TEST1", "SYS_UPDPSW"}  BY <1>3 DEF CountOps
<1> HIDE DEF f, dst, U
<1>6. CASE Count1(i, old)
  <2> DEFINE o == AluOutcome(i.op, s, old, 0, f, FALSE)
             ref == IF i.op = "ALU_INC" THEN RefAdd(s, dst, 1) ELSE RefSub(s, dst, 1)
             p == RefOutcome(i, old, f)
  <2>1. i.op \in CountOps /\ reg' = Merged(i, old, o.result, i.dst) /\ flags' = o.flags
    BY <1>4, <1>6 DEF Count1, Done, f
  <2>2. o = IF i.op = "ALU_INC" THEN Increment(s, dst) ELSE Decrement(s, dst)
    BY <2>1 DEF AluOutcome, CountOps, dst
  <2>3. p = ref  BY <2>1 DEF RefOutcome, RefAlu, CountOps, dst
  <2>4. /\ Agrees(s, Increment(s, dst), RefAdd(s, dst, 1), U)
        /\ Agrees(s, Decrement(s, dst), RefSub(s, dst, 1), U)
    BY <1>1, <1>2, CountAgrees
  <2>5. o.result \in Register
    <3> DEFINE op == i.op
               z == 0
               no == FALSE
    <3>1. op \in AluOps \cup CountOps /\ z \in Register /\ no \in BOOLEAN
      BY <1>1, <2>1, Ones
    <3> HIDE DEF op, s, z, no
    <3>2. Fits(AluOutcome(op, s, old, z, f, no))  BY <1>1, <3>1, AluFits
    <3> QED  BY <3>2 DEF op, s, z, no, Fits
  <2> HIDE DEF o, p
  <2>6. Agrees(s, o, p, U)  BY <2>2, <2>3, <2>4
  <2> DEFINE r == o.result
             g == o.flags
  <2>7. Agrees(s, [result |-> r, flags |-> g], p, U)  BY <2>6 DEF Agrees
  <2>8. r \in Register /\ reg' = Merged(i, old, r, i.dst) /\ flags' = g  BY <2>1, <2>5
  <2> HIDE DEF r, g, s
  <2>9. Like(i, old, f, Merged(i, old, r, i.dst), g)
    BY <1>1, <1>4, <1>5, <2>7, <2>8, OutcomeLike DEF p, U
  <2> QED  BY <2>8, <2>9 DEF f
<1>7. CASE TestAndSet(i, old)
  <2> DEFINE ones == Mod("SZ_BYTE") - 1
             low  == Sized(old, "SZ_BYTE")
             o    == AluOutcome("ALU_SUB", "SZ_BYTE", ones, low, f, FALSE)
             p    == RefOutcome(i, old, f)
             q    == RefSub(s, dst, ones)
  <2>1. i.op = "SYS_TASI" /\ reg' = Merged(i, old, ones, "SZ_BYTE") /\ flags' = o.flags
    BY <1>7 DEF TestAndSet, Done, f
  <2>2. s = "SZ_BYTE" /\ i.dst = "SZ_BYTE" /\ low = dst  BY <1>4, <2>1 DEF dst
  <2>3. ones \in 0 .. Mod("SZ_BYTE") - 1 /\ "SZ_BYTE" \in Size
    <3>1. "SZ_BYTE" \in Size  BY DEF Size
    <3>2. Mod("SZ_BYTE") \in Nat \ {0, 1}  BY <3>1, Vectors
    <3> QED  BY <3>1, <3>2
  <2>4. o = Subtract(s, Sized(ones, s), Sized(dst, s), 0)
    BY <2>2 DEF AluOutcome
  <2>5. p = [q EXCEPT !.val = ones]
    BY <2>1, <2>2 DEF RefOutcome, RefAlu, dst
  <2>6. q.flags = p.flags /\ p.val = ones
    <3>1. q = [val |-> q.val, flags |-> q.flags]  BY DEF RefSub, Result
    <3> HIDE DEF q, p
    <3> QED  BY <2>5, <3>1
  <2> HIDE DEF o, p, q, ones, low
  <2>7. Sized(ones, s) = ones /\ Sized(dst, s) = dst /\ ones % Mod(s) = ones
    BY <1>2, <2>2, <2>3, ModSame DEF Sized
  <2>8. Agrees(s, o, q, U)
    <3>1. Agrees(s, Subtract(s, ones, dst, 0), RefSub(s, dst, ones), U)
      BY <1>1, <1>2, <2>2, <2>3, CountAgrees
    <3> QED  BY <2>4, <2>7, <3>1 DEF q
  <2> DEFINE g == o.flags
  <2>9. Agrees(s, [result |-> ones, flags |-> g], p, U)
    BY <2>6, <2>7, <2>8 DEF Agrees
  <2>10. ones \in Register /\ reg' = Merged(i, old, ones, i.dst) /\ flags' = g
    BY <2>1, <2>2, <2>3, VectorWord
  <2> HIDE DEF g, s
  <2>11. Like(i, old, f, Merged(i, old, ones, i.dst), g)
    BY <1>1, <1>4, <1>5, <2>9, <2>10, OutcomeLike DEF p, U
  <2> QED  BY <2>10, <2>11 DEF f
<1> QED  BY <1>6, <1>7

\* And the moves between sizes.
LEMMA MoveLike ==
  ASSUME NEW i \in Instructions \cup Follow, NEW old \in Contents[i.dst], flags \in Flags,
         CrossMove(i, old) \/ Truncate(i, old)
  PROVE  Like(i, old, flags, reg', flags')
<1> DEFINE f == flags
           s == i.size
           d == i.dst
           src == Sized(i.src, s)
           U == Unlike(i, old, f)
           p == RefOutcome(i, old, f)
<1>1. s \in Size /\ old \in Register /\ i.src \in Nat /\ i.src \in Register /\ f \in Flags
  BY SizedDestination
<1>2. i.op \in Extends \cup {"SYS_MOVT"}  BY DEF CrossMove, Truncate
<1>3. d \in Size
  <2>1. i.op \notin FpOps  BY <1>2, OtherOps
  <2> QED  BY <2>1, SizedDestination
<1>4. /\ i.op \in Extends => Width[s] < Width[d]
      /\ i.op = "SYS_MOVT" => Width[d] < Width[s]
      /\ i.op \in {"SYS_MOVSB", "SYS_MOVZB"} => s = "SZ_BYTE"
      /\ i.op \in {"SYS_MOVSH", "SYS_MOVZH"} => s = "SZ_HALF"
  BY DecodedAssumption DEF Decoded
<1>5. i.op \notin {"ALU_CMP", "ALU_TEST1", "SYS_UPDPSW"}  BY <1>2 DEF Extends
<1>6. src \in 0 .. Mod(s) - 1  BY <1>1, SizedRange
<1> HIDE DEF f, U
<1>7. CASE CrossMove(i, old)
  <2> DEFINE r == IF i.op \in {"SYS_MOVSB", "SYS_MOVSH"} THEN Sext(src, s) ELSE src
  <2>1. i.op \in Extends /\ reg' = Merged(i, old, r, d) /\ flags' = f
    BY <1>4, <1>7 DEF CrossMove, Done, f, Extends
  <2>2. /\ i.op \in {"SYS_MOVSB", "SYS_MOVSH"} => p.val = Signed(src, s) % Mod(d)
        /\ i.op \notin {"SYS_MOVSB", "SYS_MOVSH"} => p.val = src
        /\ p.flags = f
    BY <2>1 DEF RefOutcome, Extends
  <2> HIDE DEF src, s, d, p
  <2>3. Sext(src, s) % Mod(d) = Signed(src, s) % Mod(d) /\ src % Mod(d) = src
    BY <1>1, <1>3, <1>4, <1>6, <2>1, ExtendAgrees
  <2>4. r \in Register /\ r % Mod(d) = p.val
    <3>1. Sext(src, s) \in Register /\ src \in Register  BY <1>1, <1>6, Extended, VectorWord
    <3> QED  BY <2>2, <2>3, <3>1
  <2> HIDE DEF r
  <2>5. Agrees(d, [result |-> r, flags |-> f], p, U)  BY <2>2, <2>4 DEF Agrees
  <2>6. Like(i, old, f, Merged(i, old, r, d), f)
    BY <1>1, <1>3, <1>5, <2>4, <2>5, OutcomeLike DEF p, U, d
  <2> QED  BY <2>1, <2>6 DEF f
<1>8. CASE Truncate(i, old)
  <2> DEFINE x    == i.src
             r    == Sized(x, d)
             from == IF d = "SZ_BYTE" /\ s = "SZ_HALF" THEN "SZ_HALF" ELSE "SZ_WORD"
             cut  == (x \div Mod(d)) % (Mod(from) \div Mod(d))
             ones == (Mod(from) \div Mod(d)) - 1
             ov   == cut # (IF Msb(r, d) THEN ones ELSE 0)
             refov == Signed(src, s) # Signed(src % Mod(d), d)
             g    == [f EXCEPT !.ov = ov]
  <2>1. i.op = "SYS_MOVT" /\ reg' = Merged(i, old, r, d) /\ flags' = g
    BY <1>8 DEF Truncate, Done, f
  <2>2. p = [val |-> src % Mod(d), flags |-> [f EXCEPT !.ov = refov]]
    BY <2>1 DEF RefOutcome, RefMovt
  <2>3. Width[d] < Width[s]  BY <1>4, <2>1
  <2> HIDE DEF s, d, x
  <2>4. r % Mod(d) = src % Mod(d) /\ ov = refov
    <3>1. x \in Register  BY <1>1 DEF x
    <3> QED  BY <1>1, <1>3, <2>3, <3>1, TruncateAgrees DEF x
  <2>5. r \in Register
    <3>1. r \in 0 .. Mod(d) - 1  BY <1>1, <1>3, SizedRange DEF x
    <3> HIDE DEF r
    <3> QED  BY <1>3, <3>1, VectorWord
  <2> HIDE DEF r, ov, refov, p, src
  <2>6. p.val = r % Mod(d) /\ p.flags = g  BY <2>2, <2>4
  <2> HIDE DEF g
  <2>7. Agrees(d, [result |-> r, flags |-> g], p, U)  BY <2>6 DEF Agrees
  <2>8. Like(i, old, f, Merged(i, old, r, d), g)
    BY <1>1, <1>3, <1>5, <2>5, <2>7, OutcomeLike DEF p, U, d
  <2> QED  BY <2>1, <2>8 DEF f
<1> QED  BY <1>7, <1>8

\* SETF writes what the condition says, and UPDPSW the flags selected.
LEMMA FlagsLike ==
  ASSUME NEW i \in Instructions \cup Follow, NEW old \in Contents[i.dst], flags \in Flags,
         SetFlag(i, old) \/ UpdatePsw(i, old)
  PROVE  Like(i, old, flags, reg', flags')
<1> DEFINE f == flags
           U == Unlike(i, old, f)
           p == RefOutcome(i, old, f)
           d == i.dst
<1>1. old \in Register /\ i.src \in Nat /\ f \in Flags  BY SizedDestination
<1>2. d \in Size
  <2>1. i.op \in {"SYS_SETF", "SYS_UPDPSW"}  BY DEF SetFlag, UpdatePsw
  <2>2. i.op \notin FpOps  BY <2>1, OtherOps
  <2> QED  BY <2>2, SizedDestination
<1> HIDE DEF f, U
<1>3. CASE SetFlag(i, old)
  <2> DEFINE k == i.src % 16
             met == CondMet(f, Conditions[k + 1])
             refmet == RefCond(k, f)
             r == IF met THEN 1 ELSE 0
  <2>1. i.op = "SYS_SETF" /\ reg' = Merged(i, old, r, d) /\ flags' = f
    BY <1>3 DEF SetFlag, Done, f
  <2>2. p = [val |-> IF refmet THEN 1 ELSE 0, flags |-> f]  BY <2>1 DEF RefOutcome
  <2>3. k \in 0 .. 15  BY <1>1
  <2> HIDE DEF k, d
  <2>4. met = refmet  BY <1>1, <2>3, ConditionAgrees
  <2> HIDE DEF met, refmet
  <2>5. r \in {0, 1}  OBVIOUS
  <2>6. p.val = r /\ p.flags = f  BY <2>2, <2>4
  <2> HIDE DEF r, p
  <2>7. r \in 0 .. Mod(d) - 1
    <3>1. Mod(d) \in Nat \ {0, 1}  BY <1>2, Vectors
    <3> QED  BY <2>5, <3>1
  <2>8. r \in Register /\ r % Mod(d) = r  BY <1>2, <2>7, VectorWord, ModSame
  <2>9. Agrees(d, [result |-> r, flags |-> f], p, U)  BY <2>6, <2>8 DEF Agrees
  <2>10. Like(i, old, f, Merged(i, old, r, d), f)
    BY <1>1, <1>2, <2>1, <2>8, <2>9, OutcomeLike DEF p, U, d
  <2> QED  BY <2>1, <2>10 DEF f
<1>4. CASE UpdatePsw(i, old)
  <2> DEFINE g == [z  |-> IF Bit(old, 0) THEN Bit(i.src, 0) ELSE f.z,
                   s  |-> IF Bit(old, 1) THEN Bit(i.src, 1) ELSE f.s,
                   ov |-> IF Bit(old, 2) THEN Bit(i.src, 2) ELSE f.ov,
                   cy |-> IF Bit(old, 3) THEN Bit(i.src, 3) ELSE f.cy]
             h == FlagsOf((FlagBits(f) \ Bits(old)) \cup (Bits(i.src) \cap Bits(old)))
             e == RefExecute(i, old, f)
  <2>1. i.op = "SYS_UPDPSW" /\ reg' = old /\ flags' = g  BY <1>4 DEF UpdatePsw, Done, f
  <2>2. p = [val |-> old, flags |-> h]  BY <2>1 DEF RefOutcome
  <2>3. h = g
    <3> DEFINE src == i.src
    <3> HIDE DEF src
    <3>1. FlagsOf((FlagBits(f) \ Bits(old)) \cup (Bits(src) \cap Bits(old)))
            = [z  |-> IF Bit(old, 0) THEN Bit(src, 0) ELSE f.z,
               s  |-> IF Bit(old, 1) THEN Bit(src, 1) ELSE f.s,
               ov |-> IF Bit(old, 2) THEN Bit(src, 2) ELSE f.ov,
               cy |-> IF Bit(old, 3) THEN Bit(src, 3) ELSE f.cy]
      BY <1>1, PswAgrees
    <3> QED  BY <3>1 DEF src
  <2> HIDE DEF g, h
  <2>4. e.reg = old /\ e.flags = p.flags  BY <2>1 DEF RefExecute
  <2> HIDE DEF p
  <2>5. e.flags = g  BY <2>2, <2>3, <2>4
  <2> HIDE DEF e
  <2>6. Like(i, old, f, old, g)  BY <2>4, <2>5 DEF Like, e
  <2> QED  BY <2>1, <2>6 DEF f
<1> QED  BY <1>3, <1>4

\* An instruction of the integer units leaves what the reference does.
LEMMA IntegerLike ==
  ASSUME NEW i \in Instructions \cup Follow, NEW old \in Contents[i.dst], flags \in Flags,
         i.op \notin FpOps, Execute(i, old)
  PROVE  /\ Like(i, old, flags, reg', flags')
         /\ inst' = i /\ before' = [reg |-> old, flags |-> flags]
<1>1. ASSUME NEW u \in IF i.op = "ALU_SHA" THEN BOOLEAN ELSE {FALSE}, ExecuteAlu(i, old, u)
      PROVE  Like(i, old, flags, reg', flags')
            /\ inst' = i /\ before' = [reg |-> old, flags |-> flags]
  <2>1. u \in BOOLEAN  OBVIOUS
  <2>2. Like(i, old, flags, reg', flags')  BY <1>1, <2>1, AluLike
  <2> QED  BY <1>1, <2>2 DEF ExecuteAlu, Done
<1>2. CASE Count1(i, old) \/ TestAndSet(i, old)
  <2>1. Like(i, old, flags, reg', flags')  BY <1>2, CountLike
  <2> QED  BY <1>2, <2>1 DEF Count1, TestAndSet, Done
<1>3. CASE CrossMove(i, old) \/ Truncate(i, old)
  <2>1. Like(i, old, flags, reg', flags')  BY <1>3, MoveLike
  <2> QED  BY <1>3, <2>1 DEF CrossMove, Truncate, Done
<1>4. CASE SetFlag(i, old) \/ UpdatePsw(i, old)
  <2>1. Like(i, old, flags, reg', flags')  BY <1>4, FlagsLike
  <2> QED  BY <1>4, <2>1 DEF SetFlag, UpdatePsw, Done
<1>5. ~ExecuteFloat(i, old)  BY DEF ExecuteFloat
<1> QED  BY <1>1, <1>2, <1>3, <1>4, <1>5 DEF Execute

\* A branch was taken when the reference takes it, and an instruction of the integer units
\* left what the reference does.
IntegersLike ==
  /\ inst.op = "BRANCH" =>
       \A m \in DOMAIN Conditions : inst.cond = Conditions[m] => taken = RefCond(m - 1, flags)
  /\ inst.op \notin FpOps \cup {"BRANCH", "none"} =>
       Like(inst, before.reg, before.flags, reg, flags)

\* A step of the program keeps this.
LEMMA IntegersLikeStep == TypeOK /\ IntegersLike /\ [Next]_vars => IntegersLike'
<1> SUFFICES ASSUME TypeOK, IntegersLike, [Next]_vars
             PROVE  IntegersLike'
  OBVIOUS
<1>1. flags \in Flags  BY DEF TypeOK
<1>2. ASSUME NEW i \in Instructions \cup Follow, NEW old \in Contents[i.dst], Execute(i, old)
      PROVE  IntegersLike'
  <2>1. CASE i.op \in FpOps
    <3>1. inst' = i
      BY <1>2 DEF Execute, ExecuteAlu, Count1, TestAndSet, CrossMove, Truncate, SetFlag,
                  UpdatePsw, ExecuteFloat, Done
    <3>2. inst'.op \in FpOps  BY <2>1, <3>1
    <3>3. "BRANCH" \notin FpOps  BY OtherOps
    <3> QED  BY <3>2, <3>3 DEF IntegersLike
  <2>2. CASE i.op \notin FpOps
    <3>1. /\ Like(i, old, flags, reg', flags')
          /\ inst' = i /\ before' = [reg |-> old, flags |-> flags]
      BY <1>1, <1>2, <2>2, IntegerLike
    <3>2. i.op # "BRANCH"
      <4>1. i.op \in AluOps \cup CountOps \cup SysOps \cup FpOps  BY ProgramAssumption
      <4> QED  BY <4>1, OtherOps DEF AluOps, CountOps, SysOps, Extends
    <3>3. inst' = i /\ before'.reg = old /\ before'.flags = flags  BY <3>1
    <3>4. inst'.op # "BRANCH"  BY <3>2, <3>3
    <3>5. Like(inst', before'.reg, before'.flags, reg', flags')  BY <3>1, <3>3
    <3> QED  BY <3>4, <3>5 DEF IntegersLike
  <2> QED  BY <2>1, <2>2
<1>3. ASSUME NEW n \in DOMAIN Conditions, Branch(Conditions[n])
      PROVE  IntegersLike'
  <2> DEFINE f == flags
  <2>1. /\ inst' = [op |-> "BRANCH", cond |-> Conditions[n]]
        /\ taken' = CondMet(f, Conditions[n]) /\ flags' = f
    BY <1>3 DEF Branch
  <2>2. inst'.op = "BRANCH" /\ inst'.cond = Conditions[n]  BY <2>1
  <2>3. f \in Flags  BY <1>1
  <2> HIDE DEF f
  <2>4. ASSUME NEW m \in DOMAIN Conditions, inst'.cond = Conditions[m]
        PROVE  taken' = RefCond(m - 1, flags')
    <3> DEFINE k == m - 1
    <3>1. k \in 0 .. 15 /\ k + 1 = m  BY DEF Conditions
    <3> HIDE DEF k
    <3>2. CondMet(f, Conditions[k + 1]) = RefCond(k, f)  BY <2>3, <3>1, ConditionAgrees
    <3> QED  BY <2>1, <2>2, <2>4, <3>1, <3>2 DEF k
  <2> QED  BY <2>2, <2>4 DEF IntegersLike
<1>4. CASE Retire
  <2>1. inst'.op = "none"  BY <1>4 DEF Retire, NoInst
  <2> QED  BY <2>1 DEF IntegersLike
<1>5. CASE Forget  BY <1>5 DEF Forget, IntegersLike
<1>6. CASE UNCHANGED vars  BY <1>6 DEF vars, IntegersLike
<1> QED  BY <1>2, <1>3, <1>4, <1>5, <1>6 DEF Next

\* It holds throughout.
LEMMA IntegersLikeInvariant == Spec => []IntegersLike
<1>1. Init => IntegersLike  BY DEF Init, NoInst, IntegersLike
<1> QED  BY <1>1, TypeCorrect, IntegersLikeStep, PTL DEF Spec

\* For every width of the operands the instructions of the integer units leave the destination
\* register and the flags as the emulator does, and branches are taken when it takes them, in
\* all but the cases listed as unlike: every operation of v60_alu.sv against the routine of
\* op12.hxx and op3.hxx, for all operands, counts and flags.
THEOREM IntegersLikeReference == Spec => [](inst.op \notin FpOps => LikeReference)
<1>1. IntegersLike => (inst.op \notin FpOps => LikeReference)
  <2> SUFFICES ASSUME IntegersLike, inst.op \notin FpOps
               PROVE  LikeReference
    OBVIOUS
  <2>1. CASE inst.op = "none"  BY <2>1 DEF LikeReference
  <2>2. CASE inst.op = "BRANCH"  BY <2>2 DEF LikeReference, IntegersLike
  <2>3. CASE inst.op \notin {"BRANCH", "none"}
    <3> DEFINE ref    == RefExecute(inst, before.reg, before.flags)
               unlike == Unlike(inst, before.reg, before.flags)
    <3>1. RefDefined(inst) => LikeBut(unlike, ref.reg, ref.flags)
      BY <2>3 DEF IntegersLike, Like, LikeBut
    <3> QED  BY <2>3, <3>1 DEF LikeReference
  <2> QED  BY <2>1, <2>2, <2>3
<1> QED  BY <1>1, IntegersLikeInvariant, PTL

-----------------------------------------------------------------------------
(* The nearest float, put together from its fields.                        *)

\* The largest float.
LEMMA LargestIs ==
  /\ Float!Infinity(FALSE) = Float!One * (Float!ExpMod - 1)
  /\ Float!One * (Float!ExpMod - 1) \in Nat \ {0}
  /\ Float!Largest = Float!One * (Float!ExpMod - 1) - 1
  /\ Float!Top = Float!One * (Float!ExpMod - 1) + Float!One
<1> DEFINE O == Float!One
           E == Float!ExpMod
           c == E - 1
           I == Float!Infinity(FALSE)
<1>1. O \in Nat \ {0, 1} /\ E \in Nat /\ E >= 4 /\ Float!Top = E * O  BY FloatSizes
<1>2. c \in Nat \ {0} /\ c + 1 = E  BY <1>1
<1>3. I = 0 + O * c + 0  BY DEF Float!Infinity, Float!Pack
<1>4. Float!Largest = I - 1  BY DEF Float!Largest
<1> HIDE DEF O, E, c, I
<1>5. O * c \in Nat \ {0}  BY <1>1, <1>2, SMTT(20)
<1>6. (c + 1) * O = O * c + O  BY <1>1, <1>2, SMTT(20)
<1>7. I = O * c  BY <1>3, <1>5
<1> QED  BY <1>1, <1>2, <1>4, <1>5, <1>6, <1>7 DEF O, E, c, I

\* n / g rounded to the nearest whole number, the even one of two.
ToEven(n, g) ==
  LET m    == n \div g
      over == 2 * (n % g)
  IN  m + (IF over > g \/ (over = g /\ m % 2 = 1) THEN 1 ELSE 0)

\* A number put together from a quotient and a remainder, rounded.
LEMMA ToEvenIs ==
  ASSUME NEW g \in Nat \ {0}, NEW m \in Nat, NEW f \in 0 .. g - 1
  PROVE  /\ g * m + f \in Nat
         /\ ToEven(g * m + f, g) = m + (IF 2 * f > g \/ (2 * f = g /\ m % 2 = 1) THEN 1 ELSE 0)
<1> DEFINE n == g * m + f
<1>1. n \in Nat /\ n \div g = m /\ n % g = f  BY DivideOnce
<1> HIDE DEF n
<1> QED  BY <1>1 DEF ToEven, n

\* What is a multiple is not rounded.
LEMMA ToEvenMultiple ==
  ASSUME NEW g \in Nat \ {0}, NEW m \in Nat
  PROVE  m * g \in Nat /\ ToEven(m * g, g) = m
<1>1. m * g = g * m + 0 /\ m * g \in Nat  BY SMTT(20)
<1>2. 0 \in 0 .. g - 1  OBVIOUS
<1>3. ToEven(g * m + 0, g) = m + (IF 2 * 0 > g \/ (2 * 0 = g /\ m % 2 = 1) THEN 1 ELSE 0)
  BY <1>2, ToEvenIs
<1> QED  BY <1>1, <1>3

\* A number of n / d units between the powers of two of a normal exponent: its nearest float
\* has that exponent, unless it is rounded up to the next power of two.
LEMMA NearestPacked ==
  ASSUME NEW neg \in BOOLEAN, NEW n \in Nat, NEW d \in Nat \ {0}, NEW x \in 1 .. Float!ExpMod - 2,
         n < 2 * (Float!One * d * Two[x - 1]), n >= Float!One * d * Two[x - 1]
  PROVE  LET F == ToEven(n, d * Two[x - 1])
             r == Float!Nearest(neg, n, d)
         IN  /\ F \in Float!One .. 2 * Float!One
             /\ F < 2 * Float!One => r = Float!Pack(neg, x, F - Float!One)
             /\ F = 2 * Float!One => \/ ~Float!Number(r)
                                     \/ x + 1 <= Float!ExpMod - 2 /\ r = Float!Pack(neg, x + 1, 0)
             /\ F = 2 * Float!One /\ x + 1 <= Float!ExpMod - 2 => r = Float!Pack(neg, x + 1, 0)
<1> DEFINE O == Float!One
           E == Float!ExpMod
           T == Float!Top
           K == x - 1
           gap == d * Two[K]
           m == n \div gap
           over == 2 * (n % gap)
           up == IF over > gap \/ (over = gap /\ m % 2 = 1) THEN 1 ELSE 0
           F == m + up
           p == K * O + m + up
           r == Float!Nearest(neg, n, d)
           L == Float!Largest
           b == IF neg THEN T ELSE 0
<1>1. /\ O \in Nat \ {0, 1} /\ E \in Nat /\ E >= 4 /\ T \in Nat \ {0}
      /\ L = O * (E - 1) - 1 /\ O * (E - 1) \in Nat \ {0}
  BY FloatSizes, LargestIs
<1>2. K \in Nat /\ K \in 0 .. 2 * E /\ K <= E - 3 /\ x = K + 1 /\ x \in Nat  BY <1>1
<1>3. /\ gap \in Nat \ {0} /\ m \in Nat /\ p \in Nat
      /\ p <= L => r = b + p
      /\ Float!Number(r) => p <= L
  <2>1. n < 2 * (Float!One * d * Two[K]) /\ n >= Float!One * d * Two[K] /\ K \in 0 .. 2 * Float!ExpMod
    BY <1>2
  <2> QED  BY <2>1, NearestAt
<1>4. O * gap = O * d * Two[K]
  <2> DEFINE w == Two[K]
  <2>1. w \in Nat  BY <1>2, TwoIs
  <2> HIDE DEF w, O
  <2>2. O * (d * w) = O * d * w  BY <1>1, <2>1, SMTT(20)
  <2> QED  BY <2>2 DEF w
<1>5. n < 2 * (O * gap) /\ n >= O * gap  BY <1>4
<1>6. n % gap \in 0 .. gap - 1 /\ n = gap * m + (n % gap)  BY <1>3, Division
<1>7. up \in {0, 1}  OBVIOUS
<1> DEFINE f == n % gap
<1> HIDE DEF gap, m, up, over, f, O, E, T, L, r
<1> HIDE DEF K
<1>8. m \in O .. 2 * O - 1
  <2>1. gap * m = m * gap /\ gap * m \in Nat /\ O * gap \in Nat  BY <1>1, <1>3, SMTT(20)
  <2>2. m < O => m * gap + gap <= O * gap  BY <1>1, <1>3, Products
  <2>3. 2 * O <= m => (2 * O) * gap <= m * gap  BY <1>1, <1>3, Products
  <2>4. (2 * O) * gap = 2 * (O * gap)  BY <1>1, <1>3, SMTT(20)
  <2> DEFINE G == gap * m
             H == O * gap
  <2>5. G \in Nat /\ H \in Nat /\ n < 2 * H /\ n >= H /\ n = G + f /\ f \in 0 .. gap - 1
    BY <1>5, <1>6, <2>1 DEF f
  <2>6. (m < O => G + gap <= H) /\ (2 * O <= m => 2 * H <= G)  BY <2>1, <2>2, <2>3, <2>4
  <2> HIDE DEF G, H
  <2>7. ~(m < O) /\ ~(2 * O <= m)  BY <1>3, <2>5, <2>6
  <2> QED  BY <1>1, <1>3, <2>7
<1>9. F \in O .. 2 * O  BY <1>1, <1>7, <1>8
<1> DEFINE Q == K * O
<1>10. Q \in Nat /\ O * x = Q + O
  <2>1. O * (K + 1) = K * O + O /\ K * O \in Nat  BY <1>1, <1>2, SMTT(20)
  <2> QED  BY <1>2, <2>1
<1>11. O * (E - 1) >= Q + 2 * O
  <2>1. K + 2 \in Nat /\ E - 1 \in Nat /\ K + 2 <= E - 1  BY <1>1, <1>2
  <2> DEFINE y == K + 2
             c == E - 1
  <2> HIDE DEF y, c
  <2>2. y * O <= c * O  BY <1>1, <2>1, Products DEF y, c
  <2>3. c * O = O * c  BY <1>1, <2>1, SMTT(20) DEF c
  <2>4. (K + 2) * O = K * O + 2 * O  BY <1>1, <1>2, SMTT(20)
  <2> QED  BY <2>2, <2>3, <2>4 DEF y, c
<1>12. p = Q + F
  <2> HIDE DEF Q
  <2> QED  BY <1>2, <1>3, <1>7, <1>10 DEF Q
<1> HIDE DEF Q, p, F
<1>13. b \in Nat /\ b = IF neg THEN Float!Top ELSE 0  BY <1>1 DEF T
<1> HIDE DEF b
<1>14. F < 2 * O => r = Float!Pack(neg, x, F - O)
  <2> HAVE F < 2 * O
  <2>1. p <= L
    <3> DEFINE M == O * (E - 1)
    <3>1. L = M - 1 /\ M \in Nat /\ M >= Q + 2 * O  BY <1>1, <1>11
    <3> HIDE DEF M
    <3> QED  BY <1>1, <1>9, <1>10, <1>12, <3>1
  <2>2. r = b + (Q + F)  BY <1>3, <1>12, <2>1
  <2>3. Float!Pack(neg, x, F - O) = b + O * x + (F - O)  BY <1>13 DEF Float!Pack, O
  <2> DEFINE X == O * x
  <2>4. X = Q + O  BY <1>10
  <2>5. Float!Pack(neg, x, F - O) = b + X + (F - O)  BY <2>3
  <2> HIDE DEF X
  <2> QED  BY <1>1, <1>9, <1>10, <1>13, <2>2, <2>4, <2>5
<1>15. ASSUME F = 2 * O, p <= L
       PROVE  r = Float!Pack(neg, x + 1, 0)
  <2>1. r = b + (Q + F)  BY <1>3, <1>12, <1>15
  <2>2. Float!Pack(neg, x + 1, 0) = b + O * (x + 1) + 0  BY <1>13 DEF Float!Pack, O
  <2>3. O * (x + 1) = O * x + O /\ O * x \in Nat  BY <1>1, <1>2, SMTT(20)
  <2> DEFINE X == O * (x + 1)
  <2>4. X = Q + 2 * O /\ X \in Nat  BY <1>1, <1>10, <2>3
  <2>5. Float!Pack(neg, x + 1, 0) = b + X + 0  BY <2>2
  <2> HIDE DEF X
  <2> QED  BY <1>1, <1>9, <1>10, <1>13, <1>15, <2>1, <2>4, <2>5
<1>16. F = 2 * O => (p <= L <=> x + 1 <= E - 2)
  <2> HAVE F = 2 * O
  <2> DEFINE c == E - 1
             y == K + 2
             C == O * c
             Y == O * y
  <2>1. c \in Nat /\ y \in Nat /\ y <= c /\ (x + 1 <= E - 2 <=> y < c)  BY <1>1, <1>2
  <2>2. Y = Q + 2 * O  BY <1>1, <1>2, SMTT(20) DEF Q
  <2>3. L = C - 1 /\ C \in Nat  BY <1>1
  <2> HIDE DEF c, y
  <2>4. y < c => y * O + O <= c * O  BY <1>1, <2>1, Products
  <2>5. y * O = Y /\ c * O = C /\ Y \in Nat  BY <1>1, <2>1, SMTT(20)
  <2>6. y < c \/ y = c  BY <2>1
  <2>7. (y < c => Y + O <= C) /\ (y = c => Y = C)  BY <2>4, <2>5
  <2> HIDE DEF C, Y
  <2>8. p = Y  BY <1>10, <1>12, <2>2
  <2> QED  BY <1>1, <2>1, <2>3, <2>5, <2>6, <2>7, <2>8
<1>17. /\ F = 2 * O => ~Float!Number(r) \/ (x + 1 <= E - 2 /\ r = Float!Pack(neg, x + 1, 0))
       /\ F = 2 * O /\ x + 1 <= E - 2 => r = Float!Pack(neg, x + 1, 0)
  BY <1>3, <1>15, <1>16
<1>18. F = ToEven(n, d * Two[x - 1])  BY DEF F, m, over, up, gap, K, ToEven
<1> QED  BY <1>9, <1>14, <1>17, <1>18 DEF r, O, E

\* A number of at least the power of two after the last one that is finite is not.
LEMMA NearestLarge ==
  ASSUME NEW neg \in BOOLEAN, NEW n \in Nat, NEW d \in Nat \ {0}, NEW K \in 0 .. 2 * Float!ExpMod,
         K >= Float!ExpMod - 2, n < 2 * (Float!One * d * Two[K]), n >= Float!One * d * Two[K]
  PROVE  ~Float!Number(Float!Nearest(neg, n, d))
<1> DEFINE O == Float!One
           E == Float!ExpMod
           gap == d * Two[K]
           m == n \div gap
           over == 2 * (n % gap)
           p == K * O + m + (IF over > gap \/ (over = gap /\ m % 2 = 1) THEN 1 ELSE 0)
           r == Float!Nearest(neg, n, d)
           L == Float!Largest
<1>1. /\ O \in Nat \ {0, 1} /\ E \in Nat /\ E >= 4
      /\ L = O * (E - 1) - 1 /\ O * (E - 1) \in Nat \ {0}
  BY FloatSizes, LargestIs
<1>2. /\ gap \in Nat \ {0} /\ m \in Nat /\ p \in Nat /\ p >= K * O + m
      /\ Float!Number(r) => p <= L
  BY NearestAt
<1>3. n >= O * gap
  <2> DEFINE w == Two[K]
  <2>1. w \in Nat  BY TwoIs
  <2> HIDE DEF w, O
  <2>2. O * (d * w) = O * d * w  BY <1>1, <2>1, SMTT(20)
  <2> QED  BY <2>2 DEF w, O
<1>4. n % gap \in 0 .. gap - 1 /\ n = gap * m + (n % gap)  BY <1>2, Division
<1> DEFINE f == n % gap
<1> HIDE DEF O, E, gap, m, p, r, L, f
<1>5. m >= O
  <2>1. gap * m = m * gap /\ gap * m \in Nat /\ O * gap \in Nat  BY <1>1, <1>2, SMTT(20)
  <2>2. m < O => m * gap + gap <= O * gap  BY <1>1, <1>2, Products
  <2> DEFINE G == gap * m
             H == O * gap
  <2>3. G \in Nat /\ H \in Nat /\ n >= H /\ n = G + f /\ f \in 0 .. gap - 1
    BY <1>3, <1>4, <2>1 DEF f
  <2>4. m < O => G + gap <= H  BY <2>1, <2>2
  <2> HIDE DEF G, H
  <2> QED  BY <1>1, <1>2, <2>3, <2>4
<1>6. O * (E - 1) <= K * O + O /\ K * O \in Nat
  <2> DEFINE c == E - 1
             y == K + 1
  <2>1. c \in Nat /\ y \in Nat /\ c <= y /\ K \in Nat  BY <1>1 DEF E
  <2> HIDE DEF c, y
  <2>2. c * O <= y * O  BY <1>1, <2>1, Products
  <2>3. c * O = O * c  BY <1>1, <2>1, SMTT(20)
  <2>4. (K + 1) * O = K * O + O /\ K * O \in Nat  BY <1>1, <2>1, SMTT(20)
  <2> QED  BY <2>2, <2>3, <2>4 DEF c, y
<1>7. ~(p <= L)
  <2> DEFINE M == O * (E - 1)
             Q == K * O
  <2>1. M \in Nat /\ Q \in Nat /\ M <= Q + O /\ L = M - 1 /\ p >= Q + m  BY <1>1, <1>2, <1>6
  <2> HIDE DEF M, Q
  <2> QED  BY <1>1, <1>2, <1>5, <2>1
<1> QED  BY <1>2, <1>7 DEF r

\* Zero, with its sign.
LEMMA NearestZero ==
  ASSUME NEW neg \in BOOLEAN, NEW d \in Nat \ {0}
  PROVE  Float!Nearest(neg, 0, d) = IF neg THEN Float!Top ELSE 0
<1> DEFINE O == Float!One
           E == Float!ExpMod
           gap == d * Two[0]
           m == 0 \div gap
           over == 2 * (0 % gap)
           p == 0 * O + m + (IF over > gap \/ (over = gap /\ m % 2 = 1) THEN 1 ELSE 0)
           r == Float!Nearest(neg, 0, d)
<1>1. /\ O \in Nat \ {0, 1} /\ E \in Nat /\ E >= 4
      /\ Float!Largest = O * (E - 1) - 1 /\ O * (E - 1) \in Nat \ {0} /\ Float!Top \in Nat
  BY FloatSizes, LargestIs
<1>2. Two[0] = 1  BY TwoIs
<1>3. gap \in Nat \ {0} /\ (p <= Float!Largest => r = (IF neg THEN Float!Top ELSE 0) + p)
  <2>1. O * d * Two[0] > 0
    <3> HIDE DEF O
    <3> QED  BY <1>1, <1>2, SMTT(20)
  <2>2. 0 < 2 * (Float!One * d * Two[0]) /\ 0 \in 0 .. 2 * Float!ExpMod
    <3> DEFINE y == O * d * Two[0]
    <3>1. y \in Nat
      <4> HIDE DEF O
      <4> QED  BY <1>1, <1>2, SMTT(20)
    <3> HIDE DEF y
    <3>2. 0 < 2 * y  BY <2>1, <3>1 DEF y
    <3> QED  BY <1>1, <3>2 DEF y
  <2> QED  BY <2>2, NearestAt
<1> HIDE DEF gap
<1>4. m = 0 /\ over = 0
  <2>1. gap * 0 + 0 = 0 /\ 0 \in 0 .. gap - 1  BY <1>3
  <2>2. (gap * 0 + 0) \div gap = 0 /\ (gap * 0 + 0) % gap = 0  BY <1>3, <2>1, DivideOnce
  <2> QED  BY <2>1, <2>2
<1>5. p = 0
  <2> HIDE DEF O, m, over
  <2> QED  BY <1>1, <1>3, <1>4
<1> HIDE DEF p, r
<1> QED  BY <1>1, <1>3, <1>5 DEF r

\* A number of units with no more bits than a significand, at a place of a normal float, is
\* that float, and at a later one it is none.
LEMMA NearestWhole ==
  ASSUME NEW neg \in BOOLEAN, NEW K \in 0 .. 2 * Float!ExpMod,
         NEW F \in Float!One .. 2 * Float!One - 1
  PROVE  LET r == Float!Nearest(neg, F * Two[K], 1)
         IN  /\ K <= Float!ExpMod - 3 => r = Float!Pack(neg, K + 1, F - Float!One)
             /\ K >= Float!ExpMod - 2 => ~Float!Number(r)
<1> DEFINE O == Float!One
           E == Float!ExpMod
           g == Two[K]
           n == F * g
<1>1. O \in Nat \ {0, 1} /\ E \in Nat /\ E >= 4  BY FloatSizes
<1>2. g \in Nat \ {0}  BY TwoIs
<1>3. F \in Nat /\ F >= O /\ F < 2 * O /\ K \in Nat  BY <1>1
<1>4. O * 1 * Two[K] = O * g /\ 1 * g = g
  <2> HIDE DEF O
  <2>1. O * 1 = O  BY <1>1
  <2>2. O * 1 * g = O * g  BY <2>1
  <2> QED  BY <1>2, <2>2
<1> HIDE DEF O, E, g
<1>5. n \in Nat /\ n >= O * g /\ n < 2 * (O * g)
  <2>1. n \in Nat /\ O * g \in Nat  BY <1>1, <1>2, <1>3, SMTT(20)
  <2>2. O * g <= F * g  BY <1>1, <1>2, <1>3, Products
  <2>3. F * g + g <= (2 * O) * g  BY <1>1, <1>2, <1>3, Products
  <2>4. (2 * O) * g = 2 * (O * g)  BY <1>1, <1>2, SMTT(20)
  <2> DEFINE H == O * g
  <2>5. H \in Nat /\ H <= n /\ n + g <= 2 * H  BY <2>1, <2>2, <2>3, <2>4
  <2> HIDE DEF H, n
  <2>6. n < 2 * H  BY <1>2, <2>1, <2>5
  <2> QED  BY <2>1, <2>5, <2>6 DEF H

<1> DEFINE r == Float!Nearest(neg, n, 1)
<1>7. K <= E - 3 => r = Float!Pack(neg, K + 1, F - O)
  <2> HAVE K <= E - 3
  <2> DEFINE x == K + 1
             d == 1
             G == ToEven(n, d * Two[x - 1])
             s == Float!Nearest(neg, n, d)
  <2>1. x \in 1 .. Float!ExpMod - 2  BY <1>1, <1>3 DEF E
  <2>6. x - 1 = K  BY <1>3
  <2>2. d * Two[x - 1] = g  BY <1>4, <2>6 DEF g
  <2> HIDE DEF x
  <2>7. G = F  BY <1>2, <1>3, <2>2, ToEvenMultiple
  <2>4. n < 2 * (Float!One * d * Two[x - 1]) /\ n >= Float!One * d * Two[x - 1]
    BY <1>4, <1>5, <2>6 DEF O, g
  <2>5. n \in Nat /\ d \in Nat \ {0} /\ s = r  BY <1>5
  <2> HIDE DEF n, d, r
  <2>8. G < 2 * Float!One => s = Float!Pack(neg, x, G - Float!One)
    BY <2>1, <2>4, <2>5, NearestPacked
  <2> HIDE DEF s
  <2> HIDE DEF s, G
  <2> QED  BY <1>1, <1>3, <2>5, <2>7, <2>8 DEF x, O
<1>8. K >= E - 2 => ~Float!Number(r)
  <2> HAVE K >= E - 2
  <2>1. n < 2 * (Float!One * 1 * Two[K]) /\ n >= Float!One * 1 * Two[K]
    BY <1>4, <1>5 DEF O, g
  <2> HIDE DEF n
  <2>2. n \in Nat /\ 1 \in Nat \ {0} /\ K >= Float!ExpMod - 2  BY <1>5 DEF E
  <2> QED  BY <2>1, <2>2, NearestLarge
<1> QED  BY <1>7, <1>8 DEF r, n, g, O, E

\* Fewer units than the least normal number has are a number with that pattern.
LEMMA NearestDenormal ==
  ASSUME NEW neg \in BOOLEAN, NEW n \in 0 .. Float!One - 1
  PROVE  Float!Magnitude(Float!Nearest(neg, n, 1)) = n
<1> DEFINE O == Float!One
           d == 1
           gap == d * Two[0]
           m == n \div gap
           over == 2 * (n % gap)
           p == 0 * O + m + (IF over > gap \/ (over = gap /\ m % 2 = 1) THEN 1 ELSE 0)
           r == Float!Nearest(neg, n, d)
           c == O * (Float!ExpMod - 1)
<1>1. /\ O \in Nat \ {0, 1} /\ Float!ExpMod \in Nat /\ Float!ExpMod >= 4
      /\ Float!Largest = c - 1 /\ c \in Nat
  BY FloatSizes, LargestIs
<1>2. gap = 1  BY TwoIs
<1>3. c >= O
  <2> DEFINE E == Float!ExpMod - 1
  <2>1. E \in Nat /\ 1 <= E  BY <1>1
  <2> HIDE DEF E, O
  <2>2. 1 * O <= E * O  BY <1>1, <2>1, Products
  <2>3. E * O = O * E /\ 1 * O = O  BY <1>1, <2>1, SMTT(20)
  <2> QED  BY <2>2, <2>3 DEF E
<1>4. p <= Float!Largest => Float!Magnitude(r) = p
  <2>1. n < 2 * (Float!One * d * Two[0])
    <3>1. Float!One * d * Two[0] = O  BY <1>1, <1>2, TwoIs
    <3> DEFINE y == Float!One * d * Two[0]
    <3>2. y = O  BY <3>1
    <3> HIDE DEF y
    <3>3. n < 2 * y  BY <1>1, <3>2
    <3> QED  BY <3>3 DEF y
  <2>2. n \in Nat /\ d \in Nat \ {0} /\ 0 \in 0 .. 2 * Float!ExpMod  BY <1>1
  <2> HIDE DEF d
  <2> QED  BY <2>1, <2>2, NearestAt
<1> HIDE DEF gap, c
<1>5. m = n /\ n % gap = 0  BY <1>1, <1>2
<1>6. over = 0  BY <1>5
<1>7. p = n
  <2> HIDE DEF O, m, over
  <2> QED  BY <1>1, <1>2, <1>5, <1>6
<1>8. n <= Float!Largest  BY <1>1, <1>3
<1> HIDE DEF p, r
<1> QED  BY <1>4, <1>7, <1>8 DEF r

\* A sum with a carry is rounded as the nearest float is, but for infinity.
LEMMA CarriedNearest ==
  ASSUME NEW sign \in BOOLEAN, NEW e \in 1 .. Float!ExpMod - 2,
         NEW sum \in 2 * Float!One .. 4 * Float!One - 2
  PROVE  LET r == Float!Nearest(sign, sum * Two[e - 1], 1)
         IN  r = Float!Normalized(sign, e, sum) \/ ~Float!Number(r)
<1> DEFINE O == Float!One
           E == Float!ExpMod
           B == Float!BitLength(sum)
           n == FRAC + 2 - B
           h == sum \div 2
           i == sum % 2
           F == h + (IF i = 1 /\ h % 2 = 1 THEN 1 ELSE 0)
           f == IF n = 0 THEN F ELSE (sum * Two[n - 1]) % O
           x == IF n > 1 /\ n > e THEN 0 ELSE (e + 1 - n) % E
           q == Float!Normalized(sign, e, sum)
           P == Two[e - 1]
           g == 2 * P
           N == sum * P
           r == Float!Nearest(sign, N, 1)
<1>1. q = IF x = 0 THEN 0 ELSE Float!Pack(sign, x, f % O)
  BY FloatTwo DEF Float!Normalized
<1>2. O \in Nat \ {0, 1} /\ Two[FRAC] = O /\ FRAC \in Nat /\ E \in Nat /\ E >= 4
  BY FloatSizes
<1>3. sum \in Nat \ {0} /\ sum >= 2 * O /\ sum <= 4 * O - 2 /\ e \in Nat /\ e >= 1 /\ e <= E - 2
  BY <1>2
<1>4. P \in Nat \ {0} /\ Two[e] = g /\ g \in Nat \ {0}
  <2>1. e - 1 \in Nat /\ (e - 1) + 1 = e  BY <1>3
  <2>2. Two[e - 1] \in Nat \ {0} /\ Two[(e - 1) + 1] = 2 * Two[e - 1]  BY <2>1, TwoIs
  <2> QED  BY <2>1, <2>2
<1>5. n = 0
  <2>1. FRAC + 2 \in Nat /\ FRAC + 2 <= 2 * FRAC + EXP + 4  BY FloatSizes
  <2>2. Two[FRAC + 1] = 2 * O /\ Two[FRAC + 2] = 4 * O
    <3>1. FRAC + 1 \in Nat /\ (FRAC + 1) + 1 = FRAC + 2  BY <1>2
    <3>2. Two[FRAC + 1] = 2 * Two[FRAC] /\ Two[(FRAC + 1) + 1] = 2 * Two[FRAC + 1]
      BY <1>2, <3>1, TwoIs
    <3> QED  BY <1>2, <3>1, <3>2
  <2> HIDE DEF O
  <2>3. sum < Two[FRAC + 2]  BY <1>2, <1>3, <2>2
  <2>4. B \in 1 .. FRAC + 2 /\ Two[B - 1] <= sum /\ sum < Two[B]
    <3> HIDE DEF B
    <3> QED  BY <1>3, <2>1, <2>3, HighestBit DEF B
  <2> DEFINE j == FRAC + 2
  <2>5. j \in Nat \ {0} /\ B \in Nat \ {0} /\ j - 1 = FRAC + 1  BY <1>2, <2>4
  <2>6. Two[j - 1] <= sum /\ sum < Two[j]  BY <1>3, <2>2, <2>3, <2>5
  <2> HIDE DEF B, j
  <2>7. B = j  BY <1>3, <2>4, <2>5, <2>6, LengthOnce
  <2> QED  BY <1>2, <2>7 DEF j
<1>6. f = F  BY <1>5
<1> HIDE DEF B, q
<1>7. x = e + 1
  <2> DEFINE c == e + 1
  <2>1. x = c % E  BY <1>5
  <2>2. c \in 0 .. E - 1 /\ E \in Nat \ {0} /\ E * 0 + c = c  BY <1>2, <1>3
  <2> HIDE DEF c, E, x
  <2>3. (E * 0 + c) % E = c  BY <2>2, DivideOnce
  <2> QED  BY <2>1, <2>2, <2>3 DEF c
<1> HIDE DEF f, x, n
<1>8. h \in Nat /\ i \in {0, 1} /\ sum = 2 * h + i  BY <1>3
<1> HIDE DEF O, h, i
<1>9. F \in O .. 2 * O - 1
  <2>1. CASE i = 1 /\ h % 2 = 1
    <3>1. F = h + 1  BY <2>1
    <3> HIDE DEF F
    <3> QED  BY <1>2, <1>3, <1>8, <2>1, <3>1
  <2>2. CASE ~(i = 1 /\ h % 2 = 1)
    <3>1. F = h  BY <1>8, <2>2
    <3> HIDE DEF F
    <3> QED  BY <1>2, <1>3, <1>8, <3>1
  <2> QED  BY <2>1, <2>2
<1>10. N = g * h + i * P /\ N \in Nat /\ O * g \in Nat /\ O * g <= N /\ N < 2 * (O * g)
  <2> HIDE DEF P
  <2>1. N \in Nat /\ O * g \in Nat  BY <1>2, <1>3, <1>4, SMTT(20)
  <2>2. (2 * h + i) * P = (2 * P) * h + i * P  BY <1>4, <1>8, SMTT(20)
  <2>3. (2 * O) * P = O * (2 * P) /\ (4 * O) * P = 2 * (O * (2 * P))  BY <1>2, <1>4, SMTT(20)
  <2> DEFINE s2 == 2 * O
             s4 == 4 * O
  <2>4. s2 \in Nat /\ s4 \in Nat /\ s2 <= sum /\ sum < s4  BY <1>2, <1>3
  <2> HIDE DEF s2, s4
  <2>5. s2 * P <= sum * P /\ sum * P + P <= s4 * P  BY <1>3, <1>4, <2>4, Products
  <2>6. s2 * P = O * g /\ s4 * P = 2 * (O * g)  BY <2>3 DEF s2, s4
  <2> DEFINE H == O * g
  <2>7. H \in Nat /\ H <= N /\ N + P <= 2 * H  BY <2>1, <2>5, <2>6
  <2>8. N = g * h + i * P  BY <1>8, <2>2
  <2> HIDE DEF H, N
  <2>9. H <= N /\ N < 2 * H  BY <1>4, <2>1, <2>7
  <2> QED  BY <2>1, <2>8, <2>9 DEF H
<1>11. ToEven(N, g) = F
  <2> DEFINE t == i * P
  <2>1. (i = 0 => t = 0) /\ (i = 1 => t = P)
    <3> HIDE DEF P
    <3> QED  BY <1>4
  <2>2. t \in 0 .. g - 1 /\ ~(2 * t > g) /\ (2 * t = g <=> i = 1)
    <3> HIDE DEF P, t
    <3> QED  BY <1>4, <1>8, <2>1
  <2> HIDE DEF t, g
  <2>3. ToEven(g * h + t, g) = h + (IF 2 * t > g \/ (2 * t = g /\ h % 2 = 1) THEN 1 ELSE 0)
    BY <1>4, <1>8, <2>2, ToEvenIs
  <2>4. ToEven(g * h + t, g) = F  BY <2>2, <2>3
  <2>5. N = g * h + t  BY <1>10 DEF t, g
  <2> HIDE DEF N, F
  <2> QED  BY <2>4, <2>5
<1> HIDE DEF F, N
<1>12. f % O = F - O
  <2> DEFINE y == F - O
  <2>1. y \in 0 .. O - 1 /\ O * 1 + y = F  BY <1>2, <1>9
  <2> HIDE DEF y
  <2>2. (O * 1 + y) % O = y  BY <1>2, <2>1, DivideOnce
  <2> QED  BY <1>6, <2>1, <2>2 DEF y
<1>13. q = Float!Pack(sign, e + 1, F - O)  BY <1>1, <1>3, <1>7, <1>12
<1>14. 1 * g = g /\ O * 1 * g = O * g
  <2> HIDE DEF g
  <2>1. O * 1 = O  BY <1>2
  <2>2. O * 1 * g = O * g  BY <2>1
  <2> QED  BY <1>4, <2>2
<1> HIDE DEF g
<1>15. CASE e <= E - 3
  <2> DEFINE X == e + 1
             d == 1
             G == ToEven(N, d * Two[X - 1])
             s == Float!Nearest(sign, N, d)
  <2>1. X \in 1 .. E - 2 /\ X - 1 = e  BY <1>2, <1>3, <1>15
  <2> HIDE DEF X
  <2>6. X - 1 = e  BY <2>1
  <2>7. X \in 1 .. Float!ExpMod - 2  BY <2>1 DEF E
  <2>2. d * Two[X - 1] = g  BY <1>4, <1>14, <2>6
  <2>3. G = F  BY <1>11, <2>2
  <2>4. N < 2 * (Float!One * d * Two[X - 1]) /\ N >= Float!One * d * Two[X - 1]
    BY <1>4, <1>10, <1>14, <2>6 DEF O
  <2>5. N \in Nat /\ d \in Nat \ {0} /\ s = r  BY <1>10
  <2> HIDE DEF d, r, s
  <2>8. G < 2 * Float!One => s = Float!Pack(sign, X, G - Float!One)
    BY <2>4, <2>5, <2>7, NearestPacked DEF s
  <2> HIDE DEF G
  <2>9. G < 2 * O  BY <1>2, <1>9, <2>3
  <2> QED  BY <1>13, <2>3, <2>5, <2>8, <2>9 DEF O, X, r, N, q, P
<1>16. CASE e = E - 2
  <2>1. e \in 0 .. 2 * Float!ExpMod /\ e >= Float!ExpMod - 2  BY <1>2, <1>3, <1>16 DEF E
  <2>2. N < 2 * (Float!One * 1 * Two[e]) /\ N >= Float!One * 1 * Two[e]
    BY <1>4, <1>10, <1>14 DEF O
  <2>3. N \in Nat /\ 1 \in Nat \ {0}  BY <1>10
  <2>4. ~Float!Number(r)  BY <2>1, <2>2, <2>3, NearestLarge
  <2> QED  BY <2>4 DEF r, N, P
<1> QED  BY <1>2, <1>3, <1>15, <1>16

\* A sum without a carry is the nearest float, but for a denormal number.
LEMMA ShiftedNearest ==
  ASSUME NEW sign \in BOOLEAN, NEW e \in 1 .. Float!ExpMod - 2,
         NEW sum \in 1 .. 2 * Float!One - 1
  PROVE  LET r == Float!Nearest(sign, sum * Two[e - 1], 1)
         IN  \/ r = Float!Normalized(sign, e, sum)
             \/ Float!Magnitude(r) < Float!LeastNormal /\ r # 0
<1> DEFINE O == Float!One
           E == Float!ExpMod
           B == Float!BitLength(sum)
           n == FRAC + 2 - B
           i == n - 1
           S == sum * Two[i]
           f == IF n = 0
                THEN (sum \div 2) + (IF sum % 2 = 1 /\ (sum \div 2) % 2 = 1 THEN 1 ELSE 0)
                ELSE S % O
           x == IF n > 1 /\ n > e THEN 0 ELSE (e + 1 - n) % E
           q == Float!Normalized(sign, e, sum)
           P == Two[e - 1]
           N == sum * P
           r == Float!Nearest(sign, N, 1)
<1>1. q = IF x = 0 THEN 0 ELSE Float!Pack(sign, x, f % O)
  BY FloatTwo DEF Float!Normalized
<1>2. O \in Nat \ {0, 1} /\ Two[FRAC] = O /\ FRAC \in Nat /\ E \in Nat /\ E >= 4
      /\ Float!LeastNormal = O
  BY FloatSizes DEF Float!LeastNormal
<1>3. sum \in Nat \ {0} /\ sum < 2 * O /\ e \in Nat /\ e >= 1 /\ e <= E - 2 /\ e - 1 \in Nat
  BY <1>2
<1>4. Two[FRAC + 1] = 2 * O
  BY <1>2, TwoIs
<1>5. B \in 1 .. FRAC + 1 /\ Two[B - 1] <= sum /\ sum < Two[B]
  <2>1. FRAC + 1 \in Nat /\ FRAC + 1 <= 2 * FRAC + EXP + 4  BY FloatSizes
  <2> HIDE DEF O
  <2>2. sum < Two[FRAC + 1]  BY <1>3, <1>4
  <2> HIDE DEF B
  <2> QED  BY <1>3, <2>1, <2>2, HighestBit DEF B
<1>6. n \in 1 .. FRAC + 1 /\ B = FRAC + 2 - n  BY <1>2, <1>5
<1>7. f = S % O  BY <1>6
<1> HIDE DEF B, q, f
<1>8. i \in Nat /\ B + i = FRAC + 1 /\ (B + i) - 1 = FRAC /\ B \in Nat \ {0} /\ n = i + 1
      /\ B - 1 \in Nat
  <2> HIDE DEF n
  <2>1. n \in Nat \ {0} /\ i = n - 1  BY <1>6
  <2> HIDE DEF i
  <2> QED  BY <1>2, <1>5, <1>6, <2>1
<1> HIDE DEF i
<1>9. S \in O .. 2 * O - 1 /\ S \in Nat
  <2>1. S \in Nat \ {0} /\ Two[(B + i) - 1] <= S /\ S < Two[B + i]
    BY <1>3, <1>5, <1>8, Longer
  <2> HIDE DEF S, O
  <2>2. O <= S /\ S < 2 * O  BY <1>2, <1>4, <1>8, <2>1
  <2> QED  BY <1>2, <2>1, <2>2
<1>10. P \in Nat \ {0}  BY <1>3, TwoIs
<1>11. N \in Nat \ {0}
  <2> HIDE DEF P
  <2> QED  BY <1>3, <1>10, SMTT(20)
<1> HIDE DEF S, O, E, P
<1>12. CASE n <= e
  <2> DEFINE k == e - n
             X == k + 1
  <2>1. k \in Nat /\ k + i = e - 1 /\ k <= E - 3 /\ e + 1 - n = X /\ X \in 1 .. E - 1
    <3> HIDE DEF n
    <3> QED  BY <1>2, <1>3, <1>6, <1>8, <1>12
  <2>2. x = X
    <3>1. x = (e + 1 - n) % E
      <4> HIDE DEF n
      <4> QED  BY <1>3, <1>6, <1>12
    <3>2. x = X % E  BY <2>1, <3>1
    <3>3. X \in 0 .. E - 1 /\ E \in Nat \ {0} /\ E * 0 + X = X  BY <1>2, <2>1
    <3> HIDE DEF X, x
    <3>4. (E * 0 + X) % E = X  BY <3>3, DivideOnce
    <3> QED  BY <3>2, <3>3, <3>4
  <2> HIDE DEF x, n, k
  <2>3. f % O = S - O
    <3> DEFINE y == S - O
    <3>1. y \in 0 .. O - 1 /\ O * 1 + y = S /\ O * 0 + y = y  BY <1>2, <1>9
    <3> HIDE DEF y
    <3>2. (O * 1 + y) % O = y /\ (O * 0 + y) % O = y  BY <1>2, <3>1, DivideOnce
    <3>3. f = y  BY <1>7, <3>1, <3>2
    <3> QED  BY <3>1, <3>2, <3>3 DEF y
  <2>4. q = Float!Pack(sign, X, S - O)  BY <1>1, <2>1, <2>2, <2>3
  <2>5. S * Two[k] = N
    <3>1. Two[k + i] = Two[k] * Two[i] /\ Two[k] \in Nat /\ Two[i] \in Nat
      BY <1>8, <2>1, TwoSum, TwoIs
    <3> DEFINE g == Two[k]
               h == Two[i]
    <3>2. g \in Nat /\ h \in Nat /\ P = g * h  BY <2>1, <3>1 DEF P
    <3> HIDE DEF g, h
    <3>3. (sum * h) * g = sum * (g * h)  BY <1>3, <3>2, SMTT(20)
    <3> QED  BY <3>2, <3>3 DEF g, h, S
  <2>6. k \in 0 .. 2 * Float!ExpMod /\ k <= Float!ExpMod - 3  BY <1>2, <2>1 DEF E
  <2>7. S \in Float!One .. 2 * Float!One - 1  BY <1>9 DEF O
  <2> DEFINE u == Float!Nearest(sign, S * Two[k], 1)
  <2>8. u = Float!Pack(sign, k + 1, S - Float!One)
    BY <2>6, <2>7, NearestWhole
  <2>9. u = r  BY <2>5
  <2> HIDE DEF u, N
  <2> QED  BY <2>4, <2>8, <2>9 DEF r, O, q, N, P
<1>13. CASE n > e
  <2> DEFINE j == e - 1
             t == B + j
             l == FRAC - t
  <2>1. j \in Nat /\ t \in Nat /\ l \in Nat /\ t + l = FRAC
    <3> HIDE DEF n
    <3> QED  BY <1>2, <1>3, <1>5, <1>6, <1>13
  <2> HIDE DEF j, t, l
  <2>2. N < Two[t]
    <3>1. Two[B + j] = Two[B] * Two[j] /\ Two[B] \in Nat /\ Two[j] \in Nat
      BY <1>8, <2>1, TwoSum, TwoIs
    <3> DEFINE b == Two[B]
    <3>2. b \in Nat /\ sum < b /\ Two[t] = b * P  BY <1>5, <3>1 DEF t, j, P
    <3> HIDE DEF b
    <3>3. sum * P + P <= b * P /\ b * P \in Nat  BY <1>3, <1>10, <3>2, Products
    <3> DEFINE y == b * P
    <3>4. y \in Nat /\ N + P <= y /\ Two[t] = y  BY <3>2, <3>3
    <3> HIDE DEF N, y
    <3> QED  BY <1>10, <1>11, <3>4
  <2>3. Two[t] <= O
    <3>1. Two[t + l] = Two[t] * Two[l] /\ Two[t] \in Nat /\ Two[l] \in Nat \ {0}
      BY <2>1, TwoSum, TwoIs
    <3> DEFINE g == Two[t]
               h == Two[l]
    <3>2. g \in Nat /\ h \in Nat \ {0} /\ O = g * h  BY <1>2, <2>1, <3>1
    <3> HIDE DEF g, h
    <3>3. 1 <= h /\ h \in Nat  BY <3>2
    <3>4. 1 * g <= h * g  BY <3>2, <3>3, Products
    <3>5. h * g = g * h /\ 1 * g = g  BY <3>2, SMTT(20)
    <3> QED  BY <3>2, <3>4, <3>5 DEF g
  <2>4. Two[t] \in Nat  BY <2>1, TwoIs
  <2> HIDE DEF N
  <2>5. N \in 0 .. O - 1  BY <1>2, <1>11, <2>2, <2>3, <2>4
  <2>6. N \in 0 .. Float!One - 1  BY <2>5 DEF O
  <2>7. Float!Magnitude(r) = N  BY <2>6, NearestDenormal
  <2>8. r # 0
    <3> SUFFICES ASSUME r = 0
                 PROVE  FALSE
      OBVIOUS
    <3>1. Float!Top \in Nat \ {0}  BY FloatSizes
    <3>2. Float!Magnitude(0) = 0
      <4>1. Float!Top * 0 + 0 = 0 /\ 0 \in 0 .. Float!Top - 1  BY <3>1
      <4>2. (Float!Top * 0 + 0) % Float!Top = 0  BY <3>1, <4>1, DivideOnce
      <4> QED  BY <4>1, <4>2 DEF Float!Magnitude
    <3>3. Float!Magnitude(r) = 0  BY <3>2
    <3> HIDE DEF r
    <3> QED  BY <1>11, <2>7, <3>3
  <2> HIDE DEF r
  <2>9. Float!Magnitude(r) < Float!LeastNormal  BY <1>2, <2>5, <2>7
  <2> QED  BY <2>8, <2>9 DEF r, N, P
<1> QED
  <2> HIDE DEF n
  <2> QED  BY <1>3, <1>6, <1>12, <1>13

\* A sum that is not zero is the nearest float, but for a denormal number or infinity.
LEMMA NormalizedNearest ==
  ASSUME NEW sign \in BOOLEAN, NEW e \in 1 .. Float!ExpMod - 2,
         NEW sum \in 1 .. 4 * Float!One - 2
  PROVE  LET r == Float!Nearest(sign, sum * Two[e - 1], 1)
         IN  \/ r = Float!Normalized(sign, e, sum)
             \/ Float!Magnitude(r) < Float!LeastNormal /\ r # 0
             \/ ~Float!Number(r)
<1>1. Float!One \in Nat \ {0, 1}  BY FloatSizes
<1>2. CASE sum < 2 * Float!One
  <2>1. sum \in 1 .. 2 * Float!One - 1  BY <1>1, <1>2
  <2> QED  BY <2>1, ShiftedNearest
<1>3. CASE sum >= 2 * Float!One
  <2>1. sum \in 2 * Float!One .. 4 * Float!One - 2  BY <1>1, <1>3
  <2> QED  BY <2>1, CarriedNearest
<1> QED  BY <1>1, <1>2, <1>3

\* An operand that has no bits below the last place of the larger one loses none in aligning.
LEMMA AlignmentExact ==
  ASSUME NEW T \in 0 .. 2 * Float!One - 1, NEW e \in 1 .. Float!ExpMod - 2, NEW k \in 0 .. e,
         k = 0 => T = 0, T % Two[e - k] = 0
  PROVE  Float!Aligned(T, (e - k) % Float!ExpMod) * Two[e - 1] = T * Two[PlaceOf(k)]
<1> DEFINE s == Float!Aligned(T, (e - k) % Float!ExpMod)
           d == e - k
           P == Two[e - 1]
           Q == Two[PlaceOf(k)]
           D == Two[d]
           ut == T * Q
           y == s * P
<1>1. Float!One \in Nat \ {0, 1} /\ Float!ExpMod \in Nat  BY FloatSizes
<1>2. s \in Nat /\ ut \in Nat /\ P \in Nat \ {0} /\ y \in Nat /\ y <= ut /\ ut < y + P
  BY AlignmentClose
<1>3. T \in Nat /\ e \in Nat \ {0} /\ k \in Nat /\ k <= e  BY <1>1
<1>4. PlaceOf(k) \in Nat /\ d \in Nat  BY <1>3 DEF PlaceOf
<1>5. Q \in Nat \ {0} /\ D \in Nat \ {0}  BY <1>4, TwoIs
<1>6. CASE k = 0
  <2>1. T = 0  BY <1>6
  <2> HIDE DEF Q
  <2>2. ut = 0  BY <1>5, <2>1
  <2> HIDE DEF ut, y
  <2>3. y = ut  BY <1>2, <2>2
  <2> QED  BY <2>3 DEF y, ut, Q
<1>7. CASE k # 0
  <2>1. P = D * Q
    <3>1. e - 1 = d + PlaceOf(k)  BY <1>3, <1>7 DEF PlaceOf
    <3> HIDE DEF d
    <3>2. Two[d + PlaceOf(k)] = Two[d] * Two[PlaceOf(k)]  BY <1>4, TwoSum
    <3> QED  BY <3>1, <3>2
  <2>2. T % D = 0  OBVIOUS
  <2> HIDE DEF s, P, Q, D
  <2> DEFINE q == T \div D
             f == T % D
  <2>3. q \in Nat /\ T = D * q + f  BY <1>3, <1>5, Division
  <2>4. f = 0  BY <2>2
  <2> HIDE DEF q, f
  <2>5. T = D * q
    <3> DEFINE z == D * q
    <3>1. z \in Nat /\ T = z + f  BY <1>5, <2>3, SMTT(20)
    <3> HIDE DEF z
    <3>2. T = z  BY <2>4, <3>1
    <3> QED  BY <3>2 DEF z
  <2>6. ut = q * P
    <3>1. (D * q) * Q = q * (D * Q)  BY <1>5, <2>3, SMTT(20)
    <3> QED  BY <2>1, <2>5, <3>1
  <2>7. s < q => s * P + P <= q * P  BY <1>2, <2>3, Products
  <2>8. q < s => q * P + P <= s * P  BY <1>2, <2>3, Products
  <2> HIDE DEF ut
  <2>9. ~(s < q) /\ ~(q < s)
    <3>1. (s < q => y + P <= ut) /\ (q < s => ut + P <= y)  BY <2>6, <2>7, <2>8
    <3> HIDE DEF y
    <3> QED  BY <1>2, <3>1
  <2>10. s = q  BY <1>2, <2>3, <2>9
  <2> QED  BY <2>6, <2>10 DEF ut, s, P, Q
<1> QED  BY <1>6, <1>7

\* The numbers that are added or subtracted: the value of the second operand and that of the
\* first one, or of its opposite.
LEMMA SumValues ==
  ASSUME NEW a \in Register, NEW b \in Register, Float!Ordinary(a), Float!Ordinary(b),
         NEW sub \in BOOLEAN
  PROVE  LET x == Float!Value(a)
             y == Float!Value(b)
             t == Signum(Float!Sign(a) # sub, Float!Units(a))
             c == IF sub THEN Float!Opposite(a) ELSE a
         IN  /\ x \in Int /\ y \in Int /\ t \in Int
             /\ y = Signum(Float!Sign(b), Float!Units(b))
             /\ Float!Value(c) = t
             /\ y + t = IF sub THEN y - x ELSE y + x
<1> DEFINE x == Float!Value(a)
           y == Float!Value(b)
           t == Signum(Float!Sign(a) # sub, Float!Units(a))
           n == Signum(Float!Sign(a) # TRUE, Float!Units(a))
           c == IF sub THEN Float!Opposite(a) ELSE a
<1>1. a \in Nat /\ b \in Nat  BY DEF Register
<1>2. /\ Float!Sign(a) \in BOOLEAN /\ Float!Units(a) \in Nat /\ x \in Int
      /\ x = Signum(Float!Sign(a), Float!Units(a))
  BY <1>1, ValueIs
<1>3. y \in Int /\ y = Signum(Float!Sign(b), Float!Units(b))  BY <1>1, ValueIs
<1>4. x + n = 0 /\ n \in Int  BY <1>2, SignumOpposite
<1>5. Float!Value(Float!Opposite(a)) = n  BY OppositeValue
<1>6. CASE sub
  <2>1. t = n /\ c = Float!Opposite(a)  BY <1>6
  <2> HIDE DEF x, y, t, n, c
  <2>2. y + t = y - x  BY <1>2, <1>3, <1>4, <2>1
  <2>3. Float!Value(c) = t /\ t \in Int  BY <1>4, <1>5, <2>1
  <2> QED  BY <1>2, <1>3, <1>6, <2>2, <2>3 DEF x, y, t, c
<1>7. CASE ~sub
  <2>1. c = a  BY <1>7
  <2>2. t = x
    <3>1. (Float!Sign(a) # sub) = Float!Sign(a)  BY <1>2, <1>7
    <3> QED  BY <1>2, <3>1
  <2> HIDE DEF t, n, c
  <2>3. Float!Value(c) = t /\ t \in Int /\ y + t = y + x  BY <1>2, <2>1, <2>2
  <2> QED  BY <1>2, <1>3, <1>7, <2>3 DEF t, c
<1> QED  BY <1>6, <1>7

\* What is added to the larger operand of a sum that drops nothing has no bits below its place.
LEMMA NothingDropped ==
  ASSUME NEW a \in Nat, NEW b \in Nat, Float!Ordinary(a), Float!Ordinary(b), NEW sub \in BOOLEAN,
         ~Float!Drops(a, b),
         NEW S, NEW T, NEW e, NEW k, NEW sign, SumIs(a, b, sub, S, T, e, k, sign)
  PROVE  T % Two[e - k] = 0
<1> DEFINE swap == Float!Swap(a, b)
           big == IF swap THEN b ELSE a
           t == IF swap THEN a ELSE b
           s == Float!Significand(t)
           Q == Two[PlaceOf(k)]
<1>1. /\ e = Float!Exp(big) /\ k = Float!Exp(t) /\ T * Q = Float!Units(t)
      /\ T \in 0 .. 2 * Float!One - 1 /\ e \in 0 .. Float!ExpMod - 2 /\ k \in 0 .. e
  BY DEF SumIs
<1>2. Float!One \in Nat \ {0, 1} /\ Float!ExpMod \in Nat  BY FloatSizes
<1>3. T \in Nat /\ e \in Nat /\ k \in Nat /\ k <= e  BY <1>1, <1>2
<1>4. t \in Nat /\ Float!Ordinary(t)
  <2> HIDE DEF swap
  <2> QED  OBVIOUS
<1>5. s \in Nat
  <2>1. s \in 0 .. 2 * Float!One - 1
    <3> HIDE DEF t
    <3> QED  BY <1>4, OrdinaryFields
  <2> QED  BY <1>2, <2>1
<1>6. Q \in Nat \ {0} /\ Float!Units(t) = s * Q
  <2>1. PlaceOf(k) \in Nat  BY <1>3 DEF PlaceOf
  <2>2. Float!Place(t) = PlaceOf(k)  BY <1>1 DEF Float!Place, PlaceOf
  <2> QED  BY <2>1, <2>2, TwoIs, FloatTwo DEF Float!Units
<1>7. T = s  BY <1>1, <1>3, <1>5, <1>6, Cancel
<1>8. CASE e = k
  <2>1. e - k = 0  BY <1>3, <1>8
  <2>2. Two[e - k] = 1  BY <2>1, TwoIs
  <2> QED  BY <1>3, <2>2
<1>9. CASE e # k
  <2> DEFINE above == Float!Exp(b) > Float!Exp(a)
             i == Float!Exp(a)
             j == Float!Exp(b)
  <2>1. swap <=> (j > i \/ (j = i /\ Float!Significand(b) > Float!Significand(a)))
    BY DEF Float!Swap
  <2>2. swap <=> above
    <3>1. CASE swap
      <4>1. e = j /\ k = i  BY <1>1, <3>1
      <4>2. j > i  BY <1>3, <1>9, <4>1
      <4> QED  BY <3>1, <4>2
    <3>2. CASE ~swap
      <4>1. ~(j > i)  BY <2>1, <3>2
      <4> QED  BY <3>2, <4>1
    <3> QED  BY <3>1, <3>2
  <2>3. big = (IF above THEN b ELSE a) /\ t = (IF above THEN a ELSE b)
    <3> HIDE DEF swap, above
    <3> QED  BY <2>2
  <2>4. Float!Drops(a, b) <=> Float!Significand(IF above THEN a ELSE b)
          % Two[Float!Exp(IF above THEN b ELSE a) - Float!Exp(IF above THEN a ELSE b)] # 0
    BY FloatTwo DEF Float!Drops
  <2> HIDE DEF swap, above
  <2>5. s % Two[e - k] = 0  BY <1>1, <2>3, <2>4
  <2> QED  BY <1>7, <2>5
<1> QED  BY <1>8, <1>9

\* The sign of a signed number that is not zero.
LEMMA SignumSign ==
  ASSUME NEW sign \in BOOLEAN, NEW m \in Nat \ {0}
  PROVE  /\ Signum(sign, m) \in Int /\ Signum(sign, m) # 0 /\ (Signum(sign, m) < 0 <=> sign)
         /\ Float!Absolute(Signum(sign, m)) = m
<1>1. -m \in Int /\ -m < 0 /\ -m # 0 /\ -(-m) = m /\ ~(m < 0)  OBVIOUS
<1>2. CASE sign
  <2>1. Signum(sign, m) = -m  BY <1>2 DEF Signum
  <2>2. Float!Absolute(-m) = -(-m)  BY <1>1 DEF Float!Absolute
  <2> QED  BY <1>1, <1>2, <2>1, <2>2
<1>3. CASE ~sign
  <2>1. Signum(sign, m) = m  BY <1>3 DEF Signum
  <2>2. Float!Absolute(m) = m  BY <1>1 DEF Float!Absolute
  <2> QED  BY <1>1, <1>3, <2>1, <2>2
<1> QED  BY <1>2, <1>3

\* A sum that drops nothing is the nearest float, but for -0, a denormal number or infinity.
LEMMA SumNearest ==
  ASSUME NEW a \in Register, NEW b \in Register, Float!Ordinary(a), Float!Ordinary(b),
         NEW sub \in BOOLEAN, ~Float!Drops(a, b)
  PROVE  LET r == Float!Sum(IF sub THEN Float!Opposite(a) ELSE a, b)
         IN  \/ r = Float!AddSub(a, b, sub)
             \/ Float!Magnitude(r) < Float!LeastNormal /\ r # 0
             \/ ~Float!Number(r)
<1>1. a \in Nat /\ b \in Nat  BY DEF Register
<1>2. PICK S, T, e, k, sign : SumIs(a, b, sub, S, T, e, k, sign)  BY <1>1, SumParts
<1> DEFINE O == Float!One
           E == Float!ExpMod
           differ == (Float!Sign(a) # sub) # Float!Sign(b)
           s == Float!Aligned(T, (e - k) % E)
           sum == IF differ THEN S - s ELSE S + s
           P == Two[PlaceOf(e)]
           us == S * P
           ut == T * Two[PlaceOf(k)]
           m == IF differ THEN us - ut ELSE us + ut
           q == Float!AddSub(a, b, sub)
           y == Float!Value(b)
           t == Signum(Float!Sign(a) # sub, Float!Units(a))
           c == IF sub THEN Float!Opposite(a) ELSE a
           v == y + t
           neg == v < 0 \/ (v = 0 /\ Float!Sign(c) /\ Float!Sign(b))
           r == Float!Sum(c, b)
<1>3. O \in Nat \ {0, 1} /\ E \in Nat /\ E >= 4 /\ Float!LeastNormal = O
  BY FloatSizes DEF Float!LeastNormal
<1>4. /\ S \in 0 .. 2 * O - 1 /\ T \in 0 .. 2 * O - 1
      /\ e \in 0 .. E - 2 /\ k \in 0 .. e /\ sign \in BOOLEAN
      /\ e = 0 => S = 0
      /\ k = 0 => T = 0
      /\ s \in 0 .. S
      /\ us \in Nat /\ ut \in Nat /\ ut <= us
  BY <1>2 DEF SumIs
<1>5. q = IF sum = 0 \/ e = 0 THEN 0 ELSE Float!Normalized(sign, e, sum)  BY <1>2 DEF SumIs
<1>6. v = Signum(sign, m)
  <2>1. Float!Value(b) = Signum(Float!Sign(b), Float!Units(b))  BY SumValues
  <2> QED  BY <1>2, <2>1 DEF SumIs
<1>7. r = Float!Nearest(neg, Float!Absolute(v), 1)
  <2>1. Float!Value(c) = t  BY SumValues
  <2> HIDE DEF c, t
  <2> QED  BY <2>1 DEF Float!Sum
<1>8. neg \in BOOLEAN /\ (v # 0 => (neg <=> v < 0))  OBVIOUS
<1>9. T % Two[e - k] = 0  BY <1>1, <1>2, NothingDropped
<1> HIDE DEF q, r, v, neg, O, E
<1>10. e \in Nat /\ S \in Nat /\ s \in Nat /\ s <= S /\ S <= 2 * O - 1  BY <1>3, <1>4
<1>11. P \in Nat \ {0}
  <2>1. PlaceOf(e) \in Nat  BY <1>10 DEF PlaceOf
  <2> QED  BY <2>1, TwoIs
<1>12. ut = s * P
  <2>1. CASE e = 0
    <3>1. k = 0 /\ S = 0 /\ s = 0 /\ T = 0  BY <1>3, <1>4, <2>1
    <3>2. PlaceOf(k) = 0  BY <3>1 DEF PlaceOf
    <3>3. Two[PlaceOf(k)] \in Nat  BY <3>2, TwoIs
    <3> HIDE DEF P, s
    <3>4. ut = 0 /\ s * P = 0  BY <1>11, <3>1, <3>3
    <3> QED  BY <3>4
  <2>2. CASE e # 0
    <3>1. e \in 1 .. Float!ExpMod - 2  BY <1>3, <1>4, <2>2 DEF E
    <3>2. PlaceOf(e) = e - 1  BY <2>2 DEF PlaceOf
    <3>3. T \in 0 .. 2 * Float!One - 1 /\ k \in 0 .. e /\ (k = 0 => T = 0)  BY <1>4 DEF O
    <3>4. Float!Aligned(T, (e - k) % Float!ExpMod) * Two[e - 1] = ut
      BY <1>9, <3>1, <3>3, AlignmentExact
    <3> QED  BY <3>2, <3>4 DEF E
  <2> QED  BY <2>1, <2>2
<1> HIDE DEF s, P, ut
<1>13. sum \in 0 .. 4 * O - 2 /\ m = sum * P
  <2>1. sum \in 0 .. 4 * O - 2
    <3> HIDE DEF differ
    <3> QED  BY <1>3, <1>10
  <2>2. (S - s) * P = S * P - s * P /\ (S + s) * P = S * P + s * P
    BY <1>10, <1>11, SMTT(20)
  <2>3. m = sum * P
    <3>1. CASE differ  BY <1>12, <2>2, <3>1
    <3>2. CASE ~differ  BY <1>12, <2>2, <3>2
    <3> QED  BY <3>1, <3>2
  <2> QED  BY <2>1, <2>3
<1> HIDE DEF us, sum, m, differ
<1>14. CASE sum = 0
  <2>1. m = 0  BY <1>11, <1>13, <1>14
  <2>2. v = 0
    <3>1. Signum(sign, 0) = 0  BY <1>4, SignumZero
    <3> QED  BY <1>6, <2>1, <3>1
  <2>3. Float!Absolute(0) = 0  BY DEF Float!Absolute
  <2>4. r = Float!Nearest(neg, 0, 1)  BY <1>7, <2>2, <2>3
  <2>5. r = IF neg THEN Float!Top ELSE 0
    <3>1. 1 \in Nat \ {0}  OBVIOUS
    <3> QED  BY <1>8, <2>4, <3>1, NearestZero
  <2>6. Float!Top \in Nat \ {0}  BY FloatSizes
  <2>7. CASE neg
    <3>1. r = Float!Top  BY <2>5, <2>7
    <3>2. Float!Magnitude(Float!Top) = 0
      <4> DEFINE t0 == Float!Top
      <4>1. t0 * 1 + 0 = t0 /\ 0 \in 0 .. t0 - 1  BY <2>6
      <4> HIDE DEF t0
      <4>2. (t0 * 1 + 0) % t0 = 0  BY <2>6, <4>1, DivideOnce DEF t0
      <4> QED  BY <4>1, <4>2 DEF Float!Magnitude, t0
    <3>3. Float!Magnitude(r) < Float!LeastNormal  BY <1>3, <3>1, <3>2
    <3>4. r # 0  BY <2>6, <3>1
    <3> QED  BY <3>3, <3>4 DEF r, c
  <2>8. CASE ~neg
    <3>1. q = 0 /\ r = 0  BY <1>5, <1>14, <2>5, <2>8
    <3> QED  BY <3>1 DEF q, r, c
  <2> QED  BY <2>7, <2>8
<1>15. CASE sum # 0
  <2>1. e # 0
    <3> SUFFICES ASSUME e = 0
                 PROVE  FALSE
      OBVIOUS
    <3>1. S = 0 /\ s = 0  BY <1>4, <1>10
    <3>2. sum = 0  BY <3>1 DEF sum
    <3> QED  BY <1>15, <3>2
  <2>2. e \in 1 .. Float!ExpMod - 2 /\ sum \in 1 .. 4 * Float!One - 2
    BY <1>3, <1>4, <1>13, <1>15, <2>1 DEF E, O
  <2>3. PlaceOf(e) = e - 1  BY <2>1 DEF PlaceOf
  <2>4. m = sum * Two[e - 1]  BY <1>13, <2>3 DEF P
  <2>5. m \in Nat \ {0}
    <3> DEFINE p == sum * P
    <3>1. sum \in Nat \ {0}  BY <1>3, <1>13, <1>15
    <3>2. p \in Nat \ {0}  BY <1>11, <3>1, SMTT(20)
    <3> QED  BY <1>13, <3>2
  <2>6. v # 0 /\ (v < 0 <=> sign) /\ Float!Absolute(v) = m  BY <1>4, <1>6, <2>5, SignumSign
  <2>7. neg = sign  BY <1>4, <1>8, <2>6
  <2>8. r = Float!Nearest(sign, sum * Two[e - 1], 1)  BY <1>7, <2>4, <2>6, <2>7
  <2>9. q = Float!Normalized(sign, e, sum)  BY <1>5, <1>15, <2>1
  <2>10. sign \in BOOLEAN  BY <1>4
  <2> HIDE DEF r, q
  <2>11. \/ r = Float!Normalized(sign, e, sum)
         \/ Float!Magnitude(r) < Float!LeastNormal /\ r # 0
         \/ ~Float!Number(r)
    BY <2>2, <2>8, <2>10, NormalizedNearest
  <2> QED  BY <2>9, <2>11 DEF r, q, c
<1> QED  BY <1>14, <1>15

\* Zero, with its sign, is zero or less than the least normal number.
LEMMA ZeroMagnitude ==
  ASSUME NEW neg \in BOOLEAN
  PROVE  LET r == IF neg THEN Float!Top ELSE 0
         IN  Float!Magnitude(r) = 0 /\ (r = 0 <=> ~neg)
<1> DEFINE T == Float!Top
<1>1. T \in Nat \ {0}  BY FloatSizes
<1>2. T * 1 + 0 = T /\ T * 0 + 0 = 0 /\ 0 \in 0 .. T - 1  BY <1>1
<1>3. (T * 1 + 0) % T = 0 /\ (T * 0 + 0) % T = 0
  <2> HIDE DEF T
  <2> QED  BY <1>1, <1>2, DivideOnce
<1>4. Float!Magnitude(T) = 0 /\ Float!Magnitude(0) = 0  BY <1>2, <1>3 DEF Float!Magnitude
<1> HIDE DEF T
<1> QED  BY <1>1, <1>4 DEF T

\* A power of two that is not the first is even.
LEMMA TwoEven ==
  ASSUME NEW n \in Nat \ {0}
  PROVE  n - 1 \in Nat /\ Two[n] = 2 * Two[n - 1] /\ Two[n - 1] \in Nat \ {0}
<1>1. n - 1 \in Nat /\ (n - 1) + 1 = n  OBVIOUS
<1>2. Two[(n - 1) + 1] = 2 * Two[n - 1] /\ Two[n - 1] \in Nat \ {0}  BY <1>1, TwoIs
<1> QED  BY <1>1, <1>2

\* A normal number: its significand and its fraction.
LEMMA NormalFields ==
  ASSUME NEW a \in Nat, Float!Ordinary(a), Float!Magnitude(a) # 0
  PROVE  LET S == Float!Significand(a)
         IN  /\ Float!Exp(a) \in 1 .. Float!ExpMod - 2
             /\ S \in Float!One .. 2 * Float!One - 1
             /\ S = Float!One + Float!Frac(a)
             /\ Float!Frac(a) = S - Float!One
             /\ Float!Place(a) = Float!Exp(a) - 1
<1> DEFINE S == Float!Significand(a)
           e == Float!Exp(a)
           O == Float!One
           f == Float!Frac(a)
           E == Float!ExpMod
<1>1. O \in Nat \ {0, 1} /\ E \in Nat /\ E >= 4  BY FloatSizes
<1>2. e \in 0 .. E - 2 /\ S \in 0 .. 2 * O - 1 /\ e # 0 /\ S >= O  BY OrdinaryFields
<1>3. f \in 0 .. O - 1  BY FloatFields
<1>4. S = O + f /\ Float!Place(a) = e - 1  BY <1>2 DEF Float!Significand, Float!Place
<1> HIDE DEF S, e, O, f, E
<1>5. e \in 1 .. E - 2 /\ S \in O .. 2 * O - 1 /\ f = S - O  BY <1>1, <1>2, <1>3, <1>4
<1> QED  BY <1>4, <1>5 DEF S, e, O, f, E

\* SCLF leaves the nearest float, but for -0, infinity and what is no larger than the least
\* normal number.
LEMMA ScaleNearest ==
  ASSUME NEW a \in Nat, NEW b \in Nat, Float!Ordinary(b),
         Float!Absolute(Float!ScaleCount(a)) < EXP + FRAC
  PROVE  LET r == Float!Scaled(a, b)
         IN  \/ r = Float!Scale(a, b)
             \/ Float!Magnitude(r) <= Float!LeastNormal /\ r # 0
             \/ ~Float!Number(r)
<1> DEFINE O == Float!One
           E == Float!ExpMod
           k == Float!ScaleCount(a)
           i == Float!Exp(b)
           S == Float!Significand(b)
           neg == Float!Sign(b)
           e == i + k
           c == Float!Place(b) + k
           r == Float!Scaled(a, b)
           q == Float!Scale(a, b)
<1>1. O \in Nat \ {0, 1} /\ E \in Nat /\ E >= 4 /\ Float!LeastNormal = O
      /\ EXP \in Nat /\ FRAC \in Nat /\ EXP + FRAC <= E
  BY FloatSizes DEF Float!LeastNormal
<1>2. k \in Int /\ k < EXP + FRAC
  <2>1. k \in Int  BY CountInt
  <2> HIDE DEF k
  <2>2. k < 0 => k < EXP + FRAC  BY <1>1, <2>1
  <2>3. ~(k < 0) => k < EXP + FRAC
    <3>1. ~(k < 0) => Float!Absolute(k) = k  BY Zenon DEF Float!Absolute
    <3> QED  BY <3>1 DEF k
  <2> QED  BY <2>1, <2>2, <2>3
<1>3. neg \in BOOLEAN  BY FloatFields
<1>4. r = IF c >= 0 THEN Float!Nearest(neg, S * Two[c], 1) ELSE Float!Nearest(neg, S, 1 * Two[-c])
  BY FloatTwo DEF Float!Scaled, Float!NearestScaled
<1>5. /\ Float!Magnitude(b) = 0 \/ e <= 0 => q = 0
      /\ ~(Float!Magnitude(b) = 0 \/ e <= 0) /\ ~(e >= E - 1) =>
           q = Float!Pack(neg, e, Float!Frac(b))
  BY DEF Float!Scale
<1> HIDE DEF r, q, k, O, E
<1>6. c \in Int /\ (c >= 0 => Two[c] \in Nat \ {0}) /\ (c < 0 => Two[-c] \in Nat \ {0})
  <2>1. i \in 0 .. E - 1  BY FloatFields DEF E
  <2> HIDE DEF i
  <2>2. Float!Place(b) \in Int
    <3>1. Float!Place(b) = IF i = 0 THEN 0 ELSE i - 1  BY DEF Float!Place, i
    <3> QED  BY <1>1, <2>1, <3>1
  <2>3. c \in Int  BY <1>2, <2>2
  <2> HIDE DEF c
  <2>4. c >= 0 => c \in Nat  BY <2>3
  <2>5. c < 0 => -c \in Nat  BY <2>3
  <2> QED  BY <2>3, <2>4, <2>5, TwoIs
<1>7. CASE Float!Magnitude(b) = 0
  <2>1. S = 0
    <3>1. i = 0 /\ Float!Frac(b) = 0  BY <1>7, ZeroFields
    <3> QED  BY <3>1 DEF Float!Significand
  <2> HIDE DEF S, c
  <2>2. c >= 0 => S * Two[c] = 0
    <3> DEFINE g == Two[c]
    <3> HIDE DEF g
    <3>1. g \in Nat => 0 * g = 0  OBVIOUS
    <3> QED  BY <1>6, <2>1, <3>1 DEF g
  <2>3. c < 0 => 1 * Two[-c] \in Nat \ {0}
    <3> DEFINE g == Two[-c]
    <3> HIDE DEF g
    <3>1. g \in Nat \ {0} => 1 * g \in Nat \ {0}  OBVIOUS
    <3> QED  BY <1>6, <3>1 DEF g
  <2>4. r = IF neg THEN Float!Top ELSE 0
    <3> DEFINE d == IF c >= 0 THEN 1 ELSE 1 * Two[-c]
    <3>1. d \in Nat \ {0}  BY <1>6, <2>3
    <3>2. r = Float!Nearest(neg, 0, d)  BY <1>4, <1>6, <2>1, <2>2
    <3> HIDE DEF d, neg
    <3> QED  BY <1>3, <3>1, <3>2, NearestZero
  <2>5. Float!Magnitude(r) = 0  BY <1>3, <2>4, ZeroMagnitude
  <2>6. q = 0  BY <1>5, <1>7
  <2>7. Float!Magnitude(r) <= Float!LeastNormal  BY <1>1, <2>5
  <2> QED  BY <2>6, <2>7 DEF r, q
<1>8. CASE Float!Magnitude(b) # 0 /\ e <= 0
  <2>1. i \in 1 .. E - 2 /\ S \in O .. 2 * O - 1 /\ c = (i - 1) + k
    BY <1>8, NormalFields DEF E, O
  <2>2. c < 0 /\ -c \in Nat \ {0} /\ S \in Nat /\ S < 2 * O
    <3> HIDE DEF c, i, S
    <3>1. c \in Int /\ c < 0  BY <1>1, <1>2, <1>8, <2>1
    <3> QED  BY <1>1, <2>1, <3>1
  <2> DEFINE j == -c
             g == Two[j]
  <2>3. Two[j] = 2 * Two[j - 1] /\ Two[j - 1] \in Nat \ {0}  BY <2>2, TwoEven
  <2>4. 1 * g \in Nat \ {0} /\ S < O * (1 * g)
    <3> DEFINE h == Two[j - 1]
    <3>1. h \in Nat \ {0} /\ g = 2 * h  BY <2>3
    <3> HIDE DEF h, g, S
    <3>2. 1 * g = 2 * h  BY <3>1
    <3>3. 1 <= h /\ h \in Nat  BY <3>1
    <3>4. 1 * (2 * O) <= h * (2 * O) /\ h * (2 * O) = O * (2 * h)
      <4> DEFINE w == 2 * O
      <4>1. w \in Nat  BY <1>1
      <4> HIDE DEF w
      <4>2. 1 * w <= h * w  BY <3>3, <4>1, Products
      <4>3. h * (2 * O) = O * (2 * h)  BY <1>1, <3>1, SMTT(20)
      <4> QED  BY <4>2, <4>3 DEF w
    <3> DEFINE z == h * (2 * O)
    <3>5. O * (1 * g) = z /\ z \in Nat /\ 2 * O <= z
      <4>1. z \in Nat  BY <1>1, <3>1, SMTT(20)
      <4>2. 1 * (2 * O) = 2 * O  BY <1>1
      <4> QED  BY <3>2, <3>4, <4>1, <4>2
    <3> HIDE DEF z
    <3>6. S < z  BY <1>1, <2>2, <3>5
    <3> QED  BY <3>1, <3>2, <3>5, <3>6
  <2>5. r = Float!Nearest(neg, S, 1 * g)
    <3>1. ~(c >= 0)  BY <1>6, <2>2
    <3> QED  BY <1>4, <3>1
  <2> DEFINE d == 1 * g
  <2> HIDE DEF neg, S, d
  <2>6. d \in Nat \ {0} /\ S < Float!One * d /\ S \in Nat  BY <2>2, <2>4 DEF O, d
  <2>7. Float!Magnitude(Float!Nearest(neg, S, d)) \in 0 .. Float!LeastNormal
    BY <1>3, <2>6, NearestSmall
  <2>8. Float!Magnitude(r) \in 0 .. Float!LeastNormal  BY <2>5, <2>7 DEF d
  <2>9. Float!Magnitude(r) <= Float!LeastNormal  BY <1>1, <2>8
  <2>10. q = 0  BY <1>5, <1>8
  <2> QED  BY <2>9, <2>10 DEF r, q
<1>9. CASE Float!Magnitude(b) # 0 /\ ~(e <= 0)
  <2>1. i \in 1 .. E - 2 /\ S \in O .. 2 * O - 1 /\ c = (i - 1) + k /\ Float!Frac(b) = S - O
    BY <1>9, NormalFields DEF E, O
  <2>2. c \in 0 .. 2 * E /\ c >= 0 /\ e = c + 1 /\ e \in Int
    <3> HIDE DEF c, i, S
    <3> QED  BY <1>1, <1>2, <1>9, <2>1
  <2>3. r = Float!Nearest(neg, S * Two[c], 1)  BY <1>4, <2>2
  <2>4. c \in 0 .. 2 * Float!ExpMod /\ S \in Float!One .. 2 * Float!One - 1
    BY <2>1, <2>2 DEF E, O
  <2> HIDE DEF neg, S, c
  <2>5. /\ c <= Float!ExpMod - 3 => r = Float!Pack(neg, c + 1, S - Float!One)
        /\ c >= Float!ExpMod - 2 => ~Float!Number(r)
    BY <1>3, <2>3, <2>4, NearestWhole
  <2>6. CASE c <= E - 3
    <3>1. ~(e >= E - 1)  BY <1>1, <2>2, <2>6
    <3>2. q = Float!Pack(neg, e, Float!Frac(b))  BY <1>5, <1>9, <3>1
    <3>3. r = Float!Pack(neg, e, Float!Frac(b))  BY <2>1, <2>2, <2>5, <2>6 DEF E, O
    <3> QED  BY <3>2, <3>3 DEF r, q
  <2>7. CASE c >= E - 2
    BY <2>5, <2>7 DEF E, r
  <2> QED  BY <1>1, <2>2, <2>6, <2>7
<1> QED  BY <1>7, <1>8, <1>9

\* Rounding is the same when both numbers are multiplied.
LEMMA ToEvenScale ==
  ASSUME NEW n \in Nat, NEW g \in Nat \ {0}, NEW w \in Nat \ {0}
  PROVE  n * w \in Nat /\ g * w \in Nat \ {0} /\ ToEven(n * w, g * w) = ToEven(n, g)
<1> DEFINE m == n \div g
           f == n % g
           G == g * w
           h == f * w
           N == n * w
<1>1. m \in Nat /\ f \in 0 .. g - 1 /\ n = g * m + f  BY Division
<1>2. ToEven(n, g) = m + (IF 2 * f > g \/ (2 * f = g /\ m % 2 = 1) THEN 1 ELSE 0)
  BY DEF ToEven
<1> HIDE DEF m, f
<1>3. f \in Nat /\ f < g /\ 2 * f \in Nat  BY <1>1
<1>4. G \in Nat \ {0} /\ h \in Nat /\ N \in Nat  BY <1>3, SMTT(20)
<1>5. h + w <= G  BY <1>3, Products
<1>6. N = G * m + h
  <2>1. (g * m) * w = (g * w) * m  BY <1>1, SMTT(20)
  <2> DEFINE y == g * m
  <2>2. y \in Nat /\ n = y + f  BY <1>1, SMTT(20)
  <2> HIDE DEF y
  <2>3. (y + f) * w = y * w + f * w  BY <1>3, <2>2, SMTT(20)
  <2> QED  BY <2>1, <2>2, <2>3 DEF y
<1>7. /\ 2 * h > G <=> 2 * f > g
      /\ 2 * h = G <=> 2 * f = g
  <2> DEFINE F == 2 * f
  <2>1. F * w = 2 * h  BY <1>3, SMTT(20)
  <2>2. F \in Nat  BY <1>3
  <2> HIDE DEF F, h, G
  <2>3. /\ F * w = g * w => F = g
        /\ g * w < F * w => g < F
    BY <2>2, Cancel
  <2>4. g < F => g * w + w <= F * w  BY <2>2, Products
  <2>5. /\ 2 * h = G => F = g
        /\ G < 2 * h => g < F
        /\ g < F => G + w <= 2 * h
    BY <2>1, <2>3, <2>4 DEF G
  <2>6. F = g => 2 * h = G  BY <2>1 DEF G
  <2>7. g < F => 2 * h > G  BY <1>4, <2>5
  <2>8. 2 * h > G => G < 2 * h  BY <1>4
  <2>9. F > g <=> g < F  BY <2>2
  <2> QED  BY <2>5, <2>6, <2>7, <2>8, <2>9 DEF F
<1> HIDE DEF G, h, N
<1>8. h \in 0 .. G - 1  BY <1>4, <1>5
<1>9. ToEven(G * m + h, G) = m + (IF 2 * h > G \/ (2 * h = G /\ m % 2 = 1) THEN 1 ELSE 0)
  BY <1>1, <1>4, <1>8, ToEvenIs
<1>10. ToEven(N, G) = ToEven(n, g)  BY <1>2, <1>6, <1>7, <1>9
<1> QED  BY <1>4, <1>10 DEF N, G

\* The rounding of a product and of a word: by the highest bit cut off, the others and the last
\* one left.
LEMMA RoundUpIs ==
  ASSUME NEW x \in Nat, NEW n \in Nat \ {0}
  PROVE  (x \div Two[n]) + (IF Float!RoundUp(x, n) THEN 1 ELSE 0) = ToEven(x, Two[n])
<1> DEFINE g == Two[n]
           h == Two[n - 1]
           m == x \div g
           f == x % g
           b == f \div h
           l == f % h
           up == Float!RoundUp(x, n)
<1>1. h \in Nat \ {0} /\ g = 2 * h /\ g \in Nat \ {0}
  <2>1. n - 1 \in Nat /\ Two[n] = 2 * Two[n - 1] /\ Two[n - 1] \in Nat \ {0}  BY TwoEven
  <2> QED  BY <2>1
<1>2. up <=> (x \div h) % 2 = 1 /\ (x % h # 0 \/ m % 2 = 1)  BY FloatTwo DEF Float!RoundUp
<1>3. ToEven(x, g) = m + (IF 2 * f > g \/ (2 * f = g /\ m % 2 = 1) THEN 1 ELSE 0)
  BY DEF ToEven
<1> HIDE DEF g, h, up
<1>4. m \in Nat /\ f \in 0 .. g - 1 /\ x = g * m + f  BY <1>1, Division
<1> HIDE DEF m, f
<1>5. f \in Nat /\ f < 2 * h  BY <1>1, <1>4
<1>6. b \in Nat /\ l \in 0 .. h - 1 /\ f = h * b + l  BY <1>1, <1>5, Division
<1> HIDE DEF b, l
<1>7. b \in {0, 1} /\ f = (IF b = 1 THEN h ELSE 0) + l
  <2>1. b < 2
    <3>1. 2 <= b => 2 * h <= b * h  BY <1>1, <1>6, Products
    <3> DEFINE y == h * b
    <3>2. y \in Nat /\ b * h = y /\ f = y + l  BY <1>1, <1>6, SMTT(20)
    <3> HIDE DEF y
    <3> QED  BY <1>1, <1>5, <1>6, <3>1, <3>2
  <2>2. b = 0 \/ b = 1  BY <1>6, <2>1
  <2>3. h * 0 = 0 /\ h * 1 = h  BY <1>1
  <2> QED  BY <1>1, <1>6, <2>2, <2>3
<1>8. x \div h = 2 * m + b /\ x % h = l
  <2> DEFINE u == 2 * m + b
  <2>1. u \in Nat  BY <1>4, <1>6
  <2>2. x = h * u + l
    <3>1. h * (2 * m + b) = (2 * h) * m + h * b  BY <1>1, <1>4, <1>6, SMTT(20)
    <3> DEFINE y == h * b
               z == g * m
    <3>2. y \in Nat /\ z \in Nat  BY <1>1, <1>4, <1>6, SMTT(20)
    <3>3. h * u = z + y /\ f = y + l /\ x = z + f  BY <1>1, <1>4, <1>6, <3>1
    <3> HIDE DEF y, z, u
    <3> QED  BY <1>6, <3>2, <3>3
  <2> HIDE DEF u
  <2>3. (h * u + l) \div h = u /\ (h * u + l) % h = l  BY <1>1, <1>6, <2>1, DivideOnce
  <2> QED  BY <2>2, <2>3 DEF u
<1>9. (2 * m + b) % 2 = b  BY <1>4, <1>7
<1>10. /\ 2 * f > g <=> b = 1 /\ l # 0
       /\ 2 * f = g <=> b = 1 /\ l = 0
  BY <1>1, <1>6, <1>7
<1>11. (2 * f > g \/ (2 * f = g /\ m % 2 = 1)) <=> up  BY <1>2, <1>8, <1>9, <1>10
<1>12. m + (IF up THEN 1 ELSE 0) = ToEven(x, g)
  <2> DEFINE over == 2 * f > g \/ (2 * f = g /\ m % 2 = 1)
  <2>1. ToEven(x, g) = m + (IF over THEN 1 ELSE 0) /\ (over <=> up)  BY <1>3, <1>11
  <2> HIDE DEF over
  <2> QED  BY <2>1
<1> QED  BY <1>12 DEF m, g, up

\* The nearest float of a number that has w bits more than a significand, at any place: ex is
\* its exponent.
LEMMA ScaledPlace ==
  ASSUME NEW neg \in BOOLEAN, NEW N \in Nat, NEW w \in Nat, NEW c \in Int,
         Float!One * Two[w] <= N, N < 2 * (Float!One * Two[w])
  PROVE  LET r  == Float!NearestScaled(neg, N, 1, c)
             ex == c + w + 1
             F  == ToEven(N, Two[w])
         IN  /\ ex <= 0 => Float!Magnitude(r) \in 0 .. Float!LeastNormal
             /\ ex \in 1 .. Float!ExpMod - 2 =>
                  /\ F \in Float!One .. 2 * Float!One
                  /\ F < 2 * Float!One => r = Float!Pack(neg, ex, F - Float!One)
                  /\ F = 2 * Float!One => \/ ~Float!Number(r)
                                          \/ /\ ex + 1 <= Float!ExpMod - 2
                                             /\ r = Float!Pack(neg, ex + 1, 0)
                  /\ F = 2 * Float!One /\ ex + 1 <= Float!ExpMod - 2 =>
                       r = Float!Pack(neg, ex + 1, 0)
             /\ ex \in Float!ExpMod - 1 .. 2 * Float!ExpMod => ~Float!Number(r)
<1> DEFINE O == Float!One
           E == Float!ExpMod
           r == Float!NearestScaled(neg, N, 1, c)
           ex == c + w + 1
           W == Two[w]
           F == ToEven(N, W)
           n == IF c >= 0 THEN N * Two[c] ELSE N
           d == IF c >= 0 THEN 1 ELSE 1 * Two[-c]
           K == ex - 1
           Y == O * W
<1>1. O \in Nat \ {0, 1} /\ E \in Nat /\ E >= 4  BY FloatSizes
<1>2. W \in Nat \ {0}  BY TwoIs
<1>3. r = Float!Nearest(neg, n, d)
  BY FloatTwo DEF Float!NearestScaled
<1> HIDE DEF r, O, E, W
<1>4. Y \in Nat /\ Y <= N /\ N < 2 * Y  BY <1>1, <1>2, SMTT(20) DEF O, W
<1>5. n \in Nat /\ d \in Nat \ {0}
  <2>1. CASE c >= 0
    <3>1. c \in Nat /\ n = N * Two[c] /\ d = 1  BY <2>1
    <3> DEFINE g == Two[c]
    <3>2. g \in Nat  BY <3>1, TwoIs
    <3> HIDE DEF g
    <3>3. N * g \in Nat  BY <3>2, SMTT(20)
    <3> QED  BY <3>1, <3>3 DEF g
  <2>2. CASE ~(c >= 0)
    <3>1. -c \in Nat /\ n = N /\ d = 1 * Two[-c]  BY <2>2
    <3> DEFINE g == Two[-c]
    <3>2. g \in Nat \ {0}  BY <3>1, TwoIs
    <3> HIDE DEF g
    <3>3. 1 * g \in Nat \ {0}  BY <3>2
    <3> QED  BY <3>1, <3>3 DEF g
  <2> QED  BY <2>1, <2>2
<1>6. ex \in Int /\ K \in Int /\ K = c + w  OBVIOUS
<1>7. ASSUME ex >= 1
      PROVE  /\ K \in Nat
             /\ n < 2 * (O * d * Two[K]) /\ n >= O * d * Two[K]
             /\ ToEven(n, d * Two[K]) = F
  <2>1. K \in Nat  BY <1>6, <1>7
  <2>2. CASE c >= 0
    <3>1. c \in Nat /\ n = N * Two[c] /\ d = 1  BY <2>2
    <3> DEFINE g == Two[c]
    <3>2. g \in Nat \ {0}  BY <3>1, TwoIs
    <3>3. Two[K] = W * g
      <4>1. Two[c + w] = Two[c] * Two[w]  BY <3>1, TwoSum
      <4>2. Two[K] = g * W  BY <1>6, <4>1 DEF W
      <4> HIDE DEF g
      <4> QED  BY <1>2, <3>2, <4>2, SMTT(20)
    <3> HIDE DEF g, K, n, d
    <3>4. d * Two[K] = W * g /\ O * d * Two[K] = Y * g
      <4> DEFINE V == W * g
      <4>1. V \in Nat /\ Two[K] = V  BY <1>2, <3>2, <3>3, SMTT(20)
      <4> HIDE DEF V
      <4>2. 1 * V = V /\ O * 1 = O  BY <1>1, <4>1
      <4>3. O * (W * g) = (O * W) * g  BY <1>1, <1>2, <3>2, SMTT(20)
      <4> QED  BY <3>1, <4>1, <4>2, <4>3 DEF V
    <3>5. Y * g <= N * g /\ N * g + g <= (2 * Y) * g /\ (2 * Y) * g = 2 * (Y * g)
      <4> HIDE DEF Y
      <4> DEFINE Z == 2 * Y
      <4>1. Z \in Nat /\ N < Z  BY <1>4
      <4>2. Z * g = 2 * (Y * g)  BY <1>4, <3>2, SMTT(20)
      <4> HIDE DEF Z
      <4>3. Y * g <= N * g /\ N * g + g <= Z * g  BY <1>4, <3>2, <4>1, Products
      <4> QED  BY <4>2, <4>3 DEF Z
    <3>6. Y * g \in Nat /\ N * g \in Nat  BY <1>4, <3>2, Products
    <3>7. n >= Y * g /\ n < 2 * (Y * g)
      <4> DEFINE A == Y * g
                 B == N * g
      <4>1. A \in Nat /\ B \in Nat /\ A <= B /\ B + g <= 2 * A /\ n = B  BY <3>1, <3>5, <3>6 DEF g
      <4> HIDE DEF A, B
      <4>2. n >= A /\ n < 2 * A  BY <3>2, <4>1
      <4> QED  BY <4>2 DEF A
    <3>8. ToEven(N * g, W * g) = F  BY <1>2, <3>2, ToEvenScale
    <3> QED  BY <2>1, <3>1, <3>4, <3>7, <3>8 DEF g
  <2>3. CASE ~(c >= 0)
    <3> DEFINE j == -c
               g == Two[j]
               h == Two[K]
    <3>1. j \in Nat /\ n = N /\ d = 1 * g /\ j + K = w  BY <1>6, <2>3
    <3>2. g \in Nat \ {0} /\ h \in Nat \ {0} /\ W = g * h
      <4> HIDE DEF j, K
      <4>1. Two[j + K] = Two[j] * Two[K] /\ Two[j] \in Nat \ {0} /\ Two[K] \in Nat \ {0}
        BY <2>1, <3>1, TwoSum, TwoIs
      <4> QED  BY <3>1, <4>1 DEF W
    <3> HIDE DEF j, g, K, h, n, d
    <3>3. d * Two[K] = W /\ O * d * Two[K] = Y
      <4>1. d = g  BY <3>1, <3>2
      <4>2. (O * g) * h = O * (g * h)  BY <1>1, <3>2, SMTT(20)
      <4> QED  BY <3>2, <4>1, <4>2 DEF h
    <3> HIDE DEF Y
    <3> QED  BY <1>4, <2>1, <3>1, <3>3
  <2> QED  BY <2>2, <2>3
<1> HIDE DEF n, d
<1>8. CASE ex <= 0
  <2> DEFINE j == -c
             l == j - (w + 1)
  <2>1. ~(c >= 0) /\ j \in Nat /\ l \in Nat /\ j = (w + 1) + l /\ w + 1 \in Nat  BY <1>6, <1>8
  <2>2. n = N /\ d = 1 * Two[-c]  BY <2>1 DEF n, d
  <2>3. d = (2 * W) * Two[l] /\ Two[l] \in Nat \ {0}
    <3>1. /\ Two[(w + 1) + l] = Two[w + 1] * Two[l] /\ Two[w + 1] = 2 * Two[w]
          /\ Two[l] \in Nat \ {0} /\ Two[j] \in Nat
      BY <2>1, TwoSum, TwoIs
    <3> DEFINE g == Two[j]
    <3>2. g \in Nat /\ d = 1 * g  BY <2>2, <3>1
    <3> HIDE DEF g
    <3>3. d = g  BY <3>2
    <3> HIDE DEF j, l
    <3> QED  BY <2>1, <3>1, <3>3 DEF g, W
  <2> DEFINE g == Two[l]
  <2> HIDE DEF g, l, j
  <2>4. n < O * d
    <3>1. O * ((2 * W) * g) = (2 * (O * W)) * g  BY <1>1, <1>2, <2>3, SMTT(20) DEF g
    <3> DEFINE Z == 2 * Y
    <3>2. Z \in Nat /\ N < Z /\ O * d = Z * g
      <4>1. O * d = Z * g  BY <2>3, <3>1 DEF g
      <4> HIDE DEF Y
      <4> QED  BY <1>4, <4>1
    <3> HIDE DEF Z
    <3>3. 1 <= g /\ g \in Nat  BY <2>3 DEF g
    <3>4. 1 * Z <= g * Z /\ g * Z \in Nat  BY <3>2, <3>3, Products
    <3>5. g * Z = Z * g /\ 1 * Z = Z  BY <3>2, <3>3, SMTT(20)
    <3> DEFINE A == Z * g
    <3>6. A \in Nat /\ Z <= A /\ O * d = A  BY <3>2, <3>4, <3>5
    <3> HIDE DEF A
    <3>7. N < A  BY <3>2, <3>6
    <3> QED  BY <2>2, <3>6, <3>7
  <2>5. Float!Magnitude(Float!Nearest(neg, n, d)) \in 0 .. Float!LeastNormal
    BY <1>5, <2>4, NearestSmall DEF O
  <2>6. Float!Magnitude(r) \in 0 .. Float!LeastNormal  BY <1>3, <2>5
  <2>7. ~(ex \in 1 .. E - 2) /\ ~(ex \in E - 1 .. 2 * E)  BY <1>1, <1>6, <1>8
  <2> QED  BY <2>6, <2>7 DEF r, E
<1>9. CASE ex \in 1 .. E - 2
  <2>1. ex >= 1  BY <1>1, <1>9
  <2>2. n < 2 * (Float!One * d * Two[ex - 1]) /\ n >= Float!One * d * Two[ex - 1]
        /\ ToEven(n, d * Two[ex - 1]) = F
    BY <1>7, <2>1 DEF O
  <2> DEFINE G == ToEven(n, d * Two[ex - 1])
             s == Float!Nearest(neg, n, d)
             x == ex
  <2>3. x \in 1 .. Float!ExpMod - 2  BY <1>9 DEF E
  <2>4. n < 2 * (Float!One * d * Two[x - 1]) /\ n >= Float!One * d * Two[x - 1]  BY <2>2
  <2>5. G = ToEven(n, d * Two[x - 1])  OBVIOUS
  <2> HIDE DEF x
  <2>6. /\ G \in Float!One .. 2 * Float!One
        /\ G < 2 * Float!One => s = Float!Pack(neg, x, G - Float!One)
        /\ G = 2 * Float!One => \/ ~Float!Number(s)
                                \/ x + 1 <= Float!ExpMod - 2 /\ s = Float!Pack(neg, x + 1, 0)
        /\ G = 2 * Float!One /\ x + 1 <= Float!ExpMod - 2 => s = Float!Pack(neg, x + 1, 0)
    BY <1>5, <2>3, <2>4, <2>5, NearestPacked
  <2>7. G = F /\ s = r  BY <1>3, <2>2
  <2> HIDE DEF G, s, F
  <2>8. ~(ex <= 0) /\ ~(ex \in E - 1 .. 2 * E)  BY <1>1, <1>6, <1>9
  <2> QED  BY <2>6, <2>7, <2>8 DEF F, W, r, x, E
<1>10. CASE ex \in E - 1 .. 2 * E
  <2>1. ex >= 1 /\ K \in 0 .. 2 * E /\ K >= E - 2 /\ ~(ex <= 0) /\ ~(ex \in 1 .. E - 2)
    BY <1>1, <1>6, <1>10
  <2>2. n < 2 * (Float!One * d * Two[K]) /\ n >= Float!One * d * Two[K]  BY <1>7, <2>1 DEF O
  <2>3. K \in 0 .. 2 * Float!ExpMod /\ K >= Float!ExpMod - 2  BY <2>1 DEF E
  <2> HIDE DEF K
  <2>4. ~Float!Number(Float!Nearest(neg, n, d))  BY <1>5, <2>2, <2>3, NearestLarge
  <2>5. ~Float!Number(r)  BY <1>3, <2>4
  <2> QED  BY <2>1, <2>5 DEF r, E
<1>11. CASE ~(ex <= 0) /\ ~(ex \in 1 .. E - 2) /\ ~(ex \in E - 1 .. 2 * E)
  BY <1>11 DEF E
<1> QED  BY <1>8, <1>9, <1>10, <1>11

\* A result whose exponent is beyond the field: below it is zero, within it it is put together.
LEMMA LimitedIs ==
  ASSUME NEW sign, NEW f, NEW ex \in Int, -Float!ExpMod <= ex
  PROVE  LET q == Float!Limited(sign, ex % (2 * Float!ExpMod), f)
         IN  /\ ex <= 0 => q = 0
             /\ ex \in 1 .. Float!ExpMod - 2 => q = Float!Pack(sign, ex, f)
<1> DEFINE E == Float!ExpMod
           W == 2 * E
           x == ex % W
           q == Float!Limited(sign, x, f)
<1>1. E \in Nat /\ E >= 4  BY FloatSizes
<1> HIDE DEF E
<1>2. W \in Nat \ {0} /\ W = 2 * E  BY <1>1
<1>3. /\ x = 0 \/ x >= E => q = 0
      /\ ~(x = 0 \/ x >= E) /\ x # E - 1 => q = Float!Pack(sign, x, f)
  BY DEF Float!Limited, E
<1> HIDE DEF q, W
<1>4. CASE ex < 0
  <2> DEFINE y == ex + W
  <2>1. y \in 0 .. W - 1 /\ -1 \in Int /\ y >= E  BY <1>1, <1>2, <1>4 DEF E
  <2> HIDE DEF y
  <2>2. (W * (-1) + y) % W = y  BY <1>2, <2>1, DivideInt
  <2>3. W * (-1) + y = ex  BY <1>2 DEF y
  <2>4. x = y  BY <2>2, <2>3
  <2>5. ~(ex \in 1 .. E - 2)  BY <1>4
  <2> QED  BY <1>3, <2>1, <2>4, <2>5 DEF q, W, E
<1>5. CASE ex >= 0 /\ ex <= E - 2
  <2>1. ex \in 0 .. W - 1 /\ 0 \in Int  BY <1>1, <1>2, <1>5
  <2>2. (W * 0 + ex) % W = ex  BY <1>2, <2>1, DivideInt
  <2>3. W * 0 + ex = ex  BY <1>2
  <2>4. x = ex  BY <2>2, <2>3
  <2>5. ex <= 0 => x = 0  BY <1>5, <2>4
  <2>6. ex \in 1 .. E - 2 => ~(x = 0 \/ x >= E) /\ x # E - 1  BY <1>1, <2>4
  <2> HIDE DEF x
  <2> QED  BY <1>3, <2>4, <2>5, <2>6 DEF q, x, W, E
<1>6. CASE ex > E - 2
  <2>1. ~(ex <= 0) /\ ~(ex \in 1 .. E - 2)  BY <1>1, <1>6
  <2> QED  BY <2>1 DEF E
<1> QED  BY <1>1, <1>4, <1>5, <1>6

\* Nothing is scaled to nothing.
LEMMA ScaledZero ==
  ASSUME NEW neg \in BOOLEAN, NEW d \in Nat \ {0}, NEW c \in Int
  PROVE  Float!NearestScaled(neg, 0, d, c) = IF neg THEN Float!Top ELSE 0
<1>1. CASE c >= 0
  <2>1. c \in Nat  BY <1>1
  <2> DEFINE g == Two[c]
  <2>2. g \in Nat  BY <2>1, TwoIs
  <2>3. Float!NearestScaled(neg, 0, d, c) = Float!Nearest(neg, 0 * g, d)
    BY <1>1, FloatTwo DEF Float!NearestScaled
  <2> HIDE DEF g
  <2>4. 0 * g = 0  BY <2>2
  <2> QED  BY <2>3, <2>4, NearestZero
<1>2. CASE ~(c >= 0)
  <2>1. -c \in Nat  BY <1>2
  <2> DEFINE g == Two[-c]
  <2>2. g \in Nat \ {0}  BY <2>1, TwoIs
  <2>3. Float!NearestScaled(neg, 0, d, c) = Float!Nearest(neg, 0, d * g)
    BY <1>2, FloatTwo DEF Float!NearestScaled
  <2> HIDE DEF g
  <2>4. d * g \in Nat \ {0}  BY <2>2, SMTT(20)
  <2> QED  BY <2>3, <2>4, NearestZero
<1> QED  BY <1>1, <1>2

\* The product of two significands, rounded: it is at most two, and it is two only where the
\* unit keeps its exponent.
LEMMA ProductRounded ==
  ASSUME NEW x \in Float!One .. 2 * Float!One - 1, NEW y \in Float!One .. 2 * Float!One - 1
  PROVE  LET O == Float!One
             N == x * y
             w == IF N >= 2 * O * O THEN FRAC + 1 ELSE FRAC
             F == ToEven(N, Two[w])
         IN  /\ N \in Nat /\ w \in Nat
             /\ O * Two[w] <= N /\ N < 2 * (O * Two[w])
             /\ F >= 2 * O => /\ N < 2 * O * O /\ N \div O = 2 * O - 1
                              /\ 2 * (N % O) >= O
<1> DEFINE O == Float!One
           N == x * y
           high == N >= 2 * O * O
           w == IF high THEN FRAC + 1 ELSE FRAC
           W == Two[w]
           m == N \div W
           f == N % W
           F == ToEven(N, W)
           R == O * O
<1>1. O \in Nat \ {0, 1} /\ O = Two[FRAC] /\ FRAC \in Nat  BY FloatSizes
<1>2. /\ N \in Nat
      /\ high => Two[2 * FRAC + 1] <= N /\ N < Two[2 * FRAC + 2]
      /\ ~high => Two[2 * FRAC] <= N /\ N < Two[2 * FRAC + 1]
  BY SignificandProduct
<1>3. /\ Two[FRAC + 1] = 2 * O /\ Two[2 * FRAC] = R /\ Two[2 * FRAC + 1] = 2 * R
      /\ Two[2 * FRAC + 2] = 4 * R /\ R \in Nat /\ 2 * O * O = 2 * R
  <2>1. 2 * FRAC = FRAC + FRAC /\ 2 * FRAC \in Nat /\ 2 * FRAC + 1 \in Nat
        /\ (2 * FRAC + 1) + 1 = 2 * FRAC + 2
    BY <1>1
  <2>2. Two[FRAC + FRAC] = Two[FRAC] * Two[FRAC]  BY <1>1, TwoSum
  <2>3. Two[FRAC + 1] = 2 * Two[FRAC] /\ Two[2 * FRAC + 1] = 2 * Two[2 * FRAC]
        /\ Two[(2 * FRAC + 1) + 1] = 2 * Two[2 * FRAC + 1]
    BY <1>1, <2>1, TwoIs
  <2>4. R \in Nat /\ 2 * O * O = 2 * R
    <3> HIDE DEF O
    <3> QED  BY <1>1, SMTT(20)
  <2>5. Two[2 * FRAC] = R  BY <1>1, <2>1, <2>2
  <2> HIDE DEF R, O
  <2> QED  BY <1>1, <2>1, <2>3, <2>4, <2>5
<1>4. w \in Nat /\ W = (IF high THEN 2 * O ELSE O) /\ W \in Nat \ {0}
  <2> HIDE DEF high, O
  <2>1. w \in Nat /\ W = (IF high THEN 2 * O ELSE O)  BY <1>1, <1>3
  <2> QED  BY <1>1, <2>1
<1> HIDE DEF N, W, w
<1>5. O * W = (IF high THEN 2 * R ELSE R)
  <2> HIDE DEF O, high
  <2>1. O * (2 * O) = 2 * (O * O)  BY <1>1, SMTT(20)
  <2> QED  BY <1>4, <2>1
<1>6. O * W <= N /\ N < 2 * (O * W)
  <2> HIDE DEF R, high
  <2>1. CASE high  BY <1>2, <1>3, <1>5, <2>1
  <2>2. CASE ~high  BY <1>2, <1>3, <1>5, <2>2
  <2> QED  BY <2>1, <2>2
<1>7. m \in Nat /\ f \in 0 .. W - 1 /\ N = W * m + f  BY <1>2, <1>4, Division
<1>8. F = m + (IF 2 * f > W \/ (2 * f = W /\ m % 2 = 1) THEN 1 ELSE 0)  BY DEF ToEven
<1> HIDE DEF m, f, F
<1>9. m <= 2 * O - 1
  <2>1. 2 * O <= m => (2 * O) * W <= m * W
    <3> DEFINE z == 2 * O
    <3>1. z \in Nat  BY <1>1
    <3> HIDE DEF z
    <3> QED  BY <1>4, <1>7, <3>1, Products DEF z
  <2>2. (2 * O) * W = 2 * (O * W) /\ m * W = W * m /\ W * m \in Nat /\ O * W \in Nat
    <3> HIDE DEF O
    <3> QED  BY <1>1, <1>4, <1>7, SMTT(20)
  <2> DEFINE A == O * W
             B == W * m
  <2>3. A \in Nat /\ B \in Nat /\ N = B + f /\ N < 2 * A /\ (2 * O <= m => 2 * A <= B)
    BY <1>6, <1>7, <2>1, <2>2
  <2> HIDE DEF A, B, O
  <2>4. f >= 0 /\ f \in Nat  BY <1>4, <1>7
  <2>5. ~(2 * O <= m)  BY <2>3, <2>4
  <2> QED  BY <1>1, <1>7, <2>5
<1>10. high => m <= 2 * O - 2
  <2> HAVE high
  <2> SUFFICES ASSUME m = 2 * O - 1
               PROVE  FALSE
    BY <1>1, <1>7, <1>9
  <2> DEFINE z == 2 * O - 1
  <2>1. x \in Nat /\ y \in Nat /\ x <= z /\ y <= z /\ z \in Nat  BY <1>1
  <2> HIDE DEF z
  <2>2. x * y <= z * y /\ y * z <= z * z  BY <2>1, Products
  <2>3. z * y = y * z /\ z * z \in Nat /\ y * z \in Nat  BY <2>1, SMTT(20)
  <2>4. N <= z * z
    <3> DEFINE A == y * z
               B == z * z
    <3>1. A \in Nat /\ B \in Nat /\ N <= A /\ A <= B  BY <2>2, <2>3 DEF N
    <3> HIDE DEF A, B
    <3>2. N <= B  BY <1>2, <3>1
    <3> QED  BY <3>2 DEF B
  <2>5. W = z + 1 /\ m = z
    <3> HIDE DEF O
    <3> QED  BY <1>1, <1>4 DEF z
  <2>6. (z + 1) * z = z * z + z  BY <2>1, SMTT(20)
  <2> DEFINE B == z * z
  <2>7. B \in Nat /\ N <= B /\ N = B + z + f  BY <1>7, <2>3, <2>4, <2>5, <2>6
  <2> HIDE DEF B
  <2>8. z >= 1  BY <1>1 DEF z
  <2>9. f >= 0 /\ f \in Nat  BY <1>4, <1>7
  <2> QED  BY <2>1, <2>7, <2>8, <2>9
<1>11. F >= 2 * O => ~high /\ m = 2 * O - 1 /\ 2 * f >= W
  <2> HAVE F >= 2 * O
  <2> DEFINE up == 2 * f > W \/ (2 * f = W /\ m % 2 = 1)
  <2>1. F = m + (IF up THEN 1 ELSE 0)  BY <1>8
  <2>2. up => 2 * f >= W  BY <1>4, <1>7
  <2> HIDE DEF up, high, O
  <2>3. up /\ m = 2 * O - 1  BY <1>1, <1>7, <1>9, <2>1
  <2>4. ~high  BY <1>1, <1>7, <1>10, <2>3
  <2> QED  BY <2>2, <2>3, <2>4
<1>12. F >= 2 * O => N < 2 * O * O /\ N \div O = 2 * O - 1 /\ 2 * (N % O) >= O
  <2> HAVE F >= 2 * O
  <2>1. ~high /\ m = 2 * O - 1 /\ 2 * f >= W  BY <1>11
  <2>2. N < 2 * O * O
    <3> HIDE DEF R, O
    <3>1. ~(N >= 2 * R)  BY <1>3, <2>1
    <3> QED  BY <1>2, <1>3, <3>1
  <2>3. W = O
    <3> HIDE DEF high
    <3> QED  BY <1>4, <2>1
  <2> QED  BY <2>1, <2>2, <2>3 DEF m, f
<1> QED  BY <1>2, <1>4, <1>6, <1>12 DEF F, W, w, N

\* The sign of what is put together with an exponent that is not zero.
LEMMA PackSign ==
  ASSUME NEW sign \in BOOLEAN, NEW e \in 1 .. Float!ExpMod - 2, NEW f \in 0 .. Float!One - 1
  PROVE  Float!Pack(sign, e, f) # 0 /\ Float!Sign(Float!Pack(sign, e, f)) = sign
<1>1. e \in 0 .. Float!ExpMod - 1 /\ e # 0  BY FloatSizes
<1> QED  BY <1>1, PackWord

\* MULF leaves the nearest float, but for -0, infinity, what is no larger than the least normal
\* number, and a product rounded up to two: that one has the sign of the nearest float and
\* neither is zero.
LEMMA ProductNearest ==
  ASSUME NEW a \in Nat, NEW b \in Nat, Float!Ordinary(a), Float!Ordinary(b)
  PROVE  LET r == Float!Product(a, b)
             q == Float!Multiply(a, b)
         IN  \/ q = r
             \/ Float!Magnitude(r) <= Float!LeastNormal /\ r # 0
             \/ ~Float!Number(r)
             \/ Float!Wraps(a, b) /\ q # 0 /\ r # 0 /\ Float!Sign(q) = Float!Sign(r)
<1> DEFINE O == Float!One
           E == Float!ExpMod
           B == Float!Bias
           x == Float!Significand(a)
           y == Float!Significand(b)
           i == Float!Exp(a)
           j == Float!Exp(b)
           neg == Float!Sign(a) # Float!Sign(b)
           c == Float!Place(a) + Float!Place(b) - Float!UnitPlace
           N == x * y
           w == IF N >= 2 * O * O THEN FRAC + 1 ELSE FRAC
           F == ToEven(N, Two[w])
           ex == c + w + 1
           r == Float!Product(a, b)
           q == Float!Multiply(a, b)
<1>1. O \in Nat \ {0, 1} /\ E \in Nat /\ E >= 4 /\ Float!LeastNormal = O /\ FRAC \in Nat
      /\ FRAC >= 1 /\ B \in Nat /\ 2 * (B + 1) = E
  BY FloatSizes DEF Float!LeastNormal
<1>2. neg \in BOOLEAN  OBVIOUS
<1>3. r = Float!NearestScaled(neg, N, 1, c)  BY DEF Float!Product
<1>4. Float!UnitPlace = B - 1 + FRAC  BY DEF Float!UnitPlace
<1>5. CASE Float!Magnitude(a) = 0 \/ Float!Magnitude(b) = 0
  <2>1. q = 0  BY <1>5 DEF Float!Multiply
  <2>2. N = 0
    <3>1. Float!Magnitude(a) = 0 => x = 0
      <4> HAVE Float!Magnitude(a) = 0
      <4>1. i = 0 /\ Float!Frac(a) = 0  BY ZeroFields
      <4> QED  BY <4>1 DEF Float!Significand
    <3>2. Float!Magnitude(b) = 0 => y = 0
      <4> HAVE Float!Magnitude(b) = 0
      <4>1. j = 0 /\ Float!Frac(b) = 0  BY ZeroFields
      <4> QED  BY <4>1 DEF Float!Significand
    <3>3. x \in Nat /\ y \in Nat
      <4>1. x \in 0 .. 2 * Float!One - 1 /\ y \in 0 .. 2 * Float!One - 1  BY OrdinaryFields
      <4> HIDE DEF x, y
      <4> QED  BY <1>1, <4>1
    <3> HIDE DEF x, y
    <3>4. 0 * y = 0 /\ x * 0 = 0  BY <3>3
    <3> QED  BY <1>5, <3>1, <3>2, <3>4
  <2>3. c \in Int
    <3>1. i \in 0 .. E - 1 /\ j \in 0 .. E - 1  BY FloatFields
    <3>2. Float!Place(a) \in Int /\ Float!Place(b) \in Int
      <4>1. /\ Float!Place(a) = IF i = 0 THEN 0 ELSE i - 1
            /\ Float!Place(b) = IF j = 0 THEN 0 ELSE j - 1
        BY DEF Float!Place
      <4> HIDE DEF i, j, E
      <4> QED  BY <1>1, <3>1, <4>1
    <3> QED  BY <1>1, <1>4, <3>2
  <2> HIDE DEF N, c, neg, r, q
  <2>4. r = IF neg THEN Float!Top ELSE 0
    <3>1. r = Float!NearestScaled(neg, 0, 1, c) /\ 1 \in Nat \ {0}  BY <1>3, <2>2
    <3> QED  BY <1>2, <2>3, <3>1, ScaledZero
  <2>5. Float!Magnitude(r) = 0  BY <1>2, <2>4, ZeroMagnitude
  <2>6. Float!Magnitude(r) <= Float!LeastNormal  BY <1>1, <2>5
  <2> QED  BY <2>1, <2>6 DEF r, q
<1>6. CASE Float!Magnitude(a) # 0 /\ Float!Magnitude(b) # 0
  <2>1. /\ i \in 1 .. E - 2 /\ x \in Float!One .. 2 * Float!One - 1 /\ x = O + Float!Frac(a)
        /\ Float!Place(a) = i - 1
    BY <1>6, NormalFields
  <2>2. /\ j \in 1 .. E - 2 /\ y \in Float!One .. 2 * Float!One - 1 /\ y = O + Float!Frac(b)
        /\ Float!Place(b) = j - 1
    BY <1>6, NormalFields
  <2> HIDE DEF x, y
  <2>3. /\ N \in Nat /\ w \in Nat
        /\ O * Two[w] <= N /\ N < 2 * (O * Two[w])
        /\ F >= 2 * O => N < 2 * O * O /\ N \div O = 2 * O - 1 /\ 2 * (N % O) >= O
    BY <2>1, <2>2, ProductRounded
  <2>4. q = Float!Limited(neg, (i + j - B + w - FRAC) % (2 * E), F % O)
    <3> DEFINE M == (O + Float!Frac(a)) * (O + Float!Frac(b))
               d == IF M >= 2 * O * O THEN FRAC + 1 ELSE FRAC
               f == (M \div Two[d]) + (IF Float!RoundUp(M, d) THEN 1 ELSE 0)
    <3>1. q = Float!Limited(neg, (i + j - B + d - FRAC) % (2 * E), f % O)
      BY <1>6, FloatTwo DEF Float!Multiply
    <3>2. M = N  BY <2>1, <2>2
    <3>3. d = w  BY <3>2
    <3>4. w \in Nat \ {0}
      <4> HIDE DEF N, O
      <4> QED  BY <1>1
    <3> HIDE DEF M, d, w, N
    <3>5. f = F  BY <2>3, <3>2, <3>3, <3>4, RoundUpIs
    <3> HIDE DEF f, F
    <3> QED  BY <3>1, <3>3, <3>5
  <2>5. c \in Int /\ ex \in Int /\ ex = i + j - B + w - FRAC /\ -E <= ex /\ ex <= 2 * E
    <3>1. w <= FRAC + 1 /\ w >= FRAC /\ w \in Nat
      <4> HIDE DEF N, O
      <4> QED  BY <1>1
    <3> HIDE DEF w
    <3>2. c = (i - 1) + (j - 1) - (B - 1 + FRAC)  BY <1>4, <2>1, <2>2
    <3> HIDE DEF c, i, j, B, E
    <3> QED  BY <1>1, <2>1, <2>2, <3>1, <3>2
  <2>6. q = Float!Limited(neg, ex % (2 * E), F % O)  BY <2>4, <2>5
  <2> HIDE DEF q, c, w, N, F, r, neg
  <2>7. /\ ex <= 0 => Float!Magnitude(r) \in 0 .. Float!LeastNormal
        /\ ex \in 1 .. E - 2 =>
             /\ F \in O .. 2 * O
             /\ F < 2 * O => r = Float!Pack(neg, ex, F - O)
             /\ F = 2 * O => \/ ~Float!Number(r)
                             \/ ex + 1 <= E - 2 /\ r = Float!Pack(neg, ex + 1, 0)
        /\ ex \in E - 1 .. 2 * E => ~Float!Number(r)
    <3>1. c \in Int  BY <2>5
    <3> QED  BY <1>2, <1>3, <2>3, <3>1, ScaledPlace DEF F
  <2>8. /\ ex <= 0 => q = 0
        /\ ex \in 1 .. E - 2 => q = Float!Pack(neg, ex, F % O)
    <3>1. ex \in Int /\ -Float!ExpMod <= ex  BY <2>5
    <3> HIDE DEF ex
    <3> QED  BY <2>6, <3>1, LimitedIs
  <2>9. CASE ex <= 0
    <3>1. q = 0 /\ Float!Magnitude(r) <= Float!LeastNormal  BY <1>1, <2>7, <2>8, <2>9
    <3> QED  BY <3>1 DEF r, q
  <2>10. CASE ex \in 1 .. E - 2 /\ F < 2 * O
    <3>1. F % O = F - O
      <4> DEFINE z == F - O
      <4>1. z \in 0 .. O - 1 /\ O * 1 + z = F  BY <1>1, <2>7, <2>10
      <4> HIDE DEF z, O
      <4>2. (O * 1 + z) % O = z  BY <1>1, <4>1, DivideOnce
      <4> QED  BY <4>1, <4>2 DEF z
    <3>2. q = r  BY <2>7, <2>8, <2>10, <3>1
    <3> QED  BY <3>2 DEF r, q
  <2>11. CASE ex \in 1 .. E - 2 /\ F = 2 * O /\ Float!Number(r)
    <3>1. F % O = 0
      <4>1. O * 2 + 0 = F /\ 0 \in 0 .. O - 1  BY <1>1, <2>11
      <4> HIDE DEF O
      <4>2. (O * 2 + 0) % O = 0  BY <1>1, <4>1, DivideOnce
      <4> QED  BY <4>1, <4>2
    <3>2. q = Float!Pack(neg, ex, 0) /\ r = Float!Pack(neg, ex + 1, 0) /\ ex + 1 <= E - 2
      BY <2>7, <2>8, <2>11, <3>1
    <3> DEFINE z == ex + 1
    <3>3. ex \in 1 .. Float!ExpMod - 2 /\ z \in 1 .. Float!ExpMod - 2 /\ 0 \in 0 .. Float!One - 1
      BY <1>1, <2>11, <3>2
    <3>6. r = Float!Pack(neg, z, 0)  BY <3>2
    <3> HIDE DEF z, ex
    <3>4. q # 0 /\ r # 0 /\ Float!Sign(q) = neg /\ Float!Sign(r) = neg
      BY <1>2, <3>2, <3>3, <3>6, PackSign
    <3>5. Float!Wraps(a, b)
      <4>1. F >= 2 * O  BY <1>1, <2>11
      <4>2. N < 2 * O * O /\ N \div O = 2 * O - 1 /\ 2 * (N % O) >= O  BY <2>3, <4>1
      <4> QED  BY <4>2 DEF Float!Wraps, N, x, y
    <3> QED  BY <3>4, <3>5 DEF r, q
  <2>12. CASE ex \in E - 1 .. 2 * E
    BY <2>7, <2>12 DEF r
  <2>13. ex \in 1 .. E - 2 => F < 2 * O \/ F = 2 * O
    <3> HIDE DEF O
    <3> QED  BY <1>1, <2>7
  <2>14. CASE ~Float!Number(r)  BY <2>14 DEF r
  <2>15. ex <= 0 \/ ex \in 1 .. E - 2 \/ ex \in E - 1 .. 2 * E
    <3> HIDE DEF ex
    <3> QED  BY <1>1, <2>5
  <2> QED  BY <2>9, <2>10, <2>11, <2>12, <2>13, <2>14, <2>15
<1> QED  BY <1>5, <1>6

\* Zero is a number.
LEMMA NothingNumber == Float!Number(0) /\ Float!Magnitude(0) = 0
<1> DEFINE m == Float!Magnitude(0)
           i == Float!Infinity(FALSE)
<1>1. m = 0
  <2>1. FALSE \in BOOLEAN  OBVIOUS
  <2> QED  BY <2>1, ZeroMagnitude
<1>2. i \in Nat \ {0}
  <2> DEFINE z == Float!One * (Float!ExpMod - 1)
  <2>1. i = z /\ z \in Nat \ {0}  BY LargestIs
  <2> HIDE DEF i, z
  <2> QED  BY <2>1
<1>3. Float!Number(0) <=> m < i  BY DEF Float!Number
<1> HIDE DEF m, i
<1>4. m < i  BY <1>1, <1>2
<1> QED  BY <1>1, <1>3, <1>4 DEF m

-----------------------------------------------------------------------------
(* Quotients, SCLF and the conversions.                                    *)

\* A float put together is a word.
LEMMA PackNat ==
  ASSUME NEW sign \in BOOLEAN, NEW e \in 1 .. Float!ExpMod - 2, NEW f \in 0 .. Float!One - 1
  PROVE  Float!Pack(sign, e, f) \in Nat
<1> DEFINE O == Float!One
           T == Float!Top
           p == O * e
<1>1. O \in Nat /\ T \in Nat /\ Float!ExpMod \in Nat  BY FloatSizes
<1>2. e \in Nat /\ f \in Nat  BY <1>1
<1>3. p \in Nat
  <2> HIDE DEF O
  <2> QED  BY <1>1, <1>2, SMTT(20)
<1>4. Float!Pack(sign, e, f) = (IF sign THEN T ELSE 0) + p + f  BY DEF Float!Pack
<1> HIDE DEF p, T
<1> QED  BY <1>1, <1>2, <1>3, <1>4

\* The place of a quotient, when its exponent is not too small.
LEMMA QuotientPlace ==
  ASSUME NEW neg \in BOOLEAN, NEW x \in Float!One .. 2 * Float!One - 1,
         NEW y \in Float!One .. 2 * Float!One - 1, NEW ex \in 1 .. 2 * Float!ExpMod
  PROVE  LET h == IF y >= x THEN 0 ELSE 1
             r == Float!Nearest(neg, y * Two[ex - 1 + FRAC + h], x)
         IN  r # 0 /\ (r \in Nat \/ ~Float!Number(r))
<1> DEFINE O == Float!One
           E == Float!ExpMod
           h == IF y >= x THEN 0 ELSE 1
           K == ex - 1
           E0 == K + FRAC + h
           g == Two[K]
           N == IF y >= x THEN y * O ELSE y * (2 * O)
           n == y * Two[E0]
           r == Float!Nearest(neg, n, x)
<1>1. /\ O \in Nat \ {0, 1} /\ E \in Nat /\ E >= 4 /\ FRAC \in Nat /\ O = Two[FRAC]
      /\ Two[FRAC + 1] = 2 * O
  <2>1. FRAC \in Nat /\ Float!One = Two[FRAC]  BY FloatSizes
  <2>2. Two[FRAC + 1] = 2 * Two[FRAC]  BY <2>1, TwoIs
  <2> QED  BY <2>1, <2>2, FloatSizes
<1>2. K \in 0 .. 2 * E /\ K \in Nat  BY <1>1
<1>3. g \in Nat \ {0}  BY <1>2, TwoIs
<1>4. x \in Nat \ {0} /\ y \in Nat  BY <1>1
<1>5. n = N * g
  <2> DEFINE i == FRAC + h
             w == Two[i]
  <2>1. i \in Nat /\ E0 = i + K  BY <1>1, <1>2
  <2>2. N = y * w
    <3>1. CASE y >= x
      <4>1. FRAC + 0 = FRAC  BY <1>1
      <4> QED  BY <1>1, <3>1, <4>1
    <3>2. CASE ~(y >= x)  BY <1>1, <3>2
    <3> QED  BY <3>1, <3>2
  <2>3. Two[i + K] = w * g /\ w \in Nat
    <3> HIDE DEF i, K
    <3> QED  BY <1>2, <2>1, TwoSum, TwoIs
  <2> HIDE DEF i, w, N, g
  <2>4. y * (w * g) = (y * w) * g  BY <1>3, <1>4, <2>3, SMTT(20)
  <2> QED  BY <2>1, <2>2, <2>3, <2>4 DEF n
<1>6. N * g \in Nat /\ N * g < 2 * (O * x * g) /\ N * g >= O * x * g
  <2> HIDE DEF g
  <2> QED  BY <1>3, QuotientRounded
<1> HIDE DEF N, g, n
<1>7. n \in Nat /\ n < 2 * (O * x * g) /\ n >= O * x * g  BY <1>5, <1>6
<1>8. r # 0 /\ (r \in Nat \/ ~Float!Number(r))
  <2>1. CASE ex <= E - 2
    <3> DEFINE F == ToEven(n, x * Two[ex - 1])
    <3>1. ex \in 1 .. E - 2  BY <1>1, <2>1
    <3>2. n < 2 * (Float!One * x * Two[ex - 1]) /\ n >= Float!One * x * Two[ex - 1]
      BY <1>7 DEF g
    <3>3. /\ F \in O .. 2 * O
          /\ F < 2 * O => r = Float!Pack(neg, ex, F - O)
          /\ F = 2 * O => \/ ~Float!Number(r)
                          \/ ex + 1 <= E - 2 /\ r = Float!Pack(neg, ex + 1, 0)
      BY <1>4, <1>7, <3>1, <3>2, NearestPacked
    <3> HIDE DEF F, r, E, O
    <3>4. CASE F < 2 * O
      <4> DEFINE f == F - O
      <4>1. f \in 0 .. O - 1  BY <1>1, <3>3, <3>4
      <4>2. r = Float!Pack(neg, ex, f)  BY <3>3, <3>4
      <4> HIDE DEF f
      <4> QED  BY <3>1, <4>1, <4>2, PackSign, PackNat DEF O, E
    <3>5. CASE F = 2 * O /\ ~Float!Number(r)
      <4>1. Float!Number(0)  BY NothingNumber
      <4> QED  BY <3>5, <4>1
    <3>6. CASE F = 2 * O /\ Float!Number(r)
      <4> DEFINE z == ex + 1
      <4>1. z \in 1 .. E - 2 /\ r = Float!Pack(neg, z, 0)  BY <1>1, <3>1, <3>3, <3>6
      <4>2. 0 \in 0 .. O - 1  BY <1>1
      <4> HIDE DEF z
      <4> QED  BY <4>1, <4>2, PackSign, PackNat DEF O, E
    <3>7. F < 2 * O \/ F = 2 * O  BY <1>1, <3>3
    <3> QED  BY <3>4, <3>5, <3>6, <3>7
  <2>2. CASE ~(ex <= E - 2)
    <3>1. K >= E - 2  BY <1>1, <2>2
    <3>2. K \in 0 .. 2 * Float!ExpMod /\ K >= Float!ExpMod - 2  BY <1>2, <3>1
    <3>3. n < 2 * (Float!One * x * Two[K]) /\ n >= Float!One * x * Two[K]
      BY <1>7 DEF g
    <3> HIDE DEF K
    <3>4. ~Float!Number(r)  BY <1>4, <1>7, <3>2, <3>3, NearestLarge
    <3>5. Float!Number(0)  BY NothingNumber
    <3> QED  BY <3>4, <3>5
  <2> QED  BY <2>1, <2>2
<1> QED  BY <1>8 DEF r, n

\* A quotient of an exponent that is too small is at most the least normal number.
LEMMA QuotientSmall ==
  ASSUME NEW neg \in BOOLEAN, NEW x \in Float!One .. 2 * Float!One - 1,
         NEW y \in Float!One .. 2 * Float!One - 1, NEW E0 \in Int,
         E0 <= FRAC - (IF y >= x THEN 1 ELSE 0)
  PROVE  Float!Magnitude(Float!NearestScaled(neg, y, x, E0)) \in 0 .. Float!LeastNormal
<1> DEFINE O == Float!One
           r == Float!NearestScaled(neg, y, x, E0)
<1>1. /\ O \in Nat \ {0, 1} /\ FRAC \in Nat /\ FRAC >= 1 /\ O = Two[FRAC]
      /\ Two[FRAC - 1] \in Nat /\ O = 2 * Two[FRAC - 1]
  <2>1. FRAC \in Nat \ {0} /\ Float!One = Two[FRAC]  BY FloatSizes
  <2> QED  BY <2>1, FloatSizes, TwoEven
<1>2. x \in Nat \ {0} /\ y \in Nat /\ y < 2 * x  BY <1>1
<1>3. r = IF E0 >= 0 THEN Float!Nearest(neg, y * Two[E0], x) ELSE Float!Nearest(neg, y, x * Two[-E0])
  BY FloatTwo DEF Float!NearestScaled
<1>4. CASE E0 >= 0
  <2> DEFINE L == O * x
             w == Two[E0]
             n == y * w
  <2>1. L \in Nat /\ L = x * O /\ (2 * x) * O = 2 * L  BY <1>1, <1>2, SMTT(20)
  <2>2. E0 \in Nat /\ w \in Nat  BY <1>4, TwoIs
  <2>3. n \in Nat /\ n = w * y
    <3> HIDE DEF w
    <3> QED  BY <1>2, <2>2, SMTT(20)
  <2>4. n < L
    <3> HIDE DEF L, n
    <3>1. CASE y >= x
      <4> DEFINE v == Two[FRAC - 1]
                 z == 2 * x
                 A == v * y
      <4>1. w <= v
        <5>1. FRAC - 1 \in Nat /\ E0 <= FRAC - 1  BY <1>1, <3>1
        <5> QED  BY <2>2, <5>1, TwoGrows
      <4>2. v \in Nat /\ 2 * v = O /\ z \in Nat /\ y < z  BY <1>1, <1>2
      <4> HIDE DEF v, w, z
      <4>3. w * y <= v * y  BY <1>2, <2>2, <4>1, <4>2, Products
      <4>4. y * O + O <= z * O  BY <1>1, <1>2, <4>2, Products
      <4>5. y * (2 * v) = 2 * (v * y) /\ v * y \in Nat  BY <1>2, <4>2, SMTT(20)
      <4>6. z * O = 2 * L  BY <2>1 DEF z
      <4>7. A \in Nat /\ n <= A /\ 2 * A + O <= 2 * L  BY <2>3, <4>2, <4>3, <4>4, <4>5, <4>6
      <4> HIDE DEF A
      <4> QED  BY <1>1, <2>1, <2>3, <4>7
    <3>2. CASE ~(y >= x)
      <4>1. y < x  BY <1>2, <3>2
      <4>2. w <= O
        <5>1. E0 <= FRAC  BY <1>1, <3>2
        <5> QED  BY <1>1, <2>2, <5>1, TwoGrows
      <4> HIDE DEF w, O
      <4>3. w * y <= O * y  BY <1>1, <1>2, <2>2, <4>2, Products
      <4>4. y * O + O <= x * O  BY <1>1, <1>2, <4>1, Products
      <4>5. O * y = y * O /\ y * O \in Nat  BY <1>1, <1>2, SMTT(20)
      <4> DEFINE A == y * O
      <4>6. A \in Nat /\ n <= A /\ A + O <= L  BY <2>1, <2>3, <4>3, <4>4, <4>5
      <4> HIDE DEF A
      <4> QED  BY <1>1, <2>1, <2>3, <4>6
    <3> QED  BY <3>1, <3>2
  <2>5. r = Float!Nearest(neg, n, x)  BY <1>3, <1>4
  <2> HIDE DEF n, r
  <2> QED  BY <1>2, <2>3, <2>4, <2>5, NearestSmall DEF r
<1>5. CASE ~(E0 >= 0)
  <2> DEFINE w == Two[-E0]
             d == x * w
  <2>1. w \in Nat /\ w >= 2
    <3>1. -E0 \in Nat /\ 1 <= -E0  BY <1>5
    <3>2. Two[0 + 1] = 2 * Two[0] /\ Two[0] = 1  BY TwoIs
    <3>3. Two[1] <= Two[-E0]  BY <3>1, TwoGrows
    <3>4. Two[-E0] \in Nat  BY <3>1, TwoIs
    <3> QED  BY <3>2, <3>3, <3>4
  <2>2. r = Float!Nearest(neg, y, d)  BY <1>3, <1>5
  <2> HIDE DEF w, r
  <2>3. 2 * x <= w * x /\ w * x = x * w /\ d \in Nat  BY <1>2, <2>1, Products, SMTT(20)
  <2>4. d \in Nat \ {0} /\ 2 * x <= d  BY <1>2, <2>3
  <2> HIDE DEF d
  <2>5. 1 * d <= O * d /\ O * d \in Nat  BY <1>1, <2>4, Products
  <2> DEFINE L == O * d
  <2>6. L \in Nat /\ d <= L  BY <2>4, <2>5
  <2> HIDE DEF L
  <2>7. y < L  BY <1>1, <1>2, <2>4, <2>6
  <2> QED  BY <1>2, <2>2, <2>4, <2>7, NearestSmall DEF L, r
<1> QED  BY <1>4, <1>5

\* A quotient that is made nothing is at most the least normal number, and one of that kind
\* is made nothing.
LEMMA QuotientZero ==
  ASSUME NEW a \in Nat, NEW b \in Nat, Float!Ordinary(a), Float!Ordinary(b),
         Float!Magnitude(a) # 0
  PROVE  LET r == Float!Ratio(a, b)
         IN  \/ Float!Divide(a, b) = 0 /\ Float!Magnitude(r) \in 0 .. Float!LeastNormal
             \/ r # 0 /\ (r \in Nat \/ ~Float!Number(r))
<1> DEFINE O == Float!One
           E == Float!ExpMod
           B == Float!Bias
           W == 2 * E
           neg == Float!Sign(a) # Float!Sign(b)
           x == Float!Significand(a)
           y == Float!Significand(b)
           i == Float!Exp(a)
           j == Float!Exp(b)
           h == IF y >= x THEN 0 ELSE 1
           c == j - i + B
           ex == c - h
           q == (y * 2 * O) \div x
           r == Float!Divide(a, b)
           nearest == Float!Ratio(a, b)
<1>1. O \in Nat \ {0, 1} /\ E \in Nat /\ E >= 4 /\ FRAC \in Nat
      /\ FRAC >= 1 /\ B \in Nat /\ 2 * (B + 1) = E
  BY FloatSizes
<1>2. neg \in BOOLEAN  OBVIOUS
<1>3. CASE Float!Magnitude(b) = 0
  <2> DEFINE E0 == Float!Place(b) - Float!Place(a) + Float!UnitPlace
  <2>1. r = 0  BY <1>3 DEF Float!Divide
  <2>2. j = 0 /\ Float!Frac(b) = 0  BY <1>3, ZeroFields
  <2>3. y = 0 /\ Float!Place(b) = 0  BY <2>2 DEF Float!Significand, Float!Place
  <2>4. /\ i \in 1 .. E - 2 /\ x \in Float!One .. 2 * Float!One - 1
        /\ Float!Place(a) = i - 1
    BY NormalFields
  <2>5. E0 \in Int /\ x \in Nat \ {0}
    <3>1. x \in Nat \ {0}
      <4> HIDE DEF x
      <4> QED  BY <1>1, <2>4
    <3>2. E0 = 0 - (i - 1) + (B - 1 + FRAC)  BY <2>3, <2>4 DEF Float!UnitPlace
    <3> HIDE DEF E0, i, B, x
    <3> QED  BY <1>1, <2>4, <3>1, <3>2
  <2>6. nearest = Float!NearestScaled(neg, 0, x, E0)  BY <2>3 DEF Float!Ratio
  <2> HIDE DEF x, E0, neg, nearest, r
  <2>7. nearest = IF neg THEN Float!Top ELSE 0  BY <1>2, <2>5, <2>6, ScaledZero
  <2>8. Float!Magnitude(nearest) = 0  BY <1>2, <2>7, ZeroMagnitude
  <2>9. Float!LeastNormal \in Nat  BY <1>1 DEF Float!LeastNormal
  <2>10. Float!Magnitude(nearest) \in 0 .. Float!LeastNormal  BY <2>8, <2>9
  <2> QED  BY <2>1, <2>10 DEF r, nearest
<1>4. CASE Float!Magnitude(b) # 0
  <2>1. /\ i \in 1 .. E - 2 /\ x \in Float!One .. 2 * Float!One - 1 /\ x = O + Float!Frac(a)
        /\ Float!Place(a) = i - 1
    BY NormalFields
  <2>2. /\ j \in 1 .. E - 2 /\ y \in Float!One .. 2 * Float!One - 1 /\ y = O + Float!Frac(b)
        /\ Float!Place(b) = j - 1
    BY <1>4, NormalFields
  <2> HIDE DEF x, y
  <2>3. h \in {0, 1} /\ (h = 0 <=> y >= x)  OBVIOUS
  <2>4. q >= 2 * O <=> y >= x
    <3>1. 1 \in Nat \ {0}  OBVIOUS
    <3> QED  BY <2>1, <2>2, <3>1, QuotientRounded
  <2> DEFINE E0 == Float!Place(b) - Float!Place(a) + Float!UnitPlace
  <2>5. E0 = ex - 1 + FRAC + h /\ c \in Int /\ ex \in Int /\ c <= 2 * E /\ -E < ex /\ c = ex + h
    <3>1. E0 = (j - 1) - (i - 1) + (B - 1 + FRAC)  BY <2>1, <2>2 DEF Float!UnitPlace
    <3> HIDE DEF E0, i, j, B, h, E
    <3>2. E0 \in Int /\ c \in Int /\ h \in Int  BY <1>1, <2>1, <2>2, <2>3, <3>1
    <3> QED  BY <1>1, <2>1, <2>2, <2>3, <3>1, <3>2
  <2> HIDE DEF h
  <2>6. CASE ex >= 1
    <3>1. E0 >= 0
      <4> HIDE DEF c, E0
      <4> QED  BY <1>1, <2>3, <2>5, <2>6
    <3>2. nearest = Float!Nearest(neg, y * Two[E0], x)
      <4> HIDE DEF E0, neg
      <4> QED  BY <3>1, FloatTwo DEF Float!Ratio, Float!NearestScaled, E0, neg, x, y
    <3>3. ex \in 1 .. 2 * E
      <4> HIDE DEF c
      <4> QED  BY <1>1, <2>3, <2>5, <2>6
    <3>4. nearest = Float!Nearest(neg, y * Two[ex - 1 + FRAC + h], x)
      <4> HIDE DEF E0, ex, nearest
      <4> QED  BY <2>5, <3>2
    <3> HIDE DEF ex, neg, nearest
    <3>5. nearest # 0 /\ (nearest \in Nat \/ ~Float!Number(nearest))
      BY <1>2, <2>1, <2>2, <3>3, <3>4, QuotientPlace DEF h
    <3> QED  BY <3>5 DEF nearest
  <2>10. CASE ex <= 0
    <3> DEFINE e == c % W
               v == IF e > 0 THEN e - 1 ELSE e
               up == q % 2 = 1 /\ (q \div 2) % 2 = 1
               f == ((q \div 2) + (IF up THEN 1 ELSE 0)) % O
               g == q % O
    <3>7. r = IF q >= 2 * O THEN Float!Limited(neg, e, f) ELSE Float!Limited(neg, v, g)
      BY <1>4, <2>1, <2>2 DEF Float!Divide
    <3> HIDE DEF q, r, f, g, neg
    <3>8. ASSUME y >= x
          PROVE  r = 0
      <4>1. q >= 2 * O /\ c <= 0 /\ c \in Int /\ -Float!ExpMod <= c
        <5> HIDE DEF c
        <5> QED  BY <1>1, <2>3, <2>4, <2>5, <2>10, <3>8
      <4> HIDE DEF c
      <4>2. Float!Limited(neg, e, f) = 0  BY <4>1, LimitedIs
      <4>3. r = Float!Limited(neg, e, f)  BY <3>7, <4>1
      <4> QED  BY <4>2, <4>3 DEF r
    <3>9. ASSUME ~(y >= x)
          PROVE  r = 0
      <4>1. ~(q >= 2 * O) /\ c <= 1 /\ c \in Int /\ -E < c /\ h = 1
        <5> HIDE DEF c
        <5> QED  BY <1>1, <2>3, <2>4, <2>5, <2>10, <3>9
      <4> HIDE DEF c
      <4>2. W \in Nat \ {0} /\ W = 2 * E  BY <1>1
      <4>3. v = 0 \/ v >= E
        <5> HIDE DEF W, E
        <5>1. CASE c < 0
          <6> DEFINE z == c + W
          <6>1. z \in 0 .. W - 1 /\ z > E /\ -1 \in Int  BY <1>1, <4>1, <4>2, <5>1
          <6> HIDE DEF z
          <6>2. (W * (-1) + z) % W = z  BY <4>2, <6>1, DivideInt
          <6>3. W * (-1) + z = c  BY <4>1, <4>2 DEF z
          <6>4. e = z  BY <6>2, <6>3
          <6> HIDE DEF e
          <6> QED  BY <1>1, <6>1, <6>4
        <5>2. CASE c >= 0
          <6>1. c \in 0 .. W - 1 /\ 0 \in Int /\ c \in {0, 1}  BY <1>1, <4>1, <4>2, <5>2
          <6>2. (W * 0 + c) % W = c  BY <4>2, <6>1, DivideInt
          <6>3. W * 0 + c = c  BY <4>1, <4>2
          <6>4. e = c  BY <6>2, <6>3
          <6> HIDE DEF e
          <6> QED  BY <6>1, <6>4
        <5> QED  BY <4>1, <5>1, <5>2
      <4>4. r = Float!Limited(neg, v, g)  BY <3>7, <4>1
      <4> HIDE DEF v
      <4> QED  BY <4>3, <4>4 DEF Float!Limited, r, E
    <3>10. r = 0  BY <3>8, <3>9
    <3> HIDE DEF r
    <3>11. E0 <= FRAC - (IF y >= x THEN 1 ELSE 0) /\ E0 \in Int
      <4> HIDE DEF c, E0, ex
      <4> QED  BY <1>1, <2>3, <2>5, <2>10
    <3>12. nearest = Float!NearestScaled(neg, y, x, E0)  BY DEF Float!Ratio, neg, x, y
    <3>13. Float!Magnitude(nearest) \in 0 .. Float!LeastNormal
      <4> HIDE DEF E0, nearest
      <4> QED  BY <1>2, <2>1, <2>2, <3>11, <3>12, QuotientSmall
    <3> HIDE DEF nearest
    <3> QED  BY <3>10, <3>13 DEF r, nearest
  <2>11. ex >= 1 \/ ex <= 0
    <3> HIDE DEF ex
    <3> QED  BY <2>5
  <2> QED  BY <2>6, <2>10, <2>11
<1> QED  BY <1>3, <1>4

\* The quotient has the sign of the float nearest to it, and is nothing when that is.
LEMMA QuotientFlags ==
  ASSUME NEW a \in Nat, NEW b \in Nat, Float!Ordinary(a), Float!Ordinary(b),
         Float!Magnitude(a) # 0
  PROVE  LET r == Float!Ratio(a, b)
             q == Float!Divide(a, b)
         IN  \/ Float!Magnitude(r) <= Float!LeastNormal /\ r # 0
             \/ ~Float!Number(r)
             \/ (q = 0 <=> r = 0) /\ Float!Sign(q) = Float!Sign(r)
<1> DEFINE r == Float!Ratio(a, b)
           q == Float!Divide(a, b)
           m == Float!Magnitude(r)
           T == Float!Top
           O == Float!One
<1>1. Float!Exp(a) # 0  BY OrdinaryFields
<1>2. T \in Nat \ {0} /\ O \in Nat \ {0, 1} /\ Float!LeastNormal = O
  BY FloatSizes DEF Float!LeastNormal
<1>3. \/ q = 0 /\ m \in 0 .. Float!LeastNormal
      \/ r # 0 /\ (r \in Nat \/ ~Float!Number(r))
  BY QuotientZero
<1>4. CASE q = 0 /\ m \in 0 .. Float!LeastNormal
  <2>1. m <= Float!LeastNormal  BY <1>2, <1>4
  <2>2. CASE r = 0  BY <1>4, <2>2
  <2>3. CASE r # 0  BY <2>1, <2>3
  <2> QED  BY <2>2, <2>3
<1>5. CASE r # 0 /\ r \in Nat /\ Float!Number(r) /\ m > O
  <2>1. q \in {r - 1, r} /\ r \in Nat  BY <1>1, <1>2, <1>5, DivideClose
  <2>2. m = r % T  BY DEF Float!Magnitude
  <2>3. (Float!Sign(q) <=> q >= T) /\ (Float!Sign(r) <=> r >= T)
        /\ Float!Sign(q) \in BOOLEAN /\ Float!Sign(r) \in BOOLEAN
    BY DEF Float!Sign
  <2> DEFINE sq == Float!Sign(q)
             sr == Float!Sign(r)
  <2> HIDE DEF r, q, T, m, O, sq, sr
  <2> DEFINE d == r \div T
  <2>4. d \in Nat /\ m \in 0 .. T - 1 /\ r = T * d + m  BY <1>2, <2>1, <2>2, Division
  <2> DEFINE P == T * d
  <2>5. P \in Nat /\ (d # 0 => P >= T) /\ (d = 0 => P = 0)
    <3> HIDE DEF d
    <3>1. P \in Nat /\ (d = 0 => P = 0)  BY <1>2, <2>4, SMTT(20)
    <3>2. ASSUME d # 0
          PROVE  P >= T
      <4>1. 1 <= d /\ 1 \in Nat  BY <2>4, <3>2
      <4>2. 1 * T <= d * T  BY <1>2, <2>4, <4>1, Products
      <4>3. d * T = T * d  BY <1>2, <2>4
      <4> DEFINE u == d * T
      <4>4. u = P /\ T <= u  BY <1>2, <4>2, <4>3
      <4> HIDE DEF u, P
      <4> QED  BY <1>2, <3>1, <4>4
    <3> QED  BY <3>1, <3>2
  <2>6. r = P + m /\ m >= 2  BY <1>2, <1>5, <2>4
  <2> HIDE DEF P, d
  <2>7. q # 0 /\ r # 0 /\ (q >= T <=> r >= T)  BY <1>2, <2>1, <2>4, <2>5, <2>6
  <2>8. sq <=> sr  BY <2>3, <2>7 DEF sq, sr
  <2>9. sq \in BOOLEAN /\ sr \in BOOLEAN  BY <2>3 DEF sq, sr
  <2>10. sq = sr  BY <2>8, <2>9
  <2> QED  BY <2>7, <2>10 DEF r, q, sq, sr
<1>6. CASE r # 0 /\ r \in Nat /\ Float!Number(r) /\ ~(m > O)
  <2>1. m \in Nat  BY <1>2, <1>6, FloatFields
  <2> HIDE DEF m, r
  <2>2. m <= Float!LeastNormal  BY <1>2, <1>6, <2>1
  <2> QED  BY <1>6, <2>2 DEF m, r
<1> QED  BY <1>3, <1>4, <1>5, <1>6

\* A word with a sign, as the reference and as the unit read it.
LEMMA WordNumber ==
  ASSUME NEW a \in Register
  PROVE  LET v == Float!SignedWord(a)
             x == IF Float!Sign(a) THEN Float!WordMod - a ELSE a
         IN  /\ v \in Int /\ Float!Absolute(v) = x /\ x \in 0 .. Float!Top
             /\ (v < 0 <=> Float!Sign(a)) /\ (v = 0 <=> a = 0) /\ (x = 0 <=> a = 0)
<1> DEFINE T == Float!Top
           W == Float!WordMod
           v == Float!SignedWord(a)
           x == IF Float!Sign(a) THEN W - a ELSE a
<1>1. W = 2 * T /\ T \in Nat \ {0} /\ a \in 0 .. W - 1  BY RegisterWord, FloatSizes DEF Float!Word
<1>2. Float!Sign(a) = (a >= T)  BY DEF Float!Sign
<1>3. v = (IF Float!Sign(a) THEN a - W ELSE a) /\ Float!Absolute(v) = IF v < 0 THEN -v ELSE v
  BY DEF Float!SignedWord, Float!Absolute
<1> HIDE DEF T, W
<1>4. CASE a >= T
  <2>1. Float!Sign(a) /\ v = a - W /\ x = W - a  BY <1>2, <1>3, <1>4
  <2>2. v \in Int /\ v < 0 /\ -v = W - a /\ W - a \in 0 .. T /\ a # 0 /\ W - a # 0
    BY <1>1, <1>4, <2>1
  <2>3. v # 0 /\ Float!Absolute(v) = W - a  BY <1>3, <2>2
  <2> HIDE DEF v
  <2> QED  BY <2>1, <2>2, <2>3 DEF T, W, v
<1>5. CASE ~(a >= T)
  <2>1. ~Float!Sign(a) /\ v = a /\ x = a  BY <1>2, <1>3, <1>5
  <2>2. a \in 0 .. T /\ a \in Int /\ ~(a < 0)  BY <1>1, <1>5
  <2>3. Float!Absolute(v) = a  BY <1>3, <2>1, <2>2
  <2> HIDE DEF v
  <2> QED  BY <2>1, <2>2, <2>3 DEF T, W, v
<1> QED  BY <1>4, <1>5

\* CVT.WS makes of a word the float nearest to it, of its sign.
LEMMA WordNearest ==
  ASSUME NEW a \in Register
  PROVE  LET v == Float!SignedWord(a)
             q == Float!FromWord(a)
         IN  /\ q = Float!Nearest(v < 0, Float!Absolute(v) * Float!Two[Float!UnitPlace], 1)
             /\ (q = 0 <=> v = 0) /\ (Float!Sign(q) <=> v < 0)
<1> DEFINE v == Float!SignedWord(a)
           neg == Float!Sign(a)
           x == IF neg THEN Float!WordMod - a ELSE a
           r == Float!Nearest(v < 0, Float!Absolute(v) * Float!Two[Float!UnitPlace], 1)
           q == Float!FromWord(a)
           O == Float!One
           E == Float!ExpMod
           B == Float!Bias
           U == B - 1 + FRAC
           P == EXP + FRAC
           L == Float!BitLength(x)
           s == P + 1 - L
           W == Two[EXP]
           norm == x * Two[s]
           M == norm \div W
           one == IF Float!RoundUp(norm, EXP) THEN 1 ELSE 0
           f == (M % O) + one
           F == ToEven(norm, W)
           e == B + L - 1
           c == U - s
<1>1. /\ O \in Nat \ {0, 1} /\ E \in Nat /\ E >= 4 /\ B \in Nat /\ 2 * (B + 1) = E
      /\ EXP \in Nat \ {0} /\ FRAC \in Nat \ {0} /\ P <= B /\ O = Two[FRAC]
  BY FloatSizes
<1>2. /\ v \in Int /\ Float!Absolute(v) = x /\ x \in 0 .. Float!Top /\ neg \in BOOLEAN
      /\ (v < 0 <=> neg) /\ (v = 0 <=> a = 0) /\ (x = 0 <=> a = 0)
  BY WordNumber DEF Float!Sign
<1>3. r = Float!Nearest(neg, x * Two[U], 1)
  <2>1. (v < 0) = neg
    <3>1. (v < 0) \in BOOLEAN  OBVIOUS
    <3> DEFINE l == v < 0
    <3> HIDE DEF l, neg
    <3> QED  BY <1>2, <3>1 DEF l
  <2> QED  BY <1>2, <2>1, FloatTwo DEF Float!UnitPlace
<1>4. q = IF a = 0 THEN 0 ELSE IF f = O THEN Float!Pack(neg, e + 1, 0) ELSE Float!Pack(neg, e, f)
  BY FloatTwo DEF Float!FromWord
<1> HIDE DEF x, neg, r, q
<1>5. CASE a = 0
  <2>1. ~neg /\ ~Float!Sign(0)
    <3>1. Float!Top \in Nat \ {0}  BY FloatSizes
    <3>2. ~(0 >= Float!Top)
      <4> DEFINE T == Float!Top
      <4> HIDE DEF T
      <4> QED  BY <3>1 DEF T
    <3> QED  BY <1>5, <3>2 DEF neg, Float!Sign
  <2>2. Two[U] \in Nat
    <3>1. U \in Nat  BY <1>1
    <3> QED  BY <3>1, TwoIs
  <2>3. x * Two[U] = 0  BY <1>2, <1>5, <2>2
  <2>4. r = 0  BY <1>2, <1>3, <2>1, <2>3, NearestZero
  <2>5. q = 0  BY <1>4, <1>5
  <2>6. ~(v < 0) /\ v = 0  BY <1>2, <1>5, <2>1
  <2> HIDE DEF v
  <2> QED  BY <2>1, <2>4, <2>5, <2>6 DEF r, q, v
<1>6. CASE a # 0
  <2>1. x \in Nat \ {0} /\ x <= Two[P] /\ P \in Nat /\ Two[P] \in Nat \ {0}
        /\ Two[P + 1] = 2 * Two[P]
    <3>1. P \in Nat /\ Float!Top = Two[P]  BY <1>1, FloatTwo DEF Float!Top
    <3>2. Two[P] \in Nat \ {0} /\ Two[P + 1] = 2 * Two[P]  BY <3>1, TwoIs
    <3> HIDE DEF P
    <3> QED  BY <1>2, <1>6, <3>1, <3>2
  <2>2. L \in 1 .. P + 1 /\ Two[L - 1] <= x /\ x < Two[L]
    <3>1. P + 1 \in Nat /\ P + 1 <= 2 * FRAC + EXP + 4  BY <1>1
    <3>2. x < Two[P + 1]  BY <2>1
    <3> HIDE DEF P, L
    <3> QED  BY <2>1, <3>1, <3>2, HighestBit DEF L
  <2> HIDE DEF L
  <2>3. s \in Nat /\ L - 1 \in Nat /\ L \in Nat /\ (L - 1) + s = P /\ c \in Nat /\ c + s = U
        /\ P = FRAC + EXP /\ c + EXP + 1 = e /\ e \in 1 .. E - 2
    BY <1>1, <2>2
  <2>4. Two[s] \in Nat \ {0} /\ W \in Nat \ {0} /\ Two[L - 1] * Two[s] = O * W
        /\ Two[L] = 2 * Two[L - 1] /\ Two[L - 1] \in Nat \ {0} /\ Two[P] = O * W
        /\ Two[U] = Two[c] * Two[s] /\ Two[c] \in Nat \ {0}
    <3>1. Two[(L - 1) + s] = Two[L - 1] * Two[s] /\ Two[c + s] = Two[c] * Two[s]
          /\ Two[FRAC + EXP] = Two[FRAC] * Two[EXP]
      BY <1>1, <2>3, TwoSum
    <3>2. Two[s] \in Nat \ {0} /\ W \in Nat \ {0} /\ Two[c] \in Nat \ {0}  BY <1>1, <2>3, TwoIs
    <3>3. Two[L] = 2 * Two[L - 1] /\ Two[L - 1] \in Nat \ {0}
      <4>1. L \in Nat \ {0}  BY <2>3
      <4> QED  BY <4>1, TwoEven
    <3>4. Two[(L - 1) + s] = Two[P] /\ Two[c + s] = Two[U] /\ Two[P] = Two[FRAC + EXP]  BY <2>3
    <3> HIDE DEF s, c, U, P
    <3> QED  BY <1>1, <3>1, <3>2, <3>3, <3>4
  <2> DEFINE w == Two[s]
             Y == O * W
  <2> HIDE DEF w, s, c, W
  <2>5. norm \in Nat /\ Y \in Nat /\ Y <= norm /\ norm < 2 * Y /\ norm = x * w
    <3> DEFINE h == Two[L - 1]
               t == 2 * h
    <3>1. h \in Nat /\ w \in Nat \ {0} /\ h * w = Y /\ h <= x /\ x < t /\ t \in Nat
      BY <2>2, <2>4 DEF w
    <3>2. t * w = 2 * (h * w)  BY <3>1, SMTT(20)
    <3> HIDE DEF h, t, Y
    <3>3. h * w <= x * w /\ x * w + w <= t * w /\ x * w \in Nat /\ h * w \in Nat
      BY <2>1, <3>1, Products
    <3> DEFINE X == x * w
    <3>4. norm = X  BY DEF w
    <3>5. X \in Nat /\ Y \in Nat /\ Y <= X /\ X + w <= 2 * Y  BY <3>1, <3>2, <3>3
    <3> HIDE DEF X, norm
    <3> QED  BY <3>1, <3>4, <3>5 DEF X
  <2>6. M \in O .. 2 * O - 1
    <3>1. M \in Nat /\ norm % W \in 0 .. W - 1 /\ norm = W * M + (norm % W)  BY <2>4, <2>5, Division
    <3> DEFINE g == norm % W
               G == M * W
    <3> HIDE DEF M, norm, g
    <3>2. W * M = G /\ G \in Nat  BY <2>4, <3>1, SMTT(20)
    <3>3. M < O => G + W <= Y  BY <1>1, <2>4, <3>1, Products
    <3>4. 2 * O <= M => 2 * Y <= G
      <4> DEFINE Z == 2 * O
      <4>1. Z \in Nat /\ Z * W = 2 * (O * W)  BY <1>1, <2>4, SMTT(20)
      <4> HIDE DEF Z
      <4>2. Z <= M => Z * W <= M * W  BY <2>4, <3>1, <4>1, Products
      <4> QED  BY <4>1, <4>2 DEF Z
    <3> HIDE DEF G, Y
    <3>5. ~(M < O) /\ ~(2 * O <= M)  BY <2>4, <2>5, <3>1, <3>2, <3>3, <3>4 DEF g
    <3> QED  BY <1>1, <3>1, <3>5
  <2>7. M % O = M - O
    <3> DEFINE g == M - O
    <3>1. g \in 0 .. O - 1 /\ O * 1 + g = M /\ 1 \in Nat
      <4> HIDE DEF M, O
      <4> QED  BY <1>1, <2>6
    <3> HIDE DEF g, O, M
    <3>2. (O * 1 + g) % O = g  BY <1>1, <3>1, DivideOnce
    <3> QED  BY <3>1, <3>2 DEF g
  <2>8. F = M + one
    <3>1. EXP \in Nat \ {0} /\ norm \in Nat  BY <1>1, <2>5
    <3> HIDE DEF norm
    <3>2. (norm \div Two[EXP]) + one = ToEven(norm, Two[EXP])  BY <3>1, RoundUpIs
    <3> QED  BY <3>2 DEF W
  <2>9. one \in {0, 1}  OBVIOUS
  <2> HIDE DEF M, one
  <2>10. f = F - O /\ F \in Nat /\ F \in O .. 2 * O
    <3> HIDE DEF F
    <3> QED  BY <1>1, <2>6, <2>7, <2>8, <2>9
  <2>11. r = Float!NearestScaled(neg, norm, 1, c)
    <3>1. Float!NearestScaled(neg, norm, 1, c) = Float!Nearest(neg, norm * Two[c], 1)
      BY <2>3, FloatTwo DEF Float!NearestScaled
    <3> DEFINE g == Two[c]
    <3>2. g \in Nat /\ w \in Nat /\ Two[U] = g * w  BY <2>4 DEF w
    <3> HIDE DEF g
    <3>3. (x * w) * g = x * (g * w)  BY <2>1, <3>2, SMTT(20)
    <3>4. norm * Two[c] = x * Two[U]
      <4> HIDE DEF norm
      <4> QED  BY <2>5, <3>2, <3>3 DEF g
    <3> QED  BY <1>3, <3>1, <3>4
  <2>12. /\ F < 2 * O => r = Float!Pack(neg, e, F - O)
         /\ F = 2 * O /\ e + 1 <= E - 2 => r = Float!Pack(neg, e + 1, 0)
    <3> DEFINE ex == c + EXP + 1
    <3>1. ex = e /\ ex \in 1 .. Float!ExpMod - 2  BY <2>3
    <3>2. Float!One * Two[EXP] <= norm /\ norm < 2 * (Float!One * Two[EXP]) /\ norm \in Nat
      BY <2>5 DEF W
    <3>3. c \in Int /\ EXP \in Nat  BY <1>1, <2>3
    <3> HIDE DEF norm, e
    <3>4. /\ F < 2 * Float!One => Float!NearestScaled(neg, norm, 1, c) = Float!Pack(neg, ex, F - Float!One)
          /\ F = 2 * Float!One /\ ex + 1 <= Float!ExpMod - 2 =>
               Float!NearestScaled(neg, norm, 1, c) = Float!Pack(neg, ex + 1, 0)
      BY <1>2, <3>1, <3>2, <3>3, ScaledPlace DEF F, W
    <3> HIDE DEF ex, F
    <3> QED  BY <2>11, <3>1, <3>4
  <2>13. F = 2 * O => e + 1 <= E - 2
    <3>1. CASE L <= P  BY <1>1, <2>3, <3>1
    <3>2. CASE ~(L <= P)
      <4>1. L = P + 1 /\ L - 1 = P  BY <2>1, <2>2, <3>2
      <4>2. x = Two[P] /\ s = 0
        <5>1. s = 0  BY <2>1, <4>1 DEF s
        <5>2. Two[P] <= x  BY <2>2, <4>1
        <5> HIDE DEF P
        <5> QED  BY <2>1, <5>1, <5>2
      <4>3. norm = O * W
        <5>1. Two[s] = 1  BY <4>2, TwoIs
        <5>2. norm = Two[P] * 1  BY <4>2, <5>1
        <5> HIDE DEF norm, P
        <5> QED  BY <2>1, <2>4, <5>2
      <4> HIDE DEF norm
      <4>4. F = O
        <5>1. O \in Nat /\ W \in Nat \ {0}  BY <1>1, <2>4
        <5> HIDE DEF O
        <5>2. ToEven(O * W, W) = O  BY <5>1, ToEvenMultiple
        <5> QED  BY <4>3, <5>2
      <4> HIDE DEF F
      <4> QED  BY <1>1, <4>4
    <3> QED  BY <3>1, <3>2
  <2> HIDE DEF F, f, e, O, E
  <2>14. CASE F = 2 * O
    <3>1. f = O  BY <1>1, <2>10, <2>14
    <3> DEFINE z == e + 1
    <3>2. q = Float!Pack(neg, z, 0) /\ r = Float!Pack(neg, z, 0)
      BY <1>4, <1>6, <2>12, <2>13, <2>14, <3>1
    <3>3. z \in 1 .. E - 2 /\ 0 \in 0 .. O - 1  BY <1>1, <2>3, <2>13, <2>14 DEF e
    <3> HIDE DEF z
    <3>4. q # 0 /\ (Float!Sign(q) <=> neg)  BY <1>2, <3>2, <3>3, PackSign DEF E, O
    <3> QED  BY <1>2, <1>6, <3>2, <3>4 DEF r, q
  <2>15. CASE F < 2 * O
    <3>1. f # O /\ f = F - O  BY <1>1, <2>10, <2>15
    <3>2. q = Float!Pack(neg, e, f) /\ r = Float!Pack(neg, e, f)
      BY <1>4, <1>6, <2>12, <2>15, <3>1
    <3>3. e \in 1 .. E - 2 /\ f \in 0 .. O - 1
      <4>1. f \in 0 .. O - 1  BY <1>1, <2>10, <2>15
      <4> QED  BY <2>3, <4>1
    <3>4. q # 0 /\ (Float!Sign(q) <=> neg)  BY <1>2, <3>2, <3>3, PackSign DEF E, O
    <3> QED  BY <1>2, <1>6, <3>2, <3>4 DEF r, q
  <2>16. F = 2 * O \/ F < 2 * O  BY <1>1, <2>10
  <2> QED  BY <2>14, <2>15, <2>16
<1> QED  BY <1>5, <1>6

\* The nearest whole number, and the larger one of two.
HalfUp(u, one) == (2 * u + one) \div (2 * one)

\* It is by the part left over.
LEMMA HalfUpIs ==
  ASSUME NEW one \in Nat \ {0}, NEW m \in Nat, NEW f \in 0 .. one - 1
  PROVE  /\ one * m + f \in Nat
         /\ HalfUp(one * m + f, one) = m + (IF 2 * f >= one THEN 1 ELSE 0)
<1> DEFINE u == one * m + f
           O == 2 * one
           M == O * m
           A == one * m
<1>1. A \in Nat /\ u = A + f /\ M = 2 * A /\ f \in Nat /\ O \in Nat \ {0}
  <2>1. A \in Nat /\ M = 2 * A  BY SMTT(20)
  <2> HIDE DEF A, M
  <2> QED  BY <2>1 DEF A
<1>2. HalfUp(u, one) = (2 * u + one) \div O  BY DEF HalfUp
<1>3. CASE 2 * f >= one
  <2> DEFINE q == m + 1
             g == 2 * f - one
  <2>1. q \in Nat /\ g \in 0 .. O - 1  BY <1>1, <1>3
  <2>2. O * q = M + O  BY SMTT(20)
  <2> DEFINE B == O * q
  <2> HIDE DEF A, M, u
  <2>3. B = M + O  BY <2>2
  <2> HIDE DEF B
  <2>4. B + g = 2 * u + one  BY <1>1, <2>3
  <2> HIDE DEF g, q, O
  <2>5. (O * q + g) \div O = q  BY <1>1, <2>1, DivideOnce
  <2>6. HalfUp(u, one) = q  BY <1>2, <2>4, <2>5 DEF B
  <2> QED  BY <1>1, <1>3, <2>6 DEF q, u
<1>4. CASE ~(2 * f >= one)
  <2> DEFINE g == 2 * f + one
  <2>1. g \in 0 .. O - 1  BY <1>1, <1>4
  <2> HIDE DEF A, M, u
  <2>2. M + g = 2 * u + one  BY <1>1
  <2> HIDE DEF g, O
  <2>3. (O * m + g) \div O = m  BY <1>1, <2>1, DivideOnce
  <2>4. HalfUp(u, one) = m  BY <1>2, <2>2, <2>3 DEF M
  <2> QED  BY <1>1, <1>4, <2>4 DEF u
<1> QED  BY <1>3, <1>4

\* The reference rounds half up when it rounds to the nearest or has nothing to round.
LEMMA RoundedIs ==
  ASSUME NEW a, NEW rounding \in 0 .. 3, Float!Units(a) \in Nat,
         rounding = 0 \/ Float!Units(a) % Two[Float!UnitPlace] = 0
  PROVE  Float!Rounded(a, rounding)
           = Signum(Float!Sign(a), HalfUp(Float!Units(a), Two[Float!UnitPlace]))
<1> DEFINE u == Float!Units(a)
           one == Two[Float!UnitPlace]
           down == u \div one
           up == IF u % one = 0 THEN down ELSE down + 1
           m == CASE rounding = 0 -> (2 * u + one) \div (2 * one)
                  [] rounding = 1 -> IF Float!Sign(a) THEN up ELSE down
                  [] rounding = 2 -> IF Float!Sign(a) THEN down ELSE up
                  [] OTHER        -> down
<1>1. Float!Rounded(a, rounding) = Signum(Float!Sign(a), m)
  BY FloatTwo DEF Float!Rounded, Signum
<1>2. one \in Nat \ {0}
  <2>1. Float!UnitPlace \in Nat  BY FloatSizes DEF Float!UnitPlace
  <2> QED  BY <2>1, TwoIs
<1> HIDE DEF u, one
<1>3. CASE rounding = 0
  <2>1. m = HalfUp(u, one)  BY <1>3 DEF HalfUp
  <2> HIDE DEF m
  <2> QED  BY <1>1, <2>1 DEF u, one
<1>4. CASE rounding # 0
  <2>1. u % one = 0 /\ u \in Nat  BY <1>4 DEF u, one
  <2>2. m = down
    <3> HIDE DEF down
    <3>1. up = down  BY <2>1
    <3> HIDE DEF up
    <3> QED  BY <1>4, <3>1
  <2>3. down \in Nat /\ u = one * down + (u % one)  BY <1>2, <2>1, Division
  <2>4. 0 \in 0 .. one - 1  BY <1>2
  <2> HIDE DEF m, down
  <2>5. HalfUp(one * down + 0, one) = down + (IF 2 * 0 >= one THEN 1 ELSE 0)
    BY <1>2, <2>3, <2>4, HalfUpIs
  <2>6. HalfUp(one * down + 0, one) = down  BY <1>2, <2>3, <2>5
  <2>7. u = one * down + 0  BY <2>1, <2>3
  <2>8. HalfUp(u, one) = down  BY <2>6, <2>7
  <2> QED  BY <1>1, <2>2, <2>8 DEF u, one
<1> QED  BY <1>3, <1>4

\* What CVT.SW makes of the parts of a float, rounding half to even.
EvenPart(p) == p.int + (IF p.round /\ (p.sticky \/ p.int % 2 = 1) THEN 1 ELSE 0)

\* A float of less than one.
LEMMA PartsSmall ==
  ASSUME NEW a \in Nat, Float!Exp(a) < Float!Bias, ~Float!EvenTie(a)
  PROVE  LET m == EvenPart(Float!Parts(a))
         IN  /\ m = HalfUp(Float!Units(a), Two[Float!UnitPlace])
             /\ m \in {0, 1} /\ Float!Units(a) \in Nat
<1> DEFINE O == Float!One
           B == Float!Bias
           i == Float!Exp(a)
           e == i - B
           S == Float!Significand(a)
           K == Float!Place(a)
           u == Float!Units(a)
           U == Float!UnitPlace
           one == Two[U]
           half == Two[U - 1]
           g == Two[K]
           p == Float!Parts(a)
<1>1. /\ O \in Nat \ {0, 1} /\ B \in Nat /\ B >= 3 /\ FRAC \in Nat \ {0} /\ O = Two[FRAC]
      /\ U = B - 1 + FRAC /\ U \in Nat \ {0}
  <2>1. U = B - 1 + FRAC  BY DEF Float!UnitPlace
  <2> QED  BY <2>1, FloatSizes
<1>2. one = 2 * half /\ half \in Nat \ {0} /\ U - 1 \in Nat  BY <1>1, TwoEven
<1>3. i \in Nat /\ Float!Frac(a) \in 0 .. O - 1 /\ i < B /\ e \in Int /\ e < 0
  <2>1. i \in Nat /\ Float!Frac(a) \in 0 .. O - 1
    <3>1. Float!ExpMod \in Nat  BY FloatSizes
    <3> QED  BY <3>1, FloatFields
  <2> QED  BY <1>1, <2>1
<1>4. S = (IF i # 0 THEN O + Float!Frac(a) ELSE Float!Frac(a)) /\ K = (IF i = 0 THEN 0 ELSE i - 1)
      /\ u = S * g
  BY FloatTwo DEF Float!Significand, Float!Place, Float!Units
<1>5. p = [int |-> 0, round |-> Float!Magnitude(a) # 0 /\ e = -1,
           sticky |-> IF e = -1 THEN Float!Frac(a) # 0 ELSE i > 0]
  BY <1>3 DEF Float!Parts
<1>6. Float!EvenTie(a) <=> u % Two[U + 1] = half  BY FloatTwo DEF Float!EvenTie
<1> DEFINE fr == Float!Frac(a)
<1> HIDE DEF fr, U, S, K, O, B, i, p
<1>7. S \in Nat /\ S < 2 * O /\ K \in Nat /\ (i = 0 => K = 0) /\ (i # 0 => S = O + fr /\ K = i - 1)
  <2>1. fr \in 0 .. O - 1  BY <1>3 DEF fr
  <2> QED  BY <1>1, <1>3, <1>4, <2>1 DEF fr
<1>8. g \in Nat \ {0}  BY <1>7, TwoIs
<1> HIDE DEF g, half, one, u
<1>9. u \in Nat /\ u + g <= (2 * O) * g
  <2> DEFINE Z == 2 * O
  <2>1. Z \in Nat /\ S < Z  BY <1>1, <1>7
  <2> HIDE DEF Z
  <2>2. S * g \in Nat /\ S * g + g <= Z * g  BY <1>7, <1>8, <2>1, Products
  <2> QED  BY <1>4, <2>2 DEF Z
<1>10. CASE e < -1
  <2>1. (2 * O) * g <= half
    <3> DEFINE j == FRAC + 1 + K
    <3>1. j \in Nat /\ j <= U - 1  BY <1>1, <1>3, <1>7, <1>10
    <3>2. Two[(FRAC + 1) + K] = Two[FRAC + 1] * Two[K] /\ Two[FRAC + 1] = 2 * Two[FRAC]
      <4>1. FRAC \in Nat /\ FRAC + 1 \in Nat  BY <1>1
      <4> QED  BY <1>7, <4>1, TwoSum, TwoIs
    <3> HIDE DEF j
    <3>3. Two[j] <= Two[U - 1]  BY <1>2, <3>1, TwoGrows
    <3>4. Two[j] = (2 * O) * g  BY <1>1, <3>2 DEF g, j
    <3> QED  BY <3>3, <3>4 DEF half
  <2>2. u < half
    <3> DEFINE X == (2 * O) * g
    <3>1. X \in Nat /\ u + g <= X /\ X <= half  BY <1>1, <1>8, <1>9, <2>1, SMTT(20)
    <3> HIDE DEF X
    <3> QED  BY <1>2, <1>8, <1>9, <3>1
  <2>3. u \in 0 .. one - 1 /\ ~(2 * u >= one) /\ one \in Nat \ {0}  BY <1>2, <1>9, <2>2
  <2>4. one * 0 + u = u  BY <1>9, <2>3
  <2>5. HalfUp(one * 0 + u, one) = 0 + (IF 2 * u >= one THEN 1 ELSE 0)  BY <2>3, HalfUpIs
  <2>6. HalfUp(u, one) = 0  BY <2>3, <2>4, <2>5
  <2>7. e # -1  BY <1>3, <1>10
  <2>8. p.int = 0 /\ ~p.round  BY <1>5, <2>7
  <2>9. EvenPart(p) = 0  BY <2>8 DEF EvenPart
  <2> QED  BY <1>9, <2>6, <2>9 DEF p, u, one, U
<1>11. CASE e = -1
  <2>1. i = B - 1 /\ i # 0 /\ K = B - 2  BY <1>1, <1>3, <1>7, <1>11
  <2>2. O * g = half
    <3>1. FRAC + K = U - 1 /\ FRAC \in Nat  BY <1>1, <2>1
    <3>2. Two[FRAC + K] = Two[FRAC] * Two[K]  BY <1>7, <3>1, TwoSum
    <3> QED  BY <1>1, <3>1, <3>2 DEF g, half
  <2>3. S = O + fr /\ fr \in Nat  BY <1>1, <1>3, <1>7, <2>1 DEF fr
  <2>4. O <= S /\ O * g <= S * g  BY <1>1, <1>7, <1>8, <2>3, Products
  <2>5. (2 * O) * g = one
    <3>1. (2 * O) * g = 2 * (O * g)  BY <1>1, <1>8, SMTT(20)
    <3> QED  BY <1>2, <2>2, <3>1
  <2>6. u >= half /\ u < one /\ one \in Nat \ {0}
    <3>1. half <= S * g  BY <2>2, <2>4
    <3>2. u + g <= one  BY <1>9, <2>5
    <3> QED  BY <1>2, <1>4, <1>8, <1>9, <3>1, <3>2
  <2>7. u % Two[U + 1] = u
    <3> DEFINE V == Two[U + 1]
    <3>1. V = 2 * one  BY <1>1, TwoIs DEF one
    <3> HIDE DEF V
    <3>2. V \in Nat \ {0} /\ u \in 0 .. V - 1 /\ 0 \in Nat  BY <1>9, <2>6, <3>1
    <3>3. (V * 0 + u) % V = u  BY <3>2, DivideOnce
    <3>4. V * 0 + u = u  BY <1>9, <3>2
    <3> QED  BY <3>3, <3>4 DEF V
  <2>8. u # half  BY <1>6, <2>7
  <2>9. fr # 0
    <3> SUFFICES ASSUME fr = 0
                 PROVE  FALSE
      OBVIOUS
    <3>1. S = O  BY <1>1, <2>3
    <3> QED  BY <1>4, <2>2, <2>8, <3>1
  <2>10. u \in 0 .. one - 1 /\ 2 * u >= one  BY <1>2, <1>9, <2>6
  <2>11. one * 0 + u = u  BY <1>9, <2>6
  <2>12. HalfUp(one * 0 + u, one) = 0 + (IF 2 * u >= one THEN 1 ELSE 0)
    BY <2>6, <2>10, HalfUpIs
  <2>13. HalfUp(u, one) = 1  BY <2>10, <2>11, <2>12
  <2>14. Float!Magnitude(a) # 0  BY <2>1, ZeroFields DEF i
  <2>15. p.int = 0 /\ p.round /\ p.sticky  BY <1>5, <1>11, <2>9, <2>14 DEF fr
  <2>16. EvenPart(p) = 1  BY <2>15 DEF EvenPart
  <2> QED  BY <1>9, <2>13, <2>16 DEF p, u, one, U
<1>12. e < -1 \/ e = -1  BY <1>3
<1> QED  BY <1>10, <1>11, <1>12

\* A whole number of halves of h, shifted down: the bit under it and the rest.
LEMMA ShiftedHalf ==
  ASSUME NEW S \in Nat, NEW h \in Nat \ {0}, S % (4 * h) # h
  PROVE  LET m == S \div (2 * h)
             f == S % (2 * h)
         IN  m + (IF (S \div h) % 2 = 1 /\ (S % h # 0 \/ m % 2 = 1) THEN 1 ELSE 0)
               = m + (IF 2 * f >= 2 * h THEN 1 ELSE 0)
<1> DEFINE w == 2 * h
           m == S \div w
           f == S % w
<1>1. w \in Nat \ {0} /\ w = 2 * h  OBVIOUS
<1> HIDE DEF w
<1>2. m \in Nat /\ f \in 0 .. w - 1 /\ S = w * m + f  BY <1>1, Division
<1> HIDE DEF m, f
<1>3. w * m = h * (2 * m)  BY <1>1, <1>2, SMTT(20)
<1>4. CASE f < h
  <2> DEFINE q == 2 * m
  <2>1. q \in Nat /\ f \in 0 .. h - 1 /\ S = h * q + f  BY <1>1, <1>2, <1>3, <1>4
  <2> HIDE DEF q
  <2>2. (h * q + f) \div h = q  BY <2>1, DivideOnce
  <2>3. S \div h = q  BY <2>1, <2>2
  <2>4. q % 2 = 0  BY <1>2 DEF q
  <2>5. (S \div h) % 2 = 0  BY <2>3, <2>4
  <2>6. ~(2 * f >= 2 * h)  BY <1>2, <1>4
  <2> QED  BY <2>5, <2>6 DEF m, f, w
<1>5. CASE f >= h
  <2> DEFINE q == 2 * m + 1
             r == f - h
  <2>1. q \in Nat /\ r \in 0 .. h - 1  BY <1>1, <1>2, <1>5
  <2>2. h * q = w * m + h
    <3>1. h * (2 * m + 1) = h * (2 * m) + h  BY <1>2, SMTT(20)
    <3> QED  BY <1>3, <3>1
  <2>3. S = h * q + r
    <3> DEFINE A == w * m
               B == h * q
    <3>1. A \in Nat /\ B = A + h /\ S = A + f  BY <1>1, <1>2, <2>2, SMTT(20)
    <3> HIDE DEF A, B
    <3>2. S = B + r  BY <1>2, <3>1
    <3> QED  BY <3>2 DEF B
  <2> HIDE DEF q, r
  <2>4. (h * q + r) \div h = q /\ (h * q + r) % h = r  BY <2>1, DivideOnce
  <2>5. S \div h = q /\ S % h = r  BY <2>3, <2>4
  <2>6. q % 2 = 1  BY <1>2 DEF q
  <2>7. r = 0 => m % 2 = 1
    <3> SUFFICES ASSUME r = 0, m % 2 # 1
                 PROVE  FALSE
      OBVIOUS
    <3> DEFINE V == 4 * h
    <3>1. PICK c \in Nat : m = 2 * c  BY <1>2
    <3>2. V \in Nat \ {0} /\ h \in 0 .. V - 1  OBVIOUS
    <3>3. f = h  BY <1>2 DEF r
    <3>4. w * (2 * c) = V * c  BY <1>1, <3>1, SMTT(20)
    <3>5. S = V * c + h  BY <1>2, <3>1, <3>3, <3>4
    <3> HIDE DEF V
    <3>6. (V * c + h) % V = h  BY <3>1, <3>2, DivideOnce
    <3>7. S % V = h  BY <3>5, <3>6
    <3> QED  BY <3>7 DEF V
  <2>8. 2 * f >= 2 * h  BY <1>2, <1>5
  <2>9. (S \div h) % 2 = 1 /\ (S % h # 0 \/ m % 2 = 1)  BY <2>5, <2>6, <2>7
  <2> QED  BY <2>8, <2>9 DEF m, f, w
<1> QED  BY <1>1, <1>2, <1>4, <1>5

\* What is left of a division.
Rest(x, w) == x % w

\* Scaling does not change what is left over.
LEMMA HalfUpScale ==
  ASSUME NEW S \in Nat, NEW h \in Nat \ {0}, NEW g \in Nat \ {0}
  PROVE  /\ S * g \in Nat /\ h * g \in Nat \ {0} /\ HalfUp(S * g, h * g) = HalfUp(S, h)
         /\ Rest(S * g, h * g) = Rest(S, h) * g
<1> DEFINE m == S \div h
           f == S % h
           H == h * g
           F == f * g
<1>1. m \in Nat /\ f \in 0 .. h - 1 /\ S = h * m + f  BY Division
<1> HIDE DEF m, f
<1>2. S * g \in Nat /\ H \in Nat \ {0}  BY SMTT(20)
<1>3. F \in Nat /\ F + g <= H /\ S * g = H * m + F
  <2>1. f \in Nat /\ f < h  BY <1>1
  <2>2. F \in Nat /\ F + g <= H  BY <2>1, Products
  <2>3. (h * m + f) * g = (h * g) * m + f * g  BY <1>1, <2>1, SMTT(20)
  <2> QED  BY <1>1, <2>2, <2>3
<1>4. 2 * f >= h <=> 2 * F >= H
  <2> DEFINE d == 2 * f
  <2>1. d \in Nat  BY <1>1
  <2>2. d * g = 2 * F  BY <1>1, SMTT(20)
  <2> HIDE DEF d, F, H
  <2>3. (h <= d => h * g <= d * g) /\ (d < h => d * g + g <= h * g) /\ d * g \in Nat
    BY <2>1, Products
  <2> DEFINE D == d * g
  <2>4. D \in Nat /\ (h <= d => H <= D) /\ (d < h => D + g <= H)  BY <2>3 DEF H
  <2> HIDE DEF D
  <2>5. h <= d <=> H <= D  BY <1>2, <2>1, <2>4
  <2> QED  BY <1>2, <1>3, <2>1, <2>2, <2>5 DEF d, D
<1> HIDE DEF F, H
<1>5. F \in 0 .. H - 1  BY <1>2, <1>3
<1>6. /\ HalfUp(h * m + f, h) = m + (IF 2 * f >= h THEN 1 ELSE 0)
      /\ HalfUp(H * m + F, H) = m + (IF 2 * F >= H THEN 1 ELSE 0)
  BY <1>1, <1>2, <1>5, HalfUpIs
<1>7. (H * m + F) % H = F  BY <1>1, <1>2, <1>5, DivideOnce
<1>8. Rest(S * g, h * g) = Rest(S, h) * g
  <2>1. Rest(S * g, h * g) = (S * g) % H /\ Rest(S, h) = f  BY DEF Rest, H, f
  <2>2. (S * g) % H = F  BY <1>3, <1>7
  <2> QED  BY <2>1, <2>2 DEF F
<1> QED  BY <1>1, <1>2, <1>3, <1>4, <1>6, <1>8 DEF H, F, f

\* A float of at least one that is within a word.
LEMMA PartsLarge ==
  ASSUME NEW a \in Nat, Float!Exp(a) >= Float!Bias, ~Float!EvenTie(a),
         Float!Units(a) < Float!Top * Two[Float!UnitPlace]
  PROVE  LET m == EvenPart(Float!Parts(a))
         IN  /\ m = HalfUp(Float!Units(a), Two[Float!UnitPlace])
             /\ m \in 0 .. Float!Top - 1 /\ Float!Units(a) \in Nat
<1> DEFINE O == Float!One
           B == Float!Bias
           T == Float!Top
           i == Float!Exp(a)
           e == i - B
           S == O + Float!Frac(a)
           K == i - 1
           u == Float!Units(a)
           U == Float!UnitPlace
           one == Two[U]
           right == FRAC - e
           g == Two[K]
           p == Float!Parts(a)
<1>1. /\ O \in Nat \ {0, 1} /\ B \in Nat /\ B >= 3 /\ FRAC \in Nat \ {0} /\ EXP \in Nat /\ O = Two[FRAC]
      /\ U = B - 1 + FRAC /\ U \in Nat /\ T \in Nat \ {0} /\ 4 * O <= T /\ T = Two[EXP + FRAC]
  <2>1. U = B - 1 + FRAC  BY DEF Float!UnitPlace
  <2>2. T = Float!ExpMod * O /\ O \in Nat /\ Float!ExpMod \in Nat /\ 4 <= Float!ExpMod  BY FloatSizes
  <2>3. 4 * O <= Float!ExpMod * O  BY <2>2, Products
  <2>4. T = Two[EXP + FRAC]  BY FloatTwo DEF Float!Top
  <2> QED  BY <2>1, <2>2, <2>3, <2>4, FloatSizes
<1>2. one \in Nat \ {0}  BY <1>1, TwoIs
<1>3. i \in Nat /\ Float!Frac(a) \in 0 .. O - 1 /\ e \in Nat /\ i # 0 /\ K \in Nat /\ K = e + B - 1
  <2>1. i \in Nat /\ Float!Frac(a) \in 0 .. O - 1
    <3>1. Float!ExpMod \in Nat  BY FloatSizes
    <3> QED  BY <3>1, FloatFields
  <2> QED  BY <1>1, <2>1
<1>4. u = S * g
  BY <1>3, FloatTwo DEF Float!Significand, Float!Place, Float!Units
<1>5. p = IF e >= EXP + FRAC THEN [int |-> T - 1, round |-> FALSE, sticky |-> FALSE]
          ELSE IF right <= 0 THEN [int |-> S * Two[-right], round |-> FALSE, sticky |-> FALSE]
          ELSE [int |-> S \div Two[right], round |-> (S \div Two[right - 1]) % 2 = 1,
                sticky |-> S % Two[right - 1] # 0]
  BY <1>3, FloatTwo DEF Float!Parts
<1>6. S \in O .. 2 * O - 1  BY <1>1, <1>3
<1>7. Float!EvenTie(a) <=> u % Two[U + 1] = Two[U - 1]  BY FloatTwo DEF Float!EvenTie
<1> HIDE DEF p, S, O, T, B, U, i, K
<1>8. g \in Nat \ {0} /\ S \in Nat  BY <1>1, <1>3, <1>6, TwoIs
<1> HIDE DEF u, g, one
<1>9. u \in Nat
  <2>1. S * g \in Nat  BY <1>8, Products
  <2> QED  BY <1>4, <2>1
<1>10. u < T * one  BY DEF u, T, one, U
<1>11. CASE e >= EXP + FRAC
  <2> DEFINE j == FRAC + K
             l == (EXP + FRAC) + U
  <2>1. j \in Nat /\ l \in Nat /\ l <= j /\ EXP + FRAC \in Nat  BY <1>1, <1>3, <1>11
  <2>2. Two[FRAC + K] = O * g  BY <1>1, <1>3, TwoSum DEF g
  <2>3. Two[(EXP + FRAC) + U] = T * one  BY <1>1, <2>1, TwoSum DEF one
  <2> HIDE DEF j, l
  <2>4. Two[l] <= Two[j]  BY <2>1, TwoGrows
  <2>5. O * g <= S * g /\ O * g \in Nat  BY <1>1, <1>6, <1>8, Products
  <2>6. T * one \in Nat  BY <1>1, <1>2, SMTT(20)
  <2> DEFINE X == O * g
             Y == T * one
  <2>7. X \in Nat /\ Y \in Nat /\ Y <= X /\ X <= u /\ u < Y
    BY <1>4, <1>10, <2>2, <2>3, <2>4, <2>5, <2>6 DEF j, l
  <2> HIDE DEF X, Y
  <2>8. FALSE  BY <1>9, <2>7
  <2> QED  BY <2>8
<1>12. CASE ~(e >= EXP + FRAC) /\ right <= 0
  <2> DEFINE j == -right
             w == Two[j]
             N == S * w
  <2>1. j \in Nat /\ K = j + U  BY <1>1, <1>3, <1>12
  <2>2. g = w * one /\ w \in Nat
    <3> HIDE DEF j
    <3>1. Two[j + U] = Two[j] * Two[U] /\ Two[j] \in Nat  BY <1>1, <2>1, TwoSum, TwoIs
    <3> QED  BY <2>1, <3>1 DEF g, one
  <2>3. p = [int |-> N, round |-> FALSE, sticky |-> FALSE]  BY <1>5, <1>12
  <2>4. p.int = N /\ ~p.round  BY <2>3
  <2> HIDE DEF w
  <2>5. N \in Nat /\ S * (w * one) = N * one /\ N * one = one * N  BY <1>2, <1>8, <2>2, SMTT(20)
  <2> HIDE DEF N
  <2>6. u = one * N + 0
    <3> DEFINE X == one * N
    <3>1. u = X /\ u \in Nat  BY <1>4, <1>9, <2>2, <2>5
    <3> HIDE DEF X
    <3>2. u = X + 0  BY <3>1
    <3> QED  BY <3>2 DEF X
  <2>7. 0 \in 0 .. one - 1 /\ ~(2 * 0 >= one)  BY <1>2
  <2>8. HalfUp(one * N + 0, one) = N
    <3>1. HalfUp(one * N + 0, one) = N + (IF 2 * 0 >= one THEN 1 ELSE 0)
      BY <1>2, <2>5, <2>7, HalfUpIs
    <3> QED  BY <2>5, <2>7, <3>1
  <2>9. HalfUp(u, one) = N  BY <2>6, <2>8
  <2>10. EvenPart(p) = N  BY <2>4, <2>5 DEF EvenPart
  <2>11. N < T
    <3>1. N * one < T * one
      <4>1. N * one = u  BY <1>4, <2>2, <2>5
      <4> QED  BY <1>10, <4>1
    <3> QED  BY <1>1, <1>2, <2>5, <3>1, Cancel
  <2>12. N \in 0 .. T - 1  BY <1>1, <2>5, <2>11
  <2> QED  BY <1>9, <2>9, <2>10, <2>12 DEF p, u, one, U, T
<1>13. CASE ~(e >= EXP + FRAC) /\ ~(right <= 0)
  <2> DEFINE h == Two[right - 1]
             m == S \div (2 * h)
             f == S % (2 * h)
             H == 2 * h
             q == EvenPart(p)
  <2>1. right \in Nat \ {0} /\ right - 1 \in Nat /\ U = right + K  BY <1>1, <1>3, <1>13
  <2>2. Two[right] = H /\ h \in Nat \ {0}  BY <2>1, TwoEven
  <2>3. p = [int |-> S \div Two[right], round |-> (S \div Two[right - 1]) % 2 = 1,
             sticky |-> S % Two[right - 1] # 0]
    BY <1>5, <1>13
  <2>4. /\ p.int = m /\ (p.round <=> (S \div h) % 2 = 1) /\ (p.sticky <=> S % h # 0)
    <3>1. /\ p.int = S \div Two[right]
          /\ p.round <=> (S \div Two[right - 1]) % 2 = 1
          /\ p.sticky <=> S % Two[right - 1] # 0
      BY <2>3
    <3> QED  BY <2>2, <3>1
  <2>5. one = H * g /\ Two[U - 1] = h * g /\ Two[U + 1] = (4 * h) * g
    <3>1. Two[right + K] = Two[right] * Two[K] /\ Two[(right - 1) + K] = Two[right - 1] * Two[K]
      BY <1>3, <2>1, TwoSum
    <3>2. U - 1 = (right - 1) + K  BY <1>3, <2>1
    <3>3. one = H * g  BY <2>1, <2>2, <3>1 DEF one, g
    <3>4. Two[U - 1] = h * g  BY <3>1, <3>2 DEF g
    <3>5. Two[U + 1] = 2 * one  BY <1>1, TwoIs DEF one
    <3> HIDE DEF h
    <3>6. 2 * ((2 * h) * g) = (4 * h) * g  BY <1>8, <2>2, SMTT(20)
    <3> QED  BY <3>3, <3>4, <3>5, <3>6
  <2> HIDE DEF h
  <2>6. S % (4 * h) # h
    <3> SUFFICES ASSUME S % (4 * h) = h
                 PROVE  FALSE
      OBVIOUS
    <3> DEFINE Q == 4 * h
    <3>1. Q \in Nat \ {0} /\ S % Q = h  BY <2>2
    <3> HIDE DEF Q
    <3>2. Q \in Nat \ {0}  BY <3>1
    <3>3. Rest(S * g, Q * g) = Rest(S, Q) * g  BY <1>8, <3>2, HalfUpScale
    <3>4. (S * g) % (Q * g) = h * g  BY <3>1, <3>3 DEF Rest
    <3> QED  BY <1>4, <1>7, <2>5, <3>4 DEF Q
  <2>7. q = m + (IF 2 * f >= 2 * h THEN 1 ELSE 0)
    <3>1. q = m + (IF (S \div h) % 2 = 1 /\ (S % h # 0 \/ m % 2 = 1) THEN 1 ELSE 0)
      <4> HIDE DEF m
      <4> QED  BY <2>4 DEF EvenPart
    <3> HIDE DEF q
    <3> QED  BY <1>8, <2>2, <2>6, <3>1, ShiftedHalf
  <2>8. H \in Nat \ {0} /\ m \in Nat /\ f \in 0 .. H - 1 /\ S = H * m + f
    <3>1. H \in Nat \ {0}  BY <2>2
    <3> HIDE DEF H
    <3>2. S \div H \in Nat /\ S % H \in 0 .. H - 1 /\ S = H * (S \div H) + (S % H)
      BY <1>8, <3>1, Division
    <3> QED  BY <3>1, <3>2 DEF H
  <2> HIDE DEF q, m, f, H
  <2>9. HalfUp(u, one) = q
    <3>1. HalfUp(S * g, H * g) = HalfUp(S, H)  BY <1>8, <2>8, HalfUpScale
    <3>2. HalfUp(H * m + f, H) = m + (IF 2 * f >= H THEN 1 ELSE 0)  BY <2>8, HalfUpIs
    <3>3. HalfUp(S, H) = q  BY <2>7, <2>8, <3>2 DEF H
    <3> QED  BY <1>4, <2>5, <3>1, <3>3
  <2>10. q \in 0 .. T - 1
    <3>1. 2 <= H /\ H * m = m * H  BY <2>2, <2>8, SMTT(20) DEF H
    <3>2. 2 * m <= H * m /\ H * m \in Nat  BY <2>8, <3>1, Products
    <3> DEFINE X == H * m
    <3>3. X \in Nat /\ 2 * m <= X /\ X <= S
      <4>1. X \in Nat /\ 2 * m <= X  BY <3>2
      <4>2. S = X + f /\ f \in Nat  BY <2>8
      <4> HIDE DEF X
      <4> QED  BY <4>1, <4>2
    <3> HIDE DEF X
    <3>4. m < O  BY <1>1, <1>6, <2>8, <3>3
    <3>5. q \in {m, m + 1}  BY <2>7, <2>8
    <3> QED  BY <1>1, <2>8, <3>4, <3>5
  <2> QED  BY <1>9, <2>9, <2>10 DEF q, p, u, one, U, T
<1> QED  BY <1>11, <1>12, <1>13

\* The outcome o is the outcome w but for what is unlike.
AgreeBut(o, w, unlike) ==
  /\ "reg" \in unlike \/ o.result = w.result
  /\ \A n \in {"z", "s", "ov", "cy"} \ unlike : o.flags[n] = w.flags[n]

\* CVT.SW rounds as the reference does what is not half way above an even number and is
\* within a word.
LEMMA WordRounded ==
  ASSUME NEW a \in Nat, NEW b, NEW rounding \in 0 .. 3, rounding = 0 \/ Float!IsInteger(a),
         ~Float!EvenTie(a), Float!Units(a) < Half["SZ_WORD"] * Two[Float!UnitPlace]
  PROVE  AgreeBut(Float!FpuOutcome("FP_CVTSW", a, b, 0),
                Float!RefFloat("FP_CVTSW", a, b, rounding), {})
<1> DEFINE T == Float!Top
           W == Float!WordMod
           u == Float!Units(a)
           m == EvenPart(Float!Parts(a))
           neg == Float!Sign(a)
           q == Float!ToWord(a, 0)
           v == Float!Rounded(a, rounding)
           r == v % W
           fit == (Float!Sign(q) /\ ~neg) \/ (~Float!Sign(q) /\ neg /\ ~(q = 0))
           fits == (Float!Sign(r) /\ v >= 0) \/ (~Float!Sign(r) /\ v < 0)
<1>1. W = 2 * T /\ T \in Nat \ {0, 1} /\ Half["SZ_WORD"] = T
  <2>1. W = 2 * T /\ T \in Nat \ {0} /\ T = Float!ExpMod * Float!One  BY FloatSizes
  <2>2. Mod("SZ_WORD") = 2 * Half["SZ_WORD"] /\ Half["SZ_WORD"] \in Nat
    BY SizeAssumption DEF Mod, Size
  <2>3. Mod("SZ_WORD") = W  BY RegisterWord
  <2>4. 4 <= Float!ExpMod /\ Float!ExpMod \in Nat /\ Float!One \in Nat \ {0}  BY FloatSizes
  <2>5. 4 * Float!One <= Float!ExpMod * Float!One  BY <2>4, Products
  <2> HIDE DEF T, W
  <2> QED  BY <2>1, <2>2, <2>3, <2>4, <2>5
<1>2. m = HalfUp(u, Two[Float!UnitPlace]) /\ m \in 0 .. T - 1 /\ u \in Nat
  <2>1. Float!Exp(a) \in Nat /\ Float!Bias \in Nat
    <3>1. Float!ExpMod \in Nat /\ Float!Bias \in Nat  BY FloatSizes
    <3> QED  BY <3>1, FloatFields
  <2>2. CASE Float!Exp(a) < Float!Bias
    <3>1. m = HalfUp(u, Two[Float!UnitPlace]) /\ m \in {0, 1} /\ u \in Nat  BY <2>2, PartsSmall
    <3> HIDE DEF m, u, T
    <3> QED  BY <1>1, <3>1
  <2>3. CASE Float!Exp(a) >= Float!Bias  BY <1>1, <2>3, PartsLarge
  <2> QED  BY <2>1, <2>2, <2>3
<1>3. v = Signum(neg, m)
  <2>1. rounding = 0 \/ u % Two[Float!UnitPlace] = 0  BY FloatTwo DEF Float!IsInteger
  <2> QED  BY <1>2, <2>1, RoundedIs
<1>4. q = IF neg THEN (-m) % W ELSE m
  <2> DEFINE p == Float!Parts(a)
             up == CASE 0 = 0 -> p.round /\ (p.sticky \/ p.int % 2 = 1)
                     [] 0 = 1 -> Float!Sign(a) /\ (p.round \/ p.sticky)
                     [] 0 = 2 -> ~Float!Sign(a) /\ (p.round \/ p.sticky)
                     [] OTHER -> FALSE
             n == p.int + (IF up THEN 1 ELSE 0)
  <2>1. q = IF neg THEN (-n) % W ELSE n  BY DEF Float!ToWord
  <2> HIDE DEF p
  <2>2. n = m  BY DEF EvenPart, p
  <2> QED  BY <2>1, <2>2
<1>5. neg \in BOOLEAN /\ (\A z : Float!Sign(z) = (z >= T))  BY DEF Float!Sign
<1> HIDE DEF m, u, neg, T, W, q, v
<1>6. /\ q = r /\ (Float!Sign(q) <=> neg /\ m # 0) /\ (q = 0 <=> m = 0)
      /\ (v < 0 <=> neg /\ m # 0) /\ (v >= 0 <=> ~(v < 0))
  <2>1. CASE ~neg
    <3>1. v = m /\ q = m  BY <1>3, <1>4, <2>1 DEF Signum
    <3>2. m % W = m  BY <1>1, <1>2, SMTT(20)
    <3>3. ~(m >= T) /\ ~(m < 0) /\ m >= 0  BY <1>1, <1>2
    <3> QED  BY <1>5, <2>1, <3>1, <3>2, <3>3
  <2>2. CASE neg
    <3> DEFINE t == -m
    <3>1. v = t /\ q = t % W  BY <1>3, <1>4, <2>2 DEF Signum
    <3>2. t \in Int /\ -2 * T <= t /\ t < 4 * T /\ (t < 0 <=> m # 0) /\ (t = 0 <=> m = 0)
          /\ (t >= 0 <=> ~(t < 0)) /\ t > -T
      BY <1>1, <1>2
    <3> HIDE DEF t
    <3>3. CASE m = 0
      <4>1. t % (2 * T) = t  BY <1>1, <3>2, <3>3, ModOnce
      <4>2. q = 0 /\ r = 0 /\ ~(0 >= T)  BY <1>1, <3>1, <3>2, <3>3, <4>1
      <4> QED  BY <1>5, <2>2, <3>1, <3>2, <3>3, <4>2
    <3>4. CASE m # 0
      <4>1. t % (2 * T) = t + 2 * T  BY <1>1, <3>2, <3>4, ModOnce
      <4>2. q = t + W /\ r = t + W  BY <1>1, <3>1, <4>1
      <4>3. t + W >= T /\ t + W # 0  BY <1>1, <3>2
      <4> QED  BY <1>5, <2>2, <3>1, <3>2, <3>4, <4>2, <4>3
    <3> QED  BY <3>3, <3>4
  <2> QED  BY <2>1, <2>2
<1>7. fit = FALSE /\ fits = FALSE
  <2>1. Float!Sign(r) <=> Float!Sign(q)  BY <1>6
  <2> HIDE DEF r
  <2> QED  BY <1>6, <2>1
<1>8. LET n == Float!FpuOutcome("FP_CVTSW", a, b, 0)
      IN  /\ n.result = q /\ n.flags.z = (q = 0) /\ n.flags.s = Float!Sign(q)
          /\ n.flags.ov = fit /\ n.flags.cy = FALSE
  <2> DEFINE o == Float!FpResult(q)
             x == (o.flags.s /\ ~neg) \/ (~o.flags.s /\ neg /\ ~o.flags.z)
  <2>1. Float!FpuOutcome("FP_CVTSW", a, b, 0) = [o EXCEPT !.flags.ov = x]
    BY DEF Float!FpuOutcome, q, neg
  <2>2. o = [result |-> q, flags |-> Float!FpFlags(q = 0, Float!Sign(q), FALSE, FALSE)]
    BY DEF Float!FpResult
  <2>3. o.flags.s = Float!Sign(q) /\ o.flags.z = (q = 0)  BY <2>2 DEF Float!FpFlags
  <2> HIDE DEF o
  <2>4. x = fit  BY <2>3
  <2> HIDE DEF x, fit
  <2> DEFINE z == (q = 0)
             s == Float!Sign(q)
             n == [o EXCEPT !.flags.ov = fit]
  <2> HIDE DEF z, s
  <2>5. n.result = q /\ n.flags = [o.flags EXCEPT !.ov = fit] /\ o.flags = Float!FpFlags(z, s, FALSE, FALSE)
    BY <2>2 DEF z, s
  <2> HIDE DEF n
  <2>6. n.flags.z = z /\ n.flags.s = s /\ n.flags.ov = fit /\ n.flags.cy = FALSE
    BY <2>5 DEF Float!FpFlags
  <2> QED  BY <2>1, <2>4, <2>5, <2>6 DEF n, z, s
<1>9. LET n == Float!RefFloat("FP_CVTSW", a, b, rounding)
      IN  /\ n.result = r /\ n.flags.z = (r = 0) /\ n.flags.s = Float!Sign(r)
          /\ n.flags.ov = fits /\ n.flags.cy = FALSE
  <2>1. Float!RefFloat("FP_CVTSW", a, b, rounding)
          = [result |-> r, flags |-> Float!FpFlags(r = 0, Float!Sign(r), fits, FALSE)]
    BY DEF Float!RefFloat, v, W
  <2> HIDE DEF r, fits
  <2> QED  BY <2>1 DEF Float!FpFlags
<1> HIDE DEF fit, fits
<1> QED  BY <1>6, <1>7, <1>8, <1>9 DEF AgreeBut

-----------------------------------------------------------------------------
(* Every instruction.                                                      *)

\* The cases in which a floating-point instruction is listed as unlike the reference.
LEMMA UnlikeWhen ==
  ASSUME NEW i, NEW b, NEW tkcw, NEW r
  PROVE  LET a == i.src
             U == UnlikeFloat(i, b, tkcw, r)
             all == {"reg", "z", "s"}
             sum == i.op \in {"FP_ADDF", "FP_SUBF"}
             few == /\ Float!Magnitude(r) <= Float!LeastNormal
                    /\ r # 0
         IN  /\ \/ i.op = "FP_SCLF" /\ ~Float!Ordinary(b)
                \/ /\ i.op \in {"FP_ADDF", "FP_SUBF", "FP_CMPF", "FP_MULF", "FP_DIVF"}
                   /\ ~(Float!Ordinary(a) /\ Float!Ordinary(b))
                => all \subseteq U
             /\ sum /\ Float!Magnitude(r) < Float!LeastNormal /\ r # 0 => all \subseteq U
             /\ sum /\ (~Float!Number(r) \/ Float!Drops(a, b)) => all \subseteq U
             /\ i.op \in {"FP_MULF", "FP_DIVF", "FP_SCLF"} /\ (few \/ ~Float!Number(r)) =>
                  all \subseteq U
             /\ i.op = "FP_CMPF" /\ Abs(Float!Value(b) - Float!Value(a)) < Float!LeastNormal =>
                  {"z", "s"} \subseteq U
             /\ i.op = "FP_MULF" /\ Float!Wraps(a, b) => "reg" \in U
             /\ i.op = "FP_DIVF" => "reg" \in U
             /\ i.op = "FP_NEGF" /\ Float!Magnitude(a) = 0 => "cy" \in U
             /\ i.op = "FP_ABSF" /\ Float!Magnitude(a) = 0 => {"reg", "s"} \subseteq U
             /\ /\ i.op = "FP_CVTSW"
                /\ \/ tkcw # 0 /\ ~Float!IsInteger(a)
                   \/ Float!EvenTie(a)
                   \/ Float!Units(a) >= Half["SZ_WORD"] * Two[Float!UnitPlace]
                => all \cup {"ov"} \subseteq U
<1> DEFINE a == i.src
           U == UnlikeFloat(i, b, tkcw, r)
           all == {"reg", "z", "s"}
           sum == i.op \in {"FP_ADDF", "FP_SUBF"}
           c1 == \/ i.op = "FP_SCLF" /\ ~Float!Ordinary(b)
                 \/ /\ sum \/ i.op \in {"FP_CMPF", "FP_MULF", "FP_DIVF"}
                    /\ ~(Float!Ordinary(a) /\ Float!Ordinary(b))
           c2 == /\ sum
                 /\ (Float!Magnitude(r) < Float!LeastNormal /\ r # 0) \/ ~Float!Number(r)
           c3 == /\ i.op \in {"FP_MULF", "FP_DIVF", "FP_SCLF"}
                 /\ (Float!Magnitude(r) <= Float!LeastNormal /\ r # 0) \/ ~Float!Number(r)
           c4 == i.op = "FP_CMPF" /\ Abs(Float!Value(b) - Float!Value(a)) < Float!LeastNormal
           c5 == sum /\ Float!Drops(a, b)
           c6 == i.op = "FP_MULF" /\ Float!Wraps(a, b)
           c7 == i.op = "FP_DIVF"
           c8 == i.op = "FP_NEGF" /\ Float!Magnitude(a) = 0
           c9 == i.op = "FP_ABSF" /\ Float!Magnitude(a) = 0
           c10 == /\ i.op = "FP_CVTSW"
                  /\ \/ tkcw # 0 /\ ~Float!IsInteger(a)
                     \/ Float!EvenTie(a)
                     \/ Float!Units(a) >= Half["SZ_WORD"] * Two[Float!UnitPlace]
<1>1. U = UNION {IF c1 THEN all ELSE {}, IF c2 THEN all ELSE {}, IF c3 THEN all ELSE {},
                 IF c4 THEN {"z", "s"} ELSE {}, IF c5 THEN all ELSE {}, IF c6 THEN {"reg"} ELSE {},
                 IF c7 THEN {"reg"} ELSE {}, IF c8 THEN {"cy"} ELSE {},
                 IF c9 THEN {"reg", "s"} ELSE {}, IF c10 THEN all \cup {"ov"} ELSE {}}
  BY DEF UnlikeFloat
<1> HIDE DEF U, c1, c2, c3, c4, c5, c6, c7, c8, c9, c10
<1>2. /\ c1 => all \subseteq U
      /\ c2 => all \subseteq U
      /\ c3 => all \subseteq U
      /\ c4 => {"z", "s"} \subseteq U
      /\ c5 => all \subseteq U
      /\ c6 => {"reg"} \subseteq U
      /\ c7 => {"reg"} \subseteq U
      /\ c8 => {"cy"} \subseteq U
      /\ c9 => {"reg", "s"} \subseteq U
      /\ c10 => all \cup {"ov"} \subseteq U
  <2>1. c1 => all \subseteq U  BY <1>1
  <2>2. c2 => all \subseteq U  BY <1>1
  <2>3. c3 => all \subseteq U  BY <1>1
  <2>4. c4 => {"z", "s"} \subseteq U  BY <1>1
  <2>5. c5 => all \subseteq U  BY <1>1
  <2>6. c6 => {"reg"} \subseteq U  BY <1>1
  <2>7. c7 => {"reg"} \subseteq U  BY <1>1
  <2>8. c8 => {"cy"} \subseteq U  BY <1>1
  <2>9. c9 => {"reg", "s"} \subseteq U  BY <1>1
  <2>10. c10 => all \cup {"ov"} \subseteq U  BY <1>1
  <2> QED  BY <2>1, <2>2, <2>3, <2>4, <2>5, <2>6, <2>7, <2>8, <2>9, <2>10
<1> QED  BY <1>2 DEF c1, c2, c3, c4, c5, c6, c7, c8, c9, c10, U

\* Two results whose flags are those of their words: they may differ where it is listed.
LEMMA WordsAgree ==
  ASSUME NEW q, NEW r, NEW unlike,
         \/ q = r
         \/ {"reg", "z", "s"} \subseteq unlike
         \/ "reg" \in unlike /\ (q = 0 <=> r = 0) /\ Float!Sign(q) = Float!Sign(r)
  PROVE  AgreeBut(Float!FpResult(q), Float!ByWord(r), unlike)
<1> DEFINE Q == Float!FpResult(q)
           R == Float!ByWord(r)
<1>1. /\ Q.result = q /\ Q.flags.z = (q = 0) /\ Q.flags.s = Float!Sign(q)
      /\ Q.flags.ov = FALSE /\ Q.flags.cy = FALSE
  BY DEF Float!FpResult, Float!FpFlags
<1>2. /\ R.result = r /\ R.flags.z = (r = 0) /\ R.flags.s = Float!Sign(r)
      /\ R.flags.ov = FALSE /\ R.flags.cy = FALSE
  BY DEF Float!ByWord, Float!FpFlags
<1> HIDE DEF Q, R
<1>3. CASE q = r  BY <1>1, <1>2, <1>3 DEF AgreeBut, Q, R
<1>4. CASE {"reg", "z", "s"} \subseteq unlike  BY <1>1, <1>2, <1>4 DEF AgreeBut, Q, R
<1>5. CASE "reg" \in unlike /\ (q = 0 <=> r = 0) /\ Float!Sign(q) = Float!Sign(r)
  <2>1. (q = 0) = (r = 0)  BY <1>5
  <2> QED  BY <1>1, <1>2, <1>5, <2>1 DEF AgreeBut, Q, R
<1> QED  BY <1>3, <1>4, <1>5

\* What a floating-point operation leaves of the operand a and of b agrees with the reference
\* under the rounding mode tkcw, in all but what is listed.
FloatAgrees(i, b, tkcw) ==
  LET w == Float!RefFloat(i.op, i.src, b, tkcw)
  IN  AgreeBut(Float!FpuOutcome(i.op, i.src, b, 0), w, UnlikeFloat(i, b, tkcw, w.result))

\* Sums and differences.
LEMMA SumsAgree ==
  ASSUME NEW i, i.src \in Register, NEW b \in Register, NEW tkcw, i.op \in {"FP_ADDF", "FP_SUBF"}
  PROVE  FloatAgrees(i, b, tkcw)
<1> DEFINE a   == i.src
           sub == i.op = "FP_SUBF"
           q   == Float!AddSub(a, b, sub)
           r   == Float!Sum(IF sub THEN Float!Opposite(a) ELSE a, b)
           w   == Float!RefFloat(i.op, a, b, tkcw)
           U   == UnlikeFloat(i, b, tkcw, r)
<1>1. Float!FpuOutcome(i.op, a, b, 0) = Float!FpResult(q)
  <2>1. CASE i.op = "FP_ADDF"
    <3>1. sub = FALSE  BY <2>1
    <3> HIDE DEF sub
    <3> QED  BY <2>1, <3>1 DEF Float!FpuOutcome
  <2>2. CASE i.op = "FP_SUBF"
    <3>1. sub = TRUE  BY <2>2
    <3> HIDE DEF sub
    <3> QED  BY <2>2, <3>1 DEF Float!FpuOutcome
  <2> QED  BY <2>1, <2>2
<1>2. w = Float!ByWord(r)
  <2>1. CASE i.op = "FP_ADDF"  BY <2>1 DEF Float!RefFloat
  <2>2. CASE i.op = "FP_SUBF"  BY <2>2 DEF Float!RefFloat
  <2> QED  BY <2>1, <2>2
<1>3. w.result = r  BY <1>2 DEF Float!ByWord
<1>4. q = r \/ {"reg", "z", "s"} \subseteq U
  <2>1. CASE ~(Float!Ordinary(a) /\ Float!Ordinary(b))  BY <2>1, UnlikeWhen
  <2>2. CASE Float!Drops(a, b)  BY <2>2, UnlikeWhen
  <2>3. CASE Float!Ordinary(a) /\ Float!Ordinary(b) /\ ~Float!Drops(a, b)
    <3>1. sub \in BOOLEAN  OBVIOUS
    <3> HIDE DEF sub
    <3>2. r = q \/ (Float!Magnitude(r) < Float!LeastNormal /\ r # 0) \/ ~Float!Number(r)
      BY <2>3, <3>1, SumNearest
    <3> HIDE DEF q, r
    <3> QED  BY <3>2, UnlikeWhen
  <2> QED  BY <2>1, <2>2, <2>3
<1> HIDE DEF U, q, r, w
<1>5. AgreeBut(Float!FpResult(q), Float!ByWord(r), U)  BY <1>4, WordsAgree
<1> QED  BY <1>1, <1>2, <1>3, <1>5 DEF FloatAgrees, U, w

\* Products, quotients and scaled numbers.
LEMMA ProductsAgree ==
  ASSUME NEW i, i.src \in Register, NEW b \in Register, NEW tkcw,
         i.op \in {"FP_MULF", "FP_DIVF", "FP_SCLF"}, Float!RefFloatDefined(i.op, i.src, b)
  PROVE  FloatAgrees(i, b, tkcw)
<1> DEFINE a == i.src
           q == CASE i.op = "FP_MULF" -> Float!Multiply(a, b)
                  [] i.op = "FP_DIVF" -> Float!Divide(a, b)
                  [] OTHER -> Float!Scale(a, b)
           r == CASE i.op = "FP_MULF" -> Float!Product(a, b)
                  [] i.op = "FP_DIVF" -> Float!Ratio(a, b)
                  [] OTHER -> Float!Scaled(a, b)
           w == Float!RefFloat(i.op, a, b, tkcw)
           U == UnlikeFloat(i, b, tkcw, r)
<1>1. Float!FpuOutcome(i.op, a, b, 0) = Float!FpResult(q)
  <2>1. CASE i.op = "FP_MULF"  BY <2>1 DEF Float!FpuOutcome
  <2>2. CASE i.op = "FP_DIVF"  BY <2>2 DEF Float!FpuOutcome
  <2>3. CASE i.op = "FP_SCLF"  BY <2>3 DEF Float!FpuOutcome
  <2> QED  BY <2>1, <2>2, <2>3
<1>2. w = Float!ByWord(r)
  <2>1. CASE i.op = "FP_MULF"  BY <2>1 DEF Float!RefFloat
  <2>2. CASE i.op = "FP_DIVF"  BY <2>2 DEF Float!RefFloat
  <2>3. CASE i.op = "FP_SCLF"  BY <2>3 DEF Float!RefFloat
  <2> QED  BY <2>1, <2>2, <2>3
<1>3. w.result = r  BY <1>2 DEF Float!ByWord
<1>4. a \in Nat /\ b \in Nat  BY DEF Register
<1>5. \/ q = r
      \/ {"reg", "z", "s"} \subseteq U
      \/ "reg" \in U /\ (q = 0 <=> r = 0) /\ Float!Sign(q) = Float!Sign(r)
  <2> DEFINE few == Float!Magnitude(r) <= Float!LeastNormal /\ r # 0
  <2>1. few \/ ~Float!Number(r) => {"reg", "z", "s"} \subseteq U
    <3> HIDE DEF r
    <3> QED  BY UnlikeWhen
  <2>2. CASE i.op = "FP_MULF"
    <3>1. q = Float!Multiply(a, b) /\ r = Float!Product(a, b)  BY <2>2
    <3>2. ~(Float!Ordinary(a) /\ Float!Ordinary(b)) => {"reg", "z", "s"} \subseteq U
      BY <2>2, UnlikeWhen
    <3>3. Float!Wraps(a, b) => "reg" \in U  BY <2>2, UnlikeWhen
    <3> HIDE DEF q, r, U
    <3> QED  BY <1>4, <2>1, <3>1, <3>2, <3>3, ProductNearest
  <2>3. CASE i.op = "FP_DIVF"
    <3>1. q = Float!Divide(a, b) /\ r = Float!Ratio(a, b)  BY <2>3
    <3>2. ~(Float!Ordinary(a) /\ Float!Ordinary(b)) => {"reg", "z", "s"} \subseteq U
      BY <2>3, UnlikeWhen
    <3>3. "reg" \in U  BY <2>3, UnlikeWhen
    <3>4. Float!Magnitude(a) # 0  BY <2>3 DEF Float!RefFloatDefined
    <3> HIDE DEF q, r, U
    <3> QED  BY <1>4, <2>1, <3>1, <3>2, <3>3, <3>4, QuotientFlags
  <2>4. CASE i.op = "FP_SCLF"
    <3>1. q = Float!Scale(a, b) /\ r = Float!Scaled(a, b)  BY <2>4
    <3>2. ~Float!Ordinary(b) => {"reg", "z", "s"} \subseteq U  BY <2>4, UnlikeWhen
    <3>3. Float!Absolute(Float!ScaleCount(a)) < EXP + FRAC  BY <2>4 DEF Float!RefFloatDefined
    <3> HIDE DEF q, r, U
    <3> QED  BY <1>4, <2>1, <3>1, <3>2, <3>3, ScaleNearest
  <2> QED  BY <2>2, <2>3, <2>4
<1> HIDE DEF U, q, r, w
<1>6. AgreeBut(Float!FpResult(q), Float!ByWord(r), U)  BY <1>5, WordsAgree
<1> QED  BY <1>1, <1>2, <1>3, <1>6 DEF FloatAgrees, U, w

\* What decides the sign and the zero flag of a float and of its opposite.
LEMMA OppositeFields ==
  ASSUME NEW a \in Register
  PROVE  /\ Float!Units(a) \in Nat /\ (Float!Units(a) = 0 <=> Float!Magnitude(a) = 0)
         /\ Float!Sign(a) \in BOOLEAN
         /\ Float!Value(a) = Signum(Float!Sign(a), Float!Units(a))
         /\ Float!Opposite(a) = (a + Float!Top) % Float!WordMod
         /\ Float!Sign(Float!Opposite(a)) = ~Float!Sign(a)
         /\ Float!Magnitude(a) = IF Float!Sign(a) THEN Float!Opposite(a) ELSE a
         /\ Float!Sign(Float!Magnitude(a)) = FALSE
<1> DEFINE O == Float!One
           T == Float!Top
           e == Float!Exp(a)
           f == Float!Frac(a)
           g == Float!Magnitude(a)
           c == Float!Opposite(a)
           sg == Float!Significand(a)
<1>1. a \in 0 .. 2 * T - 1 /\ T \in Nat \ {0} /\ Float!WordMod = 2 * T /\ O \in Nat \ {0}
  BY RegisterWord, FloatSizes DEF Float!Word
<1>2. a \in Nat  BY <1>1
<1>3. /\ e \in Nat /\ e \in 0 .. Float!ExpMod - 1 /\ f \in Nat /\ f \in 0 .. O - 1
      /\ g = O * e + f /\ g \in 0 .. T - 1 /\ Float!Sign(a) \in BOOLEAN
  <2>1. e \in 0 .. Float!ExpMod - 1 /\ f \in 0 .. O - 1 /\ Float!ExpMod \in Nat
    BY <1>2, FloatFields, FloatSizes
  <2>2. e \in Nat /\ f \in Nat
    <3> HIDE DEF e, f, O
    <3> QED  BY <1>1, <2>1
  <2> QED  BY <1>2, <2>1, <2>2, FloatFields
<1>4. g = Float!Pack(FALSE, e, f) /\ c = Float!Pack(~Float!Sign(a), e, f)
      /\ c = (a + T) % Float!WordMod
  BY Unpacked DEF Float!Opposite
<1>5. \A s \in BOOLEAN : Float!Sign(Float!Pack(s, e, f)) = s
  <2> TAKE s \in BOOLEAN
  <2> HIDE DEF e, f
  <2> QED  BY <1>3, PackFields, PackWord
<1>6. Float!Sign(c) = ~Float!Sign(a) /\ Float!Sign(g) = FALSE
  <2>1. (~Float!Sign(a)) \in BOOLEAN /\ FALSE \in BOOLEAN  OBVIOUS
  <2> HIDE DEF c, g, e, f
  <2> QED  BY <1>4, <1>5, <2>1
<1>7. g = IF Float!Sign(a) THEN c ELSE a
  <2>1. CASE Float!Sign(a)
    <3>1. (~Float!Sign(a)) = FALSE  BY <2>1
    <3> HIDE DEF c, g, e, f
    <3> QED  BY <1>4, <2>1, <3>1
  <2>2. CASE ~Float!Sign(a)
    <3>1. g = a % T /\ a < T  BY <1>1, <2>2 DEF Float!Magnitude, Float!Sign
    <3> HIDE DEF g, T
    <3>2. a % T = a  BY <1>1, <3>1, SMTT(20)
    <3> QED  BY <2>2, <3>1, <3>2
  <2> QED  BY <2>1, <2>2, <1>3
<1>8. Float!Units(a) \in Nat /\ (Float!Units(a) = 0 <=> g = 0)
  <2> DEFINE w == Two[Float!Place(a)]
  <2>1. Float!Units(a) = sg * w  BY FloatTwo DEF Float!Units
  <2>2. w \in Nat \ {0}
    <3>1. Float!Place(a) \in Nat
      <4> HIDE DEF e
      <4>1. Float!Place(a) = IF e = 0 THEN 0 ELSE e - 1  BY DEF Float!Place, e
      <4> QED  BY <1>3, <4>1
    <3> QED  BY <3>1, TwoIs
  <2>3. sg = IF e # 0 THEN O + f ELSE f  BY DEF Float!Significand
  <2> HIDE DEF sg, w, e, f, O, g
  <2>4. sg \in Nat /\ (sg = 0 <=> g = 0)
    <3>1. CASE e = 0  BY <1>1, <1>3, <2>3, <3>1
    <3>2. CASE e # 0
      <4>1. e >= 1  BY <1>3, <3>2
      <4>2. O * e \in Nat \ {0}  BY <1>1, <1>3, <4>1, SMTT(20)
      <4> QED  BY <1>1, <1>3, <2>3, <3>2, <4>2
    <3> QED  BY <3>1, <3>2
  <2>5. sg * w \in Nat /\ (sg * w = 0 <=> sg = 0)  BY <2>2, <2>4, SMTT(20)
  <2> QED  BY <2>1, <2>4, <2>5
<1>9. Float!Value(a) = Signum(Float!Sign(a), Float!Units(a))  BY DEF Float!Value, Signum
<1> QED  BY <1>3, <1>4, <1>6, <1>7, <1>8, <1>9

\* The sign is turned round, and the other bits are left.
LEMMA OppositeAgrees ==
  ASSUME NEW i, i.src \in Register, NEW b \in Register, NEW tkcw, i.op = "FP_NEGF"
  PROVE  FloatAgrees(i, b, tkcw)
<1> DEFINE a == i.src
           q == (a + Float!Top) % Float!WordMod
           r == Float!Opposite(a)
           o == Float!FpuOutcome(i.op, a, b, 0)
           w == Float!RefFloat(i.op, a, b, tkcw)
           U == UnlikeFloat(i, b, tkcw, w.result)
           mag == Float!Magnitude(a)
           neg == Float!Sign(a)
           u   == Float!Units(a)
           vr  == Float!Value(r)
<1>1. /\ u \in Nat /\ (u = 0 <=> mag = 0) /\ neg \in BOOLEAN /\ r = q
      /\ Float!Sign(r) = ~neg
  BY OppositeFields
<1>2. vr = Signum(neg # TRUE, u)  BY OppositeValue
<1>3. o.result = q /\ o.flags = Float!FpFlags(mag = 0, ~neg, FALSE, ~neg)
  BY DEF Float!FpuOutcome
<1>4. w.result = r /\ w.flags = Float!FpFlags(u = 0, Float!Sign(r), FALSE, vr < 0)
  BY DEF Float!RefFloat
<1>5. mag = 0 => "cy" \in U  BY UnlikeWhen
<1> HIDE DEF q, r, o, w, U, mag, neg, u, vr
<1>6. (mag = 0) = (u = 0)  BY <1>1
<1>7. mag # 0 => (vr < 0) = ~neg
  <2> SUFFICES ASSUME mag # 0
               PROVE  (vr < 0) = ~neg
    OBVIOUS
  <2>1. u \in Nat \ {0} /\ (neg # TRUE) \in BOOLEAN  BY <1>1
  <2>2. Signum(neg # TRUE, u) < 0 <=> (neg # TRUE)  BY <2>1, SignumSign
  <2>3. (neg # TRUE) <=> ~neg  BY <1>1
  <2>4. vr < 0 <=> ~neg  BY <1>2, <2>2, <2>3
  <2> QED  BY <2>4
<1>8. /\ o.flags.z = (mag = 0) /\ o.flags.s = ~neg /\ o.flags.ov = FALSE /\ o.flags.cy = ~neg
      /\ w.flags.z = (u = 0) /\ w.flags.s = Float!Sign(r) /\ w.flags.ov = FALSE
      /\ w.flags.cy = (vr < 0)
  BY <1>3, <1>4 DEF Float!FpFlags
<1>9. AgreeBut(o, w, U)
  BY <1>1, <1>3, <1>4, <1>5, <1>6, <1>7, <1>8 DEF AgreeBut
<1> QED  BY <1>9 DEF FloatAgrees, o, w, U

\* The sign is cleared.
LEMMA MagnitudeAgrees ==
  ASSUME NEW i, i.src \in Register, NEW b \in Register, NEW tkcw, i.op = "FP_ABSF"
  PROVE  FloatAgrees(i, b, tkcw)
<1> DEFINE a == i.src
           c == Float!Opposite(a)
           v == Float!Value(a)
           r == IF v < 0 THEN c ELSE a
           o == Float!FpuOutcome(i.op, a, b, 0)
           w == Float!RefFloat(i.op, a, b, tkcw)
           U == UnlikeFloat(i, b, tkcw, w.result)
           mag == Float!Magnitude(a)
           neg == Float!Sign(a)
           u   == Float!Units(a)
<1>1. /\ u \in Nat /\ (u = 0 <=> mag = 0) /\ neg \in BOOLEAN /\ v = Signum(neg, u)
      /\ mag = (IF neg THEN c ELSE a) /\ Float!Sign(mag) = FALSE
  BY OppositeFields
<1>2. o.result = mag /\ o.flags = Float!FpFlags(mag = 0, FALSE, FALSE, FALSE)
  BY DEF Float!FpuOutcome
<1>3. w.result = r /\ w.flags = Float!FpFlags(u = 0, Float!Sign(r), FALSE, FALSE)
  BY DEF Float!RefFloat
<1>4. mag = 0 => {"reg", "s"} \subseteq U  BY UnlikeWhen
<1> HIDE DEF o, w, U, mag, neg, u, v, c
<1>5. (mag = 0) = (u = 0)  BY <1>1
<1>6. mag # 0 => r = mag
  <2> SUFFICES ASSUME mag # 0
               PROVE  r = mag
    OBVIOUS
  <2>1. v < 0 <=> neg  BY <1>1, SignumSign
  <2> QED  BY <1>1, <2>1
<1> HIDE DEF r
<1>7. /\ o.flags.z = (mag = 0) /\ o.flags.s = FALSE /\ o.flags.ov = FALSE /\ o.flags.cy = FALSE
      /\ w.flags.z = (u = 0) /\ w.flags.s = Float!Sign(r) /\ w.flags.ov = FALSE
      /\ w.flags.cy = FALSE
  BY <1>2, <1>3 DEF Float!FpFlags
<1>8. AgreeBut(o, w, U)
  <2>1. CASE mag = 0  BY <1>4, <1>5, <1>7, <2>1 DEF AgreeBut
  <2>2. CASE mag # 0  BY <1>1, <1>2, <1>3, <1>5, <1>6, <1>7, <2>2 DEF AgreeBut
  <2> QED  BY <2>1, <2>2
<1> QED  BY <1>8 DEF FloatAgrees, o, w, U

\* A comparison is a difference of which only the flags are kept.
LEMMA ComparisonAgrees ==
  ASSUME NEW i, i.src \in Register, NEW b \in Register, NEW tkcw, i.op = "FP_CMPF"
  PROVE  FloatAgrees(i, b, tkcw)
<1> DEFINE a == i.src
           q == Float!AddSub(a, b, TRUE)
           x == Float!Value(a)
           y == Float!Value(b)
           v == y - x
           o == Float!FpuOutcome(i.op, a, b, 0)
           w == Float!RefFloat(i.op, a, b, tkcw)
           U == UnlikeFloat(i, b, tkcw, w.result)
<1>1. o.result = 0 /\ o.flags = Float!FpFlags(q = 0, Float!Sign(q), FALSE, FALSE)
  <2> DEFINE p == Float!FpResult(q)
  <2>1. o = [p EXCEPT !.result = 0]  BY DEF Float!FpuOutcome
  <2>2. p = [result |-> q, flags |-> Float!FpFlags(q = 0, Float!Sign(q), FALSE, FALSE)]
    BY DEF Float!FpResult
  <2> HIDE DEF o, p, q
  <2> QED  BY <2>1, <2>2
<1>2. w.result = 0 /\ w.flags = Float!FpFlags(v = 0, v < 0, FALSE, FALSE)
  BY DEF Float!RefFloat
<1>3. /\ ~(Float!Ordinary(a) /\ Float!Ordinary(b)) => {"reg", "z", "s"} \subseteq U
      /\ Abs(v) < Float!LeastNormal => {"z", "s"} \subseteq U
  <2> HIDE DEF w
  <2> QED  BY UnlikeWhen
<1>4. \/ {"z", "s"} \subseteq U
      \/ q # 0 /\ v # 0 /\ (Float!Sign(q) <=> v < 0)
  <2> SUFFICES ASSUME Float!Ordinary(a), Float!Ordinary(b), ~(Abs(v) < Float!LeastNormal)
               PROVE  q # 0 /\ v # 0 /\ (Float!Sign(q) <=> v < 0)
    BY <1>3
  <2> DEFINE t == Signum(Float!Sign(a) # TRUE, Float!Units(a))
             s == Signum(Float!Sign(b), Float!Units(b)) + t
  <2>1. x \in Int /\ y \in Int /\ t \in Int /\ y = Signum(Float!Sign(b), Float!Units(b))
        /\ y + t = y - x
    BY SumValues
  <2>2. s = v
    <3> HIDE DEF x, y, t
    <3> QED  BY <2>1
  <2>3. /\ q # 0 => (Float!Sign(q) <=> s < 0) /\ s # 0
        /\ q = 0 => -Float!One < s /\ s < Float!One
    <3>1. a \in Nat /\ b \in Nat  BY DEF Register
    <3> QED  BY <3>1, SumSigned
  <2>4. v \in Int
    <3> HIDE DEF x, y
    <3> QED  BY <2>1
  <2>5. Float!LeastNormal = Float!One /\ Float!One \in Nat  BY FloatSizes DEF Float!LeastNormal
  <2> HIDE DEF s, v, q
  <2>6. q # 0
    <3> SUFFICES ASSUME q = 0
                 PROVE  FALSE
      OBVIOUS
    <3>1. -Float!One < v /\ v < Float!One  BY <2>2, <2>3
    <3>2. Abs(v) < Float!One  BY <2>4, <2>5, <3>1 DEF Abs
    <3> QED  BY <2>5, <3>2
  <2> QED  BY <2>2, <2>3, <2>6
<1> HIDE DEF o, w, U, v, q
<1>5. /\ o.flags.z = (q = 0) /\ o.flags.s = Float!Sign(q) /\ o.flags.ov = FALSE
      /\ o.flags.cy = FALSE
      /\ w.flags.z = (v = 0) /\ w.flags.s = (v < 0) /\ w.flags.ov = FALSE /\ w.flags.cy = FALSE
  BY <1>1, <1>2 DEF Float!FpFlags
<1>6. AgreeBut(o, w, U)
  <2>1. CASE {"z", "s"} \subseteq U  BY <1>1, <1>2, <1>5, <2>1 DEF AgreeBut
  <2>2. CASE q # 0 /\ v # 0 /\ (Float!Sign(q) <=> v < 0)
    <3>1. (q = 0) = (v = 0)  BY <2>2
    <3>2. Float!Sign(q) = (v < 0)
      <4>1. Float!Sign(q) \in BOOLEAN  BY DEF Float!Sign
      <4> QED  BY <2>2, <4>1
    <3> QED  BY <1>1, <1>2, <1>5, <3>1, <3>2 DEF AgreeBut
  <2> QED  BY <1>4, <2>1, <2>2
<1> QED  BY <1>6 DEF FloatAgrees, o, w, U

\* A word that is made a float.
LEMMA FromWordAgrees ==
  ASSUME NEW i, i.src \in Register, NEW b \in Register, NEW tkcw, i.op = "FP_CVTWS"
  PROVE  FloatAgrees(i, b, tkcw)
<1> DEFINE a == i.src
           q == Float!FromWord(a)
           v == Float!SignedWord(a)
           r == Float!Nearest(v < 0, Float!Absolute(v) * Float!Two[Float!UnitPlace], 1)
           o == Float!FpuOutcome(i.op, a, b, 0)
           w == Float!RefFloat(i.op, a, b, tkcw)
           U == UnlikeFloat(i, b, tkcw, w.result)
<1>1. q = r /\ (q = 0 <=> v = 0) /\ (Float!Sign(q) <=> v < 0)  BY WordNearest
<1>2. /\ o.result = q /\ o.flags.z = (q = 0) /\ o.flags.s = Float!Sign(q)
      /\ o.flags.ov = FALSE /\ o.flags.cy = Float!Sign(q)
  <2> DEFINE p == Float!FpResult(q)
             c == p.flags.s
  <2>1. o = [p EXCEPT !.flags.cy = c]  BY DEF Float!FpuOutcome
  <2>2. p = [result |-> q, flags |-> Float!FpFlags(q = 0, Float!Sign(q), FALSE, FALSE)]
    BY DEF Float!FpResult
  <2>3. c = Float!Sign(q)  BY <2>2 DEF Float!FpFlags
  <2> HIDE DEF o, p, c
  <2> DEFINE z == (q = 0)
             s == Float!Sign(q)
  <2>4. p = [result |-> q, flags |-> Float!FpFlags(z, s, FALSE, FALSE)] /\ c = s  BY <2>2, <2>3
  <2> HIDE DEF z, s, q
  <2>5. o.result = q /\ o.flags = [p.flags EXCEPT !.cy = c] /\ p.flags = Float!FpFlags(z, s, FALSE, FALSE)
    BY <2>1, <2>4
  <2>6. o.flags.z = z /\ o.flags.s = s /\ o.flags.ov = FALSE /\ o.flags.cy = c
    BY <2>5 DEF Float!FpFlags
  <2> QED  BY <2>4, <2>5, <2>6 DEF z, s
<1>3. w.result = r /\ w.flags = Float!FpFlags(v = 0, Float!Sign(r), FALSE, v < 0)
  BY DEF Float!RefFloat
<1> HIDE DEF o, w, U, q, r, v
<1>4. w.flags.z = (v = 0) /\ w.flags.s = Float!Sign(r) /\ w.flags.ov = FALSE
      /\ w.flags.cy = (v < 0)
  BY <1>3 DEF Float!FpFlags
<1>5. (q = 0) = (v = 0) /\ Float!Sign(q) = (v < 0)
  <2>1. Float!Sign(q) \in BOOLEAN  BY DEF Float!Sign
  <2> QED  BY <1>1, <2>1
<1>6. AgreeBut(o, w, U)  BY <1>1, <1>2, <1>3, <1>4, <1>5 DEF AgreeBut
<1> QED  BY <1>6 DEF FloatAgrees, o, w, U

\* A float that is made a word.
LEMMA ToWordAgrees ==
  ASSUME NEW i, i.src \in Register, NEW b \in Register, NEW tkcw \in 0 .. 3, i.op = "FP_CVTSW"
  PROVE  FloatAgrees(i, b, tkcw)
<1> DEFINE a == i.src
           o == Float!FpuOutcome(i.op, a, b, 0)
           w == Float!RefFloat(i.op, a, b, tkcw)
           U == UnlikeFloat(i, b, tkcw, w.result)
           out == \/ tkcw # 0 /\ ~Float!IsInteger(a)
                  \/ Float!EvenTie(a)
                  \/ Float!Units(a) >= Half["SZ_WORD"] * Two[Float!UnitPlace]
<1>1. CASE out
  <2>1. {"reg", "z", "s", "ov"} \subseteq U
    <3> HIDE DEF w
    <3> QED  BY <1>1, UnlikeWhen
  <2>2. o.flags.cy = FALSE
    <3> DEFINE p == Float!FpResult(Float!ToWord(a, 0))
               x == (p.flags.s /\ ~Float!Sign(a)) \/ (~p.flags.s /\ Float!Sign(a) /\ ~p.flags.z)
    <3>1. o = [p EXCEPT !.flags.ov = x]  BY DEF Float!FpuOutcome
    <3>2. p.flags.cy = FALSE /\ "cy" \in DOMAIN p.flags /\ "flags" \in DOMAIN p
      BY DEF Float!FpResult, Float!FpFlags
    <3> HIDE DEF o, p, x
    <3>3. o.flags = [p.flags EXCEPT !.ov = x]  BY <3>1, <3>2
    <3> HIDE DEF o
    <3> QED  BY <3>2, <3>3
  <2>3. w.flags.cy = FALSE
    <3> DEFINE r == Float!Rounded(a, tkcw) % Float!WordMod
               fits == \/ Float!Sign(r) /\ Float!Rounded(a, tkcw) >= 0
                       \/ ~Float!Sign(r) /\ Float!Rounded(a, tkcw) < 0
    <3>1. w = [result |-> r, flags |-> Float!FpFlags(r = 0, Float!Sign(r), fits, FALSE)]
      BY DEF Float!RefFloat
    <3> HIDE DEF r, fits, w
    <3> QED  BY <3>1 DEF Float!FpFlags
  <2> HIDE DEF o, w, U
  <2>4. AgreeBut(o, w, U)  BY <2>1, <2>2, <2>3 DEF AgreeBut
  <2> QED  BY <2>4 DEF FloatAgrees, o, w, U
<1>2. CASE ~out
  <2>1. a \in Nat  BY DEF Register
  <2>2. Float!Units(a) < Half["SZ_WORD"] * Two[Float!UnitPlace]
    <3> DEFINE u == Float!Units(a)
               h == Half["SZ_WORD"]
               p == Two[Float!UnitPlace]
    <3>1. u \in Nat  BY OppositeFields
    <3>2. h \in Nat  BY SizeAssumption DEF Size
    <3>3. p \in Nat
      <4>1. Float!UnitPlace \in Nat
        <5>1. Float!Bias \in Nat /\ FRAC \in Nat /\ FRAC >= 1  BY FloatSizes
        <5> QED  BY <5>1 DEF Float!UnitPlace
      <4> QED  BY <4>1, TwoIs
    <3>4. ~(u >= h * p)  BY <1>2
    <3> HIDE DEF u, h, p
    <3>5. h * p \in Nat  BY <3>2, <3>3, SMTT(20)
    <3> HIDE DEF u, h, p
    <3>6. u < h * p  BY <3>1, <3>4, <3>5
    <3> QED  BY <3>6 DEF u, h, p
  <2>3. AgreeBut(Float!FpuOutcome("FP_CVTSW", a, b, 0),
                 Float!RefFloat("FP_CVTSW", a, b, tkcw), {})
    <3>1. tkcw = 0 \/ Float!IsInteger(a)  BY <1>2
    <3>2. ~Float!EvenTie(a)  BY <1>2
    <3> QED  BY <2>1, <2>2, <3>1, <3>2, WordRounded
  <2>4. AgreeBut(o, w, {})  BY <2>3
  <2> HIDE DEF o, w, U
  <2>5. AgreeBut(o, w, U)  BY <2>4 DEF AgreeBut
  <2> QED  BY <2>5 DEF FloatAgrees, o, w, U
<1> QED  BY <1>1, <1>2

\* Every operation.
LEMMA FloatsAgree ==
  ASSUME NEW i, i.src \in Register, NEW b \in Register, NEW tkcw \in 0 .. 3, i.op \in FpOps,
         Float!RefFloatDefined(i.op, i.src, b)
  PROVE  FloatAgrees(i, b, tkcw)
<1>1. CASE i.op \in {"FP_ADDF", "FP_SUBF"}  BY <1>1, SumsAgree
<1>2. CASE i.op \in {"FP_MULF", "FP_DIVF", "FP_SCLF"}  BY <1>2, ProductsAgree
<1>3. CASE i.op = "FP_NEGF"  BY <1>3, OppositeAgrees
<1>4. CASE i.op = "FP_ABSF"  BY <1>4, MagnitudeAgrees
<1>5. CASE i.op = "FP_CMPF"  BY <1>5, ComparisonAgrees
<1>6. CASE i.op = "FP_CVTWS"  BY <1>6, FromWordAgrees
<1>7. CASE i.op = "FP_CVTSW"  BY <1>7, ToWordAgrees
<1>8. CASE i.op = "FP_MOVF"
  <2> DEFINE o == Float!FpuOutcome(i.op, i.src, b, 0)
             w == Float!RefFloat(i.op, i.src, b, tkcw)
  <2>1. o = w  BY <1>8 DEF Float!FpuOutcome, Float!RefFloat
  <2> HIDE DEF o, w
  <2>2. AgreeBut(o, w, UnlikeFloat(i, b, tkcw, w.result))  BY <2>1 DEF AgreeBut
  <2> QED  BY <2>2 DEF FloatAgrees, o, w
<1> QED  BY <1>1, <1>2, <1>3, <1>4, <1>5, <1>6, <1>7, <1>8 DEF FpOps

\* For every width of the operands and of the fields of a float, each instruction on registers
\* leaves the destination register and the four flags as the emulator does, in all but the
\* cases listed as unlike: the integer units against op12.hxx and op3.hxx, the branches, and
\* every operation of v60_fpu.sv against the arithmetic of the C type float in sim/v60_fp.cpp.
THEOREM LikeReferenceHolds == Spec => []LikeReference
<1>1. FloatDone => (inst.op \in FpOps => LikeReference)
  <2> SUFFICES ASSUME FloatDone, inst.op \in FpOps
               PROVE  LikeReference
    OBVIOUS
  <2> DEFINE a == inst.src
             b == before.reg
             o == Float!FpuOutcome(inst.op, a, b, 0)
  <2>1. /\ a \in Register /\ b \in Register
        /\ reg = IF inst.op = "FP_CMPF" THEN b ELSE o.result
        /\ flags = IF inst.op = "FP_MOVF" THEN before.flags ELSE o.flags
    BY DEF FloatDone
  <2>2. ASSUME NEW tkcw \in 0 .. 3, Float!RefFloatDefined(inst.op, a, b)
        PROVE  LikeFloat(Float!RefFloat(inst.op, a, b, tkcw), tkcw)
    <3> DEFINE w == Float!RefFloat(inst.op, a, b, tkcw)
               U == UnlikeFloat(inst, b, tkcw, w.result)
               result == IF inst.op = "FP_CMPF" THEN b ELSE w.result
               codes  == IF inst.op = "FP_MOVF" THEN before.flags ELSE w.flags
    <3>1. FloatAgrees(inst, b, tkcw)  BY <2>1, <2>2, FloatsAgree
    <3>2. /\ "reg" \in U \/ o.result = w.result
          /\ \A n \in {"z", "s", "ov", "cy"} \ U : o.flags[n] = w.flags[n]
      BY <3>1 DEF FloatAgrees, AgreeBut
    <3> HIDE DEF o, w, U
    <3>3. LikeBut(U, result, codes)  BY <2>1, <3>2 DEF LikeBut
    <3> QED  BY <3>3 DEF LikeFloat, w, U
  <2>3. \A tkcw \in IF inst.op = "FP_CVTSW" THEN 0 .. 3 ELSE {0} : tkcw \in 0 .. 3  OBVIOUS
  <2>4. inst.op # "none" /\ inst.op # "BRANCH"  BY OtherOps
  <2> QED  BY <2>2, <2>3, <2>4 DEF LikeReference
<1> DEFINE Others == inst.op \notin FpOps => LikeReference
<1>2. FloatDone /\ Others => LikeReference  BY <1>1
<1>3. Spec => []Others  BY IntegersLikeReference
<1> HIDE DEF Others
<1> QED  BY <1>2, <1>3, FloatInvariant, PTL
=============================================================================
