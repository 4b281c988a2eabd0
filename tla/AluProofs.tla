----------------------------- MODULE AluProofs ------------------------------
(***************************************************************************)
(* Arithmetic on numbers of several digits is exact, and the branches on   *)
(* it decide what they are named for; no result leaves its register; what  *)
(* CMPF compares is ordered, floating-point arithmetic on whole numbers is *)
(* exact, and other sums and quotients are close: for every width of the   *)
(* operands, any number of digits and any operand values.                  *)
(*                                                                         *)
(* A digit is what one operation adds to a chain.  The proof shows of each *)
(* operation of the unit that starts or extends a chain that it computes a *)
(* digit, and of a digit that it keeps the chain exact.  Floats are taken  *)
(* apart into a significand, an exponent and a sign, and whole numbers are *)
(* told by their length in bits.                                           *)
(***************************************************************************)
EXTENDS AluProgram, TLAPS

\* The library's facts about orders.
Order == INSTANCE WellFoundedInduction

-----------------------------------------------------------------------------
(* Recursion over the natural numbers, and the powers of two.              *)

\* A set of natural numbers has a least element.
LEMMA Least ==
  ASSUME NEW T, T \subseteq Nat, T # {}
  PROVE  \E x \in T : \A y \in T : x <= y
<1>1. PICK x \in T : \A y \in T : ~(<<y, x>> \in Order!OpToRel(<, Nat))
  BY Order!NatLessThanWellFounded, Order!WFMin, Zenon
<1>2. \A y \in T : ~(y < x)  BY <1>1 DEF Order!OpToRel
<1> QED  BY <1>2

\* What holds of 0, and of n + 1 if it holds of n, holds of all.
LEMMA Induct ==
  ASSUME NEW T, 0 \in T, \A n \in Nat : n \in T => n + 1 \in T
  PROVE  Nat \subseteq T
<1> SUFFICES ASSUME Nat \ T # {}
             PROVE  FALSE
  OBVIOUS
<1>1. PICK x \in Nat \ T : \A y \in Nat \ T : x <= y  BY Least
<1>2. x # 0 /\ x - 1 \in Nat  OBVIOUS
<1>3. x - 1 \in T  BY <1>1, <1>2
<1> QED  BY <1>2, <1>3

\* h holds the values a recursion goes through up to n, from d, each made by step from the
\* one before and its number.
Prefix(h, d, step, n) ==
  /\ h[0] = d
  /\ \A k \in 0 .. n - 1 : h[k + 1] = step[<<h[k], k>>]

\* They are the only ones.
LEMMA PrefixUnique ==
  ASSUME NEW d, NEW step, NEW n \in Nat, NEW m \in Nat, m <= n,
         NEW h, NEW g, Prefix(h, d, step, n), Prefix(g, d, step, m)
  PROVE  h[m] = g[m]
<1> DEFINE T == {k \in Nat : k <= m => h[k] = g[k]}
<1>1. 0 \in T  BY DEF Prefix
<1>2. ASSUME NEW k \in Nat, k \in T
      PROVE  k + 1 \in T
  <2> SUFFICES ASSUME k + 1 <= m
               PROVE  h[k + 1] = g[k + 1]
    OBVIOUS
  <2>1. k \in 0 .. n - 1 /\ k \in 0 .. m - 1 /\ h[k] = g[k]  BY <1>2
  <2> QED  BY <2>1 DEF Prefix
<1>3. Nat \subseteq T
  <2> HIDE DEF T
  <2> QED  BY <1>1, <1>2, Induct
<1> QED  BY <1>3

\* There are such values, up to any number.
LEMMA PrefixExists ==
  ASSUME NEW S, NEW d \in S, NEW step \in [S \X Nat -> S], NEW n \in Nat
  PROVE  \E h \in [0 .. n -> S] : Prefix(h, d, step, n)
<1> DEFINE T == {j \in Nat : \E h \in [0 .. j -> S] : Prefix(h, d, step, j)}
<1>1. 0 \in T
  <2> DEFINE h == [k \in 0 .. 0 |-> d]
  <2>1. h \in [0 .. 0 -> S] /\ Prefix(h, d, step, 0)  BY DEF Prefix
  <2> HIDE DEF h
  <2> QED  BY <2>1
<1>2. ASSUME NEW j \in Nat, j \in T
      PROVE  j + 1 \in T
  <2>1. PICK h \in [0 .. j -> S] : Prefix(h, d, step, j)  BY <1>2
  <2> DEFINE g == [k \in 0 .. j + 1 |-> IF k = j + 1 THEN step[<<h[j], j>>] ELSE h[k]]
  <2>2. step[<<h[j], j>>] \in S  OBVIOUS
  <2>3. g \in [0 .. j + 1 -> S]  BY <2>2
  <2>4. /\ \A k \in 0 .. j : g[k] = h[k]
        /\ g[j + 1] = step[<<h[j], j>>]
    OBVIOUS
  <2> HIDE DEF g
  <2>5. ASSUME NEW k \in 0 .. (j + 1) - 1
        PROVE  g[k + 1] = step[<<g[k], k>>]
    <3>1. CASE k = j  BY <2>4, <3>1
    <3>2. CASE k # j
      <4>1. k \in 0 .. j - 1 /\ k \in 0 .. j /\ k + 1 \in 0 .. j  BY <3>2
      <4> QED  BY <2>1, <2>4, <4>1 DEF Prefix
    <3> QED  BY <3>1, <3>2
  <2>6. g[0] = d  BY <2>1, <2>4 DEF Prefix
  <2>7. Prefix(g, d, step, j + 1)  BY <2>5, <2>6 DEF Prefix
  <2> QED  BY <2>3, <2>7
<1> HIDE DEF T
<1>3. Nat \subseteq T  BY <1>1, <1>2, Induct
<1> QED  BY <1>3 DEF T

\* And all of them.
Values(g, d, step) ==
  /\ g[0] = d
  /\ \A n \in Nat : g[n + 1] = step[<<g[n], n>>]

\* A recursion over the natural numbers defines a function.
LEMMA Recursion ==
  ASSUME NEW S, NEW d \in S, NEW step \in [S \X Nat -> S]
  PROVE  \E g \in [Nat -> S] : Values(g, d, step)
<1> DEFINE H(n) == CHOOSE h \in [0 .. n -> S] : Prefix(h, d, step, n)
           g == [n \in Nat |-> H(n)[n]]
<1>1. \A n \in Nat : H(n) \in [0 .. n -> S] /\ Prefix(H(n), d, step, n)
  BY PrefixExists
<1> HIDE DEF H
<1>2. g \in [Nat -> S]  BY <1>1
<1>3. g[0] = d  BY <1>1 DEF Prefix
<1>4. ASSUME NEW n \in Nat
      PROVE  g[n + 1] = step[<<g[n], n>>]
  <2>1. n + 1 \in Nat /\ n \in 0 .. (n + 1) - 1  OBVIOUS
  <2>2. H(n + 1)[n + 1] = step[<<H(n + 1)[n], n>>]  BY <1>1, <2>1 DEF Prefix
  <2>3. H(n + 1)[n] = H(n)[n]
    <3>1. Prefix(H(n + 1), d, step, n + 1) /\ Prefix(H(n), d, step, n)  BY <1>1, <2>1
    <3> QED  BY <2>1, <3>1, PrefixUnique
  <2> QED  BY <2>1, <2>2, <2>3
<1> HIDE DEF g
<1> QED  BY <1>2, <1>3, <1>4 DEF Values

\* The powers of two.
LEMMA TwoIs ==
  /\ Two \in [Nat -> Nat \ {0}]
  /\ Two[0] = 1
  /\ \A n \in Nat : Two[n + 1] = 2 * Two[n]
<1> DEFINE K == Nat \ {0}
           step == [p \in K \X Nat |-> 2 * p[1]]
           one == 1
<1>1. PICK g \in [Nat -> K] : Values(g, one, step)
  <2>1. step \in [K \X Nat -> K] /\ one \in K  OBVIOUS
  <2> HIDE DEF K, step, one
  <2> QED  BY <2>1, Recursion
<1>2. \A n \in Nat : g[n + 1] = 2 * g[n]  BY <1>1 DEF Values
<1>3. \A n \in Nat : g[n] = IF n = 0 THEN 1 ELSE 2 * g[n - 1]
  <2> SUFFICES ASSUME NEW n \in Nat, n # 0
               PROVE  g[n] = 2 * g[n - 1]
    BY <1>1 DEF Values
  <2>1. n - 1 \in Nat /\ (n - 1) + 1 = n  OBVIOUS
  <2> QED  BY <1>2, <2>1
<1>4. g = [n \in Nat |-> IF n = 0 THEN 1 ELSE 2 * g[n - 1]]
  BY <1>1, <1>3
<1>5. Two = [n \in Nat |-> IF n = 0 THEN 1 ELSE 2 * Two[n - 1]]
  BY <1>4 DEF Two
<1>6. Two[0] = 1  BY <1>5
<1>7. ASSUME NEW n \in Nat PROVE Two[n + 1] = 2 * Two[n]
  <2>1. n + 1 \in Nat /\ n + 1 # 0 /\ (n + 1) - 1 = n  OBVIOUS
  <2> QED  BY <1>5, <2>1
<1> DEFINE T == {n \in Nat : Two[n] \in Nat \ {0}}
<1>8. Nat \subseteq T
  <2>1. 0 \in T  BY <1>6
  <2>2. \A n \in Nat : n \in T => n + 1 \in T  BY <1>7
  <2> HIDE DEF T
  <2> QED  BY <2>1, <2>2, Induct
<1>9. Two \in [Nat -> Nat \ {0}]
  <2>1. \A n \in Nat : Two[n] \in Nat \ {0}  BY <1>8
  <2>2. Two = [n \in Nat |-> Two[n]]  BY <1>5
  <2> QED  BY <2>1, <2>2
<1> QED  BY <1>6, <1>7, <1>9

\* The power of a sum is a product.
LEMMA TwoSum ==
  ASSUME NEW m \in Nat, NEW n \in Nat
  PROVE  Two[m + n] = Two[m] * Two[n]
<1> DEFINE T == {k \in Nat : Two[m + k] = Two[m] * Two[k]}
<1>1. 0 \in T  BY TwoIs
<1>2. ASSUME NEW k \in Nat, k \in T
      PROVE  k + 1 \in T
  <2>1. /\ m + k \in Nat /\ m + (k + 1) = (m + k) + 1
        /\ Two[m] \in Nat /\ Two[k] \in Nat
    BY TwoIs
  <2>2. Two[m + (k + 1)] = 2 * Two[m + k] /\ Two[k + 1] = 2 * Two[k]  BY <2>1, TwoIs
  <2>3. Two[m + k] = Two[m] * Two[k]  BY <1>2
  <2>4. Two[m] * (2 * Two[k]) = 2 * (Two[m] * Two[k])  BY <2>1, SMTT(20)
  <2> QED  BY <2>2, <2>3, <2>4
<1>3. Nat \subseteq T
  <2> HIDE DEF T
  <2> QED  BY <1>1, <1>2, Induct
<1> QED  BY <1>3

\* A higher power is at least as large, and twice as large.
LEMMA TwoGrows ==
  ASSUME NEW m \in Nat, NEW n \in Nat, m <= n
  PROVE  /\ Two[m] \in Nat \ {0} /\ Two[n] \in Nat \ {0}
         /\ Two[m] <= Two[n]
         /\ m < n => 2 * Two[m] <= Two[n]
<1> DEFINE T == {k \in Nat : \A j \in 0 .. k : Two[j] <= Two[k]}
<1>1. 0 \in T  BY TwoIs
<1>2. ASSUME NEW k \in Nat, k \in T
      PROVE  k + 1 \in T
  <2>1. Two[k] \in Nat /\ Two[k + 1] = 2 * Two[k]  BY TwoIs
  <2>2. ASSUME NEW j \in 0 .. k + 1
        PROVE  Two[j] <= Two[k + 1]
    <3>1. CASE j = k + 1  BY <2>1, <3>1
    <3>2. CASE j # k + 1
      <4>1. j \in 0 .. k /\ Two[j] \in Nat  BY <3>2, TwoIs
      <4>2. Two[j] <= Two[k]  BY <1>2, <4>1
      <4> QED  BY <2>1, <4>1, <4>2
    <3> QED  BY <3>1, <3>2
  <2> QED  BY <2>2
<1>3. Nat \subseteq T
  <2> HIDE DEF T
  <2> QED  BY <1>1, <1>2, Induct
<1>4. Two[m] \in Nat \ {0} /\ Two[n] \in Nat \ {0}  BY TwoIs
<1>5. Two[m] <= Two[n]  BY <1>3
<1>6. m < n => Two[m + 1] <= Two[n]  BY <1>3
<1>7. Two[m + 1] = 2 * Two[m]  BY TwoIs
<1> QED  BY <1>4, <1>5, <1>6, <1>7

\* A number is between two powers.
LEMMA TwoBetween ==
  ASSUME NEW N \in Nat, NEW x \in Nat \ {0}, x < Two[N]
  PROVE  \E n \in 1 .. N : Two[n - 1] <= x /\ x < Two[n]
<1> DEFINE T == {n \in Nat : x < Two[n]}
<1>1. T \subseteq Nat /\ T # {}  OBVIOUS
<1>2. PICK n \in T : \A k \in T : n <= k
  <2> HIDE DEF T
  <2> QED  BY <1>1, Least
<1>3. n \in Nat /\ x < Two[n] /\ n <= N  BY <1>2
<1>4. n # 0  BY <1>3, TwoIs
<1>5. n - 1 \in Nat /\ n - 1 \notin T  BY <1>2, <1>3, <1>4
<1>6. Two[n - 1] \in Nat /\ ~(x < Two[n - 1])  BY <1>5, TwoIs
<1>7. n \in 1 .. N /\ Two[n - 1] <= x  BY <1>3, <1>4, <1>6
<1> QED  BY <1>3, <1>7

-----------------------------------------------------------------------------
(* Numbers of several digits.                                              *)

\* The sum or the difference.
Wide(kind, x, y) == IF kind = "add" THEN x + y ELSE x - y

\* o is the digit b plus a plus c, or b less a less c, in a vector of half H.
Digit(kind, H, b, a, c, o) ==
  /\ o.result \in 0 .. 2 * H - 1
  /\ kind = "add" => b + a + c = o.result + 2 * H * Carry(o.flags)
  /\ kind = "sub" => b - a - c = o.result - 2 * H * Carry(o.flags)
  /\ o.flags.z <=> o.result = 0
  /\ o.flags.s <=> o.result >= H
  /\ o.flags.ov <=>
       Wide(kind, SignedNumber(b, H), SignedNumber(a, H) + c) \notin -H .. H - 1

\* The chain c is exact under the flags f.
Exact(c, f) ==
  /\ c.kind \in {"add", "sub"} /\ c.digits \in Nat \ {0}
  /\ c.half \in Nat \ {0} /\ c.weight = 2 * c.half
  /\ c.x \in 0 .. c.weight - 1 /\ c.y \in 0 .. c.weight - 1 /\ c.r \in 0 .. c.weight - 1
  /\ c.kind = "add" => c.x + c.y = c.r + c.weight * Carry(f)
  /\ c.kind = "sub" => c.x - c.y = c.r - c.weight * Carry(f)
  /\ c.digits = 1 => (f.z <=> c.r = 0)
  /\ f.s <=> c.r >= c.half
  /\ f.ov <=> Wide(c.kind, SignedNumber(c.x, c.half), SignedNumber(c.y, c.half))
                \notin -c.half .. c.half - 1

ChainExact(c, f) == c = NoChain \/ Exact(c, f)

\* The chain is exact, and a branch is taken on the flags that are still there.
IInv ==
  /\ ChainExact(chain, flags)
  /\ inst.op = "BRANCH" => taken = CondMet(flags, inst.cond)

-----------------------------------------------------------------------------
(* Arithmetic.                                                             *)

\* A number out of a vector by less than its size, above or below.
LEMMA ModOnce ==
  ASSUME NEW H \in Nat \ {0}, NEW t \in Int, -2 * H <= t, t < 4 * H
  PROVE  /\ 0 <= t /\ t < 2 * H => t % (2 * H) = t
         /\ 2 * H <= t => t % (2 * H) = t - 2 * H
         /\ t < 0 => t % (2 * H) = t + 2 * H
         /\ t % (2 * H) \in 0 .. 2 * H - 1
  BY SMTT(30)

\* Products of the same weight are a weight apart.
LEMMA Apart ==
  ASSUME NEW w \in Nat \ {0}, NEW p \in Int, NEW q \in Int, p < q
  PROVE  w * p + w <= w * q
<1>1. w * (q - p - 1) >= 0  BY SMTT(20)
<1>2. w * (q - p - 1) = w * q - w * p - w  BY SMTT(20)
<1> QED  BY <1>1, <1>2, SMTT(20)

\* The highest digit decides how a number compares with a bound of its weight.
LEMMA HighestDigit ==
  ASSUME NEW w \in Nat \ {0}, NEW low \in 0 .. w - 1, NEW k \in Int, NEW H \in Int
  PROVE  /\ w * k \in Int /\ w * H \in Int
         /\ low + w * k >= w * H <=> k >= H
         /\ low + w * k < w * H <=> k < H
<1>1. w * k \in Int /\ w * H \in Int  OBVIOUS
<1>2. k < H => low + w * k < w * H
  BY <1>1, Apart, SMTT(20)
<1>3. k >= H => low + w * k >= w * H
  <2>1. CASE k = H  BY <1>1, <2>1
  <2>2. CASE k > H
    <3>1. w * H + w <= w * k  BY <2>2, Apart
    <3> QED  BY <1>1, <3>1
  <2> QED  BY <2>1, <2>2
<1> QED  BY <1>1, <1>2, <1>3

-----------------------------------------------------------------------------
(* Operations that compute a digit.                                        *)

\* The size of a vector is twice its half.
LEMMA Halves == \A s \in Size : Half[s] \in Nat \ {0, 1} /\ Mod(s) = 2 * Half[s]
  BY SizeAssumption DEF Mod

\* ADD and ADDC compute a digit of a sum, SUB, CMP and SUBC one of a difference.
LEMMA AddDigit ==
  ASSUME NEW s \in Size, NEW b \in 0 .. Mod(s) - 1, NEW a \in 0 .. Mod(s) - 1, NEW c \in {0, 1}
  PROVE  Digit("add", Half[s], b, a, c, Add(s, a, b, c))
<1> DEFINE H == Half[s]
           t == b + a + c
           r == t % (2 * H)
           o == Add(s, a, b, c)
<1>1. H \in Nat \ {0, 1} /\ Mod(s) = 2 * H  BY Halves
<1>2. /\ o.result = r
      /\ o.flags.z <=> r = 0
      /\ o.flags.s <=> r >= H
      /\ o.flags.cy <=> t >= 2 * H
      /\ o.flags.ov <=> ((a >= H <=> b >= H) /\ ~(r >= H <=> a >= H))
  <2>1. o.result = r  BY <1>1 DEF Add, Outcome
  <2>2. o.flags.z <=> r = 0  BY <1>1 DEF Add, Outcome
  <2>3. o.flags.s <=> r >= H  BY <1>1 DEF Add, Outcome, Msb
  <2>4. o.flags.cy <=> t >= 2 * H  BY <1>1 DEF Add, Outcome
  <2>5. o.flags.ov <=> ((a >= H <=> b >= H) /\ ~(r >= H <=> a >= H))
    BY <1>1 DEF Add, Outcome, Msb
  <2> QED  BY <2>1, <2>2, <2>3, <2>4, <2>5
<1> HIDE DEF H, o
<1>3. t \in Int /\ 0 <= t /\ t < 4 * H  BY <1>1
<1>4. -2 * H <= t  BY <1>1, <1>3
<1> HIDE DEF t
<1>5. /\ r \in 0 .. 2 * H - 1
      /\ r = IF t >= 2 * H THEN t - 2 * H ELSE t
  <2>1. H \in Nat \ {0}  BY <1>1
  <2>2. /\ 0 <= t /\ t < 2 * H => r = t
        /\ 2 * H <= t => r = t - 2 * H
        /\ t < 0 => r = t + 2 * H
        /\ r \in 0 .. 2 * H - 1
    BY <2>1, <1>3, <1>4, ModOnce, Zenon
  <2> QED  BY <1>1, <1>3, <2>2
<1> HIDE DEF r
<1> USE DEF t
<1>6. ((a >= H <=> b >= H) /\ ~(r >= H <=> a >= H))
        <=> SignedNumber(b, H) + (SignedNumber(a, H) + c) \notin -H .. H - 1
  BY <1>1, <1>5, SMTT(30) DEF SignedNumber
<1>7. b + a + c = r + 2 * H * Carry(o.flags)  BY <1>1, <1>2, <1>5 DEF Carry
<1>8. Digit("add", H, b, a, c, o)  BY <1>2, <1>5, <1>6, <1>7 DEF Digit, Wide
<1> QED  BY <1>8 DEF H, o

LEMMA SubtractDigit ==
  ASSUME NEW s \in Size, NEW b \in 0 .. Mod(s) - 1, NEW a \in 0 .. Mod(s) - 1, NEW c \in {0, 1}
  PROVE  Digit("sub", Half[s], b, a, c, Subtract(s, a, b, c))
<1> DEFINE H == Half[s]
           t == b - a - c
           r == t % (2 * H)
           o == Subtract(s, a, b, c)
<1>1. H \in Nat \ {0, 1} /\ Mod(s) = 2 * H  BY Halves
<1>2. /\ o.result = r
      /\ o.flags.z <=> r = 0
      /\ o.flags.s <=> r >= H
      /\ o.flags.cy <=> t < 0
      /\ o.flags.ov <=> (~(a >= H <=> b >= H) /\ ~(r >= H <=> b >= H))
  <2>1. o.result = r  BY <1>1 DEF Subtract, Outcome
  <2>2. o.flags.z <=> r = 0  BY <1>1 DEF Subtract, Outcome
  <2>3. o.flags.s <=> r >= H  BY <1>1 DEF Subtract, Outcome, Msb
  <2>4. o.flags.cy <=> t < 0  BY <1>1 DEF Subtract, Outcome
  <2>5. o.flags.ov <=> (~(a >= H <=> b >= H) /\ ~(r >= H <=> b >= H))
    BY <1>1 DEF Subtract, Outcome, Msb
  <2> QED  BY <2>1, <2>2, <2>3, <2>4, <2>5
<1> HIDE DEF H, o
<1>3. t \in Int /\ -2 * H <= t /\ t < 2 * H  BY <1>1
<1>4. t < 4 * H  BY <1>1, <1>3
<1> HIDE DEF t
<1>5. /\ r \in 0 .. 2 * H - 1
      /\ r = IF t < 0 THEN t + 2 * H ELSE t
  <2>1. H \in Nat \ {0}  BY <1>1
  <2>2. /\ 0 <= t /\ t < 2 * H => r = t
        /\ 2 * H <= t => r = t - 2 * H
        /\ t < 0 => r = t + 2 * H
        /\ r \in 0 .. 2 * H - 1
    BY <2>1, <1>3, <1>4, ModOnce, Zenon
  <2> QED  BY <1>1, <1>3, <2>2
<1> HIDE DEF r
<1> USE DEF t
<1>6. (~(a >= H <=> b >= H) /\ ~(r >= H <=> b >= H))
        <=> SignedNumber(b, H) - (SignedNumber(a, H) + c) \notin -H .. H - 1
  BY <1>1, <1>5, SMTT(30) DEF SignedNumber
<1>7. b - a - c = r - 2 * H * Carry(o.flags)  BY <1>1, <1>2, <1>5 DEF Carry
<1>8. Digit("sub", H, b, a, c, o)  BY <1>2, <1>5, <1>6, <1>7 DEF Digit, Wide
<1> QED  BY <1>8 DEF H, o

\* INC adds one, DEC subtracts one, NEG subtracts from zero.
LEMMA IncrementDigit ==
  ASSUME NEW s \in Size, NEW a \in 0 .. Mod(s) - 1
  PROVE  Digit("add", Half[s], a, 1, 0, Increment(s, a))
<1> DEFINE H == Half[s]
           t == a + 1
           r == t % (2 * H)
           o == Increment(s, a)
<1>1. H \in Nat \ {0, 1} /\ Mod(s) = 2 * H  BY Halves
<1>2. /\ o.result = r
      /\ o.flags.z <=> r = 0
      /\ o.flags.s <=> r >= H
      /\ o.flags.cy <=> t >= 2 * H
      /\ o.flags.ov <=> (~(a >= H) /\ r >= H /\ a = H - 1)
  <2>1. o.result = r  BY <1>1 DEF Increment, Outcome
  <2>2. o.flags.z <=> r = 0  BY <1>1 DEF Increment, Outcome
  <2>3. o.flags.s <=> r >= H  BY <1>1 DEF Increment, Outcome, Msb
  <2>4. o.flags.cy <=> t >= 2 * H  BY <1>1 DEF Increment, Outcome
  <2>5. o.flags.ov <=> (~(a >= H) /\ r >= H /\ a = H - 1)
    BY <1>1 DEF Increment, Outcome, Msb
  <2> QED  BY <2>1, <2>2, <2>3, <2>4, <2>5
<1> HIDE DEF H, o
<1>3. t \in Int /\ 0 <= t /\ t < 4 * H  BY <1>1
<1>4. -2 * H <= t  BY <1>1, <1>3
<1> HIDE DEF t
<1>5. /\ r \in 0 .. 2 * H - 1
      /\ r = IF t >= 2 * H THEN t - 2 * H ELSE t
  <2>1. H \in Nat \ {0}  BY <1>1
  <2>2. /\ 0 <= t /\ t < 2 * H => r = t
        /\ 2 * H <= t => r = t - 2 * H
        /\ t < 0 => r = t + 2 * H
        /\ r \in 0 .. 2 * H - 1
    BY <2>1, <1>3, <1>4, ModOnce, Zenon
  <2> QED  BY <1>1, <1>3, <2>2
<1> HIDE DEF r
<1> USE DEF t
<1>6. (~(a >= H) /\ r >= H /\ a = H - 1)
        <=> SignedNumber(a, H) + (SignedNumber(1, H) + 0) \notin -H .. H - 1
  BY <1>1, <1>5, SMTT(30) DEF SignedNumber
<1>7. a + 1 + 0 = r + 2 * H * Carry(o.flags)  BY <1>1, <1>2, <1>5 DEF Carry
<1>8. Digit("add", H, a, 1, 0, o)  BY <1>2, <1>5, <1>6, <1>7 DEF Digit, Wide
<1> QED  BY <1>8 DEF H, o

LEMMA DecrementDigit ==
  ASSUME NEW s \in Size, NEW a \in 0 .. Mod(s) - 1
  PROVE  Digit("sub", Half[s], a, 1, 0, Decrement(s, a))
<1> DEFINE H == Half[s]
           t == a - 1
           r == t % (2 * H)
           o == Decrement(s, a)
<1>1. H \in Nat \ {0, 1} /\ Mod(s) = 2 * H  BY Halves
<1>2. /\ o.result = r
      /\ o.flags.z <=> r = 0
      /\ o.flags.s <=> r >= H
      /\ o.flags.cy <=> a = 0
      /\ o.flags.ov <=> (a >= H /\ ~(r >= H))
  <2>1. o.result = r  BY <1>1 DEF Decrement, Outcome
  <2>2. o.flags.z <=> r = 0  BY <1>1 DEF Decrement, Outcome
  <2>3. o.flags.s <=> r >= H  BY <1>1 DEF Decrement, Outcome, Msb
  <2>4. o.flags.cy <=> a = 0  BY <1>1 DEF Decrement, Outcome
  <2>5. o.flags.ov <=> (a >= H /\ ~(r >= H))
    BY <1>1 DEF Decrement, Outcome, Msb
  <2> QED  BY <2>1, <2>2, <2>3, <2>4, <2>5
<1> HIDE DEF H, o
<1>3. t \in Int /\ -2 * H <= t /\ t < 2 * H  BY <1>1
<1>4. t < 4 * H  BY <1>1, <1>3
<1> HIDE DEF t
<1>5. /\ r \in 0 .. 2 * H - 1
      /\ r = IF t < 0 THEN t + 2 * H ELSE t
  <2>1. H \in Nat \ {0}  BY <1>1
  <2>2. /\ 0 <= t /\ t < 2 * H => r = t
        /\ 2 * H <= t => r = t - 2 * H
        /\ t < 0 => r = t + 2 * H
        /\ r \in 0 .. 2 * H - 1
    BY <2>1, <1>3, <1>4, ModOnce, Zenon
  <2> QED  BY <1>1, <1>3, <2>2
<1> HIDE DEF r
<1> USE DEF t
<1>6. (a >= H /\ ~(r >= H))
        <=> SignedNumber(a, H) - (SignedNumber(1, H) + 0) \notin -H .. H - 1
  BY <1>1, <1>5, SMTT(30) DEF SignedNumber
<1>7. a - 1 - 0 = r - 2 * H * Carry(o.flags)  BY <1>1, <1>2, <1>5 DEF Carry
<1>8. Digit("sub", H, a, 1, 0, o)  BY <1>2, <1>5, <1>6, <1>7 DEF Digit, Wide
<1> QED  BY <1>8 DEF H, o

LEMMA NegateDigit ==
  ASSUME NEW s \in Size, NEW a \in 0 .. Mod(s) - 1
  PROVE  Digit("sub", Half[s], 0, a, 0, Negate(s, a))
<1> DEFINE H == Half[s]
           t == -a
           r == t % (2 * H)
           o == Negate(s, a)
<1>1. H \in Nat \ {0, 1} /\ Mod(s) = 2 * H  BY Halves
<1>2. /\ o.result = r
      /\ o.flags.z <=> r = 0
      /\ o.flags.s <=> r >= H
      /\ o.flags.cy <=> a # 0
      /\ o.flags.ov <=> (a >= H /\ r >= H)
  <2>1. o.result = r  BY <1>1 DEF Negate, Outcome
  <2>2. o.flags.z <=> r = 0  BY <1>1 DEF Negate, Outcome
  <2>3. o.flags.s <=> r >= H  BY <1>1 DEF Negate, Outcome, Msb
  <2>4. o.flags.cy <=> a # 0  BY <1>1 DEF Negate, Outcome
  <2>5. o.flags.ov <=> (a >= H /\ r >= H)
    BY <1>1 DEF Negate, Outcome, Msb
  <2> QED  BY <2>1, <2>2, <2>3, <2>4, <2>5
<1> HIDE DEF H, o
<1>3. t \in Int /\ -2 * H <= t /\ t < 2 * H  BY <1>1
<1>4. t < 4 * H  BY <1>1, <1>3
<1> HIDE DEF t
<1>5. /\ r \in 0 .. 2 * H - 1
      /\ r = IF t < 0 THEN t + 2 * H ELSE t
  <2>1. H \in Nat \ {0}  BY <1>1
  <2>2. /\ 0 <= t /\ t < 2 * H => r = t
        /\ 2 * H <= t => r = t - 2 * H
        /\ t < 0 => r = t + 2 * H
        /\ r \in 0 .. 2 * H - 1
    BY <2>1, <1>3, <1>4, ModOnce, Zenon
  <2> QED  BY <1>1, <1>3, <2>2
<1> HIDE DEF r
<1> USE DEF t
<1>6. (a >= H /\ r >= H)
        <=> SignedNumber(0, H) - (SignedNumber(a, H) + 0) \notin -H .. H - 1
  BY <1>1, <1>5, SMTT(30) DEF SignedNumber
<1>7. 0 - a - 0 = r - 2 * H * Carry(o.flags)  BY <1>1, <1>2, <1>5 DEF Carry
<1>8. Digit("sub", H, 0, a, 0, o)  BY <1>2, <1>5, <1>6, <1>7 DEF Digit, Wide
<1> QED  BY <1>8 DEF H, o

-----------------------------------------------------------------------------
(* A digit keeps a chain exact.                                            *)

\* A highest digit b put on a number x of weight w: its range and its sign.
LEMMA PutDigit ==
  ASSUME NEW w \in Nat \ {0}, NEW H \in Nat \ {0}, NEW x \in 0 .. w - 1, NEW b \in 0 .. 2 * H - 1
  PROVE  /\ x + w * b \in 0 .. w * (2 * H) - 1
         /\ x + w * b >= w * H <=> b >= H
         /\ SignedNumber(b, H) \in Int
         /\ SignedNumber(x + w * b, w * H) = x + w * SignedNumber(b, H)
<1>1. /\ w * b \in Int /\ w * (2 * H) \in Int /\ w * H \in Int
      /\ w * (2 * H) = 2 * (w * H) /\ w * b >= 0
  BY SMTT(20)
<1>2. x + w * b < w * (2 * H)  BY HighestDigit
<1>3. x + w * b >= w * H <=> b >= H  BY HighestDigit
<1>4. w * (b - 2 * H) = w * b - w * (2 * H)  BY SMTT(20)
<1>5. SignedNumber(x + w * b, w * H) = x + w * SignedNumber(b, H)
  <2>1. CASE b >= H  BY <1>1, <1>3, <1>4, <2>1 DEF SignedNumber
  <2>2. CASE ~(b >= H)  BY <1>1, <1>3, <2>2 DEF SignedNumber
  <2> QED  BY <2>1, <2>2
<1>6. SignedNumber(b, H) \in Int  BY DEF SignedNumber
<1> QED  BY <1>1, <1>2, <1>3, <1>5, <1>6

\* A number with the highest digit k is in the range of its weight if k is in the
\* range of the digits.
LEMMA InRange ==
  ASSUME NEW w \in Nat \ {0}, NEW H \in Nat \ {0}, NEW low \in 0 .. w - 1, NEW k \in Int
  PROVE  low + w * k \in -(w * H) .. w * H - 1 <=> k \in -H .. H - 1
<1>1. low + w * k < w * H <=> k < H  BY HighestDigit
<1>2. low + w * k >= w * (-H) <=> k >= -H  BY HighestDigit
<1>3. w * (-H) = -(w * H) /\ w * k \in Int /\ w * H \in Int  BY SMTT(20)
<1> QED  BY <1>1, <1>2, <1>3

\* The chain k can take a digit with the carry c.
Open(k, kind, c) ==
  /\ k.weight \in Nat \ {0} /\ k.digits \in Nat
  /\ k.x \in 0 .. k.weight - 1 /\ k.y \in 0 .. k.weight - 1 /\ k.r \in 0 .. k.weight - 1
  /\ kind = "add" => k.x + k.y = k.r + k.weight * c
  /\ kind = "sub" => k.x - k.y = k.r - k.weight * c
  /\ k.digits = 0 => k.weight = 1

\* A chain that can take a digit is exact with it.
LEMMA ExtendExact ==
  ASSUME NEW kind \in {"add", "sub"}, NEW s \in Size, NEW k, NEW c \in {0, 1}, NEW o,
         NEW b \in 0 .. Mod(s) - 1, NEW a \in 0 .. Mod(s) - 1,
         Open(k, kind, c), Digit(kind, Half[s], b, a, c, o)
  PROVE  Exact(Extend(k, kind, s, b, a, o.result), o.flags)
<1> DEFINE H == Half[s]
           w == k.weight
           x == k.x
           y == k.y
           r == k.r
           d == o.result
           cy == Carry(o.flags)
           e == Extend(k, kind, s, b, a, d)
           sb == SignedNumber(b, H)
           sa == SignedNumber(a, H)
<1>1. H \in Nat \ {0} /\ Mod(s) = 2 * H  BY Halves
<1>2. /\ w \in Nat \ {0} /\ k.digits \in Nat
      /\ x \in 0 .. w - 1 /\ y \in 0 .. w - 1 /\ r \in 0 .. w - 1
      /\ kind = "add" => x + y = r + w * c
      /\ kind = "sub" => x - y = r - w * c
      /\ k.digits = 0 => w = 1
  BY DEF Open
<1>3. /\ d \in 0 .. 2 * H - 1
      /\ kind = "add" => b + a + c = d + 2 * H * cy
      /\ kind = "sub" => b - a - c = d - 2 * H * cy
      /\ o.flags.z <=> d = 0
      /\ o.flags.s <=> d >= H
      /\ o.flags.ov <=> Wide(kind, sb, sa + c) \notin -H .. H - 1
  BY DEF Digit
<1>4. cy \in {0, 1}  BY DEF Carry
<1>5. /\ e.kind = kind /\ e.digits = k.digits + 1
      /\ e.x = x + w * b /\ e.y = y + w * a /\ e.r = r + w * d
      /\ e.weight = w * (2 * H) /\ e.half = w * H
  BY <1>1 DEF Extend
<1>6. b \in 0 .. 2 * H - 1 /\ a \in 0 .. 2 * H - 1  BY <1>1
<1> HIDE DEF H, w, x, y, r, d, cy, e, sb, sa
<1>7. w * H \in Nat \ {0} /\ w * (2 * H) = 2 * (w * H)  BY <1>1, <1>2, SMTT(20)
<1>8. /\ x + w * b \in 0 .. w * (2 * H) - 1
      /\ y + w * a \in 0 .. w * (2 * H) - 1
      /\ r + w * d \in 0 .. w * (2 * H) - 1
      /\ r + w * d >= w * H <=> d >= H
  BY <1>1, <1>2, <1>3, <1>6, PutDigit
<1>9. /\ sb \in Int /\ sa \in Int
      /\ SignedNumber(x + w * b, w * H) = x + w * sb
      /\ SignedNumber(y + w * a, w * H) = y + w * sa
  BY <1>1, <1>2, <1>6, PutDigit DEF sb, sa
<1>10. /\ e.digits \in Nat \ {0}
       /\ e.half \in Nat \ {0} /\ e.weight = 2 * e.half
       /\ e.x \in 0 .. e.weight - 1 /\ e.y \in 0 .. e.weight - 1 /\ e.r \in 0 .. e.weight - 1
       /\ o.flags.s <=> e.r >= e.half
       /\ e.digits = 1 => (o.flags.z <=> e.r = 0)
  BY <1>2, <1>3, <1>5, <1>7, <1>8
<1>11. CASE kind = "add"
  <2>1. w * (sb + (sa + c)) = w * sb + w * sa + w * c  BY <1>2, <1>9, SMTT(20)
  <2>2. (x + w * sb) + (y + w * sa) = r + w * (sb + (sa + c))
    BY <1>2, <1>9, <1>11, <2>1, SMTT(20)
  <2>3. r + w * (sb + (sa + c)) \in -(w * H) .. w * H - 1 <=> sb + (sa + c) \in -H .. H - 1
    BY <1>1, <1>2, <1>9, InRange
  <2>4. w * (b + a + c) = w * b + w * a + w * c  BY <1>2, <1>6, SMTT(20)
  <2>5. w * (d + 2 * H * cy) = w * d + (w * (2 * H)) * cy
    BY <1>1, <1>2, <1>3, <1>4, SMTT(20)
  <2>6. (x + w * b) + (y + w * a) = (r + w * d) + (w * (2 * H)) * cy
    BY <1>1, <1>2, <1>3, <1>4, <1>6, <1>11, <2>4, <2>5, SMTT(20)
  <2>7. e.x + e.y = e.r + e.weight * cy  BY <1>5, <2>6
  <2>8. o.flags.ov <=> Wide(e.kind, SignedNumber(e.x, e.half), SignedNumber(e.y, e.half))
                         \notin -e.half .. e.half - 1
    BY <1>3, <1>5, <1>9, <1>11, <2>2, <2>3 DEF Wide
  <2>9. Exact(e, o.flags)  BY <1>5, <1>10, <1>11, <2>7, <2>8 DEF Exact, cy
  <2> QED  BY <2>9 DEF e, d
<1>12. CASE kind = "sub"
  <2>1. w * (sb - (sa + c)) = w * sb - w * sa - w * c  BY <1>2, <1>9, SMTT(20)
  <2>2. (x + w * sb) - (y + w * sa) = r + w * (sb - (sa + c))
    BY <1>2, <1>9, <1>12, <2>1, SMTT(20)
  <2>3. r + w * (sb - (sa + c)) \in -(w * H) .. w * H - 1 <=> sb - (sa + c) \in -H .. H - 1
    BY <1>1, <1>2, <1>9, InRange
  <2>4. w * (b - a - c) = w * b - w * a - w * c  BY <1>2, <1>6, SMTT(20)
  <2>5. w * (d - 2 * H * cy) = w * d - (w * (2 * H)) * cy
    BY <1>1, <1>2, <1>3, <1>4, SMTT(20)
  <2>6. (x + w * b) - (y + w * a) = (r + w * d) - (w * (2 * H)) * cy
    BY <1>1, <1>2, <1>3, <1>4, <1>6, <1>12, <2>4, <2>5, SMTT(20)
  <2>7. e.x - e.y = e.r - e.weight * cy  BY <1>5, <2>6
  <2>8. o.flags.ov <=> Wide(e.kind, SignedNumber(e.x, e.half), SignedNumber(e.y, e.half))
                         \notin -e.half .. e.half - 1
    BY <1>3, <1>5, <1>9, <1>12, <2>2, <2>3 DEF Wide
  <2>9. Exact(e, o.flags)  BY <1>5, <1>10, <1>12, <2>7, <2>8 DEF Exact, cy
  <2> QED  BY <2>9 DEF e, d
<1> QED  BY <1>11, <1>12 DEF e, d

\* A chain can start without a carry.
LEMMA StartOpen == \A kind \in {"add", "sub"} : Open(NoChain, kind, 0)
  BY DEF Open, NoChain

\* An exact chain can go on with the carry it left.
LEMMA ExactOpen ==
  ASSUME NEW k, NEW f, Exact(k, f)
  PROVE  Open(k, k.kind, Carry(f)) /\ Carry(f) \in {0, 1} /\ k.kind \in {"add", "sub"}
<1>1. k.digits # 0 /\ k.digits \in Nat /\ k.weight \in Nat \ {0}  BY DEF Exact
<1> QED  BY <1>1 DEF Exact, Open, Carry

\* A sized operand is in the range of its size.
LEMMA SizedRange == \A s \in Size : \A x \in Nat : Sized(x, s) \in 0 .. Mod(s) - 1
<1> SUFFICES ASSUME NEW s \in Size, NEW x \in Nat
             PROVE  Sized(x, s) \in 0 .. Mod(s) - 1
  OBVIOUS
<1>1. Mod(s) \in Nat \ {0}  BY Halves
<1> QED  BY <1>1 DEF Sized

-----------------------------------------------------------------------------
(* The steps.                                                              *)

\* What the operations of two operands leave of the chain is exact.
LEMMA AluStep ==
  ASSUME NEW op, NEW s \in Size, NEW aw \in Nat, NEW bw \in Nat, NEW u,
         op \notin CountOps, ChainExact(chain, flags)
  PROVE  LET o == AluOutcome(op, s, aw, bw, flags, u)
         IN  ChainExact(NextChain(op, s, Sized(aw, s), Sized(bw, s), o.result), o.flags)
<1> DEFINE a == Sized(aw, s)
           b == Sized(bw, s)
           o == AluOutcome(op, s, aw, bw, flags, u)
           n == NextChain(op, s, a, b, o.result)
<1> SUFFICES ChainExact(n, o.flags)  OBVIOUS
<1>1. a \in 0 .. Mod(s) - 1 /\ b \in 0 .. Mod(s) - 1 /\ 0 \in 0 .. Mod(s) - 1
  BY SizedRange, Halves
<1>2. CASE op = "ALU_ADD"
  <2>1. o = Add(s, a, b, 0)  BY <1>2 DEF AluOutcome
  <2>2. n = Extend(NoChain, "add", s, b, a, o.result)  BY <1>2 DEF NextChain
  <2> HIDE DEF a, b, o, n
  <2>3. Digit("add", Half[s], b, a, 0, o)  BY <1>1, <2>1, AddDigit
  <2> QED  BY <1>1, <2>2, <2>3, StartOpen, ExtendExact DEF ChainExact
<1>3. CASE op \in {"ALU_SUB", "ALU_CMP"}
  <2>1. o = Subtract(s, a, b, 0)  BY <1>3 DEF AluOutcome
  <2>2. n = Extend(NoChain, "sub", s, b, a, o.result)  BY <1>3 DEF NextChain
  <2> HIDE DEF a, b, o, n
  <2>3. Digit("sub", Half[s], b, a, 0, o)  BY <1>1, <2>1, SubtractDigit
  <2> QED  BY <1>1, <2>2, <2>3, StartOpen, ExtendExact DEF ChainExact
<1>4. CASE op = "ALU_NEG"
  <2>1. o = Negate(s, a)  BY <1>4 DEF AluOutcome
  <2>2. n = Extend(NoChain, "sub", s, 0, a, o.result)  BY <1>4 DEF NextChain
  <2> HIDE DEF a, b, o, n
  <2>3. Digit("sub", Half[s], 0, a, 0, o)  BY <1>1, <2>1, NegateDigit
  <2> QED  BY <1>1, <2>2, <2>3, StartOpen, ExtendExact DEF ChainExact
<1>5. CASE op = "ALU_ADDC" /\ chain.kind = "add"
  <2>1. o = Add(s, a, b, Carry(flags))  BY <1>5 DEF AluOutcome
  <2>2. n = Extend(chain, "add", s, b, a, o.result)  BY <1>5 DEF NextChain
  <2>3. Exact(chain, flags)  BY <1>5 DEF ChainExact, NoChain
  <2> HIDE DEF a, b, o, n
  <2>4. Open(chain, "add", Carry(flags)) /\ Carry(flags) \in {0, 1}
    BY <1>5, <2>3, ExactOpen
  <2>5. Digit("add", Half[s], b, a, Carry(flags), o)  BY <1>1, <2>1, <2>4, AddDigit
  <2> QED  BY <1>1, <2>2, <2>4, <2>5, ExtendExact DEF ChainExact
<1>6. CASE op = "ALU_SUBC" /\ chain.kind = "sub"
  <2>1. o = Subtract(s, a, b, Carry(flags))  BY <1>6 DEF AluOutcome
  <2>2. n = Extend(chain, "sub", s, b, a, o.result)  BY <1>6 DEF NextChain
  <2>3. Exact(chain, flags)  BY <1>6 DEF ChainExact, NoChain
  <2> HIDE DEF a, b, o, n
  <2>4. Open(chain, "sub", Carry(flags)) /\ Carry(flags) \in {0, 1}
    BY <1>6, <2>3, ExactOpen
  <2>5. Digit("sub", Half[s], b, a, Carry(flags), o)  BY <1>1, <2>1, <2>4, SubtractDigit
  <2> QED  BY <1>1, <2>2, <2>4, <2>5, ExtendExact DEF ChainExact
<1>7. CASE /\ op \notin {"ALU_ADD", "ALU_SUB", "ALU_CMP", "ALU_NEG"}
           /\ ~(op = "ALU_ADDC" /\ chain.kind = "add")
           /\ ~(op = "ALU_SUBC" /\ chain.kind = "sub")
  BY <1>7 DEF NextChain, CountOps, ChainExact
<1> QED  BY <1>2, <1>3, <1>4, <1>5, <1>6, <1>7

\* What INC and DEC leave of it is exact.
LEMMA CountStep ==
  ASSUME NEW op \in CountOps, NEW s \in Size, NEW aw \in Nat
  PROVE  LET o == AluOutcome(op, s, aw, 0, flags, FALSE)
         IN  ChainExact(NextChain(op, s, Sized(aw, s), 0, o.result), o.flags)
<1> DEFINE a == Sized(aw, s)
           o == AluOutcome(op, s, aw, 0, flags, FALSE)
           n == NextChain(op, s, a, 0, o.result)
<1> SUFFICES ChainExact(n, o.flags)  OBVIOUS
<1>1. a \in 0 .. Mod(s) - 1 /\ 1 \in 0 .. Mod(s) - 1
  BY SizedRange, Halves
<1>2. CASE op = "ALU_INC"
  <2>1. o = Increment(s, a)  BY <1>2 DEF AluOutcome
  <2>2. n = Extend(NoChain, "add", s, a, 1, o.result)  BY <1>2 DEF NextChain
  <2> HIDE DEF a, o, n
  <2>3. Digit("add", Half[s], a, 1, 0, o)  BY <1>1, <2>1, IncrementDigit
  <2> QED  BY <1>1, <2>2, <2>3, StartOpen, ExtendExact DEF ChainExact
<1>3. CASE op = "ALU_DEC"
  <2>1. o = Decrement(s, a)  BY <1>3 DEF AluOutcome
  <2>2. n = Extend(NoChain, "sub", s, a, 1, o.result)  BY <1>3 DEF NextChain
  <2> HIDE DEF a, o, n
  <2>3. Digit("sub", Half[s], a, 1, 0, o)  BY <1>1, <2>1, DecrementDigit
  <2> QED  BY <1>1, <2>2, <2>3, StartOpen, ExtendExact DEF ChainExact
<1> QED  BY <1>2, <1>3 DEF CountOps

\* An instruction of the program has the fields its actions read.
Operand(i, old) ==
  /\ i.op \in AluOps \cup CountOps \cup SysOps \cup FpOps
  /\ i.size \in Size /\ i.src \in Nat /\ old \in Nat

\* The instructions of the program have those fields.
LEMMA Operands ==
  ASSUME NEW i \in Instructions \cup Follow, NEW old \in Contents[i.dst]
  PROVE  Operand(i, old)
<1>1. /\ i.op \in AluOps \cup CountOps \cup SysOps \cup FpOps
      /\ i.size \in Size /\ i.dst \in Destination /\ i.src \in Register
  BY ProgramAssumption
<1>2. Contents[i.dst] \subseteq Register  BY <1>1, ProgramAssumption
<1>3. Register \subseteq Nat  BY DEF Register
<1> QED  BY <1>1, <1>2, <1>3 DEF Operand

\* An instruction keeps the invariant.
LEMMA ExecuteStep ==
  ASSUME NEW i, NEW old, Operand(i, old), IInv, Execute(i, old)
  PROVE  IInv'
<1>1. inst' = i /\ i.op # "BRANCH"
  <2>1. inst' = i
    BY DEF Execute, ExecuteAlu, Count1, TestAndSet, CrossMove, Truncate, SetFlag, UpdatePsw,
           ExecuteFloat, Done
  <2>2. i.op # "BRANCH"  BY DEF Operand, AluOps, CountOps, SysOps, FpOps, Extends
  <2> QED  BY <2>1, <2>2
<1> SUFFICES ChainExact(chain, flags)'  BY <1>1 DEF IInv
<1>2. ASSUME NEW u \in BOOLEAN, ExecuteAlu(i, old, u)
      PROVE  ChainExact(chain, flags)'
  <2> DEFINE o == AluOutcome(i.op, i.size, i.src, old, flags, u)
             n == NextChain(i.op, i.size, Sized(i.src, i.size), Sized(old, i.size), o.result)
  <2>1. /\ chain' = IF WritesFlags(i) THEN n ELSE chain
        /\ flags' = IF WritesFlags(i) THEN o.flags ELSE flags
    BY <1>2 DEF ExecuteAlu, Done
  <2>2. i.op \notin CountOps  BY <1>2 DEF ExecuteAlu, AluOps, CountOps
  <2>3. ChainExact(n, o.flags)  BY <2>2, AluStep DEF IInv, Operand
  <2> HIDE DEF n, o
  <2> QED  BY <2>1, <2>3 DEF IInv, ChainExact
<1>3. CASE Count1(i, old)
  <2> DEFINE o == AluOutcome(i.op, i.size, old, 0, flags, FALSE)
             n == NextChain(i.op, i.size, Sized(old, i.size), 0, o.result)
  <2>1. chain' = n /\ flags' = o.flags  BY <1>3 DEF Count1, Done
  <2>2. ChainExact(n, o.flags)  BY <1>3, CountStep DEF Count1, Operand
  <2> HIDE DEF n, o
  <2> QED  BY <2>1, <2>2 DEF ChainExact
<1>4. CASE TestAndSet(i, old)
  <2> DEFINE ones == Mod("SZ_BYTE") - 1
             low == Sized(old, "SZ_BYTE")
             o == AluOutcome("ALU_SUB", "SZ_BYTE", ones, low, flags, FALSE)
             n == NextChain("ALU_SUB", "SZ_BYTE", ones, low, o.result)
  <2>1. chain' = n /\ flags' = o.flags  BY <1>4 DEF TestAndSet, Done
  <2>2. "SZ_BYTE" \in Size /\ Mod("SZ_BYTE") \in Nat \ {0}  BY Halves DEF Size
  <2>3. low \in 0 .. Mod("SZ_BYTE") - 1  BY <2>2, SizedRange DEF Operand
  <2>4. ones \in Nat /\ low \in Nat  BY <2>2, <2>3
  <2>5. Sized(ones, "SZ_BYTE") = ones /\ Sized(low, "SZ_BYTE") = low
    BY <2>2, <2>3 DEF Sized
  <2> HIDE DEF ones, low
  <2>6. ChainExact(NextChain("ALU_SUB", "SZ_BYTE", Sized(ones, "SZ_BYTE"),
                             Sized(low, "SZ_BYTE"), o.result), o.flags)
    BY <2>2, <2>4, AluStep DEF IInv, CountOps
  <2>7. ChainExact(n, o.flags)  BY <2>5, <2>6
  <2> HIDE DEF n, o
  <2> QED  BY <2>1, <2>7 DEF ChainExact
<1>5. CASE CrossMove(i, old) \/ SetFlag(i, old)
  BY <1>5 DEF CrossMove, SetFlag, Done, IInv, ChainExact
<1>6. CASE Truncate(i, old) \/ UpdatePsw(i, old)
  BY <1>6 DEF Truncate, UpdatePsw, ChainExact
<1>7. CASE ExecuteFloat(i, old)
  BY <1>7 DEF ExecuteFloat, Done, IInv, ChainExact
<1> QED  BY <1>2, <1>3, <1>4, <1>5, <1>6, <1>7 DEF Execute

\* So does every step.
LEMMA NextStep == IInv /\ [Next]_vars => IInv'
<1> SUFFICES ASSUME IInv, [Next]_vars
             PROVE  IInv'
  OBVIOUS
<1>1. ASSUME NEW i \in Instructions \cup Follow, NEW old \in Contents[i.dst], Execute(i, old)
      PROVE  IInv'
  BY <1>1, Operands, ExecuteStep
<1>2. ASSUME NEW cond, Branch(cond)
      PROVE  IInv'
  BY <1>2 DEF Branch, IInv, ChainExact
<1>3. CASE Retire
  BY <1>3 DEF Retire, NoInst, IInv, ChainExact
<1>4. CASE Forget
  BY <1>4 DEF Forget, IInv, ChainExact
<1>5. CASE UNCHANGED vars
  BY <1>5 DEF vars, IInv, ChainExact
<1> QED  BY <1>1, <1>2, <1>3, <1>4, <1>5 DEF Next

\* The invariant holds in every state.
LEMMA ProgramInvariant == Spec => []IInv
<1>1. Init => IInv  BY DEF Init, NoInst, IInv, ChainExact
<1> QED  BY <1>1, NextStep, PTL DEF Spec

-----------------------------------------------------------------------------
(* The theorems.                                                           *)

\* The sum or difference a program computes digit by digit through the carry is
\* exact at every digit, for every width, every size and number of digits and
\* whatever instructions that keep the flags run in between.
THEOREM WideSumHolds == Spec => []WideSum
<1>1. IInv => WideSum
  BY DEF IInv, ChainExact, Exact, WideSum, Wide
<1> QED  BY <1>1, ProgramInvariant, PTL

\* A branch on the flags of a comparison, of any number of digits of any width,
\* decides as its condition is named.
THEOREM WideCompareHolds == Spec => []WideCompare
<1>1. ASSUME IInv, inst.op = "BRANCH", chain.kind = "sub"
      PROVE  WideCompare
  <2> DEFINE x == chain.x
             y == chain.y
             r == chain.r
             h == chain.half
             sx == SignedNumber(x, h)
             sy == SignedNumber(y, h)
  <2>1. Exact(chain, flags) /\ taken = CondMet(flags, inst.cond)
    BY <1>1 DEF IInv, ChainExact, NoChain
  <2>2. /\ h \in Nat \ {0} /\ chain.weight = 2 * h
        /\ x \in 0 .. 2 * h - 1 /\ y \in 0 .. 2 * h - 1 /\ r \in 0 .. 2 * h - 1
        /\ flags.cy => x - y = r - 2 * h
        /\ ~flags.cy => x - y = r
        /\ chain.digits = 1 => (flags.z <=> r = 0)
        /\ flags.s <=> r >= h
        /\ flags.ov <=> sx - sy \notin -h .. h - 1
    BY <1>1, <2>1 DEF Exact, Wide, Carry
  <2>3. /\ sx \in Int /\ sy \in Int
        /\ sx = IF x >= h THEN x - 2 * h ELSE x
        /\ sy = IF y >= h THEN y - 2 * h ELSE y
    BY <2>2 DEF SignedNumber
  <2> HIDE DEF x, y, r, h, sx, sy
  <2>4. flags.cy <=> x < y  BY <2>2, SMTT(20)
  <2>5. (flags.s <=> ~flags.ov) <=> sx < sy  BY <2>2, <2>3, SMTT(30)
  <2>6. chain.digits = 1 => (flags.z <=> x = y) /\ (flags.z <=> sx = sy)
    BY <2>2, <2>3, SMTT(30)
  <2>7. /\ inst.cond = "CC_BL" => (taken <=> flags.cy)
        /\ inst.cond = "CC_BNL" => (taken <=> ~flags.cy)
        /\ inst.cond = "CC_BLT" => (taken <=> ~(flags.s <=> flags.ov))
        /\ inst.cond = "CC_BGE" => (taken <=> (flags.s <=> flags.ov))
        /\ inst.cond = "CC_BE" => (taken <=> flags.z)
        /\ inst.cond = "CC_BNE" => (taken <=> ~flags.z)
        /\ inst.cond = "CC_BNH" => (taken <=> flags.cy \/ flags.z)
        /\ inst.cond = "CC_BH" => (taken <=> ~flags.cy /\ ~flags.z)
        /\ inst.cond = "CC_BLE" => (taken <=> ~(flags.s <=> flags.ov) \/ flags.z)
        /\ inst.cond = "CC_BGT" => (taken <=> (flags.s <=> flags.ov) /\ ~flags.z)
    BY <2>1 DEF CondMet
  <2>8. /\ inst.cond = "CC_BL"  => (taken <=> x < y)
        /\ inst.cond = "CC_BNL" => (taken <=> x >= y)
        /\ inst.cond = "CC_BLT" => (taken <=> sx < sy)
        /\ inst.cond = "CC_BGE" => (taken <=> sx >= sy)
    BY <2>2, <2>3, <2>4, <2>5, <2>7
  <2>9. ASSUME chain.digits = 1
        PROVE  /\ inst.cond = "CC_BE"  => (taken <=> x = y)
               /\ inst.cond = "CC_BNE" => (taken <=> x # y)
               /\ inst.cond = "CC_BNH" => (taken <=> x <= y)
               /\ inst.cond = "CC_BH"  => (taken <=> x > y)
               /\ inst.cond = "CC_BLE" => (taken <=> sx <= sy)
               /\ inst.cond = "CC_BGT" => (taken <=> sx > sy)
    BY <2>2, <2>3, <2>4, <2>5, <2>6, <2>7, <2>9
  <2> QED  BY <2>8, <2>9 DEF WideCompare, x, y, h, sx, sy
<1>2. IInv => WideCompare  BY <1>1 DEF WideCompare
<1> QED  BY <1>2, ProgramInvariant, PTL

-----------------------------------------------------------------------------
(* Floats.                                                                 *)

\* The unit has the same powers of two.
LEMMA FloatTwo == Float!Two = Two
  BY DEF Float!Two, Two

\* Sizes of the fields of a float.
LEMMA FloatSizes ==
  /\ EXP \in Nat /\ EXP >= 2 /\ FRAC \in Nat /\ FRAC >= 1
  /\ Float!One = Two[FRAC] /\ Float!One \in Nat \ {0, 1}
  /\ Float!ExpMod = Two[EXP] /\ Float!ExpMod \in Nat /\ Float!ExpMod >= 4
  /\ Float!Top = Float!ExpMod * Float!One /\ Float!Top \in Nat \ {0}
  /\ Float!WordMod = 2 * Float!Top
  /\ Float!Bias \in Nat /\ 2 * (Float!Bias + 1) = Float!ExpMod
  /\ EXP + FRAC <= Float!Bias
<1>1. EXP \in Nat /\ EXP >= 2 /\ FRAC \in Nat /\ FRAC >= 1  BY FloatAssumption
<1>2. Float!One = Two[FRAC] /\ Float!ExpMod = Two[EXP] /\ Float!Bias = Two[EXP - 1] - 1
  BY FloatTwo DEF Float!One, Float!ExpMod, Float!Bias
<1>3. Two[1] = 2 /\ Two[2] = 4
  <2>1. Two[0 + 1] = 2 * Two[0] /\ Two[1 + 1] = 2 * Two[1]  BY TwoIs
  <2> QED  BY <2>1, TwoIs
<1>4. Two[FRAC] \in Nat /\ Two[FRAC] >= 2  BY <1>1, <1>3, TwoGrows
<1>5. Two[EXP] \in Nat /\ Two[EXP] >= 4  BY <1>1, <1>3, TwoGrows
<1>6. Two[EXP - 1] \in Nat \ {0} /\ 2 * Two[EXP - 1] = Two[EXP]
  <2>1. EXP - 1 \in Nat /\ (EXP - 1) + 1 = EXP  BY <1>1
  <2> QED  BY <2>1, TwoIs
<1>7. Float!Top = Two[EXP] * Two[FRAC]
  BY <1>1, TwoSum, FloatTwo DEF Float!Top
<1>8. Float!Top \in Nat \ {0}
  <2>1. EXP + FRAC \in Nat  BY <1>1
  <2> QED  BY <2>1, TwoIs, FloatTwo DEF Float!Top
<1>9. Float!WordMod = 2 * Float!Top  BY DEF Float!WordMod
<1>10. EXP + FRAC < Two[EXP - 1]  BY FloatAssumption
<1> QED  BY <1>1, <1>2, <1>4, <1>5, <1>6, <1>7, <1>8, <1>9, <1>10

\* A register is a float.
LEMMA RegisterWord == Register = Float!Word /\ Mod("SZ_WORD") = Float!WordMod
<1>1. WordBits - 1 = EXP + FRAC  BY FloatSizes, FloatAssumption
<1>2. Half["SZ_WORD"] = Two[EXP + FRAC]
  BY <1>1, HalfAssumption DEF Size, WordBits
<1> QED  BY <1>2, FloatTwo DEF Register, Mod, Float!Word, Float!WordMod, Float!Top

\* The fields of a word, by division.
LEMMA Fields ==
  ASSUME NEW O \in Nat \ {0}, NEW E \in Nat \ {0}, NEW a \in Nat
  PROVE  /\ (a \div O) % E \in 0 .. E - 1 /\ a % O \in 0 .. O - 1
         /\ a % (E * O) = O * ((a \div O) % E) + (a % O)
<1> DEFINE p == a \div O
           f == a % O
<1>1. p \in Nat /\ f \in 0 .. O - 1 /\ a = O * p + f  BY SMTT(20)
<1> HIDE DEF p, f
<1> DEFINE q == p \div E
           e == p % E
<1>2. q \in Nat /\ e \in 0 .. E - 1 /\ p = E * q + e  BY <1>1, SMTT(20)
<1> HIDE DEF q, e
<1>3. E * O \in Nat \ {0} /\ O * e \in Nat /\ (E * O) * q \in Nat  BY <1>1, <1>2, SMTT(20)
<1>4. O * p = (E * O) * q + O * e
  <2>1. O * (E * q + e) = (E * O) * q + O * e  BY <1>2, SMTT(20)
  <2> QED  BY <1>2, <2>1
<1>5. O * e + f < E * O
  <2>1. O * e + O <= O * E  BY <1>2, Apart
  <2> QED  BY <1>1, <1>2, <1>3, <2>1
<1>6. a = (E * O) * q + (O * e + f)  BY <1>1, <1>3, <1>4
<1>7. ((E * O) * q + (O * e + f)) % (E * O) = O * e + f
  <2> DEFINE M == E * O
             r == O * e + f
  <2>1. M \in Nat \ {0} /\ q \in Nat /\ r \in 0 .. M - 1  BY <1>1, <1>2, <1>3, <1>5
  <2> HIDE DEF M, r
  <2>2. (M * q + r) % M = r  BY <2>1, SMTT(30)
  <2> QED  BY <2>2 DEF M, r
<1> QED  BY <1>1, <1>2, <1>6, <1>7 DEF p, f, e

\* The fields of a float.
LEMMA FloatFields ==
  ASSUME NEW a \in Nat
  PROVE  /\ Float!Exp(a) \in 0 .. Float!ExpMod - 1
         /\ Float!Frac(a) \in 0 .. Float!One - 1
         /\ Float!Magnitude(a) = Float!One * Float!Exp(a) + Float!Frac(a)
         /\ Float!Magnitude(a) \in 0 .. Float!Top - 1
         /\ Float!Sign(a) \in BOOLEAN
<1>1. /\ Float!One \in Nat \ {0} /\ Float!ExpMod \in Nat \ {0}
      /\ Float!Top = Float!ExpMod * Float!One /\ Float!Top \in Nat \ {0}
  BY FloatSizes
<1>2. a % Float!Top \in 0 .. Float!Top - 1
  <2> DEFINE T == Float!Top
  <2> HIDE DEF T
  <2>1. T \in Nat \ {0} => a % T \in 0 .. T - 1  BY SMTT(20)
  <2> QED  BY <1>1, <2>1 DEF T
<1>3. Float!Sign(a) \in BOOLEAN  BY DEF Float!Sign
<1> QED  BY <1>1, <1>2, <1>3, Fields DEF Float!Exp, Float!Frac, Float!Magnitude

\* A float put together from its fields.
LEMMA PackWord ==
  ASSUME NEW sign \in BOOLEAN, NEW e \in 0 .. Float!ExpMod - 1, NEW f \in 0 .. Float!One - 1
  PROVE  /\ Float!Pack(sign, e, f) \in Register
         /\ Float!Sign(Float!Pack(sign, e, f)) = sign
         /\ e # 0 => Float!Pack(sign, e, f) # 0
<1> DEFINE O == Float!One
           E == Float!ExpMod
           T == Float!Top
           p == Float!Pack(sign, e, f)
<1>1. O \in Nat \ {0} /\ E \in Nat \ {0} /\ T = E * O /\ T \in Nat \ {0} /\ Float!WordMod = 2 * T
  BY FloatSizes
<1>2. p = (IF sign THEN T ELSE 0) + O * e + f  BY DEF Float!Pack
<1>3. Float!Sign(p) = (p >= T)  BY DEF Float!Sign
<1> HIDE DEF O, E, T, p
<1>4. e \in Nat /\ e < E /\ f \in Nat /\ f < O  BY <1>1 DEF O, E
<1>5. O * e + O <= O * E  BY <1>1, <1>4, Apart
<1>6. O * e \in Nat /\ O * E = T  BY <1>1, <1>4, SMTT(20)
<1>7. e # 0 => O * e # 0  BY <1>1, <1>4, SMTT(20)
<1>8. /\ p \in 0 .. 2 * T - 1
      /\ (p >= T) = sign
      /\ e # 0 => p # 0
  BY <1>1, <1>2, <1>4, <1>5, <1>6, <1>7
<1>9. p \in Register  BY <1>1, <1>8, RegisterWord DEF Float!Word
<1> QED  BY <1>3, <1>8, <1>9 DEF p

\* The place of the highest bit of a sum or of a word.
LEMMA HighestBit ==
  ASSUME NEW N \in Nat, N <= 2 * FRAC + EXP + 4, NEW x \in Nat \ {0}, x < Two[N]
  PROVE  LET n == Float!BitLength(x)
         IN  n \in 1 .. N /\ Two[n - 1] <= x /\ x < Two[n]
<1> DEFINE n == Float!BitLength(x)
<1>1. PICK k \in 1 .. N : Two[k - 1] <= x /\ x < Two[k]  BY TwoBetween
<1>2. k \in 1 .. 2 * FRAC + EXP + 4  BY FloatSizes
<1>3. n = CHOOSE j \in 1 .. 2 * FRAC + EXP + 4 : Two[j - 1] <= x /\ x < Two[j]
  BY FloatTwo DEF Float!BitLength
<1> HIDE DEF n
<1>4. n \in 1 .. 2 * FRAC + EXP + 4 /\ Two[n - 1] <= x /\ x < Two[n]
  BY <1>1, <1>2, <1>3
<1>5. n <= N
  <2> SUFFICES ASSUME N < n
               PROVE  FALSE
    BY <1>4, FloatSizes
  <2>1. n - 1 \in Nat /\ N <= n - 1  BY <1>4, FloatSizes
  <2>2. Two[N] <= Two[n - 1] /\ Two[N] \in Nat /\ Two[n - 1] \in Nat  BY <2>1, TwoGrows
  <2> QED  BY <1>4, <2>2
<1> QED  BY <1>4, <1>5, FloatSizes DEF n

\* A product is as large as its factors say.
LEMMA Products ==
  ASSUME NEW x \in Nat, NEW y \in Nat, NEW w \in Nat
  PROVE  /\ x * w \in Nat /\ y * w \in Nat
         /\ x <= y => x * w <= y * w
         /\ x < y => x * w + w <= y * w
<1>1. x * w \in Nat /\ y * w \in Nat  BY SMTT(20)
<1>2. ASSUME x <= y
      PROVE  x * w <= y * w
  <2>1. (y - x) * w >= 0  BY <1>2, SMTT(20)
  <2>2. (y - x) * w = y * w - x * w  BY SMTT(20)
  <2> QED  BY <1>1, <2>1, <2>2
<1>3. ASSUME x < y
      PROVE  x * w + w <= y * w
  <2>1. x + 1 \in Nat /\ x + 1 <= y  BY <1>3
  <2>2. (y - (x + 1)) * w >= 0  BY <2>1, SMTT(20)
  <2>3. (y - (x + 1)) * w = y * w - x * w - w  BY SMTT(20)
  <2> QED  BY <1>1, <2>2, <2>3
<1> QED  BY <1>1, <1>2, <1>3

\* A sum that is normalized keeps its sign, and is made zero only when it is less than the
\* least normal number.
LEMMA NormalizedSum ==
  ASSUME NEW sign \in BOOLEAN, NEW e \in 1 .. Float!ExpMod - 2, NEW sum \in 1 .. 4 * Float!One - 1
  PROVE  LET r == Float!Normalized(sign, e, sum)
         IN /\ r \in Register
            /\ r # 0 => Float!Sign(r) = sign
            /\ r = 0 => sum * Two[e - 1] < Float!One
<1> DEFINE n == FRAC + 2 - Float!BitLength(sum)
           f == IF n = 0
                THEN (sum \div 2) + (IF sum % 2 = 1 /\ (sum \div 2) % 2 = 1 THEN 1 ELSE 0)
                ELSE (sum * Two[n - 1]) % Float!One
           x == IF n > 1 /\ n > e THEN 0 ELSE (e + 1 - n) % Float!ExpMod
           r == Float!Normalized(sign, e, sum)
<1>1. r = IF x = 0 THEN 0 ELSE Float!Pack(sign, x, f % Float!One)
  BY FloatTwo DEF Float!Normalized
<1>2. /\ Float!BitLength(sum) \in 1 .. FRAC + 2
      /\ sum < Two[Float!BitLength(sum)]
  <2>1. Two[FRAC + 2] = 4 * Float!One
    <3>1. Two[FRAC + 1] = 2 * Two[FRAC] /\ Two[(FRAC + 1) + 1] = 2 * Two[FRAC + 1]
      BY FloatSizes, TwoIs
    <3>2. (FRAC + 1) + 1 = FRAC + 2  BY FloatSizes
    <3> QED  BY <3>1, <3>2, FloatSizes
  <2>2. sum \in Nat \ {0} /\ sum < Two[FRAC + 2]  BY <2>1, FloatSizes
  <2>3. FRAC + 2 \in Nat /\ FRAC + 2 <= 2 * FRAC + EXP + 4  BY FloatSizes
  <2> QED  BY <2>2, <2>3, HighestBit
<1>3. n \in 0 .. FRAC + 1 /\ FRAC + 2 - n = Float!BitLength(sum)  BY <1>2, FloatSizes
<1>4. sum < Two[FRAC + 2 - n]  BY <1>2, <1>3
<1>5. f \in Nat
  <2>1. CASE n = 0
    BY <2>1, FloatSizes, SMTT(20)
  <2>2. CASE n # 0
    <3>1. n - 1 \in Nat /\ Two[n - 1] \in Nat  BY <1>3, <2>2, FloatSizes, TwoIs
    <3>2. sum \in Nat  BY FloatSizes
    <3> DEFINE P == Two[n - 1]
               O == Float!One
    <3>3. P \in Nat /\ O \in Nat \ {0}  BY <3>1, FloatSizes
    <3> HIDE DEF P, O
    <3>4. sum * P \in Nat  BY <3>2, <3>3, SMTT(20)
    <3>5. (sum * P) % O \in Nat  BY <3>3, <3>4, SMTT(20)
    <3> QED  BY <2>2, <3>5 DEF P, O
  <2> QED  BY <2>1, <2>2
<1> HIDE DEF f, r
<1>6. f % Float!One \in 0 .. Float!One - 1
  <2> DEFINE O == Float!One
  <2>1. O \in Nat \ {0}  BY FloatSizes
  <2> HIDE DEF O
  <2>2. f % O \in 0 .. O - 1  BY <1>5, <2>1, SMTT(20)
  <2> QED  BY <2>2 DEF O
<1> HIDE DEF n
<1>7. x = IF n > 1 /\ n > e THEN 0 ELSE e + 1 - n
  <2> SUFFICES ASSUME ~(n > 1 /\ n > e)
               PROVE  (e + 1 - n) % Float!ExpMod = e + 1 - n
    OBVIOUS
  <2> DEFINE E == Float!ExpMod
  <2>1. E \in Nat /\ E >= 4 /\ e \in 1 .. E - 2 /\ n \in Nat  BY <1>3, FloatSizes
  <2> HIDE DEF E
  <2>2. e + 1 - n \in 0 .. E - 1  BY <2>1
  <2>3. (e + 1 - n) % E = e + 1 - n  BY <2>1, <2>2, SMTT(20)
  <2> QED  BY <2>3 DEF E
<1> HIDE DEF x
<1>8. x \in 0 .. Float!ExpMod - 1  BY <1>3, <1>7, FloatSizes
<1>9. r \in Register /\ (r # 0 => Float!Sign(r) = sign) /\ (r = 0 => x = 0)
  <2>1. CASE x = 0
    <3>1. r = 0  BY <1>1, <2>1
    <3>2. 0 \in Register  BY RegisterWord, FloatSizes DEF Float!Word
    <3> QED  BY <2>1, <3>1, <3>2
  <2>2. CASE x # 0
    <3>1. r = Float!Pack(sign, x, f % Float!One)  BY <1>1, <2>2
    <3> QED  BY <1>6, <1>8, <2>2, <3>1, PackWord
  <2> QED  BY <2>1, <2>2
<1>10. ASSUME x = 0
       PROVE  sum * Two[e - 1] < Float!One
  <2>1. n > 1 /\ n > e  BY <1>3, <1>7, <1>10, FloatSizes
  <2> DEFINE k == FRAC + 2 - n
             j == e - 1
  <2>2. k \in Nat /\ j \in Nat /\ k + j \in Nat /\ k + j <= FRAC  BY <1>3, <2>1, FloatSizes
  <2>3. sum < Two[k]  BY <1>4
  <2> HIDE DEF k, j
  <2>4. Two[k + j] = Two[k] * Two[j]  BY <2>2, TwoSum
  <2>5. Two[k + j] <= Two[FRAC]  BY <2>2, FloatSizes, TwoGrows
  <2>6. Two[k] \in Nat /\ Two[j] \in Nat \ {0} /\ sum \in Nat  BY <2>2, FloatSizes, TwoIs
  <2>7. sum * Two[j] + Two[j] <= Two[k] * Two[j]  BY <2>3, <2>6, Products
  <2>8. sum * Two[j] \in Nat /\ Two[k] * Two[j] \in Nat  BY <2>6, Products
  <2>9. sum * Two[j] < Two[FRAC]  BY <2>4, <2>5, <2>6, <2>7, <2>8, FloatSizes
  <2> QED  BY <2>9, FloatSizes DEF j
<1> QED  BY <1>9, <1>10 DEF r

\* A float is zero or normal, and has a significand of FRAC + 1 bits.
LEMMA OrdinaryFields ==
  ASSUME NEW a \in Nat, Float!Ordinary(a)
  PROVE  /\ Float!Exp(a) \in 0 .. Float!ExpMod - 2
         /\ Float!Significand(a) \in 0 .. 2 * Float!One - 1
         /\ Float!Exp(a) = 0 => Float!Significand(a) = 0 /\ Float!Magnitude(a) = 0
         /\ Float!Exp(a) # 0 => Float!Significand(a) >= Float!One
<1> DEFINE O == Float!One
           E == Float!ExpMod
           e == Float!Exp(a)
           f == Float!Frac(a)
           g == Float!Magnitude(a)
<1>1. O \in Nat \ {0, 1} /\ E \in Nat /\ E >= 4  BY FloatSizes
<1>2. e \in 0 .. E - 1 /\ f \in 0 .. O - 1 /\ g = O * e + f  BY FloatFields
<1>3. Float!Significand(a) = IF e # 0 THEN O + f ELSE f  BY DEF Float!Significand
<1>4. g = 0 \/ e \in 1 .. E - 2  BY DEF Float!Ordinary
<1> HIDE DEF O, E, e, f, g
<1>5. O * e \in Nat /\ (e # 0 => O * e # 0) /\ (e = 0 => O * e = 0)
  BY <1>1, <1>2, SMTT(20)
<1>6. /\ e \in 0 .. E - 2
      /\ Float!Significand(a) \in 0 .. 2 * O - 1
      /\ e = 0 => Float!Significand(a) = 0 /\ g = 0
      /\ e # 0 => Float!Significand(a) >= O
  BY <1>1, <1>2, <1>3, <1>4, <1>5
<1> QED  BY <1>6 DEF O, E, e, g

\* The place of the exponent e.
PlaceOf(e) == IF e = 0 THEN 0 ELSE e - 1

\* The larger operand, with the significand S and the exponent e, and the smaller one, with
\* T and k: aligning loses nothing of it that decides which is larger, and the difference
\* of the numbers is at most that of the aligned significands.
LEMMA Alignment ==
  ASSUME NEW S \in 0 .. 2 * Float!One - 1, NEW T \in 0 .. 2 * Float!One - 1,
         NEW e \in 0 .. Float!ExpMod - 2, NEW k \in 0 .. e,
         e = 0 => S = 0, e # 0 => S >= Float!One, k = 0 => T = 0, k # 0 => T >= Float!One,
         e = k => T <= S
  PROVE  LET s  == Float!Aligned(T, (e - k) % Float!ExpMod)
             us == S * Two[PlaceOf(e)]
             ut == T * Two[PlaceOf(k)]
         IN /\ s \in 0 .. S /\ S + s < 4 * Float!One
            /\ us \in Nat /\ ut \in Nat /\ ut <= us
            /\ us - ut <= (S - s) * Two[PlaceOf(e)]
            /\ us = ut <=> S = s
<1> DEFINE O == Float!One
           E == Float!ExpMod
           s == Float!Aligned(T, (e - k) % E)
           us == S * Two[PlaceOf(e)]
           ut == T * Two[PlaceOf(k)]
           d == e - k
<1>1. O \in Nat \ {0, 1} /\ E \in Nat /\ E >= 4 /\ O = Two[FRAC] /\ FRAC \in Nat
  BY FloatSizes
<1>2. S \in 0 .. 2 * O - 1 /\ T \in 0 .. 2 * O - 1 /\ e \in 0 .. E - 2 /\ k \in 0 .. e
  OBVIOUS
<1>3. s = IF d > FRAC + 1 THEN 0 ELSE T \div Two[d]
  <2> HIDE DEF E
  <2>1. (e - k) % E = d  BY <1>1, <1>2, SMTT(20)
  <2> HIDE DEF d
  <2> QED  BY <2>1, FloatTwo DEF Float!Aligned
<1>4. PlaceOf(e) \in Nat /\ PlaceOf(k) \in Nat /\ d \in Nat  BY <1>1, <1>2 DEF PlaceOf
<1> DEFINE P == Two[PlaceOf(e)]
           Q == Two[PlaceOf(k)]
           D == Two[d]
<1>5. P \in Nat \ {0} /\ Q \in Nat \ {0} /\ D \in Nat \ {0}  BY <1>4, TwoIs
<1>6. us = S * P /\ ut = T * Q  OBVIOUS
<1>7. us \in Nat /\ ut \in Nat
  <2> HIDE DEF P, Q, us, ut
  <2>1. S \in Nat /\ T \in Nat  BY <1>1, <1>2
  <2> QED  BY <1>5, <1>6, <2>1, Products
<1>8. CASE k = 0
  <2>1. T = 0 /\ ut = 0 /\ s = 0
    <3>1. T = 0  BY <1>8
    <3>2. 0 * Q = 0 /\ 0 \div D = 0
      <4> HIDE DEF Q, D
      <4> QED  BY <1>5, SMTT(20)
    <3> QED  BY <1>3, <1>6, <3>1, <3>2
  <2>2. us = 0 <=> S = 0
    <3> HIDE DEF P, us
    <3> QED  BY <1>1, <1>2, <1>5, <1>6, SMTT(20)
  <2>3. (S - s) * P = us
    <3>1. S - s = S  BY <1>1, <1>2, <2>1
    <3> QED  BY <1>6, <3>1
  <2> HIDE DEF O, s, us, ut, P
  <2>4. /\ s \in 0 .. S /\ S + s < 4 * O
        /\ us \in Nat /\ ut \in Nat /\ ut <= us
        /\ us - ut <= (S - s) * P
        /\ us = ut <=> S = s
    BY <1>1, <1>2, <1>7, <2>1, <2>2, <2>3
  <2> QED  BY <2>4 DEF O, s, us, ut, P
<1>9. CASE k # 0
  <2>1. P = Q * D /\ e # 0
    <3>1. PlaceOf(e) = PlaceOf(k) + d /\ e # 0  BY <1>1, <1>2, <1>9 DEF PlaceOf
    <3> QED  BY <1>4, <3>1, TwoSum
  <2>2. S >= O /\ T >= O  BY <1>9, <2>1
  <2>3. D > 1 => T < S * D
    <3> SUFFICES ASSUME D > 1
                 PROVE  T < S * D
      OBVIOUS
    <3> HIDE DEF D, O
    <3>1. S * 2 <= S * D
      <4>1. 2 * S <= D * S  BY <1>1, <1>2, <1>5, Products
      <4> QED  BY <1>1, <1>2, <1>5, <4>1, SMTT(20)
    <3>2. S * D \in Nat  BY <1>1, <1>2, <1>5, SMTT(20)
    <3> QED  BY <1>1, <1>2, <2>2, <3>1, <3>2
  <2>4. /\ s * D <= T /\ s \in Nat
        /\ D = 1 => s = T
    <3>1. CASE d > FRAC + 1
      <4>1. s = 0 /\ d # 0  BY <1>1, <1>3, <1>4, <3>1
      <4>2. D >= 2
        <5>1. Two[0] = 1 /\ 2 * Two[0] <= Two[d]  BY <1>4, <4>1, TwoIs, TwoGrows
        <5> QED  BY <5>1
      <4> HIDE DEF D, s
      <4>3. 0 * D = 0  BY <1>5
      <4> QED  BY <1>1, <1>2, <4>1, <4>2, <4>3
    <3>2. CASE ~(d > FRAC + 1)
      <4>1. s = T \div D  BY <1>3, <3>2
      <4> HIDE DEF D, s
      <4>2. (T \div D) * D <= T /\ T \div D \in Nat  BY <1>1, <1>2, <1>5, SMTT(20)
      <4>3. D = 1 => T \div D = T  BY <1>1, <1>2, SMTT(20)
      <4> QED  BY <4>1, <4>2, <4>3
    <3> QED  BY <3>1, <3>2
  <2>5. D = 1 => T <= S
    <3> SUFFICES ASSUME D = 1
                 PROVE  e = k
      OBVIOUS
    <3>1. d > 0 => 2 * Two[0] <= Two[d]  BY <1>4, TwoGrows
    <3>2. Two[0] = 1  BY TwoIs
    <3> QED  BY <1>2, <1>4, <3>1, <3>2
  <2>6. D > 1 => 2 * s <= s * D
    <3> HIDE DEF D, s
    <3> SUFFICES ASSUME D > 1
                 PROVE  2 * s <= s * D
      OBVIOUS
    <3>1. 2 * s <= D * s  BY <1>5, <2>4, Products
    <3> QED  BY <1>5, <2>4, <3>1, SMTT(20)
  <2> HIDE DEF O, P, Q, D, s, us, ut
  <2>7. s * D \in Nat /\ S * D \in Nat  BY <1>1, <1>2, <1>5, <2>4, SMTT(20)
  <2>8. us = (S * D) * Q /\ s * P = (s * D) * Q
    BY <1>1, <1>2, <1>5, <1>6, <2>1, <2>4, SMTT(20)
  <2>9. (S - s) * P = us - s * P  BY <1>1, <1>2, <1>5, <1>6, <2>4, SMTT(20)
  <2>10. s * P <= ut  BY <1>1, <1>2, <1>5, <1>6, <2>4, <2>7, <2>8, Products
  <2>11. CASE D = 1
    <3>1. s = T /\ T <= S /\ S * D = S  BY <1>1, <1>2, <2>4, <2>5, <2>11
    <3>2. us = S * Q  BY <2>8, <3>1
    <3>3. ut <= us  BY <1>1, <1>2, <1>5, <1>6, <3>1, <3>2, Products
    <3>4. T < S => ut # us
      <4> SUFFICES ASSUME T < S
                   PROVE  ut # us
        OBVIOUS
      <4>1. T * Q + Q <= S * Q  BY <1>1, <1>2, <1>5, Products
      <4> QED  BY <1>5, <1>6, <1>7, <3>2, <4>1
    <3>5. s * P \in Int  BY <1>5, <2>4
    <3>6. /\ s \in 0 .. S /\ S + s < 4 * O
          /\ us \in Nat /\ ut \in Nat /\ ut <= us
          /\ us - ut <= (S - s) * P
      BY <1>1, <1>2, <1>7, <2>9, <2>10, <3>1, <3>3, <3>5
    <3>7. us = ut <=> S = s  BY <1>1, <1>2, <1>6, <3>1, <3>2, <3>4
    <3> QED  BY <3>6, <3>7 DEF O, P, s, us, ut
  <2>12. CASE D # 1
    <3>1. D > 1  BY <1>5, <2>12
    <3>2. T < S * D /\ 2 * s <= s * D  BY <2>3, <2>6, <3>1
    <3>3. 2 * s < 2 * O  BY <1>1, <1>2, <2>4, <2>7, <3>2
    <3>4. s < S  BY <1>1, <1>2, <2>2, <2>4, <3>3
    <3>5. T * Q + Q <= (S * D) * Q  BY <1>1, <1>2, <1>5, <2>7, <3>2, Products
    <3>6. ut < us  BY <1>5, <1>6, <1>7, <2>8, <3>5
    <3>7. s * P \in Int  BY <1>5, <2>4
    <3>8. /\ s \in 0 .. S /\ S + s < 4 * O
          /\ us \in Nat /\ ut \in Nat /\ ut <= us
          /\ us - ut <= (S - s) * P
          /\ us = ut <=> S = s
      BY <1>1, <1>2, <1>7, <2>4, <2>9, <2>10, <3>3, <3>4, <3>6, <3>7
    <3> QED  BY <3>8 DEF O, P, s, us, ut
  <2> QED  BY <2>11, <2>12
<1> QED  BY <1>8, <1>9

\* The number a float stands for, or its opposite.
Signum(neg, u) == IF neg THEN -u ELSE u

\* Zero has no sign.
LEMMA SignumZero ==
  ASSUME NEW neg \in BOOLEAN, NEW u \in Int, u <= 0, u >= 0
  PROVE  Signum(neg, u) = 0
<1>1. -u = 0 - u  OBVIOUS
<1>2. 0 - u = 0  OBVIOUS
<1>3. CASE neg  BY <1>1, <1>2, <1>3, Zenon DEF Signum
<1>4. CASE ~neg  BY <1>4 DEF Signum
<1> QED  BY <1>3, <1>4

\* The opposite sign is that of the opposite number.
LEMMA SignumOpposite ==
  ASSUME NEW neg \in BOOLEAN, NEW u \in Nat
  PROVE  /\ Signum(neg, u) \in Int /\ Signum(neg # TRUE, u) \in Int
         /\ Signum(neg, u) + Signum(neg # TRUE, u) = 0
<1>1. u \in Int /\ -u \in Int /\ u + (-u) = 0 /\ (-u) + u = 0  OBVIOUS
<1> DEFINE m == -u
<1>2. u \in Int /\ m \in Int /\ u + m = 0 /\ m + u = 0  BY <1>1
<1>3. CASE neg
  <2>1. Signum(neg, u) = m /\ Signum(neg # TRUE, u) = u  BY <1>3 DEF Signum
  <2> HIDE DEF m
  <2> QED  BY <1>2, <2>1
<1>4. CASE ~neg
  <2>1. Signum(neg, u) = u /\ Signum(neg # TRUE, u) = m  BY <1>4 DEF Signum
  <2> HIDE DEF m
  <2> QED  BY <1>2, <2>1
<1> QED  BY <1>3, <1>4

\* A sum, by its larger operand, with the significand S and the exponent e, and the smaller
\* one, with T and k, which is aligned to s.
SumIs(a, b, sub, S, T, e, k, sign) ==
  LET s      == Float!Aligned(T, (e - k) % Float!ExpMod)
      us     == S * Two[PlaceOf(e)]
      ut     == T * Two[PlaceOf(k)]
      differ == (Float!Sign(a) # sub) # Float!Sign(b)
      sum    == IF differ THEN S - s ELSE S + s
      swap   == Float!Swap(a, b)
  IN /\ S \in 0 .. 2 * Float!One - 1 /\ T \in 0 .. 2 * Float!One - 1
     /\ e \in 0 .. Float!ExpMod - 2 /\ k \in 0 .. e /\ sign \in BOOLEAN
     /\ e = 0 => S = 0
     /\ e # 0 => S >= Float!One
     /\ k = 0 => T = 0
     /\ s \in 0 .. S /\ S + s < 4 * Float!One
     /\ us \in Nat /\ ut \in Nat /\ ut <= us
     /\ us - ut <= (S - s) * Two[PlaceOf(e)]
     /\ us = ut <=> S = s
     /\ Float!Units(a) \in Nat /\ Float!Units(b) \in Nat
     /\ e = Float!Exp(IF swap THEN b ELSE a) /\ us = Float!Units(IF swap THEN b ELSE a)
     /\ k = Float!Exp(IF swap THEN a ELSE b) /\ ut = Float!Units(IF swap THEN a ELSE b)
     /\ Signum(Float!Sign(b), Float!Units(b)) + Signum(Float!Sign(a) # sub, Float!Units(a))
          = Signum(sign, IF differ THEN us - ut ELSE us + ut)
     /\ Float!AddSub(a, b, sub) = (IF sum = 0 \/ e = 0 THEN 0 ELSE Float!Normalized(sign, e, sum))

\* Every sum has these parts.
LEMMA SumParts ==
  ASSUME NEW a \in Nat, NEW b \in Nat, Float!Ordinary(a), Float!Ordinary(b), NEW sub \in BOOLEAN
  PROVE  \E S, T, e, k, sign : SumIs(a, b, sub, S, T, e, k, sign)
<1> DEFINE O == Float!One
           swap == Float!Swap(a, b)
           sa == Float!Sign(a) # sub
           sb == Float!Sign(b)
           big == IF swap THEN b ELSE a
           small == IF swap THEN a ELSE b
           S == Float!Significand(big)
           T == Float!Significand(small)
           e == Float!Exp(big)
           k == Float!Exp(small)
           s == Float!Aligned(T, (e - k) % Float!ExpMod)
           sum == (IF sa # sb THEN S - s ELSE S + s) % (4 * O)
           sign == IF swap THEN sb ELSE sa
           us == S * Two[PlaceOf(e)]
           ut == T * Two[PlaceOf(k)]
           r == Float!AddSub(a, b, sub)
           none == Float!Magnitude(a) = 0 /\ Float!Magnitude(b) = 0
<1>1. r = IF sum = 0 \/ none THEN 0 ELSE Float!Normalized(sign, e, sum)
  BY DEF Float!AddSub
<1>2. /\ big \in Nat /\ small \in Nat /\ Float!Ordinary(big) /\ Float!Ordinary(small)
      /\ sa \in BOOLEAN /\ sb \in BOOLEAN /\ sign \in BOOLEAN
  <2>1. sb \in BOOLEAN /\ sa \in BOOLEAN  BY DEF Float!Sign
  <2> HIDE DEF sa, sb
  <2>2. CASE swap  BY <2>1, <2>2
  <2>3. CASE ~swap  BY <2>1, <2>3
  <2> QED  BY <2>2, <2>3
<1>3. Float!Units(big) = us /\ Float!Units(small) = ut
  BY FloatTwo DEF Float!Units, Float!Place, PlaceOf
<1>4. /\ O \in Nat \ {0, 1} /\ Float!ExpMod \in Nat /\ Float!ExpMod >= 4  BY FloatSizes
<1>5. /\ Float!Exp(a) \in 0 .. Float!ExpMod - 2 /\ Float!Exp(b) \in 0 .. Float!ExpMod - 2
      /\ Float!Significand(a) \in 0 .. 2 * O - 1 /\ Float!Significand(b) \in 0 .. 2 * O - 1
      /\ Float!Exp(a) = 0 => Float!Significand(a) = 0 /\ Float!Magnitude(a) = 0
      /\ Float!Exp(b) = 0 => Float!Significand(b) = 0 /\ Float!Magnitude(b) = 0
      /\ Float!Exp(a) # 0 => Float!Significand(a) >= O
      /\ Float!Exp(b) # 0 => Float!Significand(b) >= O
  BY OrdinaryFields
<1>6. /\ S \in 0 .. 2 * O - 1 /\ T \in 0 .. 2 * O - 1
      /\ e \in 0 .. Float!ExpMod - 2 /\ k \in 0 .. e
      /\ e = 0 => S = 0
      /\ e # 0 => S >= O
      /\ k = 0 => T = 0
      /\ k # 0 => T >= O
      /\ e = k => T <= S
  <2>1. CASE swap
    <3>1. big = b /\ small = a  BY <2>1
    <3>2. \/ Float!Exp(b) > Float!Exp(a)
          \/ Float!Exp(b) = Float!Exp(a) /\ Float!Significand(b) > Float!Significand(a)
      BY <2>1 DEF Float!Swap
    <3> HIDE DEF swap, O
    <3> QED  BY <1>4, <1>5, <3>1, <3>2
  <2>2. CASE ~swap
    <3>1. big = a /\ small = b  BY <2>2
    <3>2. ~(\/ Float!Exp(b) > Float!Exp(a)
            \/ Float!Exp(b) = Float!Exp(a) /\ Float!Significand(b) > Float!Significand(a))
      BY <2>2 DEF Float!Swap
    <3> HIDE DEF swap, O
    <3> QED  BY <1>4, <1>5, <3>1, <3>2
  <2> QED  BY <2>1, <2>2
<1>7. none => e = 0
  <2>1. Float!Exp(a) # 0 => Float!Magnitude(a) # 0
    <3>1. Float!Magnitude(a) = O * Float!Exp(a) + Float!Frac(a)
          /\ Float!Frac(a) \in 0 .. O - 1
      BY FloatFields
    <3> HIDE DEF O
    <3> QED  BY <1>4, <1>5, <3>1, SMTT(20)
  <2>2. Float!Exp(b) # 0 => Float!Magnitude(b) # 0
    <3>1. Float!Magnitude(b) = O * Float!Exp(b) + Float!Frac(b)
          /\ Float!Frac(b) \in 0 .. O - 1
      BY FloatFields
    <3> HIDE DEF O
    <3> QED  BY <1>4, <1>5, <3>1, SMTT(20)
  <2> QED  BY <2>1, <2>2
<1>8. e = 0 => none
  <2> SUFFICES ASSUME e = 0
               PROVE  Float!Exp(a) = 0 /\ Float!Exp(b) = 0
    BY <1>5
  <2>1. k = 0  BY <1>6
  <2> QED  BY <2>1
<1> HIDE DEF none
<1>9. /\ s \in 0 .. S /\ S + s < 4 * O
      /\ us \in Nat /\ ut \in Nat /\ ut <= us
      /\ us - ut <= (S - s) * Two[PlaceOf(e)]
      /\ us = ut <=> S = s
  <2> HIDE DEF S, T, e, k
  <2> QED  BY <1>6, Alignment
<1>10. /\ Float!Units(a) \in Nat /\ Float!Units(b) \in Nat
  BY <1>3, <1>9
<1> DEFINE v == Signum(sb, Float!Units(b)) + Signum(sa, Float!Units(a))
<1>11. v = IF sa # sb THEN Signum(sign, us - ut) ELSE Signum(sign, us + ut)
  <2>1. CASE swap
    <3>1. Float!Units(b) = us /\ Float!Units(a) = ut /\ sign = sb  BY <1>3, <2>1
    <3> HIDE DEF us, ut, sign, sa, sb
    <3> QED  BY <1>2, <1>9, <3>1 DEF Signum
  <2>2. CASE ~swap
    <3>1. Float!Units(a) = us /\ Float!Units(b) = ut /\ sign = sa  BY <1>3, <2>2
    <3> HIDE DEF us, ut, sign, sa, sb
    <3> QED  BY <1>2, <1>9, <3>1 DEF Signum
  <2> QED  BY <2>1, <2>2
<1> HIDE DEF v, S, T, e, k, s, sign, r
<1>12. sum = IF sa # sb THEN S - s ELSE S + s
  <2> HIDE DEF O, sa, sb
  <2>1. S - s \in 0 .. 4 * O - 1 /\ S + s \in 0 .. 4 * O - 1  BY <1>4, <1>6, <1>9
  <2> DEFINE w == IF sa # sb THEN S - s ELSE S + s
             M == 4 * O
  <2>2. w \in 0 .. M - 1 /\ M \in Nat \ {0}  BY <1>4, <2>1
  <2> HIDE DEF w, M
  <2>3. w % M = w  BY <2>2, SMTT(20)
  <2> QED  BY <2>3 DEF w, M
<1> HIDE DEF sum
<1>13. r = IF sum = 0 \/ e = 0 THEN 0 ELSE Float!Normalized(sign, e, sum)
  BY <1>1, <1>7, <1>8
<1>14. v = Signum(sign, IF sa # sb THEN us - ut ELSE us + ut)  BY <1>11
<1>15. /\ e = Float!Exp(big) /\ us = Float!Units(big)
       /\ k = Float!Exp(small) /\ ut = Float!Units(small)
  BY <1>3 DEF e, k
<1>16. SumIs(a, b, sub, S, T, e, k, sign)
  BY <1>2, <1>6, <1>9, <1>10, <1>12, <1>13, <1>14, <1>15 DEF SumIs, O, s, v, r, sum
<1> QED  BY <1>16

\* The sum or difference of two numbers: it has the sign of the number it stands for, is zero
\* when that is zero, and only when that is less than the least normal number.
LEMMA SumSigned ==
  ASSUME NEW a \in Nat, NEW b \in Nat, Float!Ordinary(a), Float!Ordinary(b), NEW sub \in BOOLEAN
  PROVE  LET r == Float!AddSub(a, b, sub)
             v == Signum(Float!Sign(b), Float!Units(b))
                    + Signum(Float!Sign(a) # sub, Float!Units(a))
         IN /\ Float!Units(a) \in Nat /\ Float!Units(b) \in Nat
            /\ r # 0 => (Float!Sign(r) <=> v < 0) /\ v # 0
            /\ r = 0 => -Float!One < v /\ v < Float!One
            /\ v = 0 => r = 0
<1>1. PICK S, T, e, k, sign : SumIs(a, b, sub, S, T, e, k, sign)  BY SumParts
<1> DEFINE O == Float!One
           sa == Float!Sign(a) # sub
           sb == Float!Sign(b)
           s == Float!Aligned(T, (e - k) % Float!ExpMod)
           sum == IF sa # sb THEN S - s ELSE S + s
           us == S * Two[PlaceOf(e)]
           ut == T * Two[PlaceOf(k)]
           r == Float!AddSub(a, b, sub)
           v == Signum(sb, Float!Units(b)) + Signum(sa, Float!Units(a))
<1>2. sign \in BOOLEAN  BY <1>1 DEF SumIs
<1>4. /\ O \in Nat \ {0, 1} /\ Float!ExpMod \in Nat /\ Float!ExpMod >= 4  BY FloatSizes
<1>6. /\ S \in 0 .. 2 * O - 1 /\ T \in 0 .. 2 * O - 1
      /\ e \in 0 .. Float!ExpMod - 2 /\ k \in 0 .. e
      /\ e = 0 => S = 0
      /\ e # 0 => S >= O
  BY <1>1 DEF SumIs
<1>9. /\ s \in 0 .. S /\ S + s < 4 * O
      /\ us \in Nat /\ ut \in Nat /\ ut <= us
      /\ us - ut <= (S - s) * Two[PlaceOf(e)]
      /\ us = ut <=> S = s
  BY <1>1 DEF SumIs
<1>10. /\ Float!Units(a) \in Nat /\ Float!Units(b) \in Nat
  BY <1>1 DEF SumIs
<1>11. v = IF sa # sb THEN Signum(sign, us - ut) ELSE Signum(sign, us + ut)
  BY <1>1 DEF SumIs
<1>12. r = IF sum = 0 \/ e = 0 THEN 0 ELSE Float!Normalized(sign, e, sum)
  BY <1>1 DEF SumIs
<1> HIDE DEF v, s, r
<1>13. CASE e = 0
  <2>1. S = 0  BY <1>6, <1>13
  <2>2. s = 0 /\ us = ut  BY <1>9, <2>1
  <2>3. us = 0
    <3>1. us = 0 * Two[PlaceOf(e)]  BY <2>1
    <3>2. 0 * Two[PlaceOf(e)] = 0
      <4>1. Two[PlaceOf(e)] \in Nat  BY <1>4, <1>6, TwoIs DEF PlaceOf
      <4> QED  BY <4>1
    <3> QED  BY <3>1, <3>2
  <2> HIDE DEF us, ut
  <2>4. v = 0
    <3>1. /\ us - ut \in Int /\ us - ut <= 0 /\ us - ut >= 0
          /\ us + ut \in Int /\ us + ut <= 0 /\ us + ut >= 0
      BY <1>9, <2>2, <2>3
    <3>2. Signum(sign, us - ut) = 0 /\ Signum(sign, us + ut) = 0  BY <1>2, <3>1, SignumZero
    <3> QED  BY <1>11, <3>2
  <2>5. r = 0  BY <1>12, <1>13
  <2> QED  BY <1>4, <1>10, <2>4, <2>5 DEF r, v
<1>14. CASE e # 0
  <2>1. S >= O /\ PlaceOf(e) = e - 1 /\ e \in 1 .. Float!ExpMod - 2
    BY <1>4, <1>6, <1>14 DEF PlaceOf
  <2> DEFINE P == Two[e - 1]
  <2>2. P \in Nat \ {0}  BY <1>4, <2>1, TwoIs
  <2>3. us - ut <= (S - s) * P /\ us = S * P  BY <1>9, <2>1
  <2> HIDE DEF us, ut, O, P
  <2>4. sum \in 0 .. 4 * O - 1  BY <1>4, <1>6, <1>9, <1>12
  <2>5. CASE sum = 0
    <3>1. sa # sb /\ S = s /\ us = ut  BY <1>4, <1>6, <1>9, <1>12, <2>1, <2>5
    <3>2. v = 0
      <4>1. us - ut \in Int /\ us - ut <= 0 /\ us - ut >= 0  BY <1>9, <3>1
      <4>2. Signum(sign, us - ut) = 0  BY <1>2, <4>1, SignumZero
      <4> QED  BY <1>11, <3>1, <4>2
    <3>3. r = 0  BY <1>12, <2>5
    <3> QED  BY <1>4, <1>10, <3>2, <3>3 DEF r, v, O
  <2>6. CASE sum # 0
    <3>1. r = Float!Normalized(sign, e, sum)  BY <1>12, <1>14, <2>6
    <3>2. /\ r # 0 => Float!Sign(r) = sign
          /\ r = 0 => sum * P < O
      <4>1. sum \in 1 .. 4 * Float!One - 1  BY <1>4, <2>4, <2>6 DEF O
      <4> QED  BY <1>2, <2>1, <3>1, <4>1, NormalizedSum DEF P, O
    <3>3. CASE sa # sb
      <4>1. sum = S - s /\ S # s  BY <1>6, <1>9, <1>12, <2>6, <3>3
      <4>2. us # ut /\ ut < us  BY <1>9, <4>1
      <4>3. v = Signum(sign, us - ut) /\ us - ut > 0  BY <1>9, <1>11, <3>3, <4>2
      <4>4. us - ut <= sum * P  BY <2>3, <4>1
      <4>5. sum * P \in Int  BY <2>2, <2>4, <1>4
      <4>6. r = 0 => us - ut < O  BY <1>4, <1>9, <3>2, <4>4, <4>5
      <4>7. /\ r # 0 => (Float!Sign(r) <=> v < 0) /\ v # 0
            /\ r = 0 => -O < v /\ v < O
            /\ v = 0 => r = 0
        BY <1>2, <1>4, <1>9, <3>2, <4>3, <4>6 DEF Signum
      <4> QED  BY <1>10, <4>7 DEF r, v, O
    <3>4. CASE ~(sa # sb)
      <4>1. sum = S + s /\ sum >= O  BY <1>4, <1>6, <1>9, <1>12, <2>1, <3>4
      <4>2. sum * P >= O
        <5>1. sum \in Nat  BY <1>4, <2>4
        <5>2. 1 * sum <= P * sum  BY <2>2, <5>1, Products
        <5>3. P * sum = sum * P /\ sum * P \in Nat  BY <2>2, <5>1, SMTT(20)
        <5> QED  BY <1>4, <4>1, <5>1, <5>2, <5>3
      <4>3. r # 0
        <5>1. sum * P \in Int  BY <1>4, <2>2, <2>4
        <5> QED  BY <1>4, <3>2, <4>2, <5>1
      <4>4. us > 0
        <5>1. S \in Nat /\ S > 0  BY <1>4, <1>6, <2>1
        <5>2. S * P > 0  BY <2>2, <5>1, SMTT(20)
        <5> QED  BY <2>3, <5>2
      <4>5. v = Signum(sign, us + ut) /\ us + ut > 0  BY <1>9, <1>11, <3>4, <4>4
      <4>6. /\ r # 0 => (Float!Sign(r) <=> v < 0) /\ v # 0
            /\ v = 0 => r = 0
        BY <1>2, <1>9, <3>2, <4>3, <4>5 DEF Signum
      <4> QED  BY <1>10, <4>3, <4>6 DEF r, v, O
    <3> QED  BY <3>3, <3>4
  <2> QED  BY <2>5, <2>6
<1> QED  BY <1>13, <1>14

-----------------------------------------------------------------------------
(* The order of floats.                                                    *)

\* What a floating-point instruction left is what the unit makes of its operands.
FloatDone ==
  inst.op \in FpOps =>
    LET o == Float!FpuOutcome(inst.op, inst.src, before.reg, 0)
    IN /\ inst.src \in Register /\ before.reg \in Register
       /\ reg = IF inst.op = "FP_CMPF" THEN before.reg ELSE o.result
       /\ flags = IF inst.op = "FP_MOVF" THEN before.flags ELSE o.flags

\* An instruction of the program has operands in registers.
LEMMA FloatOperands ==
  ASSUME NEW i \in Instructions \cup Follow, NEW old \in Contents[i.dst]
  PROVE  i.src \in Register /\ old \in Register
<1>1. i.dst \in Destination /\ i.src \in Register  BY ProgramAssumption
<1>2. Contents[i.dst] \subseteq Register  BY <1>1, ProgramAssumption
<1> QED  BY <1>1, <1>2

\* The instructions that are not floating-point ones.
LEMMA OtherOps ==
  /\ FpOps \cap (AluOps \cup CountOps \cup SysOps \cup {"BRANCH", "none"}) = {}
  /\ SysOps = Extends \cup {"SYS_TASI", "SYS_MOVT", "SYS_SETF", "SYS_UPDPSW"}
  BY DEF FpOps, AluOps, CountOps, SysOps, Extends

\* An instruction of the unit leaves what it makes of its operands.
LEMMA FloatStep ==
  ASSUME NEW i \in Instructions \cup Follow, NEW old \in Contents[i.dst], Execute(i, old)
  PROVE  FloatDone'
<1>1. i.src \in Register /\ old \in Register  BY FloatOperands
<1>2. inst' = i /\ before' = [reg |-> old, flags |-> flags]
  BY DEF Execute, ExecuteAlu, Count1, TestAndSet, CrossMove, Truncate, SetFlag, UpdatePsw,
         ExecuteFloat, Done
<1>3. CASE i.op \notin FpOps
  BY <1>2, <1>3 DEF FloatDone
<1>4. CASE i.op \in FpOps
  <2>1. ExecuteFloat(i, old)
    BY <1>4, OtherOps DEF Execute, ExecuteAlu, Count1, TestAndSet, CrossMove, Truncate, SetFlag,
                          UpdatePsw
  <2> DEFINE o == Float!FpuOutcome(i.op, i.src, old, 0)
  <2>2. /\ reg' = IF i.op = "FP_CMPF" THEN old ELSE o.result
        /\ flags' = IF i.op = "FP_MOVF" THEN flags ELSE o.flags
    BY <2>1 DEF ExecuteFloat, Done
  <2>3. before'.reg = old /\ before'.flags = flags  BY <1>2
  <2>4. inst'.op = i.op /\ inst'.src = i.src  BY <1>2
  <2> QED  BY <1>1, <2>2, <2>3, <2>4 DEF FloatDone
<1> QED  BY <1>3, <1>4

\* So it is in every state.
LEMMA FloatInvariant == Spec => []FloatDone
<1>1. Init => FloatDone
  BY OtherOps DEF Init, NoInst, FloatDone
<1>2. FloatDone /\ [Next]_vars => FloatDone'
  <2> SUFFICES ASSUME FloatDone, [Next]_vars
               PROVE  FloatDone'
    OBVIOUS
  <2>1. ASSUME NEW i \in Instructions \cup Follow, NEW old \in Contents[i.dst], Execute(i, old)
        PROVE  FloatDone'
    BY <2>1, FloatStep
  <2>2. ASSUME NEW cond, Branch(cond)
        PROVE  FloatDone'
    <3>1. inst'.op = "BRANCH"  BY <2>2 DEF Branch
    <3> QED  BY <3>1, OtherOps DEF FloatDone
  <2>3. CASE Retire
    <3>1. inst'.op = "none"  BY <2>3 DEF Retire, NoInst
    <3> QED  BY <3>1, OtherOps DEF FloatDone
  <2>4. CASE Forget
    BY <2>4 DEF Forget, FloatDone
  <2>5. CASE UNCHANGED vars
    BY <2>5 DEF vars, FloatDone
  <2> QED  BY <2>1, <2>2, <2>3, <2>4, <2>5 DEF Next
<1> QED  BY <1>1, <1>2, PTL DEF Spec

\* CMPF and the branches after it order the numbers for every format of floats: the bits lost
\* in aligning the smaller operand never turn the order round, and only numbers less than the
\* least normal number apart are taken for equal.
THEOREM OrderedHolds == Spec => []Ordered
<1>1. ASSUME FloatDone, inst.op = "FP_CMPF",
             Float!Ordinary(inst.src), Float!Ordinary(before.reg)
      PROVE  Ordered
  <2>1. PICK a \in Nat : a = inst.src
    <3>1. inst.src \in Nat  BY <1>1 DEF FloatDone, FpOps, Register
    <3> QED  BY <3>1
  <2>2. PICK b \in Nat : b = before.reg
    <3>1. before.reg \in Nat  BY <1>1 DEF FloatDone, FpOps, Register
    <3> QED  BY <3>1
  <2> DEFINE r == Float!AddSub(a, b, TRUE)
             x == Float!Value(a)
             y == Float!Value(b)
             v == Signum(Float!Sign(b), Float!Units(b))
                    + Signum(Float!Sign(a) # TRUE, Float!Units(a))
  <2>3. flags = [z |-> r = 0, s |-> Float!Sign(r), ov |-> FALSE, cy |-> FALSE]
    <3>1. flags = Float!FpuOutcome("FP_CMPF", a, b, 0).flags
      BY <1>1, <2>1, <2>2 DEF FloatDone, FpOps
    <3>2. Float!FpuOutcome("FP_CMPF", a, b, 0) = [Float!FpResult(r) EXCEPT !.result = 0]
      BY DEF Float!FpuOutcome
    <3> QED  BY <3>1, <3>2 DEF Float!FpResult, Float!FpFlags
  <2>4. /\ Float!Units(a) \in Nat /\ Float!Units(b) \in Nat
        /\ r # 0 => (Float!Sign(r) <=> v < 0) /\ v # 0
        /\ r = 0 => -Float!One < v /\ v < Float!One
        /\ v = 0 => r = 0
    <3>1. Float!Ordinary(a) /\ Float!Ordinary(b)  BY <1>1, <2>1, <2>2
    <3>2. TRUE \in BOOLEAN  OBVIOUS
    <3> QED  BY <3>1, <3>2, SumSigned
  <2>5. x \in Int /\ y \in Int /\ v = y - x
    <3>1. Float!Sign(a) \in BOOLEAN /\ Float!Sign(b) \in BOOLEAN  BY DEF Float!Sign
    <3>2. x = Signum(Float!Sign(a), Float!Units(a)) /\ y = Signum(Float!Sign(b), Float!Units(b))
      BY DEF Float!Value, Signum
    <3> DEFINE w == Signum(Float!Sign(a) # TRUE, Float!Units(a))
    <3>3. w \in Int /\ x + w = 0 /\ x \in Int /\ y \in Int
      BY <2>4, <3>1, <3>2, SignumOpposite
    <3>4. v = y + w  BY <3>2
    <3> HIDE DEF x, y, w, v
    <3> QED  BY <3>3, <3>4
  <2>6. r = 0 => ~Float!Sign(r)
    <3> HIDE DEF r
    <3> QED  BY FloatSizes DEF Float!Sign
  <2>7. Float!LeastNormal = Float!One /\ Float!One \in Nat
    BY FloatSizes DEF Float!LeastNormal
  <2> HIDE DEF r, x, y, v
  <2>8. /\ Float!Sign(r) => y < x
        /\ r = 0 => Abs(y - x) < Float!LeastNormal
        /\ y = x => r = 0
        /\ ~Float!Sign(r) /\ r # 0 => y > x
    BY <2>4, <2>5, <2>6, <2>7 DEF Abs
  <2>9. /\ CondMet(flags, "CC_BLT") = Float!Sign(r)
        /\ CondMet(flags, "CC_BE") = (r = 0)
        /\ CondMet(flags, "CC_BGT") = (~Float!Sign(r) /\ r # 0)
    <3>1. Float!Sign(r) \in BOOLEAN  BY DEF Float!Sign
    <3> QED  BY <2>3, <3>1 DEF CondMet
  <2> QED  BY <2>1, <2>2, <2>8, <2>9 DEF Ordered, x, y
<1>2. FloatDone => Ordered  BY <1>1 DEF Ordered
<1> QED  BY <1>2, FloatInvariant, PTL

-----------------------------------------------------------------------------
(* What the arithmetic unit leaves is a word and four flags.               *)

Fits(o) == o.result \in Register /\ o.flags \in Flags

\* A vector of each size has as many values as a power of two, and a word is a whole number
\* of vectors.
LEMMA Vectors ==
  ASSUME NEW s \in Size
  PROVE  /\ Width[s] \in Nat \ {0, 1} /\ WordBits \in Nat \ {0, 1} /\ Width[s] <= WordBits
         /\ Mod(s) = Two[Width[s]] /\ Mod("SZ_WORD") = Two[WordBits]
         /\ Mod(s) \in Nat \ {0, 1} /\ Mod("SZ_WORD") \in Nat \ {0, 1}
         /\ \E c \in Nat \ {0} : Mod("SZ_WORD") = Mod(s) * c
<1>1. "SZ_WORD" \in Size  BY DEF Size
<1>2. /\ Width[s] \in Nat \ {0, 1} /\ WordBits \in Nat \ {0, 1} /\ Width[s] <= WordBits
  BY <1>1, SizeAssumption DEF WordBits
<1>3. \A z \in Size : Mod(z) = Two[Width[z]]
  <2> SUFFICES ASSUME NEW z \in Size
               PROVE  Mod(z) = Two[Width[z]]
    OBVIOUS
  <2>1. Width[z] \in Nat \ {0, 1} /\ Half[z] = Two[Width[z] - 1]
    BY SizeAssumption, HalfAssumption
  <2>2. Two[(Width[z] - 1) + 1] = 2 * Two[Width[z] - 1] /\ (Width[z] - 1) + 1 = Width[z]
    BY <2>1, TwoIs
  <2> QED  BY <2>1, <2>2 DEF Mod
<1>4. Mod(s) = Two[Width[s]] /\ Mod("SZ_WORD") = Two[WordBits]  BY <1>1, <1>3 DEF WordBits
<1>5. \A z \in Size : Mod(z) \in Nat \ {0, 1}  BY Halves
<1>6. Mod("SZ_WORD") = Mod(s) * Two[WordBits - Width[s]]
      /\ Two[WordBits - Width[s]] \in Nat \ {0}
  <2> DEFINE w == Width[s]
             d == WordBits - Width[s]
  <2>1. w \in Nat /\ d \in Nat /\ w + d = WordBits  BY <1>2
  <2> HIDE DEF w, d
  <2>2. Two[w + d] = Two[w] * Two[d] /\ Two[d] \in Nat \ {0}  BY <2>1, TwoSum, TwoIs
  <2> QED  BY <1>4, <2>1, <2>2 DEF w, d
<1> QED  BY <1>1, <1>2, <1>4, <1>5, <1>6

\* A vector of any size is a word.
LEMMA VectorWord ==
  ASSUME NEW s \in Size, NEW x \in 0 .. Mod(s) - 1
  PROVE  x \in Register
<1> DEFINE M == Mod(s)
           W == Mod("SZ_WORD")
<1>1. PICK c \in Nat \ {0} : W = M * c  BY Vectors
<1>2. M \in Nat \ {0, 1} /\ W \in Nat \ {0, 1}  BY Vectors
<1> HIDE DEF M, W
<1>3. M <= W
  <2>1. 1 * M <= c * M /\ c * M = M * c  BY <1>1, <1>2, Products
  <2> QED  BY <1>1, <1>2, <2>1
<1> QED  BY <1>2, <1>3 DEF Register, M, W

\* What is left of a number in a vector.
LEMMA ModRange ==
  ASSUME NEW s \in Size, NEW x \in Int
  PROVE  x % Mod(s) \in 0 .. Mod(s) - 1 /\ x % Mod(s) \in Register
<1> DEFINE M == Mod(s)
<1>1. M \in Nat \ {0, 1}  BY Vectors
<1> HIDE DEF M
<1>2. x % M \in 0 .. M - 1  BY <1>1, SMTT(20)
<1>3. x % Mod(s) \in 0 .. Mod(s) - 1  BY <1>2 DEF M
<1> QED  BY <1>3, VectorWord

\* The common part of an outcome.
LEMMA OutcomeFits ==
  ASSUME NEW s, NEW r \in Register, NEW cy \in BOOLEAN, NEW ov \in BOOLEAN
  PROVE  Fits(Outcome(s, r, cy, ov))
<1>1. (r = 0) \in BOOLEAN /\ Msb(r, s) \in BOOLEAN  BY DEF Msb
<1> QED  BY <1>1 DEF Fits, Outcome, Flags

\* How a word is put together from its bits.
Together(h, S) ==
  /\ h[0] = 0
  /\ \A n \in Nat : h[n + 1] = 2 * h[n] + (IF WordBits - (n + 1) \in S THEN 1 ELSE 0)
  /\ FromBits(S) = h[WordBits]

LEMMA FromBitsIs ==
  ASSUME NEW S
  PROVE  \E h : Together(h, S)
<1> DEFINE bit(n) == IF WordBits - n \in S THEN 1 ELSE 0
           step == [p \in Nat \X Nat |-> 2 * p[1] + bit(p[2] + 1)]
           zero == 0
<1>1. PICK g \in [Nat -> Nat] : Values(g, zero, step)
  <2>1. step \in [Nat \X Nat -> Nat] /\ zero \in Nat  BY DEF bit
  <2> HIDE DEF step, zero
  <2> QED  BY <2>1, Recursion
<1>2. \A n \in Nat : g[n + 1] = 2 * g[n] + bit(n + 1)
  <2> SUFFICES ASSUME NEW n \in Nat
               PROVE  g[n + 1] = 2 * g[n] + bit(n + 1)
    OBVIOUS
  <2>1. g[n + 1] = step[<<g[n], n>>]  BY <1>1 DEF Values
  <2> HIDE DEF bit
  <2> QED  BY <2>1
<1>3. g[0] = 0  BY <1>1 DEF Values
<1>4. \A n \in Nat : g[n] = IF n = 0 THEN 0 ELSE 2 * g[n - 1] + bit(n)
  <2> HIDE DEF bit
  <2> SUFFICES ASSUME NEW n \in Nat, n # 0
               PROVE  g[n] = 2 * g[n - 1] + bit(n)
    BY <1>3
  <2>1. n - 1 \in Nat /\ (n - 1) + 1 = n  BY Zenon, SMT
  <2> QED  BY <1>2, <2>1
<1> DEFINE h == CHOOSE h : h = [n \in Nat |-> IF n = 0 THEN 0 ELSE 2 * h[n - 1] + bit(n)]
<1>5. h = [n \in Nat |-> IF n = 0 THEN 0 ELSE 2 * h[n - 1] + bit(n)]
  <2> HIDE DEF bit
  <2>1. g = [n \in Nat |-> IF n = 0 THEN 0 ELSE 2 * g[n - 1] + bit(n)]  BY <1>1, <1>4
  <2> QED  BY <2>1
<1>6. FromBits(S) = h[WordBits]  BY DEF FromBits
<1> HIDE DEF h
<1>7. h[0] = 0  BY <1>5
<1>8. ASSUME NEW n \in Nat
      PROVE  h[n + 1] = 2 * h[n] + bit(n + 1)
  <2>1. n + 1 \in Nat /\ n + 1 # 0 /\ (n + 1) - 1 = n  OBVIOUS
  <2> HIDE DEF bit
  <2> QED  BY <1>5, <2>1
<1> QED  BY <1>6, <1>7, <1>8 DEF Together

\* A word is put together from any bits.
LEMMA FromBitsWord ==
  ASSUME NEW S
  PROVE  FromBits(S) \in Register
<1>1. PICK h : Together(h, S)  BY FromBitsIs
<1> DEFINE T == {n \in Nat : h[n] \in Nat /\ h[n] < Two[n]}
<1>2. 0 \in T  BY <1>1, TwoIs DEF Together
<1>3. ASSUME NEW n \in Nat, n \in T
      PROVE  n + 1 \in T
  <2> DEFINE b == IF WordBits - (n + 1) \in S THEN 1 ELSE 0
  <2>1. h[n + 1] = 2 * h[n] + b /\ b \in {0, 1}  BY <1>1 DEF Together
  <2>2. Two[n + 1] = 2 * Two[n] /\ Two[n] \in Nat /\ n + 1 \in Nat  BY TwoIs
  <2>3. h[n] \in Nat /\ h[n] < Two[n]  BY <1>3
  <2> HIDE DEF b
  <2> QED  BY <2>1, <2>2, <2>3
<1>4. Nat \subseteq T
  <2> HIDE DEF T
  <2> QED  BY <1>2, <1>3, Induct
<1>5. WordBits \in Nat /\ Mod("SZ_WORD") = Two[WordBits] /\ Mod("SZ_WORD") \in Nat
  <2>1. "SZ_WORD" \in Size  BY DEF Size
  <2> QED  BY <2>1, Vectors
<1>6. h[WordBits] \in Nat /\ h[WordBits] < Two[WordBits]  BY <1>4, <1>5
<1> QED  BY <1>1, <1>5, <1>6 DEF Register, Together

\* A flag is true or false, and a comparison of numbers too.
LEMMA Booleans ==
  ASSUME NEW f \in Flags
  PROVE  /\ f.z \in BOOLEAN /\ f.s \in BOOLEAN /\ f.ov \in BOOLEAN /\ f.cy \in BOOLEAN
         /\ \A x, s : Msb(x, s) \in BOOLEAN
         /\ \A x, i : Bit(x, i) \in BOOLEAN
<1>1. \A x, s : Msb(x, s) \in BOOLEAN  BY DEF Msb
<1>2. \A x, i : Bit(x, i) \in BOOLEAN  BY DEF Bit
<1> QED  BY <1>1, <1>2 DEF Flags

\* The operations of addition and subtraction.
LEMMA SumsFit ==
  ASSUME NEW s \in Size, NEW a \in Int, NEW b \in Int, NEW c \in Int
  PROVE  /\ Fits(Add(s, a, b, c)) /\ Fits(Subtract(s, a, b, c))
         /\ Fits(Negate(s, a)) /\ Fits(Increment(s, a)) /\ Fits(Decrement(s, a))
<1>1. /\ b + a + c \in Int /\ b - a - c \in Int /\ -a \in Int /\ a + 1 \in Int /\ a - 1 \in Int
  OBVIOUS
<1>2. /\ (b + a + c) % Mod(s) \in Register /\ (b - a - c) % Mod(s) \in Register
      /\ (-a) % Mod(s) \in Register /\ (a + 1) % Mod(s) \in Register
      /\ (a - 1) % Mod(s) \in Register
  BY <1>1, ModRange
<1>3. \A x : Msb(x, s) \in BOOLEAN  BY DEF Msb
<1>4. Fits(Add(s, a, b, c))
  <2> DEFINE r == (b + a + c) % Mod(s)
  <2>1. /\ (b + a + c >= Mod(s)) \in BOOLEAN
        /\ ((Msb(a, s) <=> Msb(b, s)) /\ ~(Msb(r, s) <=> Msb(a, s))) \in BOOLEAN
    BY <1>3
  <2> QED  BY <1>2, <2>1, OutcomeFits DEF Add
<1>5. Fits(Subtract(s, a, b, c))
  <2> DEFINE r == (b - a - c) % Mod(s)
  <2>1. /\ (b - a - c < 0) \in BOOLEAN
        /\ (~(Msb(a, s) <=> Msb(b, s)) /\ ~(Msb(r, s) <=> Msb(b, s))) \in BOOLEAN
    BY <1>3
  <2> QED  BY <1>2, <2>1, OutcomeFits DEF Subtract
<1>6. Fits(Negate(s, a))
  <2> DEFINE r == (-a) % Mod(s)
  <2>1. (a # 0) \in BOOLEAN /\ (Msb(a, s) /\ Msb(r, s)) \in BOOLEAN  BY <1>3
  <2> QED  BY <1>2, <2>1, OutcomeFits DEF Negate
<1>7. Fits(Increment(s, a))
  <2> DEFINE r == (a + 1) % Mod(s)
  <2>1. /\ (a + 1 >= Mod(s)) \in BOOLEAN
        /\ (~Msb(a, s) /\ Msb(r, s) /\ a = Half[s] - 1) \in BOOLEAN
    BY <1>3
  <2> QED  BY <1>2, <2>1, OutcomeFits DEF Increment
<1>8. Fits(Decrement(s, a))
  <2> DEFINE r == (a - 1) % Mod(s)
  <2>1. (a = 0) \in BOOLEAN /\ (Msb(a, s) /\ ~Msb(r, s)) \in BOOLEAN  BY <1>3
  <2> QED  BY <1>2, <2>1, OutcomeFits DEF Decrement
<1> QED  BY <1>4, <1>5, <1>6, <1>7, <1>8

\* The sign-extended word of an operand that is not zero is not zero.
LEMMA Extended ==
  ASSUME NEW s \in Size, NEW a \in 0 .. Mod(s) - 1
  PROVE  /\ Signed(a, s) \in Int /\ Sext(a, s) \in Register
         /\ a # 0 => Sext(a, s) \in Nat \ {0}
<1> DEFINE M == Mod(s)
           W == Mod("SZ_WORD")
<1>1. M \in Nat \ {0, 1} /\ W \in Nat \ {0, 1}  BY Vectors
<1>2. M <= W
  <2>1. M - 1 \in 0 .. Mod(s) - 1  BY <1>1
  <2>2. M - 1 \in Register  BY <2>1, VectorWord
  <2> QED  BY <1>1, <2>2 DEF Register
<1>3. Signed(a, s) \in Int /\ (a # 0 => Signed(a, s) # 0) /\ -W < Signed(a, s) /\ Signed(a, s) < W
  <2>1. Signed(a, s) = a \/ (Signed(a, s) = a - M /\ Msb(a, s))  BY DEF Signed, M
  <2>2. Msb(a, s) => a > 0  BY Halves DEF Msb
  <2>3. a \in 0 .. M - 1  OBVIOUS
  <2> HIDE DEF W, M
  <2> QED  BY <1>1, <1>2, <2>1, <2>2, <2>3
<1>4. Sext(a, s) \in Register
  <2>1. "SZ_WORD" \in Size  BY DEF Size
  <2> QED  BY <1>3, <2>1, ModRange DEF Sext
<1>5. a # 0 => Sext(a, s) # 0
  <2> DEFINE x == Signed(a, s)
  <2>1. Sext(a, s) = x % W  BY DEF Sext
  <2> HIDE DEF x, W, M
  <2>2. x \in Int /\ (a # 0 => x # 0) /\ -W < x /\ x < W  BY <1>3 DEF x
  <2>3. x < 0 => x % W = x + W  BY <1>1, <2>2, SMTT(20)
  <2>4. x >= 0 => x % W = x  BY <1>1, <2>2, SMTT(20)
  <2> QED  BY <1>1, <2>1, <2>2, <2>3, <2>4
<1> QED  BY <1>1, <1>3, <1>4, <1>5 DEF Register

\* Quotients and remainders of natural numbers.
LEMMA Quotients ==
  ASSUME NEW x \in Nat, NEW y \in Nat \ {0}
  PROVE  x \div y \in 0 .. x /\ x % y \in 0 .. y - 1 /\ x % y <= x
<1>1. x % y \in 0 .. y - 1 /\ x \div y \in Nat /\ x = y * (x \div y) + (x % y)
  BY SMTT(20)
<1> DEFINE q == x \div y
           r == x % y
           p == y * q
<1>2. p \in Nat /\ q <= p
  <2> HIDE DEF q
  <2>1. 1 * q <= y * q  BY <1>1, Products DEF q
  <2>2. y * q \in Nat  BY <1>1, Products DEF q
  <2> QED  BY <1>1, <2>1, <2>2 DEF q
<1> HIDE DEF p
<1>3. x = p + r  BY <1>1 DEF p
<1> QED  BY <1>1, <1>2, <1>3

\* The operations of multiplication and division.
LEMMA ProductsFit ==
  ASSUME NEW s \in Size, NEW a \in 0 .. Mod(s) - 1, NEW b \in 0 .. Mod(s) - 1, NEW f \in Flags
  PROVE  /\ \A x, y \in Int : Fits(Multiply(s, x, y, f))
         /\ Fits(Divide(s, a, b, f)) /\ Fits(Remainder(s, a, b, f))
         /\ Fits(DivideUnsigned(s, a, b, f)) /\ Fits(RemainderUnsigned(s, a, b, f))
<1>1. f.cy \in BOOLEAN /\ FALSE \in BOOLEAN  BY Booleans
<1>2. Mod(s) \in Nat \ {0, 1} /\ Mod("SZ_WORD") \in Nat \ {0, 1}  BY Vectors
<1>3. \A x \in 0 .. Mod(s) - 1 : x \in Register  BY VectorWord
<1>4. ASSUME NEW x \in Int, NEW y \in Int
      PROVE  Fits(Multiply(s, x, y, f))
  <2>1. x * y \in Int /\ (x * y \notin 0 .. Mod(s) - 1) \in BOOLEAN  OBVIOUS
  <2>2. (x * y) % Mod(s) \in Register  BY <2>1, ModRange
  <2> QED  BY <1>1, <2>1, <2>2, OutcomeFits DEF Multiply
<1>5. Sext(b, s) \in Nat /\ (a # 0 => Sext(a, s) \in Nat \ {0})  BY Extended, <1>2 DEF Register
<1>6. Fits(Divide(s, a, b, f))
  <2> DEFINE ov == DivideOverflow(s, a, b)
             r == IF a # 0 /\ ~ov THEN (Sext(b, s) \div Sext(a, s)) % Mod(s) ELSE b
  <2>1. ov \in BOOLEAN  BY DEF DivideOverflow
  <2>2. a # 0 => (Sext(b, s) \div Sext(a, s)) % Mod(s) \in Register
    <3> SUFFICES ASSUME a # 0
                 PROVE  (Sext(b, s) \div Sext(a, s)) % Mod(s) \in Register
      OBVIOUS
    <3>1. Sext(b, s) \div Sext(a, s) \in Int  BY <1>5, Quotients
    <3> QED  BY <3>1, ModRange
  <2>3. b \in Register  BY <1>3
  <2>4. r \in Register
    <3>1. CASE a # 0 /\ ~ov  BY <2>2, <3>1
    <3>2. CASE ~(a # 0 /\ ~ov)
      <4>1. r = b  BY <3>2
      <4> QED  BY <2>3, <4>1
    <3> QED  BY <3>1, <3>2
  <2>5. Divide(s, a, b, f) = Outcome(s, r, f.cy, ov)  BY DEF Divide
  <2> HIDE DEF r, ov
  <2> QED  BY <1>1, <2>1, <2>4, <2>5, OutcomeFits
<1>7. Fits(Remainder(s, a, b, f))
  <2> DEFINE r == IF a # 0 THEN (Sext(b, s) % Sext(a, s)) % Mod(s) ELSE b
  <2>1. r \in Register
    <3>1. CASE a # 0
      <4>1. Sext(b, s) % Sext(a, s) \in Int  BY <1>5, <3>1, Quotients
      <4>2. (Sext(b, s) % Sext(a, s)) % Mod(s) \in Register  BY <4>1, ModRange
      <4> QED  BY <3>1, <4>2
    <3>2. CASE a = 0  BY <1>3, <3>2
    <3> QED  BY <3>1, <3>2
  <2>2. Remainder(s, a, b, f) = Outcome(s, r, f.cy, FALSE)  BY DEF Remainder
  <2> HIDE DEF r
  <2> QED  BY <1>1, <2>1, <2>2, OutcomeFits
<1>8. Fits(DivideUnsigned(s, a, b, f))
  <2> DEFINE r == IF a # 0 THEN b \div a ELSE b
  <2>1. r \in Register
    <3>1. CASE a # 0
      <4>1. b \in Nat /\ a \in Nat \ {0} /\ b <= Mod(s) - 1  BY <1>2, <3>1
      <4>2. b \div a \in 0 .. b  BY <4>1, Quotients
      <4>3. b \div a \in 0 .. Mod(s) - 1  BY <1>2, <4>1, <4>2
      <4> QED  BY <1>3, <3>1, <4>3
    <3>2. CASE a = 0  BY <1>3, <3>2
    <3> QED  BY <3>1, <3>2
  <2>2. DivideUnsigned(s, a, b, f) = Outcome(s, r, f.cy, FALSE)  BY DEF DivideUnsigned
  <2> HIDE DEF r
  <2> QED  BY <1>1, <2>1, <2>2, OutcomeFits
<1>9. Fits(RemainderUnsigned(s, a, b, f))
  <2> DEFINE r == IF a # 0 THEN b % a ELSE b
  <2>1. r \in Register
    <3>1. CASE a # 0
      <4>1. b % a \in 0 .. a - 1 /\ a <= Mod(s) - 1  BY <1>2, <3>1, Quotients
      <4>2. b % a \in 0 .. Mod(s) - 1  BY <1>2, <4>1
      <4> QED  BY <1>3, <3>1, <4>2
    <3>2. CASE a = 0  BY <1>3, <3>2
    <3> QED  BY <3>1, <3>2
  <2>2. RemainderUnsigned(s, a, b, f) = Outcome(s, r, f.cy, FALSE)  BY DEF RemainderUnsigned
  <2> HIDE DEF r
  <2> QED  BY <1>1, <2>1, <2>2, OutcomeFits
<1> QED  BY <1>4, <1>6, <1>7, <1>8, <1>9

\* A word cut at its lower end, or moved to the right, is a word.
LEMMA Narrow ==
  ASSUME NEW s \in Size, NEW b \in 0 .. Mod(s) - 1
  PROVE  /\ \A k \in Nat : Shr(b, k) \in 0 .. Mod(s) - 1
         /\ b \div 2 \in Nat /\ 2 * (b \div 2) <= b
<1>1. b \in Nat /\ Mod(s) \in Nat \ {0, 1}  BY Vectors
<1>2. ASSUME NEW k \in Nat
      PROVE  Shr(b, k) \in 0 .. Mod(s) - 1
  <2>1. Two[k] \in Nat \ {0}  BY TwoIs
  <2>2. b \div Two[k] \in 0 .. b  BY <1>1, <2>1, Quotients
  <2>3. CASE k >= WordBits  BY <1>1, <2>3 DEF Shr
  <2>4. CASE ~(k >= WordBits)
    <3>1. Shr(b, k) = b \div Two[k]  BY <2>4 DEF Shr
    <3> QED  BY <1>1, <2>2, <3>1
  <2> QED  BY <2>3, <2>4
<1>3. b \div 2 \in Nat /\ 2 * (b \div 2) <= b  BY <1>1
<1> QED  BY <1>2, <1>3

\* A shift to the left leaves a vector.
LEMMA ShlNat ==
  ASSUME NEW x \in Nat, NEW k \in Nat, NEW n \in Nat
  PROVE  Shl(x, k, n) \in Nat
<1>1. Two[k] \in Nat /\ Two[n] \in Nat \ {0}  BY TwoIs
<1> DEFINE p == x * Two[k]
<1>2. p \in Nat  BY <1>1, Products
<1> HIDE DEF p
<1>3. p % Two[n] \in Nat  BY <1>1, <1>2, Quotients
<1> QED  BY <1>3 DEF Shl, p

\* The count of a shift is a whole number, and so is what is left of it.
LEMMA CountRange ==
  ASSUME NEW a \in Nat
  PROVE  Count(a) \in Int
<1>1. Two[COUNT_BITS] \in Nat \ {0}
  <2>1. COUNT_BITS \in Nat  BY SizeAssumption
  <2> QED  BY <2>1, TwoIs
<1>2. a % Two[COUNT_BITS] \in Nat  BY <1>1, Quotients
<1> QED  BY <1>1, <1>2 DEF Count

\* The shifts.
LEMMA ShiftsFit ==
  ASSUME NEW s \in Size, NEW b \in 0 .. Mod(s) - 1, NEW n \in Int, NEW u \in BOOLEAN
  PROVE  Fits(ShiftLogical(s, n, b)) /\ Fits(ShiftArithmetic(s, n, b, u))
<1>1. /\ WordBits \in Nat \ {0, 1} /\ Mod(s) \in Nat \ {0, 1} /\ b \in Nat /\ b \in Register
  BY Vectors, VectorWord
<1>2. /\ \A x, i : Bit(x, i) \in BOOLEAN
      /\ \A x, i : Select(x, i, u) \in BOOLEAN
      /\ \A x : Msb(x, s) \in BOOLEAN
  <2>1. /\ \A x, i : Bit(x, i) \in BOOLEAN
        /\ \A x : Msb(x, s) \in BOOLEAN
    BY DEF Bit, Msb
  <2>2. \A x, i : Select(x, i, u) = Bit(x, i) \/ Select(x, i, u) = u  BY DEF Select
  <2>3. \A x, i : Select(x, i, u) \in BOOLEAN  BY <2>1, <2>2, Zenon
  <2> QED  BY <2>1, <2>3
<1>3. \A k \in Nat : Shr(b, k) \in Register  BY Narrow, VectorWord
<1>4. 0 \in Register /\ Mod(s) - 1 \in Register
  <2>1. 0 \in 0 .. Mod(s) - 1 /\ Mod(s) - 1 \in 0 .. Mod(s) - 1  BY <1>1
  <2> QED  BY <2>1, VectorWord
<1>5. Fits(ShiftLogical(s, n, b))
  <2> DEFINE left == Shl(b, n, IF s = "SZ_WORD" THEN 2 * WordBits ELSE WordBits)
             e == ShiftLogical(s, n, b)
  <2>1. CASE n > 0
    <3>1. n \in Nat /\ WordBits \in Nat /\ 2 * WordBits \in Nat  BY <1>1, <2>1
    <3>2. left \in Nat  BY <1>1, <3>1, ShlNat
    <3>3. e = Outcome(s, left % Mod(s), Bit(left, Width[s]), FALSE)
      <4>1. n # 0 /\ ~(n < 0)  BY <2>1
      <4> QED  BY <2>1, <4>1, Zenon DEF ShiftLogical
    <3> HIDE DEF left, e
    <3>4. left % Mod(s) \in Register  BY <3>2, ModRange
    <3> QED  BY <1>2, <3>3, <3>4, OutcomeFits DEF e
  <2>2. CASE n = 0
    <3>1. e = Outcome(s, b, FALSE, FALSE)  BY <2>2 DEF ShiftLogical
    <3> QED  BY <1>1, <3>1, OutcomeFits
  <2>3. CASE n < 0
    <3>1. -n \in Nat  BY <2>3
    <3>2. e = Outcome(s, Shr(b, -n), Bit(Shr(b, -n - 1), 0), FALSE)
      BY <2>3 DEF ShiftLogical
    <3> HIDE DEF e
    <3> QED  BY <1>2, <1>3, <3>1, <3>2, OutcomeFits DEF e
  <2> QED  BY <2>1, <2>2, <2>3
<1>6. Fits(ShiftArithmetic(s, n, b, u))
  <2> DEFINE ovs == Bits(b) \cap Bits(OvMask(s, n))
             e == ShiftArithmetic(s, n, b, u)
  <2>1. CASE n = 0
    <3>1. e = Outcome(s, b, FALSE, FALSE)  BY <2>1 DEF ShiftArithmetic
    <3> QED  BY <1>1, <3>1, OutcomeFits
  <2>2. CASE n > 0
    <3> DEFINE r == IF Low(n) >= Width[s] THEN 0 ELSE Shl(b, n, WordBits) % Mod(s)
               cy == Select(b, LeftDistance(s, n), u)
               ov == IF Msb(b, s) THEN ovs # Bits(OvMask(s, n)) ELSE ovs # {}
    <3>1. e = Outcome(s, r, cy, ov)
      <4>1. n # 0 /\ ~(n < 0)  BY <2>2
      <4> QED  BY <2>2, <4>1, Zenon DEF ShiftArithmetic
    <3>2. Shl(b, n, WordBits) % Mod(s) \in Register
      <4>1. n \in Nat  BY <2>2
      <4>2. Shl(b, n, WordBits) \in Nat  BY <1>1, <4>1, ShlNat
      <4> QED  BY <4>2, ModRange
    <3>3. r \in Register  BY <1>4, <3>2
    <3>4. cy \in BOOLEAN /\ ov \in BOOLEAN  BY <1>2
    <3> HIDE DEF r, cy, ov, e
    <3> QED  BY <3>1, <3>3, <3>4, OutcomeFits DEF e
  <2>3. CASE n < 0
    <3> DEFINE k == Min({-n, WordBits})
               r == IF Low(-n) >= Width[s]
                    THEN IF Msb(b, s) THEN Mod(s) - 1 ELSE 0
                    ELSE (Signed(b, s) \div Two[k]) % Mod(s)
               cy == Select(b, -n - 1, u)
    <3>1. e = Outcome(s, r, cy, FALSE)  BY <2>3 DEF ShiftArithmetic
    <3>2. k \in Nat
      <4> DEFINE m == IF -n <= WordBits THEN -n ELSE WordBits
      <4>1. -n \in Nat  BY <2>3
      <4>2. m \in {-n, WordBits} /\ m \in Nat /\ \A y \in {-n, WordBits} : m <= y
        BY <1>1, <4>1
      <4> HIDE DEF m
      <4>3. k \in {-n, WordBits}  BY <4>2 DEF Min
      <4> QED  BY <1>1, <4>1, <4>3
    <3> HIDE DEF k
    <3>3. (Signed(b, s) \div Two[k]) % Mod(s) \in Register
      <4>1. Two[k] \in Nat \ {0} /\ Signed(b, s) \in Int  BY <3>2, TwoIs, Extended
      <4>2. Signed(b, s) \div Two[k] \in Int  BY <4>1, SMTT(20)
      <4> QED  BY <4>2, ModRange
    <3>4. r \in Register  BY <1>4, <3>3
    <3>5. cy \in BOOLEAN  BY <1>2
    <3> HIDE DEF r, cy, e
    <3> QED  BY <3>1, <3>4, <3>5, OutcomeFits DEF e
  <2> QED  BY <2>1, <2>2, <2>3
<1> QED  BY <1>5, <1>6

\* A turn to the left or to the right leaves a vector of its size and a bit.
LEMMA TurnFits ==
  ASSUME NEW s \in Size, NEW v \in 0 .. Mod(s) - 1, NEW c \in BOOLEAN
  PROVE  /\ Left(s, v, c) \in [val : 0 .. Mod(s) - 1, out : BOOLEAN]
         /\ Right(s, v, c) \in [val : 0 .. Mod(s) - 1, out : BOOLEAN]
<1> DEFINE H == Half[s]
           M == Mod(s)
           d == (2 * v) % M
           q == v \div 2
<1>1. H \in Nat \ {0, 1} /\ M = 2 * H  BY Halves
<1>2. Msb(v, s) \in BOOLEAN /\ Bit(v, 0) \in BOOLEAN  BY DEF Msb, Bit
<1>3. v \in 0 .. M - 1  OBVIOUS
<1>4. q \in Nat /\ 2 * q <= v  BY Narrow
<1>5. d + 1 \in 0 .. M - 1 /\ d \in 0 .. M - 1
  <2> DEFINE t == 2 * v
  <2> HIDE DEF H, M
  <2>1. t \in Nat /\ t < 2 * M /\ M \in Nat \ {0}  BY <1>1, <1>3
  <2>2. t < M => t % M = t
    <3> HIDE DEF t
    <3> QED  BY <2>1, SMTT(20)
  <2>3. t >= M => t % M = t - M
    <3> HIDE DEF t
    <3> QED  BY <2>1, SMTT(20)
  <2>4. CASE t < M  BY <1>1, <1>3, <2>2, <2>4
  <2>5. CASE t >= M  BY <1>1, <1>3, <2>3, <2>5
  <2> QED  BY <2>1, <2>4, <2>5
<1>6. q + H \in 0 .. M - 1 /\ q \in 0 .. M - 1
  <2> HIDE DEF H, M, q
  <2> QED  BY <1>1, <1>3, <1>4
<1>7. Left(s, v, c) \in [val : 0 .. Mod(s) - 1, out : BOOLEAN]
  <2>1. Left(s, v, c) = [val |-> d + (IF c THEN 1 ELSE 0), out |-> Msb(v, s)]  BY DEF Left
  <2>2. d + (IF c THEN 1 ELSE 0) \in 0 .. M - 1
    <3> HIDE DEF d, M
    <3> QED  BY <1>5
  <2> QED  BY <1>2, <2>1, <2>2
<1>8. Right(s, v, c) \in [val : 0 .. Mod(s) - 1, out : BOOLEAN]
  <2>1. Right(s, v, c) = [val |-> q + (IF c THEN H ELSE 0), out |-> Bit(v, 0)]  BY DEF Right
  <2>2. q + (IF c THEN H ELSE 0) \in 0 .. M - 1
    <3> HIDE DEF q, M, H
    <3> QED  BY <1>1, <1>6
  <2> QED  BY <1>2, <2>1, <2>2
<1> QED  BY <1>7, <1>8

\* One turn of the vector and the carry t, to the left for a positive count.
Turn(s, n, carry, t) ==
  IF n > 0 THEN Left(s, t.val, IF carry THEN t.out ELSE Msb(t.val, s))
  ELSE Right(s, t.val, IF carry THEN t.out ELSE Bit(t.val, 0))

\* What a rotation leaves after each of its turns.
Turned(h, s, n, b, f, carry) ==
  /\ h[0] = [val |-> b, out |-> f.cy]
  /\ \A m \in Nat : h[m + 1] = Turn(s, n, carry, h[m])
  /\ \A m \in Nat : h[m] \in [val : 0 .. Mod(s) - 1, out : BOOLEAN]
  /\ Turns(s, n, b, f, carry) = h[IF n > 0 THEN n ELSE -n]

\* A rotation turns a vector a number of times.
LEMMA TurnsAre ==
  ASSUME NEW s \in Size, NEW n \in Int, NEW b \in 0 .. Mod(s) - 1, NEW f \in Flags,
         NEW carry \in BOOLEAN
  PROVE  \E h : Turned(h, s, n, b, f, carry)
<1> DEFINE R == [val : 0 .. Mod(s) - 1, out : BOOLEAN]
           one(t) == IF n > 0 THEN Left(s, t.val, IF carry THEN t.out ELSE Msb(t.val, s))
                     ELSE Right(s, t.val, IF carry THEN t.out ELSE Bit(t.val, 0))
           start == [val |-> b, out |-> f.cy]
           step == [p \in R \X Nat |-> one(p[1])]
<1>1. \A t \in R : one(t) \in R
  <2> SUFFICES ASSUME NEW t \in R
               PROVE  one(t) \in R
    OBVIOUS
  <2>1. t.val \in 0 .. Mod(s) - 1 /\ t.out \in BOOLEAN  OBVIOUS
  <2>2. Msb(t.val, s) \in BOOLEAN /\ Bit(t.val, 0) \in BOOLEAN  BY DEF Msb, Bit
  <2>3. (IF carry THEN t.out ELSE Msb(t.val, s)) \in BOOLEAN  BY <2>1, <2>2
  <2>4. (IF carry THEN t.out ELSE Bit(t.val, 0)) \in BOOLEAN  BY <2>1, <2>2
  <2>5. Left(s, t.val, IF carry THEN t.out ELSE Msb(t.val, s)) \in R  BY <2>1, <2>3, TurnFits
  <2>6. Right(s, t.val, IF carry THEN t.out ELSE Bit(t.val, 0)) \in R  BY <2>1, <2>4, TurnFits
  <2> QED  BY <2>5, <2>6
<1>2. start \in R
  <2>1. f.cy \in BOOLEAN  BY Booleans
  <2> QED  BY <2>1
<1>12. \A t : one(t) = Turn(s, n, carry, t)  BY DEF Turn
<1> HIDE DEF one, start, R
<1>3. PICK g \in [Nat -> R] : Values(g, start, step)
  <2>1. step \in [R \X Nat -> R]  BY <1>1
  <2> HIDE DEF step
  <2> QED  BY <1>2, <2>1, Recursion
<1>4. \A m \in Nat : g[m] = IF m = 0 THEN start ELSE one(g[m - 1])
  <2> SUFFICES ASSUME NEW m \in Nat, m # 0
               PROVE  g[m] = one(g[m - 1])
    BY <1>3 DEF Values
  <2>1. m - 1 \in Nat /\ (m - 1) + 1 = m  OBVIOUS
  <2>2. g[m] = step[<<g[m - 1], m - 1>>]  BY <1>3, <2>1 DEF Values
  <2> QED  BY <2>1, <2>2
<1> DEFINE h == CHOOSE h : h = [m \in Nat |-> IF m = 0 THEN start ELSE one(h[m - 1])]
<1>5. h = [m \in Nat |-> IF m = 0 THEN start ELSE one(h[m - 1])]
  <2>1. g = [m \in Nat |-> IF m = 0 THEN start ELSE one(g[m - 1])]  BY <1>4
  <2> QED  BY <2>1
<1>6. Turns(s, n, b, f, carry) = h[IF n > 0 THEN n ELSE -n]
  BY DEF Turns, start, one
<1> DEFINE T == {m \in Nat : h[m] \in R}
<1> HIDE DEF h
<1>7. 0 \in T  BY <1>2, <1>5
<1>13. \A m \in Nat : h[m + 1] = one(h[m])
  <2> SUFFICES ASSUME NEW m \in Nat
               PROVE  h[m + 1] = one(h[m])
    OBVIOUS
  <2>1. m + 1 \in Nat /\ m + 1 # 0 /\ (m + 1) - 1 = m  OBVIOUS
  <2> QED  BY <1>5, <2>1
<1>8. ASSUME NEW m \in Nat, m \in T
      PROVE  m + 1 \in T
  BY <1>1, <1>8, <1>13
<1>9. Nat \subseteq T
  <2> HIDE DEF T
  <2> QED  BY <1>7, <1>8, Induct
<1>10. h[0] = start  BY <1>5
<1>11. \A m \in Nat : h[m] \in R  BY <1>9
<1> QED  BY <1>6, <1>10, <1>11, <1>12, <1>13 DEF R, start, Turned

\* What it leaves is a vector and a bit.
LEMMA TurnsFit ==
  ASSUME NEW s \in Size, NEW n \in Int, NEW b \in 0 .. Mod(s) - 1, NEW f \in Flags,
         NEW carry \in BOOLEAN
  PROVE  Turns(s, n, b, f, carry) \in [val : 0 .. Mod(s) - 1, out : BOOLEAN]
<1>1. PICK h : Turned(h, s, n, b, f, carry)  BY TurnsAre
<1>2. (IF n > 0 THEN n ELSE -n) \in Nat  OBVIOUS
<1> QED  BY <1>1, <1>2 DEF Turned

\* The rotations.
LEMMA RotationsFit ==
  ASSUME NEW s \in Size, NEW n \in Int, NEW b \in 0 .. Mod(s) - 1, NEW f \in Flags
  PROVE  Fits(Rotate(s, n, b, f)) /\ Fits(RotateCarry(s, n, b, f))
<1>1. TRUE \in BOOLEAN /\ FALSE \in BOOLEAN  OBVIOUS
<1>2. Fits(Rotate(s, n, b, f))
  <2> DEFINE t == Turns(s, n, b, f, FALSE)
             r == t.val
             cy == IF n > 0 THEN Bit(r, 0) ELSE n < 0 /\ Msb(r, s)
  <2>1. t \in [val : 0 .. Mod(s) - 1, out : BOOLEAN]  BY <1>1, TurnsFit
  <2> HIDE DEF t
  <2>2. r \in Register  BY <2>1, VectorWord
  <2>3. cy \in BOOLEAN
    <3>1. Bit(r, 0) \in BOOLEAN /\ (n < 0 /\ Msb(r, s)) \in BOOLEAN  BY DEF Bit
    <3> QED  BY <3>1
  <2>4. Rotate(s, n, b, f) = Outcome(s, r, cy, FALSE)  BY DEF Rotate, t
  <2> HIDE DEF r, cy
  <2> QED  BY <1>1, <2>2, <2>3, <2>4, OutcomeFits
<1>3. Fits(RotateCarry(s, n, b, f))
  <2> DEFINE t == Turns(s, n, b, f, TRUE)
  <2>1. t \in [val : 0 .. Mod(s) - 1, out : BOOLEAN]  BY <1>1, TurnsFit
  <2> HIDE DEF t
  <2>2. t.val \in Register /\ (n # 0 /\ t.out) \in BOOLEAN  BY <2>1, VectorWord
  <2>3. RotateCarry(s, n, b, f) = Outcome(s, t.val, n # 0 /\ t.out, FALSE)
    BY DEF RotateCarry, t
  <2> QED  BY <1>1, <2>2, <2>3, OutcomeFits
<1> QED  BY <1>2, <1>3

\* One bit of a word turned round leaves a word: it is subtracted where it is and added
\* where it is not.
LEMMA TurnBit ==
  ASSUME NEW b \in Register, NEW i \in 0 .. WordBits - 1
  PROVE  /\ Bit(b, i) => b - Two[i] \in Register
         /\ ~Bit(b, i) => b + Two[i] \in Register
<1> DEFINE P == Two[i]
           C == Two[WordBits - 1 - i]
           W == Mod("SZ_WORD")
<1>1. WordBits \in Nat \ {0, 1} /\ W = Two[WordBits] /\ W \in Nat \ {0, 1}
  <2>1. "SZ_WORD" \in Size  BY DEF Size
  <2> QED  BY <2>1, Vectors
<1>2. i \in Nat /\ WordBits - 1 - i \in Nat /\ i < WordBits  BY <1>1
<1>3. P \in Nat \ {0} /\ C \in Nat \ {0} /\ W = (2 * P) * C
  <2> DEFINE d == WordBits - 1 - i
  <2>1. d \in Nat /\ i + 1 \in Nat /\ (i + 1) + d = WordBits  BY <1>1, <1>2
  <2> HIDE DEF d
  <2>2. Two[(i + 1) + d] = Two[i + 1] * Two[d]  BY <2>1, TwoSum
  <2>3. Two[i + 1] = 2 * Two[i] /\ Two[i] \in Nat \ {0} /\ Two[d] \in Nat \ {0}
    BY <1>2, <2>1, TwoIs
  <2> QED  BY <1>1, <2>1, <2>2, <2>3 DEF d
<1> DEFINE q == b \div P
           r == b % P
           h == q \div 2
<1>4. b \in Nat /\ b < W  BY <1>1 DEF Register
<1> HIDE DEF P, C, W
<1>5. q \in Nat /\ r \in 0 .. P - 1 /\ b = P * q + r
  BY <1>3, <1>4, SMTT(20)
<1>6. Bit(b, i) = (q % 2 = 1)  BY DEF Bit, P
<1> HIDE DEF q, r
<1>7. h \in Nat /\ (q % 2 = 1 => q = 2 * h + 1) /\ (q % 2 # 1 => q = 2 * h)  BY <1>5
<1> HIDE DEF h
<1> DEFINE M == P * h
           N == P * C
<1>8. M \in Nat /\ N \in Nat /\ W = 2 * N
  <2>1. M \in Nat /\ N \in Nat  BY <1>3, <1>7
  <2>2. (2 * P) * C = 2 * (P * C)  BY <1>3, SMTT(20)
  <2> QED  BY <1>3, <2>1, <2>2
<1>9. h < C
  <2> SUFFICES ASSUME C <= h
               PROVE  FALSE
    BY <1>3, <1>7
  <2>1. C * P <= h * P /\ C * P = P * C /\ h * P = P * h  BY <1>3, <1>7, Products
  <2>2. N <= M  BY <2>1
  <2>3. P * q >= 2 * M
    <3>1. (2 * h) * P <= q * P /\ q * P = P * q  BY <1>3, <1>5, <1>7, Products
    <3>2. (2 * h) * P = 2 * (P * h)  BY <1>3, <1>7, SMTT(20)
    <3> QED  BY <3>1, <3>2
  <2> DEFINE X == P * q
  <2>4. X \in Nat  BY <1>3, <1>5
  <2> HIDE DEF M, N, X
  <2> QED  BY <1>3, <1>4, <1>5, <1>8, <2>2, <2>3, <2>4 DEF X
<1>10. M + P <= N
  <2>1. h * P + P <= C * P /\ C * P = P * C /\ h * P = P * h  BY <1>3, <1>7, <1>9, Products
  <2> QED  BY <2>1
<1>11. CASE q % 2 = 1
  <2>1. P * q = 2 * M + P
    <3>1. P * (2 * h + 1) = 2 * (P * h) + P  BY <1>3, <1>7, SMTT(20)
    <3> QED  BY <1>7, <1>11, <3>1
  <2> DEFINE X == P * q
  <2> HIDE DEF M, N, X
  <2>2. b - P \in 0 .. W - 1  BY <1>3, <1>4, <1>5, <1>8, <2>1 DEF X
  <2> QED  BY <1>6, <1>11, <2>2 DEF Register, W, P
<1>12. CASE q % 2 # 1
  <2>1. P * q = 2 * M
    <3>1. P * (2 * h) = 2 * (P * h)  BY <1>3, <1>7, SMTT(20)
    <3> QED  BY <1>7, <1>12, <3>1
  <2> DEFINE X == P * q
  <2> HIDE DEF M, N, X
  <2>2. b + P \in 0 .. W - 1  BY <1>3, <1>4, <1>5, <1>8, <1>10, <2>1 DEF X
  <2> QED  BY <1>6, <1>12, <2>2 DEF Register, W, P
<1> QED  BY <1>11, <1>12

\* The operations on one bit.
LEMMA BitFits ==
  ASSUME NEW op \in {"ALU_SET1", "ALU_CLR1", "ALU_NOT1", "ALU_TEST1"},
         NEW a \in Register, NEW b \in Register, NEW f \in Flags
  PROVE  Fits(BitOperation(op, a, b, f))
<1> DEFINE i == a % WordBits
           cy == Bit(b, i)
           o == BitOperation(op, a, b, f)
<1>1. WordBits \in Nat \ {0, 1} /\ a \in Nat
  <2>1. "SZ_WORD" \in Size  BY DEF Size
  <2> QED  BY <2>1, Vectors DEF Register
<1>2. i \in 0 .. WordBits - 1  BY <1>1, Quotients
<1>3. cy \in BOOLEAN  BY DEF Bit
<1> DEFINE set == FromBits(Bits(b) \cup {i})
           clr == FromBits(Bits(b) \ {i})
           not == IF cy THEN b - Two[i] ELSE b + Two[i]
<1>4. /\ o.result = CASE op = "ALU_SET1"  -> set
                      [] op = "ALU_CLR1"  -> clr
                      [] op = "ALU_NOT1"  -> not
                      [] op = "ALU_TEST1" -> b
      /\ o.flags = [f EXCEPT !.cy = cy, !.z = ~cy]
  BY DEF BitOperation
<1> HIDE DEF i, o
<1>5. set \in Register /\ clr \in Register  BY FromBitsWord
<1>6. not \in Register
  <2>1. CASE cy  BY <1>2, <2>1, TurnBit
  <2>2. CASE ~cy  BY <1>2, <2>2, TurnBit
  <2> QED  BY <2>1, <2>2
<1> HIDE DEF set, clr, not, cy
<1>7. o.result \in Register  BY <1>4, <1>5, <1>6
<1>8. o.flags \in Flags  BY <1>3, <1>4 DEF Flags
<1> QED  BY <1>7, <1>8 DEF Fits, o

\* Every operation of the unit leaves a word and four flags.
LEMMA AluFits ==
  ASSUME NEW op \in AluOps \cup CountOps, NEW s \in Size,
         NEW aw \in Register, NEW bw \in Register, NEW f \in Flags, NEW u \in BOOLEAN
  PROVE  Fits(AluOutcome(op, s, aw, bw, f, u))
<1> DEFINE a == Sized(aw, s)
           b == Sized(bw, s)
           n == Count(aw)
           o == AluOutcome(op, s, aw, bw, f, u)
<1>1. aw \in Nat /\ bw \in Nat /\ Mod(s) \in Nat \ {0, 1}
  <2>1. "SZ_WORD" \in Size  BY DEF Size
  <2> QED  BY <2>1, Vectors DEF Register
<1>2. a \in 0 .. Mod(s) - 1 /\ b \in 0 .. Mod(s) - 1  BY <1>1, SizedRange
<1>3. n \in Int  BY <1>1, CountRange
<1>4. a \in Int /\ b \in Int /\ 0 \in Int /\ Carry(f) \in Int  BY <1>1, <1>2 DEF Carry
<1>5. Signed(a, s) \in Int /\ Signed(b, s) \in Int  BY <1>2, Extended
<1>6. \A bits : Fits(Logic(s, bits))
  <2> SUFFICES ASSUME NEW bits
               PROVE  Fits(Logic(s, bits))
    OBVIOUS
  <2>1. FromBits(bits) \in Register /\ FALSE \in BOOLEAN  BY FromBitsWord
  <2> QED  BY <2>1, OutcomeFits DEF Logic
<1> HIDE DEF a, b, n
<1>7. \A c \in {0, Carry(f)} : Fits(Add(s, a, b, c)) /\ Fits(Subtract(s, a, b, c))
  BY <1>4, SumsFit
<1>8. Fits(Negate(s, a)) /\ Fits(Increment(s, a)) /\ Fits(Decrement(s, a))
  BY <1>4, SumsFit
<1>9. /\ Fits(Multiply(s, Signed(a, s), Signed(b, s), f)) /\ Fits(Multiply(s, a, b, f))
      /\ Fits(Divide(s, a, b, f)) /\ Fits(Remainder(s, a, b, f))
      /\ Fits(DivideUnsigned(s, a, b, f)) /\ Fits(RemainderUnsigned(s, a, b, f))
  BY <1>2, <1>4, <1>5, ProductsFit
<1>10. Fits(ShiftLogical(s, n, b)) /\ Fits(ShiftArithmetic(s, n, b, u))
  BY <1>2, <1>3, ShiftsFit
<1>11. Fits(Rotate(s, n, b, f)) /\ Fits(RotateCarry(s, n, b, f))
  BY <1>2, <1>3, RotationsFit
<1>12. \A z \in {"ALU_SET1", "ALU_CLR1", "ALU_NOT1", "ALU_TEST1"} :
         Fits(BitOperation(z, aw, bw, f))
  BY BitFits
<1>13. ReverseBits(aw) \in Register /\ ReverseBytes(aw) \in Register
  BY FromBitsWord DEF ReverseBits, ReverseBytes
<1>14. /\ Fits([result |-> ReverseBits(aw), flags |-> f])
       /\ Fits([result |-> ReverseBytes(aw), flags |-> f])
  BY <1>13 DEF Fits
<1>15. CASE op \in {"ALU_ADD", "ALU_ADDC", "ALU_SUB", "ALU_CMP", "ALU_SUBC"}
  <2>1. \/ o = Add(s, a, b, 0) \/ o = Add(s, a, b, Carry(f))
        \/ o = Subtract(s, a, b, 0) \/ o = Subtract(s, a, b, Carry(f))
    BY <1>15 DEF AluOutcome, a, b
  <2> HIDE DEF o
  <2> QED  BY <1>7, <2>1 DEF o
<1>16. CASE op \in {"ALU_AND", "ALU_OR", "ALU_XOR", "ALU_NOT", "ALU_MOV"}
  <2>1. \E bits : o = Logic(s, bits)  BY <1>16 DEF AluOutcome
  <2> HIDE DEF o
  <2> QED  BY <1>6, <2>1 DEF o
<1>17. CASE op \in {"ALU_NEG", "ALU_INC", "ALU_DEC"}
  <2>1. o = Negate(s, a) \/ o = Increment(s, a) \/ o = Decrement(s, a)
    BY <1>17 DEF AluOutcome, a
  <2> HIDE DEF o
  <2> QED  BY <1>8, <2>1 DEF o
<1>18. CASE op \in {"ALU_MUL", "ALU_MULU", "ALU_DIV", "ALU_DIVU", "ALU_REM", "ALU_REMU"}
  <2>1. \/ o = Multiply(s, Signed(a, s), Signed(b, s), f) \/ o = Multiply(s, a, b, f)
        \/ o = Divide(s, a, b, f) \/ o = DivideUnsigned(s, a, b, f)
        \/ o = Remainder(s, a, b, f) \/ o = RemainderUnsigned(s, a, b, f)
    BY <1>18 DEF AluOutcome, a, b
  <2> HIDE DEF o
  <2> QED  BY <1>9, <2>1 DEF o
<1>19. CASE op \in {"ALU_SHL", "ALU_SHA", "ALU_ROT", "ALU_ROTC"}
  <2>1. \/ o = ShiftLogical(s, n, b) \/ o = ShiftArithmetic(s, n, b, u)
        \/ o = Rotate(s, n, b, f) \/ o = RotateCarry(s, n, b, f)
    BY <1>19 DEF AluOutcome, b, n
  <2> HIDE DEF o
  <2> QED  BY <1>10, <1>11, <2>1 DEF o
<1>20. CASE op \in {"ALU_SET1", "ALU_CLR1", "ALU_NOT1", "ALU_TEST1"}
  <2>1. o = BitOperation(op, aw, bw, f)  BY <1>20 DEF AluOutcome
  <2> HIDE DEF o
  <2> QED  BY <1>12, <1>20, <2>1 DEF o
<1>21. CASE op \in {"ALU_RVBIT", "ALU_RVBYT"}
  <2>1. \/ o = [result |-> ReverseBits(aw), flags |-> f]
        \/ o = [result |-> ReverseBytes(aw), flags |-> f]
    BY <1>21 DEF AluOutcome
  <2> HIDE DEF o
  <2> QED  BY <1>14, <2>1 DEF o
<1> QED
  BY <1>15, <1>16, <1>17, <1>18, <1>19, <1>20, <1>21 DEF AluOps, CountOps

\* The register written in the bytes of a size is a word.
LEMMA MergedWord ==
  ASSUME NEW i, NEW old \in Register, NEW r \in Register, NEW s \in Size
  PROVE  Merged(i, old, r, s) \in Register
<1> DEFINE M == Mod(s)
           W == Mod("SZ_WORD")
           q == old \div M
           k == r % M
           l == old % M
<1>1. PICK c \in Nat \ {0} : W = M * c  BY Vectors
<1>2. M \in Nat \ {0, 1} /\ W \in Nat \ {0, 1} /\ old \in Nat /\ r \in Nat /\ old < W
  <2>1. M \in Nat \ {0, 1} /\ W \in Nat \ {0, 1}  BY Vectors
  <2> QED  BY <2>1 DEF Register
<1> DEFINE P == M * q
<1> HIDE DEF M, W
<1>3. q \in Nat /\ l \in 0 .. M - 1 /\ old = P + l /\ k \in 0 .. M - 1
  BY <1>2, SMTT(20)
<1> HIDE DEF q, k, l
<1>4. P + M <= W
  <2>1. CASE q < c
    <3>1. q * M + M <= c * M /\ q * M = P /\ c * M = M * c  BY <1>2, <1>3, <2>1, Products
    <3> QED  BY <1>1, <3>1
  <2>2. CASE ~(q < c)
    <3>1. c * M <= q * M /\ q * M = P /\ c * M = M * c  BY <1>2, <1>3, <2>2, Products
    <3>2. W <= P  BY <1>1, <3>1
    <3>3. P \in Nat  BY <1>2, <1>3
    <3> HIDE DEF P
    <3> QED  BY <1>2, <1>3, <3>2, <3>3
  <2> QED  BY <2>1, <2>2
<1>5. (old - l) + k \in 0 .. W - 1
  <2>1. P \in Nat  BY <1>2, <1>3
  <2> HIDE DEF P
  <2> QED  BY <1>2, <1>3, <1>4, <2>1
<1>6. Merged(i, old, r, s) = IF i.sp THEN r ELSE (old - l) + k
  BY DEF Merged, Sized, l, k, M
<1> HIDE DEF l, k
<1> QED  BY <1>5, <1>6 DEF Register, W

-----------------------------------------------------------------------------
(* What the floating-point unit leaves is a word and four flags too.       *)

\* What is left of a number in a fraction, in an exponent, in an exponent with one more
\* bit, and in a word.
LEMMA FieldRange ==
  ASSUME NEW x \in Int
  PROVE  /\ x % Float!One \in 0 .. Float!One - 1
         /\ x % Float!ExpMod \in 0 .. Float!ExpMod - 1
         /\ x % (2 * Float!ExpMod) \in Nat
         /\ x % Float!WordMod \in Register
<1> DEFINE O == Float!One
           E == Float!ExpMod
           D == 2 * Float!ExpMod
<1>1. O \in Nat \ {0} /\ E \in Nat \ {0} /\ D \in Nat \ {0}  BY FloatSizes
<1> HIDE DEF O, E, D
<1>2. x % O \in 0 .. O - 1  BY <1>1, SMTT(20)
<1>3. x % E \in 0 .. E - 1  BY <1>1, SMTT(20)
<1>4. x % D \in Nat  BY <1>1, SMTT(20)
<1>5. x % Float!WordMod \in Register
  <2>1. "SZ_WORD" \in Size  BY DEF Size
  <2> QED  BY <2>1, ModRange, RegisterWord
<1> QED  BY <1>2, <1>3, <1>4, <1>5 DEF O, E, D

\* Zero and the infinities are words.
LEMMA Extremes ==
  /\ 0 \in Register
  /\ \A sign \in BOOLEAN : Float!Infinity(sign) \in Register
<1>1. 0 \in Register  BY RegisterWord, FloatSizes DEF Float!Word
<1>2. ASSUME NEW sign \in BOOLEAN
      PROVE  Float!Infinity(sign) \in Register
  <2>1. Float!ExpMod - 1 \in 0 .. Float!ExpMod - 1 /\ 0 \in 0 .. Float!One - 1  BY FloatSizes
  <2>2. Float!Pack(sign, Float!ExpMod - 1, 0) \in Register  BY <2>1, PackWord
  <2> QED  BY <2>2 DEF Float!Infinity
<1> QED  BY <1>1, <1>2

\* A sum normalized, whatever its exponent is.
LEMMA NormalizedWord ==
  ASSUME NEW sign \in BOOLEAN, NEW e \in Nat, NEW sum \in 1 .. 4 * Float!One - 1
  PROVE  Float!Normalized(sign, e, sum) \in Register
<1> DEFINE n == FRAC + 2 - Float!BitLength(sum)
           f == IF n = 0
                THEN (sum \div 2) + (IF sum % 2 = 1 /\ (sum \div 2) % 2 = 1 THEN 1 ELSE 0)
                ELSE (sum * Two[n - 1]) % Float!One
           x == IF n > 1 /\ n > e THEN 0 ELSE (e + 1 - n) % Float!ExpMod
           r == Float!Normalized(sign, e, sum)
<1>1. r = IF x = 0 THEN 0 ELSE Float!Pack(sign, x, f % Float!One)
  BY FloatTwo DEF Float!Normalized
<1>2. sum \in Nat  BY FloatSizes
<1>3. n \in Nat
  <2>1. Two[FRAC + 2] = 4 * Float!One
    <3>1. Two[FRAC + 1] = 2 * Two[FRAC] /\ Two[(FRAC + 1) + 1] = 2 * Two[FRAC + 1]
      BY FloatSizes, TwoIs
    <3>2. (FRAC + 1) + 1 = FRAC + 2  BY FloatSizes
    <3> QED  BY <3>1, <3>2, FloatSizes
  <2>2. sum \in Nat \ {0} /\ sum < Two[FRAC + 2]  BY <2>1, FloatSizes
  <2>3. FRAC + 2 \in Nat /\ FRAC + 2 <= 2 * FRAC + EXP + 4  BY FloatSizes
  <2>4. Float!BitLength(sum) \in 1 .. FRAC + 2  BY <2>2, <2>3, HighestBit
  <2> QED  BY <2>4, FloatSizes
<1> HIDE DEF n
<1>4. f \in Int
  <2>1. CASE n = 0
    BY <1>2, <2>1
  <2>2. CASE n # 0
    <3>1. n - 1 \in Nat  BY <1>3, <2>2
    <3>2. Two[n - 1] \in Nat  BY <3>1, TwoIs
    <3>3. sum * Two[n - 1] \in Int  BY <1>2, <3>2, Products
    <3> DEFINE p == sum * Two[n - 1]
    <3>4. f = p % Float!One  BY <2>2
    <3> HIDE DEF p, f
    <3>5. p % Float!One \in 0 .. Float!One - 1  BY <3>3, FieldRange DEF p
    <3> QED  BY <3>4, <3>5, FloatSizes
  <2> QED  BY <2>1, <2>2
<1>5. x \in 0 .. Float!ExpMod - 1
  <2>1. e + 1 - n \in Int  BY <1>3
  <2>2. (e + 1 - n) % Float!ExpMod \in 0 .. Float!ExpMod - 1  BY <2>1, FieldRange
  <2>3. 0 \in 0 .. Float!ExpMod - 1  BY FloatSizes
  <2> QED  BY <2>2, <2>3
<1> HIDE DEF f, x
<1>6. f % Float!One \in 0 .. Float!One - 1  BY <1>4, FieldRange
<1>7. Float!Pack(sign, x, f % Float!One) \in Register  BY <1>5, <1>6, PackWord
<1> QED  BY <1>1, <1>7, Extremes

\* Sums and differences.
LEMMA SumWord ==
  ASSUME NEW a \in Nat, NEW b \in Nat, NEW sub \in BOOLEAN
  PROVE  Float!AddSub(a, b, sub) \in Register
<1> DEFINE sign_a == Float!Sign(a) # sub
           swap   == Float!Swap(a, b)
           big    == IF swap THEN b ELSE a
           small  == IF swap THEN a ELSE b
           s      == Float!Aligned(Float!Significand(small),
                                   (Float!Exp(big) - Float!Exp(small)) % Float!ExpMod)
           sum    == (IF sign_a # Float!Sign(b) THEN Float!Significand(big) - s
                      ELSE Float!Significand(big) + s) % (4 * Float!One)
           sign   == IF swap THEN Float!Sign(b) ELSE sign_a
           r      == Float!AddSub(a, b, sub)
<1>1. r = IF sum = 0 \/ (Float!Magnitude(a) = 0 /\ Float!Magnitude(b) = 0) THEN 0
          ELSE Float!Normalized(sign, Float!Exp(big), sum)
  BY DEF Float!AddSub
<1>2. sign \in BOOLEAN /\ swap \in BOOLEAN
  <2>1. Float!Sign(a) \in BOOLEAN /\ Float!Sign(b) \in BOOLEAN  BY DEF Float!Sign
  <2>2. swap \in BOOLEAN  BY DEF Float!Swap
  <2>3. sign_a \in BOOLEAN  OBVIOUS
  <2> HIDE DEF swap, sign_a
  <2> QED  BY <2>1, <2>2, <2>3
<1> HIDE DEF sign, swap
<1>3. big \in Nat /\ small \in Nat  OBVIOUS
<1> HIDE DEF big, small
<1>4. /\ Float!Exp(big) \in Nat /\ Float!Exp(small) \in Nat
      /\ Float!Significand(big) \in Nat /\ Float!Significand(small) \in Nat
  <2>1. \A x \in Nat : Float!Exp(x) \in Nat /\ Float!Frac(x) \in Nat
    <3> SUFFICES ASSUME NEW x \in Nat
                 PROVE  Float!Exp(x) \in Nat /\ Float!Frac(x) \in Nat
      OBVIOUS
    <3>1. Float!Exp(x) \in 0 .. Float!ExpMod - 1 /\ Float!Frac(x) \in 0 .. Float!One - 1
      BY FloatFields
    <3> QED  BY <3>1, FloatSizes
  <2>2. \A x \in Nat : Float!Significand(x) \in Nat
    BY <2>1, FloatSizes DEF Float!Significand
  <2> QED  BY <1>3, <2>1, <2>2
<1>5. s \in Int
  <2> DEFINE x == Float!Significand(small)
             d == (Float!Exp(big) - Float!Exp(small)) % Float!ExpMod
  <2>1. d \in Nat
    <3>1. Float!Exp(big) - Float!Exp(small) \in Int  BY <1>4
    <3>2. d \in 0 .. Float!ExpMod - 1  BY <3>1, FieldRange
    <3> HIDE DEF d
    <3> QED  BY <3>2, FloatSizes
  <2>2. x \in Nat  BY <1>4
  <2> HIDE DEF x, d
  <2>3. Two[d] \in Nat \ {0}  BY <2>1, TwoIs
  <2>4. x \div Two[d] \in Int  BY <2>2, <2>3, Quotients
  <2>5. Float!Aligned(x, d) = 0 \/ Float!Aligned(x, d) = x \div Two[d]
    BY FloatTwo DEF Float!Aligned
  <2> QED  BY <2>4, <2>5 DEF x, d
<1> HIDE DEF s
<1>6. sum \in 0 .. 4 * Float!One - 1
  <2> DEFINE q == IF sign_a # Float!Sign(b) THEN Float!Significand(big) - s
                  ELSE Float!Significand(big) + s
             F == 4 * Float!One
  <2>1. F \in Nat \ {0}  BY FloatSizes
  <2>2. q \in Int  BY <1>4, <1>5
  <2> HIDE DEF q, F
  <2>3. q % F \in 0 .. F - 1  BY <2>1, <2>2, SMTT(20)
  <2> QED  BY <2>3 DEF q, F
<1> HIDE DEF sum, r
<1>7. CASE sum = 0 \/ (Float!Magnitude(a) = 0 /\ Float!Magnitude(b) = 0)
  BY <1>1, <1>7, Extremes DEF r
<1>8. CASE ~(sum = 0 \/ (Float!Magnitude(a) = 0 /\ Float!Magnitude(b) = 0))
  <2>1. sum \in 1 .. 4 * Float!One - 1  BY <1>6, <1>8, FloatSizes
  <2>2. Float!Normalized(sign, Float!Exp(big), sum) \in Register
    BY <1>2, <1>4, <2>1, NormalizedWord
  <2> QED  BY <1>1, <1>8, <2>2 DEF r
<1> QED  BY <1>7, <1>8

\* A result whose exponent is limited.
LEMMA LimitedWord ==
  ASSUME NEW sign \in BOOLEAN, NEW e \in Nat, NEW f \in 0 .. Float!One - 1
  PROVE  Float!Limited(sign, e, f) \in Register
<1>1. CASE e = 0 \/ e >= Float!ExpMod
  BY <1>1, Extremes DEF Float!Limited
<1>2. CASE ~(e = 0 \/ e >= Float!ExpMod)
  <2>1. e \in 0 .. Float!ExpMod - 1  BY <1>2, FloatSizes
  <2>2. Float!Pack(sign, e, f) \in Register  BY <2>1, PackWord
  <2>3. Float!Limited(sign, e, f) = Float!Infinity(sign)
        \/ Float!Limited(sign, e, f) = Float!Pack(sign, e, f)
    BY <1>2 DEF Float!Limited
  <2> QED  BY <2>2, <2>3, Extremes
<1> QED  BY <1>1, <1>2

\* Products and quotients.
LEMMA ProductWord ==
  ASSUME NEW a \in Nat, NEW b \in Nat
  PROVE  Float!Multiply(a, b) \in Register /\ Float!Divide(a, b) \in Register
<1> DEFINE sign == Float!Sign(a) # Float!Sign(b)
           A == Float!One + Float!Frac(a)
           B == Float!One + Float!Frac(b)
<1>1. sign \in BOOLEAN  OBVIOUS
<1>2. /\ A \in Nat \ {0} /\ B \in Nat
      /\ Float!Exp(a) \in Nat /\ Float!Exp(b) \in Nat /\ Float!Bias \in Nat
  <2>1. /\ Float!Exp(a) \in 0 .. Float!ExpMod - 1 /\ Float!Frac(a) \in 0 .. Float!One - 1
        /\ Float!Exp(b) \in 0 .. Float!ExpMod - 1 /\ Float!Frac(b) \in 0 .. Float!One - 1
    BY FloatFields
  <2> QED  BY <2>1, FloatSizes
<1>3. Float!Multiply(a, b) \in Register
  <2> DEFINE product == A * B
             drop == IF product >= 2 * Float!One * Float!One THEN FRAC + 1 ELSE FRAC
             f == (product \div Two[drop]) + (IF Float!RoundUp(product, drop) THEN 1 ELSE 0)
             x == Float!Exp(a) + Float!Exp(b) - Float!Bias + drop - FRAC
             l == Float!Limited(sign, x % (2 * Float!ExpMod), f % Float!One)
             r == Float!Multiply(a, b)
  <2>1. r = IF Float!Magnitude(a) = 0 \/ Float!Magnitude(b) = 0 THEN 0 ELSE l
    BY FloatTwo DEF Float!Multiply
  <2>2. product \in Nat  BY <1>2, Products
  <2>3. drop \in Nat  BY FloatSizes
  <2> HIDE DEF product, drop
  <2>4. f \in Int
    <3>1. Two[drop] \in Nat \ {0}  BY <2>3, TwoIs
    <3>2. product \div Two[drop] \in 0 .. product  BY <2>2, <3>1, Quotients
    <3>3. (IF Float!RoundUp(product, drop) THEN 1 ELSE 0) \in {0, 1}  OBVIOUS
    <3> DEFINE h == product \div Two[drop]
               c == IF Float!RoundUp(product, drop) THEN 1 ELSE 0
    <3> HIDE DEF h, c
    <3>4. h + c \in Int  BY <2>2, <3>2, <3>3 DEF h, c
    <3> QED  BY <3>4 DEF h, c
  <2>5. x \in Int  BY <1>2, <2>3, FloatSizes
  <2> HIDE DEF f, x
  <2>6. f % Float!One \in 0 .. Float!One - 1 /\ x % (2 * Float!ExpMod) \in Nat
    BY <2>4, <2>5, FieldRange
  <2>7. l \in Register  BY <1>1, <2>6, LimitedWord
  <2> HIDE DEF l, r
  <2> QED  BY <2>1, <2>7, Extremes DEF r
<1>4. Float!Divide(a, b) \in Register
  <2> DEFINE q == (B * 2 * Float!One) \div A
             e == (Float!Exp(b) - Float!Exp(a) + Float!Bias) % (2 * Float!ExpMod)
             whole == q >= 2 * Float!One
             up == q % 2 = 1 /\ (q \div 2) % 2 = 1
             f == (q \div 2) + (IF up THEN 1 ELSE 0)
             y == IF e > 0 THEN e - 1 ELSE e
             l == Float!Limited(sign, e, f % Float!One)
             m == Float!Limited(sign, y, q % Float!One)
             r == Float!Divide(a, b)
  <2>1. r = IF Float!Magnitude(b) = 0 THEN 0
            ELSE IF Float!Magnitude(a) = 0 THEN Float!Infinity(sign)
            ELSE IF whole THEN l ELSE m
    BY DEF Float!Divide
  <2>2. q \in Nat
    <3> DEFINE p == B * 2 * Float!One
    <3>1. Float!One \in Nat  BY FloatSizes
    <3>2. B * 2 \in Nat  BY <1>2
    <3>3. p \in Nat  BY <3>1, <3>2, Products
    <3> HIDE DEF p, A
    <3>4. p \div A \in 0 .. p  BY <1>2, <3>3, Quotients
    <3> QED  BY <3>3, <3>4 DEF p
  <2>3. e \in Nat
    <3> DEFINE x == Float!Exp(b) - Float!Exp(a) + Float!Bias
    <3>1. x \in Int  BY <1>2
    <3> HIDE DEF x
    <3>2. x % (2 * Float!ExpMod) \in Nat  BY <3>1, FieldRange
    <3> QED  BY <3>2 DEF x
  <2> HIDE DEF q, e
  <2>4. f \in Int /\ y \in Nat  BY <2>2, <2>3
  <2> HIDE DEF f, y
  <2>5. f % Float!One \in 0 .. Float!One - 1 /\ q % Float!One \in 0 .. Float!One - 1
    BY <2>2, <2>4, FieldRange
  <2>6. l \in Register /\ m \in Register  BY <1>1, <2>3, <2>4, <2>5, LimitedWord
  <2>7. 0 \in Register /\ Float!Infinity(sign) \in Register  BY <1>1, Extremes
  <2> HIDE DEF l, m, r, whole, sign
  <2> QED  BY <2>1, <2>6, <2>7 DEF r
<1> QED  BY <1>3, <1>4

\* The count of a scaling.
LEMMA CountInt ==
  ASSUME NEW a \in Nat
  PROVE  Float!ScaleCount(a) \in Int
<1> DEFINE w == Width["SZ_HALF"]
           c == a % Two[w]
           k == Float!ScaleCount(a)
<1>1. w \in Nat  BY SizeAssumption DEF Size
<1>2. k = IF c >= Two[w - 1] THEN c - Two[w] ELSE c  BY FloatTwo DEF Float!ScaleCount
<1> HIDE DEF k, w
<1>3. Two[w] \in Nat \ {0}  BY <1>1, TwoIs
<1>4. c \in 0 .. Two[w] - 1  BY <1>3, Quotients
<1> HIDE DEF c
<1>5. k \in Int  BY <1>2, <1>3, <1>4
<1> QED  BY <1>5 DEF k

\* A float scaled.
LEMMA ScaledWord ==
  ASSUME NEW a \in Nat, NEW b \in Nat
  PROVE  Float!Scale(a, b) \in Register
<1> DEFINE k == Float!ScaleCount(a)
           e == Float!Exp(b) + k
           r == Float!Scale(a, b)
<1>1. r = IF Float!Magnitude(b) = 0 \/ e <= 0 THEN 0
          ELSE IF e >= Float!ExpMod - 1 THEN Float!Infinity(Float!Sign(b))
          ELSE Float!Pack(Float!Sign(b), e, Float!Frac(b))
  BY DEF Float!Scale
<1>2. k \in Int  BY CountInt
<1>3. /\ Float!Exp(b) \in 0 .. Float!ExpMod - 1 /\ Float!Frac(b) \in 0 .. Float!One - 1
      /\ Float!Sign(b) \in BOOLEAN /\ Float!ExpMod \in Nat
  BY FloatFields, FloatSizes
<1>4. e \in Int
  <2> HIDE DEF k
  <2> QED  BY <1>2, <1>3
<1> HIDE DEF e, r
<1>5. Float!Infinity(Float!Sign(b)) \in Register /\ 0 \in Register  BY <1>3, Extremes
<1>6. CASE e <= 0 \/ e >= Float!ExpMod - 1
  BY <1>1, <1>5, <1>6 DEF r
<1>7. CASE ~(e <= 0 \/ e >= Float!ExpMod - 1)
  <2>1. e \in 0 .. Float!ExpMod - 1  BY <1>3, <1>4, <1>7
  <2>2. Float!Pack(Float!Sign(b), e, Float!Frac(b)) \in Register  BY <1>3, <2>1, PackWord
  <2> QED  BY <1>1, <1>5, <2>2 DEF r
<1> QED  BY <1>6, <1>7

\* A word as a float: the exponent of the largest word is still less than that of infinity.
LEMMA FromWordWord ==
  ASSUME NEW a \in Register
  PROVE  Float!FromWord(a) \in Register
<1> DEFINE x == IF Float!Sign(a) THEN Float!WordMod - a ELSE a
           N == EXP + FRAC + 1
           n == Float!BitLength(x)
           norm == x * Float!Two[EXP + FRAC + 1 - n]
           h == (norm \div Float!Two[EXP]) % Float!One
           f == h + (IF Float!RoundUp(norm, EXP) THEN 1 ELSE 0)
           e == Float!Bias + n - 1
           r == Float!FromWord(a)
<1>1. r = IF a = 0 THEN 0
          ELSE IF f = Float!One THEN Float!Pack(Float!Sign(a), e + 1, 0)
          ELSE Float!Pack(Float!Sign(a), e, f)
  BY Zenon DEF Float!FromWord
<1>2. a \in Nat /\ a < Float!WordMod  BY RegisterWord, FloatSizes DEF Float!Word
<1>3. Float!Sign(a) = (a >= Float!Top) /\ Float!Sign(a) \in BOOLEAN  BY DEF Float!Sign
<1> SUFFICES ASSUME a # 0
             PROVE  r \in Register
  BY <1>1, Extremes
<1>4. x \in Nat \ {0} /\ x <= Float!Top
  <2> DEFINE T == Float!Top
             W == Float!WordMod
  <2>1. T \in Nat \ {0} /\ W = 2 * T  BY FloatSizes
  <2>2. Float!Sign(a) = (a >= T)  BY <1>3
  <2>3. x = IF Float!Sign(a) THEN W - a ELSE a  OBVIOUS
  <2> HIDE DEF T, W, x
  <2>4. x \in Nat \ {0} /\ x <= T
    <3>0. a \in Nat \ {0} /\ a < W  BY <1>2 DEF W
    <3>1. CASE a >= T
      <4>1. x = W - a  BY <2>2, <2>3, <3>1, Zenon
      <4> QED  BY <2>1, <3>0, <3>1, <4>1
    <3>2. CASE ~(a >= T)
      <4>1. x = a  BY <2>2, <2>3, <3>2, Zenon
      <4> QED  BY <2>1, <3>0, <3>2, <4>1
    <3> QED  BY <3>1, <3>2
  <2> QED  BY <2>4 DEF T
<1>5. N \in Nat /\ N <= 2 * FRAC + EXP + 4 /\ Float!Top < Two[N]
  <2>1. EXP + FRAC \in Nat /\ (EXP + FRAC) + 1 = N  BY FloatSizes
  <2>2. Two[EXP + FRAC] = Float!Top  BY FloatTwo DEF Float!Top
  <2>3. Two[(EXP + FRAC) + 1] = 2 * Two[EXP + FRAC]  BY <2>1, TwoIs
  <2> QED  BY <2>1, <2>2, <2>3, FloatSizes
<1> HIDE DEF x
<1>6. n \in 1 .. N
  <2>1. x < Two[N]
    <3>1. Two[N] \in Nat  BY <1>5, TwoIs
    <3> HIDE DEF N
    <3> QED  BY <1>4, <1>5, <3>1, FloatSizes
  <2> QED  BY <1>4, <1>5, <2>1, HighestBit
<1> HIDE DEF n
<1>7. norm \in Nat
  <2>1. N - n \in Nat  BY <1>5, <1>6
  <2>2. Two[N - n] \in Nat  BY <2>1, TwoIs
  <2>3. EXP + FRAC + 1 - n = N - n  BY <1>6, FloatSizes
  <2>4. norm = x * Two[N - n]
    <3> HIDE DEF N
    <3> QED  BY <2>3, FloatTwo
  <2> QED  BY <1>4, <2>2, <2>4, Products
<1> HIDE DEF norm
<1>8. h \in 0 .. Float!One - 1
  <2>1. Two[EXP] \in Nat \ {0}  BY FloatSizes, TwoIs
  <2>2. norm \div Two[EXP] \in Int  BY <1>7, <2>1, Quotients
  <2> DEFINE p == norm \div Two[EXP]
  <2> HIDE DEF p
  <2>3. p % Float!One \in 0 .. Float!One - 1  BY <2>2, FieldRange DEF p
  <2>4. h = p % Float!One  BY FloatTwo DEF p
  <2> QED  BY <2>3, <2>4
<1> HIDE DEF h
<1>9. f \in 0 .. Float!One
  <2> DEFINE c == IF Float!RoundUp(norm, EXP) THEN 1 ELSE 0
  <2>1. c \in {0, 1}  OBVIOUS
  <2> HIDE DEF c
  <2>2. h + c \in 0 .. Float!One  BY <1>8, <2>1, FloatSizes
  <2> QED  BY <2>2 DEF c
<1>10. e \in 0 .. Float!ExpMod - 2  BY <1>6, FloatSizes
<1> HIDE DEF f, e, r
<1>11. CASE f = Float!One
  <2>1. e + 1 \in 0 .. Float!ExpMod - 1 /\ 0 \in 0 .. Float!One - 1  BY <1>10, FloatSizes
  <2>2. Float!Pack(Float!Sign(a), e + 1, 0) \in Register  BY <1>3, <2>1, PackWord
  <2> QED  BY <1>1, <1>11, <2>2
<1>12. CASE f # Float!One
  <2>1. e \in 0 .. Float!ExpMod - 1 /\ f \in 0 .. Float!One - 1  BY <1>9, <1>10, <1>12, FloatSizes
  <2>2. Float!Pack(Float!Sign(a), e, f) \in Register  BY <1>3, <2>1, PackWord
  <2> QED  BY <1>1, <1>12, <2>2
<1> QED  BY <1>11, <1>12

\* The whole part of a float is at most the weight of the sign.
LEMMA PartsWord ==
  ASSUME NEW a \in Nat
  PROVE  Float!Parts(a).int \in 0 .. Float!Top - 1
<1> DEFINE e     == Float!Exp(a) - Float!Bias
           x     == Float!One + Float!Frac(a)
           right == FRAC - e
           p     == Float!Parts(a)
           T     == Float!Top
<1>1. p.int = IF e < 0 THEN 0
              ELSE IF e >= EXP + FRAC THEN T - 1
              ELSE IF right <= 0 THEN x * Float!Two[-right]
              ELSE x \div Float!Two[right]
  BY DEF Float!Parts
<1>2. e \in Int /\ x \in Nat /\ x < 2 * Float!One /\ Float!One \in Nat /\ T \in Nat \ {0}
      /\ EXP \in Nat /\ EXP >= 2 /\ FRAC \in Nat
  <2>1. /\ Float!Exp(a) \in 0 .. Float!ExpMod - 1 /\ Float!Frac(a) \in 0 .. Float!One - 1
    BY FloatFields
  <2> QED  BY <2>1, FloatSizes
<1>3. T = (2 * Float!One) * Two[EXP - 1] /\ Two[EXP - 1] \in Nat \ {0}
  <2> DEFINE d == EXP - 1
  <2>1. d \in Nat /\ FRAC + 1 \in Nat /\ (FRAC + 1) + d = EXP + FRAC  BY <1>2
  <2> HIDE DEF d
  <2>2. Two[(FRAC + 1) + d] = Two[FRAC + 1] * Two[d]  BY <2>1, TwoSum
  <2>3. Two[FRAC + 1] = 2 * Two[FRAC] /\ Two[d] \in Nat \ {0}  BY <1>2, <2>1, TwoIs
  <2>4. T = Two[EXP + FRAC] /\ Float!One = Two[FRAC]  BY FloatTwo DEF Float!Top, Float!One
  <2> QED  BY <2>1, <2>2, <2>3, <2>4 DEF d
<1> HIDE DEF p, T, x, e
<1>4. CASE e < 0  BY <1>1, <1>2, <1>4 DEF T, p
<1>5. CASE e >= EXP + FRAC  BY <1>1, <1>2, <1>5 DEF T, p
<1>6. CASE ~(e < 0) /\ ~(e >= EXP + FRAC) /\ right <= 0
  <2> DEFINE j == -right
             D == Two[j]
             C == Two[EXP - 1]
             y == 2 * Float!One
  <2>1. j \in Nat /\ j <= EXP - 1 /\ EXP - 1 \in Nat  BY <1>2, <1>6
  <2> HIDE DEF j
  <2>2. D \in Nat \ {0} /\ C \in Nat \ {0} /\ D <= C
    <3> DEFINE m == EXP - 1
    <3> HIDE DEF m
    <3>1. j \in Nat /\ m \in Nat /\ j <= m  BY <2>1 DEF m
    <3>2. Two[j] \in Nat \ {0} /\ Two[m] \in Nat \ {0} /\ Two[j] <= Two[m]  BY <3>1, TwoGrows
    <3> QED  BY <3>2 DEF m
  <2>3. p.int = x * D  BY <1>1, <1>6, FloatTwo DEF j
  <2>4. x \in Nat /\ y \in Nat /\ x < y  BY <1>2
  <2>5. T = y * C  BY <1>3
  <2> HIDE DEF D, C, y
  <2>6. x * D \in Nat /\ x * D + D <= y * D  BY <2>2, <2>4, Products
  <2>7. D * y <= C * y /\ D * y = y * D /\ C * y = y * C  BY <2>2, <2>4, Products
  <2> DEFINE X == x * D
             Y == y * D
  <2>8. Y <= T /\ X \in Nat /\ X + D <= Y /\ Y \in Nat
    <3>1. Y \in Nat  BY <2>2, <2>4, Products
    <3> QED  BY <2>5, <2>6, <2>7, <3>1
  <2> HIDE DEF X, Y
  <2>9. X \in 0 .. T - 1  BY <1>2, <2>2, <2>8
  <2> QED  BY <2>3, <2>9 DEF X, T, p
<1>7. CASE ~(e < 0) /\ ~(e >= EXP + FRAC) /\ ~(right <= 0)
  <2>1. right \in Nat  BY <1>2, <1>7
  <2> HIDE DEF right
  <2>2. p.int = x \div Two[right]  BY <1>1, <1>7, FloatTwo
  <2>3. Two[right] \in Nat \ {0}  BY <2>1, TwoIs
  <2>4. x \div Two[right] \in 0 .. x  BY <1>2, <2>3, Quotients
  <2>5. 2 * Float!One <= T
    <3> DEFINE y == 2 * Float!One
               C == Two[EXP - 1]
    <3>1. y \in Nat /\ C \in Nat \ {0} /\ T = y * C  BY <1>2, <1>3
    <3> HIDE DEF y, C
    <3>2. 1 * y <= C * y /\ C * y = y * C /\ 1 * y = y  BY <3>1, Products
    <3> QED  BY <3>1, <3>2 DEF y
  <2> QED  BY <1>2, <2>2, <2>4, <2>5 DEF T, p
<1> QED  BY <1>4, <1>5, <1>6, <1>7

\* A float as a word.
LEMMA ToWordWord ==
  ASSUME NEW a \in Nat, NEW rounding
  PROVE  Float!ToWord(a, rounding) \in Register
<1> DEFINE p  == Float!Parts(a)
           up == CASE rounding = 0 -> p.round /\ (p.sticky \/ p.int % 2 = 1)
                   [] rounding = 1 -> Float!Sign(a) /\ (p.round \/ p.sticky)
                   [] rounding = 2 -> ~Float!Sign(a) /\ (p.round \/ p.sticky)
                   [] OTHER        -> FALSE
           c  == IF up THEN 1 ELSE 0
           r  == p.int + c
           T  == Float!Top
           w  == Float!ToWord(a, rounding)
<1>1. w = IF Float!Sign(a) THEN (-r) % Float!WordMod ELSE r  BY DEF Float!ToWord
<1>2. p.int \in 0 .. T - 1 /\ T \in Nat \ {0} /\ Float!WordMod = 2 * T
  BY PartsWord, FloatSizes
<1>3. c \in {0, 1}
  <2> HIDE DEF up
  <2> QED  OBVIOUS
<1> HIDE DEF c, p, T
<1>4. r \in 0 .. T  BY <1>2, <1>3
<1> HIDE DEF r
<1>5. r \in Register  BY <1>2, <1>4, RegisterWord DEF Float!Word
<1>6. -r \in Int  BY <1>2, <1>4
<1>7. (-r) % Float!WordMod \in Register  BY <1>6, FieldRange
<1> HIDE DEF w
<1> QED  BY <1>1, <1>5, <1>7 DEF w

\* Every operation of the unit leaves a word and four flags.
LEMMA FloatFits ==
  ASSUME NEW op \in FpOps, NEW a \in Register, NEW b \in Register
  PROVE  Fits(Float!FpuOutcome(op, a, b, 0))
<1> DEFINE o == Float!FpuOutcome(op, a, b, 0)
<1>1. a \in Nat /\ b \in Nat  BY RegisterWord, FloatSizes DEF Float!Word
<1>2. \A x : Float!Sign(x) \in BOOLEAN  BY DEF Float!Sign
<1>3. \A z, s, ov, cy \in BOOLEAN : Float!FpFlags(z, s, ov, cy) \in Flags
  BY DEF Float!FpFlags, Flags
<1>4. ASSUME NEW r \in Register
      PROVE  /\ Fits(Float!FpResult(r))
             /\ Float!FpResult(r).result = r /\ Float!FpResult(r).flags \in Flags
             /\ Float!FpResult(r) = [result |-> r, flags |-> Float!FpResult(r).flags]
  <2>1. (r = 0) \in BOOLEAN /\ Float!Sign(r) \in BOOLEAN /\ FALSE \in BOOLEAN  BY <1>2
  <2>2. Float!FpFlags(r = 0, Float!Sign(r), FALSE, FALSE) \in Flags  BY <1>3, <2>1
  <2> QED  BY <2>2 DEF Float!FpResult, Fits
<1>5. /\ Float!AddSub(a, b, TRUE) \in Register /\ Float!AddSub(a, b, FALSE) \in Register
      /\ Float!Multiply(a, b) \in Register /\ Float!Divide(a, b) \in Register
      /\ Float!Scale(a, b) \in Register /\ Float!FromWord(a) \in Register
      /\ Float!ToWord(a, 0) \in Register
  <2>1. TRUE \in BOOLEAN /\ FALSE \in BOOLEAN  OBVIOUS
  <2> QED  BY <1>1, <2>1, SumWord, ProductWord, ScaledWord, FromWordWord, ToWordWord
<1>6. CASE op \in {"FP_ADDF", "FP_SUBF", "FP_MULF", "FP_DIVF", "FP_SCLF"}
  <2>1. \E r \in Register : o = Float!FpResult(r)  BY <1>5, <1>6 DEF Float!FpuOutcome
  <2> HIDE DEF o
  <2> QED  BY <1>4, <2>1 DEF o
<1>7. CASE op = "FP_CMPF"
  <2> DEFINE r == Float!AddSub(a, b, TRUE)
  <2>1. o = [Float!FpResult(r) EXCEPT !.result = 0]  BY <1>7 DEF Float!FpuOutcome
  <2>2. r \in Register  BY <1>5
  <2> HIDE DEF r, o
  <2>3. o.result = 0 /\ o.flags = Float!FpResult(r).flags  BY <1>4, <2>1, <2>2
  <2> QED  BY <1>4, <2>2, <2>3, Extremes DEF Fits, o
<1>8. CASE op = "FP_MOVF"
  <2>1. o = [result |-> a, flags |-> Float!FpFlags(FALSE, FALSE, FALSE, FALSE)]
    BY <1>8 DEF Float!FpuOutcome
  <2>2. Float!FpFlags(FALSE, FALSE, FALSE, FALSE) \in Flags  BY <1>3
  <2> DEFINE f == Float!FpFlags(FALSE, FALSE, FALSE, FALSE)
  <2> HIDE DEF f, o
  <2>3. o.result = a /\ o.flags = f /\ f \in Flags  BY <2>1, <2>2 DEF f
  <2> QED  BY <2>3 DEF Fits, o
<1>9. CASE op = "FP_NEGF"
  <2> DEFINE f == Float!FpFlags(Float!Magnitude(a) = 0, ~Float!Sign(a), FALSE, ~Float!Sign(a))
  <2>1. o = [result |-> (a + Float!Top) % Float!WordMod, flags |-> f]
    BY <1>9 DEF Float!FpuOutcome
  <2>2. (a + Float!Top) % Float!WordMod \in Register
    <3>1. a + Float!Top \in Int  BY <1>1, FloatSizes
    <3> QED  BY <3>1, FieldRange
  <2>3. f \in Flags
    <3>1. (Float!Magnitude(a) = 0) \in BOOLEAN /\ (~Float!Sign(a)) \in BOOLEAN  BY <1>2
    <3> QED  BY <1>3, <3>1
  <2> HIDE DEF f, o
  <2> QED  BY <2>1, <2>2, <2>3 DEF Fits, o
<1>10. CASE op = "FP_ABSF"
  <2> DEFINE f == Float!FpFlags(Float!Magnitude(a) = 0, FALSE, FALSE, FALSE)
  <2>1. o = [result |-> Float!Magnitude(a), flags |-> f]  BY <1>10 DEF Float!FpuOutcome
  <2>2. Float!Magnitude(a) \in Register
    <3>1. Float!Magnitude(a) \in 0 .. Float!Top - 1  BY <1>1, FloatFields
    <3> QED  BY <3>1, RegisterWord, FloatSizes DEF Float!Word
  <2>3. f \in Flags
    <3>1. (Float!Magnitude(a) = 0) \in BOOLEAN  OBVIOUS
    <3> QED  BY <1>3, <3>1
  <2> HIDE DEF f, o
  <2> QED  BY <2>1, <2>2, <2>3 DEF Fits, o
<1>11. CASE op = "FP_CVTWS"
  <2> DEFINE q == Float!FpResult(Float!FromWord(a))
  <2>1. o = [q EXCEPT !.flags.cy = q.flags.s]  BY <1>11 DEF Float!FpuOutcome
  <2>2. q.result \in Register /\ q.flags \in Flags /\ q = [result |-> q.result, flags |-> q.flags]
    BY <1>4, <1>5
  <2> HIDE DEF q, o
  <2>3. o = [result |-> q.result, flags |-> [q.flags EXCEPT !.cy = q.flags.s]]
    BY <2>1, <2>2
  <2>4. [q.flags EXCEPT !.cy = q.flags.s] \in Flags  BY <2>2 DEF Flags
  <2> QED  BY <2>2, <2>3, <2>4 DEF Fits, o
<1>12. CASE op = "FP_CVTSW"
  <2> DEFINE q == Float!FpResult(Float!ToWord(a, 0))
             v == (q.flags.s /\ ~Float!Sign(a)) \/ (~q.flags.s /\ Float!Sign(a) /\ ~q.flags.z)
  <2>1. o = [q EXCEPT !.flags.ov = v]  BY <1>12 DEF Float!FpuOutcome
  <2>2. q.result \in Register /\ q.flags \in Flags /\ q = [result |-> q.result, flags |-> q.flags]
    BY <1>4, <1>5
  <2>3. v \in BOOLEAN  OBVIOUS
  <2> HIDE DEF q, o, v
  <2>4. o = [result |-> q.result, flags |-> [q.flags EXCEPT !.ov = v]]
    BY <2>1, <2>2
  <2>5. [q.flags EXCEPT !.ov = v] \in Flags  BY <2>2, <2>3 DEF Flags
  <2> QED  BY <2>2, <2>4, <2>5 DEF Fits, o
<1> QED  BY <1>6, <1>7, <1>8, <1>9, <1>10, <1>11, <1>12 DEF FpOps

-----------------------------------------------------------------------------
(* Everything stays of its type.                                           *)

\* What an instruction leaves in its register and in the flags, and what it puts aside.
Leaves(i, old) ==
  /\ state' = "ST_DECODE" /\ inst' = i /\ taken' = FALSE
  /\ before' = [reg |-> old, flags |-> flags]
  /\ reg' \in Register /\ flags' \in Flags

\* Operands of the instructions, with the destination of those that are not of the
\* floating-point unit.
LEMMA SizedDestination ==
  ASSUME NEW i \in Instructions \cup Follow, NEW old \in Contents[i.dst]
  PROVE  /\ i.size \in Size /\ i.src \in Register /\ i.src \in Nat
         /\ old \in Register /\ old \in Nat
         /\ i.op \notin FpOps => i.dst \in Size
         /\ "SZ_BYTE" \in Size /\ "SZ_HALF" \in Size /\ "SZ_WORD" \in Size
<1>1. /\ i.size \in Size /\ i.dst \in Destination /\ i.src \in Register
      /\ i.dst = "FLOAT" => i.op \in FpOps
  BY ProgramAssumption
<1>2. old \in Register  BY FloatOperands
<1>3. Register \subseteq Nat  BY DEF Register
<1> QED  BY <1>1, <1>2, <1>3 DEF Destination, Size

\* One less than the values a vector has is the greatest of them.
LEMMA Ones ==
  ASSUME NEW s \in Size
  PROVE  Mod(s) - 1 \in Register /\ 0 \in Register /\ 1 \in Register
<1>1. Mod(s) \in Nat \ {0, 1}  BY Vectors
<1>2. Mod(s) - 1 \in 0 .. Mod(s) - 1 /\ 0 \in 0 .. Mod(s) - 1 /\ 1 \in 0 .. Mod(s) - 1
  BY <1>1
<1> QED  BY <1>2, VectorWord

\* The instructions of the arithmetic unit.
LEMMA AluLeaves ==
  ASSUME NEW i \in Instructions \cup Follow, NEW old \in Contents[i.dst], flags \in Flags,
         NEW u \in BOOLEAN, ExecuteAlu(i, old, u)
  PROVE  Leaves(i, old)
<1> DEFINE o == AluOutcome(i.op, i.size, i.src, old, flags, u)
           m == Merged(i, old, o.result, i.size)
<1>1. /\ i.op \in AluOps
      /\ Done(i, old, IF WritesResult(i) THEN m ELSE old,
              IF WritesFlags(i) THEN o.flags ELSE flags)
  BY DEF ExecuteAlu
<1>2. i.size \in Size /\ i.src \in Register /\ old \in Register  BY SizedDestination
<1>3. Fits(o)
  <2> DEFINE op == i.op
             s == i.size
             a == i.src
             f == flags
  <2>1. op \in AluOps \cup CountOps /\ s \in Size /\ a \in Register /\ f \in Flags
    BY <1>1, <1>2
  <2> HIDE DEF op, s, a, f
  <2>2. Fits(AluOutcome(op, s, a, old, f, u))  BY <1>2, <2>1, AluFits
  <2> QED  BY <2>2 DEF op, s, a, f
<1> HIDE DEF o
<1>4. m \in Register  BY <1>2, <1>3, MergedWord DEF Fits
<1> HIDE DEF m
<1>5. (IF WritesResult(i) THEN m ELSE old) \in Register  BY <1>2, <1>4
<1>6. (IF WritesFlags(i) THEN o.flags ELSE flags) \in Flags  BY <1>3 DEF Fits
<1> QED  BY <1>1, <1>5, <1>6 DEF Done, Leaves

\* Those of Format III, and TASI.
LEMMA CountLeaves ==
  ASSUME NEW i \in Instructions \cup Follow, NEW old \in Contents[i.dst], flags \in Flags,
         Count1(i, old) \/ TestAndSet(i, old)
  PROVE  Leaves(i, old)
<1>1. i.size \in Size /\ old \in Register /\ old \in Nat /\ "SZ_BYTE" \in Size
  BY SizedDestination
<1>2. CASE Count1(i, old)
  <2> DEFINE o == AluOutcome(i.op, i.size, old, 0, flags, FALSE)
             m == Merged(i, old, o.result, i.size)
  <2>1. i.op \in CountOps /\ Done(i, old, m, o.flags)  BY <1>2 DEF Count1
  <2>2. Fits(o)
    <3> DEFINE op == i.op
               s == i.size
               f == flags
               z == 0
               no == FALSE
    <3>1. op \in AluOps \cup CountOps /\ s \in Size /\ f \in Flags /\ z \in Register
          /\ no \in BOOLEAN
      BY <1>1, <2>1, Ones
    <3> HIDE DEF op, s, f, z, no
    <3>2. Fits(AluOutcome(op, s, old, z, f, no))  BY <1>1, <3>1, AluFits
    <3> QED  BY <3>2 DEF op, s, f, z, no
  <2> HIDE DEF o
  <2>3. m \in Register  BY <1>1, <2>2, MergedWord DEF Fits
  <2> HIDE DEF m
  <2> QED  BY <2>1, <2>2, <2>3 DEF Done, Leaves, Fits
<1>3. CASE TestAndSet(i, old)
  <2> DEFINE ones == Mod("SZ_BYTE") - 1
             low  == Sized(old, "SZ_BYTE")
             o    == AluOutcome("ALU_SUB", "SZ_BYTE", ones, low, flags, FALSE)
             m    == Merged(i, old, ones, "SZ_BYTE")
  <2>1. Done(i, old, m, o.flags)  BY <1>3 DEF TestAndSet
  <2>2. ones \in Register /\ low \in Register
    <3>1. low \in 0 .. Mod("SZ_BYTE") - 1  BY <1>1, SizedRange
    <3> HIDE DEF low
    <3> QED  BY <1>1, <3>1, Ones, VectorWord
  <2> HIDE DEF ones, low
  <2>3. Fits(o)
    <3> DEFINE op == "ALU_SUB"
               s == "SZ_BYTE"
               f == flags
               no == FALSE
    <3>1. op \in AluOps \cup CountOps /\ s \in Size /\ f \in Flags /\ no \in BOOLEAN
      BY <1>1 DEF AluOps
    <3> HIDE DEF op, s, f, no
    <3>2. Fits(AluOutcome(op, s, ones, low, f, no))  BY <2>2, <3>1, AluFits
    <3> QED  BY <3>2 DEF op, s, f, no
  <2> HIDE DEF o
  <2>4. m \in Register  BY <1>1, <2>2, MergedWord
  <2> HIDE DEF m
  <2> QED  BY <2>1, <2>3, <2>4 DEF Done, Leaves, Fits
<1> QED  BY <1>2, <1>3

\* The moves between sizes.
LEMMA MoveLeaves ==
  ASSUME NEW i \in Instructions \cup Follow, NEW old \in Contents[i.dst], flags \in Flags,
         CrossMove(i, old) \/ Truncate(i, old)
  PROVE  Leaves(i, old)
<1>1. i.src \in Nat /\ old \in Register
      /\ "SZ_BYTE" \in Size /\ "SZ_HALF" \in Size
  BY SizedDestination
<1>2. i.op \notin FpOps  BY OtherOps DEF CrossMove, Truncate
<1>3. i.dst \in Size  BY <1>2, SizedDestination
<1>4. CASE CrossMove(i, old)
  <2> DEFINE s == IF i.op \in {"SYS_MOVSB", "SYS_MOVZB"} THEN "SZ_BYTE" ELSE "SZ_HALF"
             a == Sized(i.src, s)
             r == IF i.op \in {"SYS_MOVSB", "SYS_MOVSH"} THEN Sext(a, s) ELSE a
             m == Merged(i, old, r, i.dst)
  <2>1. Done(i, old, m, flags)  BY <1>4 DEF CrossMove
  <2>2. s \in Size  BY <1>1
  <2> HIDE DEF s
  <2>3. a \in 0 .. Mod(s) - 1  BY <1>1, <2>2, SizedRange
  <2> HIDE DEF a
  <2>4. a \in Register /\ Sext(a, s) \in Register  BY <2>2, <2>3, VectorWord, Extended
  <2>5. r \in Register  BY <2>4
  <2> HIDE DEF r
  <2>6. m \in Register  BY <1>1, <1>3, <2>5, MergedWord
  <2> HIDE DEF m
  <2> QED  BY <2>1, <2>6 DEF Done, Leaves
<1>5. CASE Truncate(i, old)
  <2> DEFINE r    == Sized(i.src, i.dst)
             from == IF i.dst = "SZ_BYTE" /\ i.size = "SZ_HALF" THEN "SZ_HALF" ELSE "SZ_WORD"
             cut  == (i.src \div Mod(i.dst)) % (Mod(from) \div Mod(i.dst))
             ones == (Mod(from) \div Mod(i.dst)) - 1
             ov   == cut # (IF Msb(r, i.dst) THEN ones ELSE 0)
             m    == Merged(i, old, r, i.dst)
  <2>1. Done(i, old, m, [flags EXCEPT !.ov = ov])  BY <1>5 DEF Truncate
  <2>2. ov \in BOOLEAN  OBVIOUS
  <2>3. r \in 0 .. Mod(i.dst) - 1  BY <1>1, <1>3, SizedRange
  <2> HIDE DEF r, ov
  <2>4. r \in Register  BY <1>3, <2>3, VectorWord
  <2>5. m \in Register  BY <1>1, <1>3, <2>4, MergedWord
  <2>6. [flags EXCEPT !.ov = ov] \in Flags  BY <2>2 DEF Flags
  <2> HIDE DEF m
  <2> QED  BY <2>1, <2>5, <2>6 DEF Done, Leaves
<1> QED  BY <1>4, <1>5

\* A condition is met or not.
LEMMA ConditionMet ==
  ASSUME NEW f \in Flags, NEW n \in DOMAIN Conditions
  PROVE  CondMet(f, Conditions[n]) \in BOOLEAN
<1>1. f.z \in BOOLEAN /\ f.s \in BOOLEAN /\ f.ov \in BOOLEAN /\ f.cy \in BOOLEAN  BY Booleans
<1>2. Conditions[n] \in {"CC_BV", "CC_BNV", "CC_BL", "CC_BNL", "CC_BE", "CC_BNE", "CC_BNH",
                         "CC_BH", "CC_BN", "CC_BP", "CC_BR", "CC_NOP", "CC_BLT", "CC_BGE",
                         "CC_BLE", "CC_BGT"}
  BY DEF Conditions
<1> QED  BY <1>1, <1>2 DEF CondMet

\* SETF, UPDPSW and the instructions of the floating-point unit.
LEMMA OthersLeave ==
  ASSUME NEW i \in Instructions \cup Follow, NEW old \in Contents[i.dst], flags \in Flags,
         SetFlag(i, old) \/ UpdatePsw(i, old) \/ ExecuteFloat(i, old)
  PROVE  Leaves(i, old)
<1>1. i.src \in Register /\ i.src \in Nat /\ old \in Register /\ "SZ_WORD" \in Size
  BY SizedDestination
<1>2. CASE SetFlag(i, old)
  <2> DEFINE r == IF CondMet(flags, Conditions[(i.src % 16) + 1]) THEN 1 ELSE 0
             m == Merged(i, old, r, i.dst)
  <2>1. i.op = "SYS_SETF" /\ Done(i, old, m, flags)  BY <1>2 DEF SetFlag
  <2>2. i.dst \in Size
    <3>1. i.op \notin FpOps  BY <2>1, OtherOps
    <3> QED  BY <3>1, SizedDestination
  <2>3. r \in Register
    <3>1. r \in {0, 1}  OBVIOUS
    <3> HIDE DEF r
    <3> QED  BY <1>1, <3>1, Ones
  <2> HIDE DEF r
  <2>4. m \in Register  BY <1>1, <2>2, <2>3, MergedWord
  <2> HIDE DEF m
  <2> QED  BY <2>1, <2>4 DEF Done, Leaves
<1>3. CASE UpdatePsw(i, old)
  <2> DEFINE f == [z  |-> IF Bit(old, 0) THEN Bit(i.src, 0) ELSE flags.z,
                   s  |-> IF Bit(old, 1) THEN Bit(i.src, 1) ELSE flags.s,
                   ov |-> IF Bit(old, 2) THEN Bit(i.src, 2) ELSE flags.ov,
                   cy |-> IF Bit(old, 3) THEN Bit(i.src, 3) ELSE flags.cy]
  <2>1. Done(i, old, old, f)  BY <1>3 DEF UpdatePsw
  <2>2. f \in Flags
    <3>1. \A x, n : Bit(x, n) \in BOOLEAN  BY DEF Bit
    <3> QED  BY <3>1 DEF Flags
  <2> HIDE DEF f
  <2> QED  BY <1>1, <2>1, <2>2 DEF Done, Leaves
<1>4. CASE ExecuteFloat(i, old)
  <2> DEFINE o == Float!FpuOutcome(i.op, i.src, old, 0)
             r == IF i.op = "FP_CMPF" THEN old ELSE o.result
             f == IF i.op = "FP_MOVF" THEN flags ELSE o.flags
  <2>1. i.op \in FpOps /\ Done(i, old, r, f)  BY <1>4 DEF ExecuteFloat
  <2>2. Fits(o)
    <3> DEFINE op == i.op
               a == i.src
    <3>1. op \in FpOps /\ a \in Register  BY <1>1, <2>1
    <3> HIDE DEF op, a
    <3>2. Fits(Float!FpuOutcome(op, a, old, 0))  BY <1>1, <3>1, FloatFits
    <3> QED  BY <3>2 DEF op, a
  <2> HIDE DEF o
  <2>3. r \in Register /\ f \in Flags  BY <1>1, <2>2 DEF Fits
  <2> HIDE DEF r, f
  <2> QED  BY <2>1, <2>3 DEF Done, Leaves
<1> QED  BY <1>2, <1>3, <1>4

\* For every width of the operands and every format of floats a program leaves words in its
\* register and four flags in PSW[3:0], whichever of the operations of v60_alu.sv and
\* v60_fpu.sv it runs, and nothing of an instruction that is over.
THEOREM TypeCorrect == Spec => []TypeOK
<1>1. Init => TypeOK
  <2> SUFFICES ASSUME Init
               PROVE  TypeOK
    OBVIOUS
  <2>1. 0 \in Register  BY Extremes
  <2>2. NoBefore.flags \in Flags /\ NoBefore.reg = 0  BY DEF NoBefore, Flags
  <2> QED  BY <2>1, <2>2 DEF Init, TypeOK
<1>2. TypeOK /\ [Next]_vars => TypeOK'
  <2> SUFFICES ASSUME TypeOK, [Next]_vars
               PROVE  TypeOK'
    OBVIOUS
  <2>1. 0 \in Register /\ flags \in Flags  BY Extremes DEF TypeOK
  <2>2. ASSUME NEW i \in Instructions \cup Follow, NEW old \in Contents[i.dst], Execute(i, old)
        PROVE  TypeOK'
    <3>1. Leaves(i, old)
      <4>1. ASSUME NEW u \in IF i.op = "ALU_SHA" THEN BOOLEAN ELSE {FALSE}, ExecuteAlu(i, old, u)
            PROVE  Leaves(i, old)
        <5>1. u \in BOOLEAN  OBVIOUS
        <5> QED  BY <2>1, <4>1, <5>1, AluLeaves
      <4>2. CASE Count1(i, old) \/ TestAndSet(i, old)  BY <2>1, <4>2, CountLeaves
      <4>3. CASE CrossMove(i, old) \/ Truncate(i, old)  BY <2>1, <4>3, MoveLeaves
      <4>4. CASE SetFlag(i, old) \/ UpdatePsw(i, old) \/ ExecuteFloat(i, old)
        BY <2>1, <4>4, OthersLeave
      <4> QED  BY <2>2, <4>1, <4>2, <4>3, <4>4 DEF Execute
    <3>2. old \in Register  BY FloatOperands
    <3> QED  BY <2>1, <3>1, <3>2 DEF Leaves, TypeOK
  <2>3. ASSUME NEW n \in DOMAIN Conditions, Branch(Conditions[n])
        PROVE  TypeOK'
    <3>1. CondMet(flags, Conditions[n]) \in BOOLEAN
      <4> DEFINE f == flags
      <4>1. f \in Flags  BY <2>1
      <4> HIDE DEF f
      <4>2. CondMet(f, Conditions[n]) \in BOOLEAN  BY <4>1, ConditionMet
      <4> QED  BY <4>2 DEF f
    <3>2. [op |-> "BRANCH", cond |-> Conditions[n]] \in Branches  BY DEF Branches
    <3> QED  BY <2>1, <2>3, <3>1, <3>2 DEF Branch, TypeOK
  <2>4. CASE Retire
    <3>1. NoBefore.flags \in Flags /\ NoBefore.reg = 0  BY DEF NoBefore, Flags
    <3> QED  BY <2>1, <2>4, <3>1 DEF Retire, TypeOK
  <2>5. CASE Forget
    BY <2>5 DEF Forget, TypeOK
  <2>6. CASE UNCHANGED vars
    BY <2>6 DEF vars, TypeOK
  <2> QED  BY <2>2, <2>3, <2>4, <2>5, <2>6 DEF Next
<1> QED  BY <1>1, <1>2, PTL DEF Spec

-----------------------------------------------------------------------------
(* Floats that are whole numbers.                                          *)

\* A number of L bits, L of those of a significand, and the number with its highest bit where
\* a significand has it.
Long(m, L) == L \in 1 .. FRAC + 1 /\ Two[L - 1] <= m /\ m < Two[L]
Spread(m, L) == m * Two[(FRAC + 1) - L]

\* Quotient and remainder.
LEMMA Division ==
  ASSUME NEW a \in Nat, NEW O \in Nat \ {0}
  PROVE  a \div O \in Nat /\ a % O \in 0 .. O - 1 /\ a = O * (a \div O) + (a % O)
<1> DEFINE p == a \div O
           f == a % O
<1>1. p \in Nat /\ f \in 0 .. O - 1 /\ a = O * p + f  BY SMTT(20)
<1> QED  BY <1>1

\* What is multiplied by the same number is in the same order.
LEMMA Cancel ==
  ASSUME NEW x \in Nat, NEW y \in Nat, NEW w \in Nat \ {0}
  PROVE  /\ x * w = y * w => x = y
         /\ x * w < y * w => x < y
<1>1. x * w \in Nat /\ y * w \in Nat  BY Products
<1>2. x < y => x * w + w <= y * w  BY Products
<1>3. y < x => y * w + w <= x * w  BY Products
<1>4. y <= x => y * w <= x * w  BY Products
<1> DEFINE X == x * w
           Y == y * w
<1> HIDE DEF X, Y
<1>5. X \in Nat /\ Y \in Nat /\ (x < y => X + w <= Y) /\ (y < x => Y + w <= X)
      /\ (y <= x => Y <= X)
  BY <1>1, <1>2, <1>3, <1>4 DEF X, Y
<1>6. (X = Y => x = y) /\ (X < Y => x < y)  BY <1>5
<1> QED  BY <1>6 DEF X, Y

\* A number is put together from its quotient and its remainder in one way.
LEMMA DivideOnce ==
  ASSUME NEW O \in Nat \ {0}, NEW q \in Nat, NEW f \in 0 .. O - 1
  PROVE  /\ O * q + f \in Nat
         /\ (O * q + f) \div O = q /\ (O * q + f) % O = f
<1> DEFINE p == O * q
           x == p + f
           d == x \div O
           r == x % O
           g == O * d
<1>1. p \in Nat /\ O * q = q * O
  <2>1. q * O \in Nat  BY Products
  <2>2. O * q = q * O  BY SMTT(20)
  <2> QED  BY <2>1, <2>2
<1> HIDE DEF p
<1>2. x \in Nat  BY <1>1
<1> HIDE DEF x
<1>3. d \in Nat /\ r \in 0 .. O - 1 /\ x = g + r  BY <1>2, SMTT(20)
<1> HIDE DEF d, r
<1>4. g \in Nat /\ g = d * O
  <2>1. d * O \in Nat  BY <1>3, Products
  <2>2. O * d = d * O  BY <1>3, SMTT(20)
  <2> QED  BY <2>1, <2>2
<1>5. d < q => g + O <= p
  <2>1. d < q => d * O + O <= q * O  BY <1>3, Products
  <2> QED  BY <1>1, <1>4, <2>1 DEF p
<1>6. q < d => p + O <= g
  <2>1. q < d => q * O + O <= d * O  BY <1>3, Products
  <2> QED  BY <1>1, <1>4, <2>1 DEF p
<1> HIDE DEF g
<1>7. d = q  BY <1>1, <1>3, <1>4, <1>5, <1>6 DEF x
<1>8. g = p  BY <1>7 DEF g, p
<1>9. r = f  BY <1>1, <1>3, <1>8 DEF x
<1> QED  BY <1>2, <1>7, <1>9 DEF x, p, d, r

\* Multiples, and what they leave.
LEMMA Multiple ==
  ASSUME NEW x \in Nat, NEW w \in Nat \ {0}
  PROVE  /\ x * w \in Nat
         /\ (x * w) \div w = x /\ (x * w) % w = 0
<1>1. 0 \in 0 .. w - 1 /\ w * x = x * w /\ x * w \in Nat  BY Products, SMTT(20)
<1>2. (w * x + 0) \div w = x /\ (w * x + 0) % w = 0  BY <1>1, DivideOnce
<1>3. w * x + 0 = x * w  BY <1>1
<1> QED  BY <1>1, <1>2, <1>3

\* A product with a power of two is so many bits longer.
LEMMA Longer ==
  ASSUME NEW m \in Nat, NEW L \in Nat \ {0}, NEW k \in Nat, Two[L - 1] <= m, m < Two[L]
  PROVE  /\ m * Two[k] \in Nat \ {0}
         /\ Two[(L + k) - 1] <= m * Two[k] /\ m * Two[k] < Two[L + k]
<1>1. L - 1 \in Nat /\ (L - 1) + k = (L + k) - 1  OBVIOUS
<1>2. Two[L - 1] \in Nat \ {0} /\ Two[L] \in Nat \ {0} /\ Two[k] \in Nat \ {0}
  BY <1>1, TwoIs
<1>3. Two[L + k] = Two[L] * Two[k] /\ Two[(L - 1) + k] = Two[L - 1] * Two[k]
  BY <1>1, TwoSum
<1> DEFINE A == Two[L - 1]
           B == Two[L]
           K == Two[k]
<1> HIDE DEF A, B, K
<1>4. A \in Nat \ {0} /\ B \in Nat \ {0} /\ K \in Nat \ {0} /\ A <= m /\ m < B
  BY <1>2 DEF A, B, K
<1>5. A * K \in Nat /\ m * K \in Nat /\ B * K \in Nat /\ A * K <= m * K /\ m * K + K <= B * K
  BY <1>4, Products
<1>6. 1 * K <= A * K  BY <1>4, Products
<1> DEFINE X == m * K
           Y == A * K
           Z == B * K
<1> HIDE DEF X, Y, Z
<1>7. X \in Nat /\ Y \in Nat /\ Z \in Nat /\ Y <= X /\ X + K <= Z /\ K <= Y
  BY <1>4, <1>5, <1>6 DEF X, Y, Z
<1>8. X \in Nat \ {0} /\ Y <= X /\ X < Z  BY <1>4, <1>7
<1> QED  BY <1>1, <1>3, <1>8 DEF X, Y, Z, A, B, K

\* A number has one length.
LEMMA LengthOnce ==
  ASSUME NEW m \in Nat, NEW j \in Nat \ {0}, NEW k \in Nat \ {0},
         Two[j - 1] <= m, m < Two[j], Two[k - 1] <= m, m < Two[k]
  PROVE  j = k
<1>1. j - 1 \in Nat /\ k - 1 \in Nat  OBVIOUS
<1>2. /\ Two[j] \in Nat /\ Two[k] \in Nat /\ Two[j - 1] \in Nat /\ Two[k - 1] \in Nat
  BY <1>1, TwoIs
<1>3. j <= k - 1 => Two[j] <= Two[k - 1]  BY <1>1, TwoGrows
<1>4. k <= j - 1 => Two[k] <= Two[j - 1]  BY <1>1, TwoGrows
<1> QED  BY <1>1, <1>2, <1>3, <1>4

\* Every number but zero that a significand can hold has a length.
LEMMA LongExists ==
  ASSUME NEW m \in Nat \ {0}, m < 2 * Float!One
  PROVE  \E L : Long(m, L)
<1>1. FRAC + 1 \in Nat /\ Two[FRAC + 1] = 2 * Float!One  BY FloatSizes, TwoIs
<1>2. \E L \in 1 .. FRAC + 1 : Two[L - 1] <= m /\ m < Two[L]
  <2> DEFINE N == FRAC + 1
  <2>1. N \in Nat /\ m < Two[N]  BY <1>1
  <2> HIDE DEF N
  <2>2. \E L \in 1 .. N : Two[L - 1] <= m /\ m < Two[L]  BY <2>1, TwoBetween
  <2> QED  BY <2>2 DEF N
<1> QED  BY <1>2 DEF Long

\* The length BitLength finds.
LEMMA BitLengthIs ==
  ASSUME NEW x \in Nat \ {0}, NEW L \in 1 .. 2 * FRAC + EXP + 4, Two[L - 1] <= x, x < Two[L]
  PROVE  Float!BitLength(x) = L
<1>1. L \in Nat /\ L <= 2 * FRAC + EXP + 4 /\ L # 0  BY FloatSizes
<1> DEFINE n == Float!BitLength(x)
<1>2. n \in 1 .. L /\ Two[n - 1] <= x /\ x < Two[n]  BY <1>1, HighestBit
<1> HIDE DEF n
<1>3. n \in Nat \ {0} /\ L \in Nat \ {0}  BY <1>1, <1>2
<1>4. n = L  BY <1>2, <1>3, LengthOnce
<1> QED  BY <1>4 DEF n

\* A number spread is a significand.
LEMMA SpreadRange ==
  ASSUME NEW m \in Nat, NEW L, Long(m, L)
  PROVE  /\ L \in Nat \ {0} /\ (FRAC + 1) - L \in Nat /\ m # 0 /\ m < 2 * Float!One
         /\ Spread(m, L) \in Float!One .. 2 * Float!One - 1
         /\ Spread(m, L) \in Nat
<1>1. L \in Nat \ {0} /\ (FRAC + 1) - L \in Nat  BY FloatSizes DEF Long
<1> DEFINE k == (FRAC + 1) - L
<1>2. L + k = FRAC + 1 /\ (L + k) - 1 = FRAC /\ k \in Nat  BY <1>1, FloatSizes
<1>3. Two[FRAC + 1] = 2 * Float!One /\ Two[FRAC] = Float!One /\ Float!One \in Nat
  BY FloatSizes, TwoIs
<1>4. m * Two[k] \in Nat \ {0} /\ Two[FRAC] <= m * Two[k] /\ m * Two[k] < Two[FRAC + 1]
  <2> HIDE DEF k
  <2>1. /\ m * Two[k] \in Nat \ {0}
        /\ Two[(L + k) - 1] <= m * Two[k] /\ m * Two[k] < Two[L + k]
    BY <1>1, <1>2, Longer DEF Long
  <2> QED  BY <1>2, <2>1
<1>5. m # 0
  <2>1. L - 1 \in Nat  BY <1>1
  <2>2. Two[L - 1] \in Nat \ {0}  BY <2>1, TwoIs
  <2> QED  BY <2>2 DEF Long
<1>6. m < 2 * Float!One
  <2>1. Two[L] <= Two[FRAC + 1] /\ Two[L] \in Nat
    <3>1. L \in Nat /\ FRAC + 1 \in Nat /\ L <= FRAC + 1  BY <1>1, FloatSizes DEF Long
    <3> QED  BY <3>1, TwoGrows
  <2> QED  BY <1>3, <2>1 DEF Long
<1> DEFINE X == m * Two[k]
<1> HIDE DEF X
<1>7. X \in Float!One .. 2 * Float!One - 1 /\ X \in Nat  BY <1>3, <1>4 DEF X
<1> QED  BY <1>1, <1>5, <1>6, <1>7 DEF X, Spread

\* The fields of a float put together from them.
LEMMA PackFields ==
  ASSUME NEW sign \in BOOLEAN, NEW e \in 0 .. Float!ExpMod - 1, NEW f \in 0 .. Float!One - 1
  PROVE  LET p == Float!Pack(sign, e, f)
         IN  p \in Nat /\ Float!Exp(p) = e /\ Float!Frac(p) = f
<1> DEFINE O == Float!One
           E == Float!ExpMod
           T == Float!Top
           p == Float!Pack(sign, e, f)
           q == IF sign THEN E + e ELSE e
<1>1. O \in Nat \ {0} /\ E \in Nat \ {0} /\ T = E * O  BY FloatSizes
<1>2. p = (IF sign THEN T ELSE 0) + O * e + f  BY DEF Float!Pack
<1>3. Float!Exp(p) = (p \div O) % E /\ Float!Frac(p) = p % O  BY DEF Float!Exp, Float!Frac
<1> HIDE DEF O, E, T, p
<1>4. e \in Nat /\ e < E /\ f \in 0 .. O - 1  BY <1>1 DEF O, E
<1>5. q \in Nat  BY <1>1, <1>4
<1>6. p = O * q + f
  <2>1. CASE sign
    <3>1. O * (E + e) = E * O + O * e  BY <1>1, <1>4, SMTT(20)
    <3>2. O * e \in Int /\ E * O \in Int  BY <1>1, <1>4
    <3> QED  BY <1>1, <1>2, <1>4, <2>1, <3>1, <3>2
  <2>2. CASE ~sign
    <3>1. O * e \in Int  BY <1>1, <1>4
    <3> QED  BY <1>2, <1>4, <2>2, <3>1
  <2> QED  BY <2>1, <2>2
<1> HIDE DEF q
<1>7. p \in Nat /\ p \div O = q /\ p % O = f  BY <1>1, <1>4, <1>5, <1>6, DivideOnce
<1>8. q % E = e
  <2>1. CASE sign
    <3>1. q = E * 1 + e  BY <1>1, <1>4, <2>1 DEF q
    <3>2. e \in 0 .. E - 1 /\ 1 \in Nat  BY <1>1, <1>4
    <3> QED  BY <1>1, <3>1, <3>2, DivideOnce
  <2>2. CASE ~sign
    <3>1. q = E * 0 + e  BY <1>1, <1>4, <2>2 DEF q
    <3>2. e \in 0 .. E - 1 /\ 0 \in Nat  BY <1>1, <1>4
    <3> QED  BY <1>1, <3>1, <3>2, DivideOnce
  <2> QED  BY <2>1, <2>2
<1> QED  BY <1>3, <1>7, <1>8 DEF p, O, E

-----------------------------------------------------------------------------
(* Whole numbers as floats.                                                *)

\* The float of the whole number m, of L bits.
Written(sign, m, L) == Float!Pack(sign, (Float!Bias + L) - 1, Spread(m, L) - Float!One)

\* f is the float of n.
Shows(f, n) == Float!IsInteger(f) /\ Float!Integer(f) = n

\* The exponent e and the significand S are those of the whole number m.
Parted(m, e, S) ==
  /\ m \in Nat /\ m < 2 * Float!One
  /\ \/ m = 0 /\ e = 0 /\ S = 0
     \/ \E L : Long(m, L) /\ e = (Float!Bias + L) - 1 /\ S = Spread(m, L)

\* a is the float of m with its sign.
Reads(a, m) ==
  Parted(m, Float!Exp(a), Float!Significand(a)) /\ Float!Integer(a) = Signum(Float!Sign(a), m)

\* The exponents of whole numbers are those of normal floats.
LEMMA WholeExponent ==
  ASSUME NEW L \in 1 .. FRAC + 1
  PROVE  /\ L \in Nat \ {0} /\ L <= FRAC + 1
         /\ (Float!Bias + L) - 1 \in 1 .. Float!ExpMod - 2
         /\ (Float!Bias + L) - 1 \in 0 .. Float!ExpMod - 1
         /\ (Float!Bias + L) - 1 \in Nat /\ (Float!Bias + L) - 1 >= FRAC + 2
  BY FloatSizes

\* The units of a whole number.
LEMMA WholeUnits ==
  ASSUME NEW m \in Nat, NEW L, Long(m, L)
  PROVE  /\ Spread(m, L) * Two[((Float!Bias + L) - 1) - 1] = m * Two[Float!UnitPlace]
         /\ Float!UnitPlace \in Nat
<1>1. L \in 1 .. FRAC + 1 /\ (FRAC + 1) - L \in Nat /\ L \in Nat \ {0}
  BY SpreadRange DEF Long
<1> DEFINE k == (FRAC + 1) - L
           j == ((Float!Bias + L) - 1) - 1
<1>2. k \in Nat /\ j \in Nat /\ k + j = Float!UnitPlace /\ Float!UnitPlace \in Nat
  BY <1>1, FloatSizes DEF Float!UnitPlace
<1> HIDE DEF k, j
<1>3. Two[k + j] = Two[k] * Two[j] /\ Two[k] \in Nat /\ Two[j] \in Nat  BY <1>2, TwoSum, TwoIs
<1>4. (m * Two[k]) * Two[j] = m * Two[k + j]
  <2> DEFINE A == Two[k]
             B == Two[j]
  <2>1. A \in Nat /\ B \in Nat /\ Two[k + j] = A * B  BY <1>3
  <2> HIDE DEF A, B
  <2>2. (m * A) * B = m * (A * B)  BY <2>1, SMTT(20)
  <2> QED  BY <2>1, <2>2 DEF A, B
<1> QED  BY <1>2, <1>4 DEF Spread, k, j

\* What is written is read.
LEMMA WrittenShows ==
  ASSUME NEW sign \in BOOLEAN, NEW m \in Nat, NEW L, Long(m, L)
  PROVE  Shows(Written(sign, m, L), Signum(sign, m))
<1> DEFINE e == (Float!Bias + L) - 1
           S == Spread(m, L)
           f == S - Float!One
           r == Written(sign, m, L)
           U == Two[Float!UnitPlace]
<1>1. L \in 1 .. FRAC + 1 /\ S \in Float!One .. 2 * Float!One - 1  BY SpreadRange DEF Long
<1>2. e \in 1 .. Float!ExpMod - 2 /\ e \in 0 .. Float!ExpMod - 1 /\ e # 0
  BY <1>1, WholeExponent
<1>3. f \in 0 .. Float!One - 1 /\ Float!One + f = S  BY <1>1, FloatSizes
<1>4. r = Float!Pack(sign, e, f)  BY DEF Written
<1> HIDE DEF e, f
<1>5. r \in Nat /\ Float!Exp(r) = e /\ Float!Frac(r) = f  BY <1>2, <1>3, <1>4, PackFields
<1>6. Float!Sign(r) = sign  BY <1>2, <1>3, <1>4, PackWord
<1> HIDE DEF r
<1>7. Float!Significand(r) = S  BY <1>2, <1>3, <1>5 DEF Float!Significand
<1>8. Float!Units(r) = S * Two[e - 1]  BY <1>2, <1>5, <1>7, FloatTwo DEF Float!Units, Float!Place
<1>9. S * Two[e - 1] = m * U /\ Float!UnitPlace \in Nat  BY WholeUnits DEF e
<1>10. Float!Ordinary(r)  BY <1>2, <1>5 DEF Float!Ordinary
<1>11. U \in Nat \ {0}  BY <1>9, TwoIs
<1> HIDE DEF S, U
<1>12. (m * U) \div U = m /\ (m * U) % U = 0  BY <1>11, Multiple
<1>13. Float!Units(r) % U = 0 /\ Float!Units(r) \div U = m  BY <1>8, <1>9, <1>12
<1>14. U = Float!Two[Float!UnitPlace]  BY FloatTwo DEF U
<1>15. Float!IsInteger(r)  BY <1>10, <1>13, <1>14 DEF Float!IsInteger
<1>16. Float!Integer(r) = Signum(sign, m)
  BY <1>6, <1>13, <1>14 DEF Float!Integer, Signum
<1> QED  BY <1>15, <1>16 DEF Shows, r

\* A float is zero when its fields are.
LEMMA ZeroFields ==
  ASSUME NEW a \in Nat
  PROVE  Float!Magnitude(a) = 0 <=> Float!Exp(a) = 0 /\ Float!Frac(a) = 0
<1> DEFINE O == Float!One
           e == Float!Exp(a)
           f == Float!Frac(a)
<1>1. O \in Nat \ {0} /\ e \in Nat /\ f \in Nat /\ Float!Magnitude(a) = O * e + f
  BY FloatFields, FloatSizes
<1> HIDE DEF O, e, f
<1>2. O * e \in Nat /\ (e = 0 => O * e = 0) /\ (e # 0 => O * e # 0)  BY <1>1, SMTT(20)
<1>3. O * e + f = 0 <=> e = 0 /\ f = 0  BY <1>1, <1>2
<1> QED  BY <1>1, <1>3 DEF e, f

\* Zero is a whole number.
LEMMA ZeroShows == Shows(0, 0)
<1> DEFINE O == Float!One
           U == Float!Two[Float!UnitPlace]
<1>1. 0 \in Nat /\ O \in Nat \ {0} /\ ~Float!Sign(0)  BY FloatSizes DEF Float!Sign
<1>2. Float!Magnitude(0) = 0
  <2> DEFINE T == Float!Top
  <2>1. T \in Nat \ {0}  BY FloatSizes
  <2> HIDE DEF T
  <2>2. 0 % T = 0  BY <2>1
  <2> QED  BY <2>2 DEF Float!Magnitude, T
<1>3. Float!Significand(0) = 0  BY <1>1, <1>2, ZeroFields DEF Float!Significand
<1>4. Float!Units(0) = 0
  <2>1. Float!Place(0) \in Nat
    <3>1. Float!Exp(0) \in 0 .. Float!ExpMod - 1  BY <1>1, FloatFields
    <3> QED  BY <3>1, FloatSizes DEF Float!Place
  <2>2. Two[Float!Place(0)] \in Nat  BY <2>1, TwoIs
  <2> DEFINE P == Two[Float!Place(0)]
  <2> HIDE DEF P
  <2>3. 0 * P = 0  BY <2>2 DEF P
  <2> QED  BY <1>3, <2>3, FloatTwo DEF Float!Units, P
<1>5. U \in Nat \ {0}
  <2>1. Float!UnitPlace \in Nat  BY FloatSizes DEF Float!UnitPlace
  <2> QED  BY <2>1, TwoIs, FloatTwo
<1> HIDE DEF U
<1>6. 0 % U = 0 /\ 0 \div U = 0  BY <1>5
<1> QED  BY <1>1, <1>2, <1>4, <1>6 DEF Shows, Float!IsInteger, Float!Integer, Float!Ordinary, U

\* Abs of a number and its sign.
LEMMA AbsSignum ==
  ASSUME NEW sign \in BOOLEAN, NEW m \in Nat
  PROVE  Signum(sign, m) \in Int /\ Abs(Signum(sign, m)) = m
<1>1. -m \in Int /\ (-m) + m = 0 /\ -(-m) = m  OBVIOUS
<1>2. CASE sign
  <2>1. Signum(sign, m) = -m  BY <1>2 DEF Signum
  <2>2. -m < 0 => Abs(-m) = m  BY <1>1, Zenon DEF Abs
  <2>3. ~(-m < 0) => m = 0  OBVIOUS
  <2>4. ~(-m < 0) => Abs(-m) = -m  BY Zenon DEF Abs
  <2>5. ~(-m < 0) => -m = m  BY <1>1, <2>3
  <2> QED  BY <1>1, <2>1, <2>2, <2>4, <2>5
<1>3. CASE ~sign
  <2>1. Signum(sign, m) = m  BY <1>3 DEF Signum
  <2> QED  BY <2>1 DEF Abs
<1> QED  BY <1>2, <1>3

\* The units of a float that is normal: their length is its exponent's.
LEMMA NormalUnits ==
  ASSUME NEW a \in Nat, Float!Ordinary(a), Float!Exp(a) # 0
  PROVE  /\ Float!Exp(a) - 1 \in Nat /\ Float!Significand(a) \in Nat
         /\ Float!Units(a) = Float!Significand(a) * Two[Float!Exp(a) - 1]
         /\ Float!Units(a) \in Nat \ {0}
         /\ FRAC + Float!Exp(a) \in Nat \ {0}
         /\ Two[(FRAC + Float!Exp(a)) - 1] <= Float!Units(a)
         /\ Float!Units(a) < Two[FRAC + Float!Exp(a)]
<1> DEFINE e == Float!Exp(a)
           S == Float!Significand(a)
           u == Float!Units(a)
           L == FRAC + 1
           k == e - 1
<1>1. e \in Nat \ {0} /\ S \in 0 .. 2 * Float!One - 1 /\ S >= Float!One
  BY OrdinaryFields, FloatSizes
<1>2. u = S * Two[k]  BY <1>1, FloatTwo DEF Float!Units, Float!Place
<1>3. /\ L \in Nat \ {0} /\ k \in Nat /\ L - 1 = FRAC /\ L + k = FRAC + e
      /\ (L + k) - 1 = (FRAC + e) - 1
  <2> HIDE DEF e
  <2>1. FRAC \in Nat /\ e \in Nat \ {0}  BY <1>1, FloatSizes
  <2> QED  BY <2>1
<1>4. Two[FRAC + 1] = 2 * Float!One /\ Two[FRAC] = Float!One /\ Float!One \in Nat
  BY FloatSizes, TwoIs
<1>5. S \in Nat /\ Two[FRAC] <= S /\ S < Two[FRAC + 1]  BY <1>1, <1>4
<1>6. Two[L - 1] <= S /\ S < Two[L]  BY <1>3, <1>5
<1> HIDE DEF S, k, L, e, u
<1>7. S * Two[k] \in Nat \ {0} /\ Two[(L + k) - 1] <= S * Two[k] /\ S * Two[k] < Two[L + k]
  BY <1>3, <1>5, <1>6, Longer
<1>8. FRAC + e \in Nat \ {0}  BY <1>1, FloatSizes
<1> QED  BY <1>1, <1>2, <1>3, <1>5, <1>7, <1>8 DEF S, k, e, u

\* What is written for a whole number is all that reads as it.
LEMMA IntegerReads ==
  ASSUME NEW a \in Nat, Float!IsInteger(a), Abs(Float!Integer(a)) < 2 * Float!One
  PROVE  \E m : Reads(a, m)
<1> DEFINE U == Two[Float!UnitPlace]
           u == Float!Units(a)
           m == u \div U
           e == Float!Exp(a)
           S == Float!Significand(a)
           neg == Float!Sign(a)
<1>1. Float!Ordinary(a) /\ u % U = 0 /\ Float!Integer(a) = Signum(neg, m)
  BY FloatTwo DEF Float!IsInteger, Float!Integer, Signum
<1>2. Float!UnitPlace \in Nat /\ U \in Nat \ {0}
  <2>1. Float!UnitPlace \in Nat  BY FloatSizes DEF Float!UnitPlace
  <2> QED  BY <2>1, TwoIs
<1>3. neg \in BOOLEAN  BY DEF Float!Sign
<1>4. /\ e \in 0 .. Float!ExpMod - 2
      /\ e = 0 => S = 0
  BY <1>1, OrdinaryFields
<1>5. CASE e = 0
  <2>1. u = 0
    <3>1. Two[0] = 1 /\ 0 * 1 = 0  BY TwoIs
    <3>2. u = S * Two[0]  BY <1>5, FloatTwo DEF Float!Units, Float!Place
    <3> QED  BY <1>4, <1>5, <3>1, <3>2
  <2>2. m = 0
    <3> HIDE DEF U, u
    <3>1. 0 \div U = 0  BY <1>2
    <3> QED  BY <2>1, <3>1
  <2>3. 0 < 2 * Float!One  BY FloatSizes
  <2> QED  BY <1>1, <1>4, <1>5, <2>2, <2>3 DEF Reads, Parted
<1>6. CASE e # 0
  <2>1. /\ e - 1 \in Nat /\ S \in Nat /\ u = S * Two[e - 1] /\ u \in Nat \ {0}
        /\ FRAC + e \in Nat \ {0} /\ Two[(FRAC + e) - 1] <= u /\ u < Two[FRAC + e]
    BY <1>1, <1>6, NormalUnits
  <2>2. m \in Nat /\ u = m * U /\ m # 0
    <3> HIDE DEF u, U
    <3>1. u \div U \in Nat /\ u = U * (u \div U) + (u % U)
      <4>1. u \in Nat /\ U \in Nat \ {0}  BY <1>2, <2>1
      <4> QED  BY <4>1, Division
    <3> HIDE DEF m
    <3>2. m \in Nat /\ u = U * m + (u % U)  BY <3>1 DEF m
    <3>3. U * m \in Nat /\ U * m = m * U /\ (m = 0 => m * U = 0)  BY <1>2, <3>2, SMTT(20)
    <3>4. u = U * m  BY <1>1, <3>2, <3>3
    <3> QED  BY <2>1, <3>2, <3>3, <3>4
  <2>3. m < 2 * Float!One
    <3> HIDE DEF m
    <3>1. Abs(Signum(neg, m)) = m  BY <1>3, <2>2, AbsSignum
    <3> QED  BY <1>1, <3>1
  <2> HIDE DEF u, m, e, S, neg
  <2>4. PICK L : Long(m, L)  BY <2>2, <2>3, LongExists
  <2>5. L \in Nat \ {0} /\ L \in 1 .. FRAC + 1 /\ Spread(m, L) \in Nat
    BY <2>2, <2>4, SpreadRange DEF Long
  <2>6. e = (Float!Bias + L) - 1
    <3> DEFINE k == Float!UnitPlace
    <3>1. Two[(L + k) - 1] <= u /\ u < Two[L + k] /\ L + k \in Nat \ {0}
      <4> HIDE DEF k
      <4>1. k \in Nat /\ u = m * Two[k]  BY <1>2, <2>2 DEF k, U
      <4>2. Two[(L + k) - 1] <= m * Two[k] /\ m * Two[k] < Two[L + k]
        BY <2>2, <2>4, <2>5, <4>1, Longer DEF Long
      <4>3. L + k \in Nat \ {0}  BY <2>5, <4>1
      <4> QED  BY <4>1, <4>2, <4>3
    <3> HIDE DEF k
    <3>2. FRAC + e = L + k
      <4> DEFINE i == FRAC + e
                 j == L + k
      <4>1. i \in Nat \ {0} /\ j \in Nat \ {0} /\ u \in Nat /\ Two[i - 1] <= u /\ u < Two[i]
            /\ Two[j - 1] <= u /\ u < Two[j]
        BY <2>1, <3>1
      <4> HIDE DEF i, j
      <4>2. i = j  BY <4>1, LengthOnce
      <4> QED  BY <4>2 DEF i, j
    <3> QED  BY <1>4, <2>5, <3>2, FloatSizes DEF k, Float!UnitPlace, e
  <2>7. S = Spread(m, L)
    <3> DEFINE w == Two[e - 1]
    <3>1. w \in Nat \ {0}  BY <2>1, TwoIs
    <3>2. Spread(m, L) * w = m * U  BY <2>2, <2>4, <2>6, WholeUnits DEF U
    <3> HIDE DEF w
    <3>3. S * w = Spread(m, L) * w  BY <2>1, <2>2, <3>2 DEF w
    <3> QED  BY <2>1, <2>5, <3>1, <3>3, Cancel
  <2>8. Parted(m, e, S)  BY <2>2, <2>3, <2>4, <2>6, <2>7 DEF Parted
  <2> QED  BY <1>1, <2>8 DEF Reads, e, S, neg, m
<1> QED  BY <1>4, <1>5, <1>6

\* The opposite of a whole number and its magnitude have its fields.
LEMMA Resigned ==
  ASSUME NEW a \in Nat, NEW sign \in BOOLEAN, Float!IsInteger(a)
  PROVE  LET r == Float!Pack(sign, Float!Exp(a), Float!Frac(a))
             m == Float!Units(a) \div Two[Float!UnitPlace]
         IN  m \in Nat /\ Shows(r, Signum(sign, m)) /\ Float!Integer(a) = Signum(Float!Sign(a), m)
<1> DEFINE r == Float!Pack(sign, Float!Exp(a), Float!Frac(a))
           U == Two[Float!UnitPlace]
           u == Float!Units(a)
           m == u \div U
<1>1. Float!Ordinary(a) /\ u % U = 0  BY FloatTwo DEF Float!IsInteger
<1>2. Float!Exp(a) \in 0 .. Float!ExpMod - 1 /\ Float!Frac(a) \in 0 .. Float!One - 1
  BY FloatFields
<1>3. r \in Nat /\ Float!Exp(r) = Float!Exp(a) /\ Float!Frac(r) = Float!Frac(a)
  BY <1>2, PackFields
<1>4. Float!Sign(r) = sign  BY <1>2, PackWord
<1> HIDE DEF r
<1>5. Float!Significand(r) = Float!Significand(a) /\ Float!Place(r) = Float!Place(a)
  BY <1>3 DEF Float!Significand, Float!Place
<1>6. Float!Units(r) = u  BY <1>5 DEF Float!Units
<1>7. Float!Ordinary(r)
  <2>1. Float!Magnitude(r) = 0 <=> Float!Magnitude(a) = 0  BY <1>3, ZeroFields
  <2> QED  BY <1>1, <1>3, <2>1 DEF Float!Ordinary
<1>8. u \in Nat /\ U \in Nat \ {0}
  <2>1. Float!UnitPlace \in Nat  BY FloatSizes DEF Float!UnitPlace
  <2>2. Float!Place(a) \in Nat  BY <1>2, FloatSizes DEF Float!Place
  <2>3. Float!Significand(a) \in Nat  BY <1>2, FloatSizes DEF Float!Significand
  <2>4. Two[Float!Place(a)] \in Nat  BY <2>2, TwoIs
  <2>5. Float!Significand(a) * Two[Float!Place(a)] \in Nat  BY <2>3, <2>4, Products
  <2> QED  BY <2>1, <2>5, TwoIs, FloatTwo DEF Float!Units
<1>9. m \in Nat
  <2> HIDE DEF u, U
  <2> QED  BY <1>8, SMTT(20)
<1>10. U = Float!Two[Float!UnitPlace]  BY FloatTwo
<1>11. Shows(r, Signum(sign, m))
  BY <1>1, <1>4, <1>6, <1>7, <1>10 DEF Shows, Float!IsInteger, Float!Integer, Signum
<1>12. Float!Integer(a) = Signum(Float!Sign(a), m)  BY <1>10 DEF Float!Integer, Signum
<1> QED  BY <1>9, <1>11, <1>12 DEF r, m, u, U

\* A float put together from its own fields.
LEMMA Unpacked ==
  ASSUME NEW a \in Register
  PROVE  /\ a \in Nat /\ Float!Magnitude(a) = Float!Pack(FALSE, Float!Exp(a), Float!Frac(a))
         /\ (a + Float!Top) % Float!WordMod
              = Float!Pack(~Float!Sign(a), Float!Exp(a), Float!Frac(a))
<1> DEFINE O == Float!One
           T == Float!Top
           e == Float!Exp(a)
           f == Float!Frac(a)
           g == Float!Magnitude(a)
<1>1. a \in 0 .. 2 * T - 1 /\ T \in Nat \ {0} /\ Float!WordMod = 2 * T /\ O \in Nat
  BY RegisterWord, FloatSizes DEF Float!Word
<1>2. a \in Nat  BY <1>1
<1>3. g = O * e + f /\ e \in Nat /\ f \in Nat  BY <1>2, FloatFields, FloatSizes
<1>4. g = a % T  BY DEF Float!Magnitude
<1>5. Float!Sign(a) <=> a >= T  BY DEF Float!Sign
<1>6. Float!Pack(FALSE, e, f) = 0 + O * e + f /\ Float!Pack(TRUE, e, f) = T + O * e + f
  BY DEF Float!Pack
<1> HIDE DEF O, T, e, f, g
<1>7. O * e \in Nat  BY <1>1, <1>3, Products, SMTT(20)
<1>8. Float!Pack(FALSE, e, f) = g /\ Float!Pack(TRUE, e, f) = T + g
  <2> DEFINE x == O * e
  <2>1. x \in Nat /\ g = x + f /\ Float!Pack(FALSE, e, f) = 0 + x + f
        /\ Float!Pack(TRUE, e, f) = T + x + f
    BY <1>3, <1>6, <1>7
  <2>2. T \in Nat /\ f \in Nat  BY <1>1, <1>3
  <2> DEFINE p == Float!Pack(FALSE, e, f)
             q == Float!Pack(TRUE, e, f)
  <2>3. x \in Nat /\ g = x + f /\ p = 0 + x + f /\ q = T + x + f  BY <2>1
  <2> HIDE DEF x, p, q
  <2>4. p = g /\ q = T + g  BY <2>2, <2>3
  <2> QED  BY <2>4 DEF p, q
<1>9. CASE a >= T
  <2>1. g = a - T
    <3>1. a - T \in 0 .. T - 1 /\ 1 \in Nat /\ T * 1 + (a - T) = a  BY <1>1, <1>9
    <3>2. (T * 1 + (a - T)) % T = a - T  BY <1>1, <3>1, DivideOnce
    <3> QED  BY <1>4, <3>1, <3>2
  <2>2. (a + T) % (2 * T) = a - T
    <3>1. 2 * T \in Nat \ {0} /\ a - T \in 0 .. 2 * T - 1 /\ 1 \in Nat
          /\ (2 * T) * 1 + (a - T) = a + T
      BY <1>1, <1>9
    <3> DEFINE W == 2 * T
               x == a - T
    <3> HIDE DEF W, x
    <3>2. (W * 1 + x) % W = x  BY <3>1, DivideOnce DEF W, x
    <3> QED  BY <3>1, <3>2 DEF W, x
  <2>3. (~Float!Sign(a)) = FALSE  BY <1>5, <1>9
  <2>4. g = Float!Pack(FALSE, e, f) /\ (a + T) % (2 * T) = Float!Pack(~Float!Sign(a), e, f)
    BY <1>8, <2>1, <2>2, <2>3
  <2> QED  BY <1>1, <1>2, <2>4 DEF e, f, g, T
<1>10. CASE ~(a >= T)
  <2>1. g = a
    <3>1. a \in 0 .. T - 1 /\ 0 \in Nat /\ T * 0 + a = a  BY <1>1, <1>10
    <3>2. (T * 0 + a) % T = a  BY <1>1, <3>1, DivideOnce
    <3> QED  BY <1>4, <3>1, <3>2
  <2>2. (a + T) % (2 * T) = T + a
    <3>1. 2 * T \in Nat \ {0} /\ a + T \in 0 .. 2 * T - 1 /\ 0 \in Nat
          /\ (2 * T) * 0 + (a + T) = a + T /\ a + T = T + a
      BY <1>1, <1>10
    <3> DEFINE W == 2 * T
               x == a + T
    <3> HIDE DEF W, x
    <3>2. (W * 0 + x) % W = x  BY <3>1, DivideOnce DEF W, x
    <3> QED  BY <3>1, <3>2 DEF W, x
  <2>3. (~Float!Sign(a)) = TRUE  BY <1>5, <1>10
  <2>4. g = Float!Pack(FALSE, e, f) /\ (a + T) % (2 * T) = Float!Pack(~Float!Sign(a), e, f)
    BY <1>8, <2>1, <2>2, <2>3
  <2> QED  BY <1>1, <1>2, <2>4 DEF e, f, g, T
<1> QED  BY <1>9, <1>10

\* NEGF and ABSF.
LEMMA SignsExact ==
  ASSUME NEW a \in Register, Float!IsInteger(a)
  PROVE  /\ Shows((a + Float!Top) % Float!WordMod, -Float!Integer(a))
         /\ Shows(Float!Magnitude(a), Abs(Float!Integer(a)))
<1> DEFINE m == Float!Units(a) \div Two[Float!UnitPlace]
           neg == Float!Sign(a)
<1>1. a \in Nat /\ neg \in BOOLEAN /\ FALSE \in BOOLEAN /\ (~neg) \in BOOLEAN
  <2>1. a \in Nat  BY Unpacked
  <2>2. neg \in BOOLEAN  BY DEF Float!Sign
  <2> QED  BY <2>1, <2>2
<1>2. /\ m \in Nat /\ Float!Integer(a) = Signum(neg, m)
      /\ Shows(Float!Pack(FALSE, Float!Exp(a), Float!Frac(a)), Signum(FALSE, m))
      /\ Shows(Float!Pack(~neg, Float!Exp(a), Float!Frac(a)), Signum(~neg, m))
  BY <1>1, Resigned
<1> HIDE DEF m
<1>3. Signum(FALSE, m) = Abs(Float!Integer(a))  BY <1>1, <1>2, AbsSignum DEF Signum
<1>4. Signum(~neg, m) = -Float!Integer(a)
  <2>1. -(-m) = m  BY <1>2
  <2>2. CASE neg  BY <1>2, <2>1, <2>2, Zenon DEF Signum
  <2>3. CASE ~neg  BY <1>2, <2>3, Zenon DEF Signum
  <2> QED  BY <2>2, <2>3
<1> QED  BY <1>2, <1>3, <1>4, Unpacked

\* A whole number of places is cut off and not rounded.
LEMMA RoundExact ==
  ASSUME NEW x \in Nat, NEW n \in Nat \ {0}
  PROVE  /\ x * Two[n] \in Nat /\ (x * Two[n]) \div Two[n] = x
         /\ Float!RoundUp(x * Two[n], n) = FALSE
<1> DEFINE h == Two[n - 1]
           y == 2 * x
<1>1. h \in Nat \ {0} /\ Two[n] = 2 * h
  <2>1. n - 1 \in Nat /\ (n - 1) + 1 = n  OBVIOUS
  <2> QED  BY <2>1, TwoIs
<1>2. Two[n] \in Nat \ {0}  BY TwoIs
<1>3. x * Two[n] \in Nat /\ (x * Two[n]) \div Two[n] = x
  <2> DEFINE w == Two[n]
  <2>1. w \in Nat \ {0}  BY <1>2
  <2> HIDE DEF w
  <2>2. x * w \in Nat /\ (x * w) \div w = x  BY <2>1, Multiple
  <2> QED  BY <2>2 DEF w
<1>4. x * Two[n] = y * h
  <2> HIDE DEF h
  <2> QED  BY <1>1, SMTT(20)
<1>5. (y * h) \div h = y
  <2>1. y \in Nat  OBVIOUS
  <2> HIDE DEF h, y
  <2> QED  BY <1>1, <2>1, Multiple
<1>6. y % 2 # 1  OBVIOUS
<1>7. Float!RoundUp(x * Two[n], n) = ((x * Two[n]) \div h % 2 = 1
        /\ (((x * Two[n]) % h) # 0 \/ ((x * Two[n]) \div Two[n]) % 2 = 1))
  BY FloatTwo DEF Float!RoundUp
<1>8. ((x * Two[n]) \div h) % 2 # 1  BY <1>4, <1>5, <1>6
<1> QED  BY <1>3, <1>7, <1>8

\* The fields of what reads as a whole number.
LEMMA ReadsFields ==
  ASSUME NEW a \in Nat, NEW m, Reads(a, m)
  PROVE  /\ m \in Nat /\ m < 2 * Float!One /\ Float!Sign(a) \in BOOLEAN
         /\ Float!Integer(a) = Signum(Float!Sign(a), m)
         /\ m = 0 => Float!Magnitude(a) = 0 /\ Float!Exp(a) = 0 /\ Float!Significand(a) = 0
         /\ m # 0 => /\ Float!Magnitude(a) # 0 /\ Float!Exp(a) # 0
                     /\ \E L : /\ Long(m, L) /\ L \in 1 .. FRAC + 1
                               /\ Float!Exp(a) = (Float!Bias + L) - 1
                               /\ Float!Significand(a) = Spread(m, L)
                               /\ Float!One + Float!Frac(a) = Spread(m, L)
                               /\ Float!Frac(a) = Spread(m, L) - Float!One
<1> DEFINE e == Float!Exp(a)
           S == Float!Significand(a)
           O == Float!One
           f == Float!Frac(a)
<1>1. /\ m \in Nat /\ m < 2 * O
      /\ \/ m = 0 /\ e = 0 /\ S = 0
         \/ \E L : Long(m, L) /\ e = (Float!Bias + L) - 1 /\ S = Spread(m, L)
      /\ Float!Integer(a) = Signum(Float!Sign(a), m)
  BY DEF Reads, Parted
<1>2. S = IF e # 0 THEN O + f ELSE f  BY DEF Float!Significand
<1>3. O \in Nat /\ f \in Nat /\ Float!Sign(a) \in BOOLEAN  BY FloatSizes, FloatFields
<1>4. Float!Magnitude(a) = 0 <=> e = 0 /\ f = 0  BY ZeroFields
<1> HIDE DEF e, S, O, f
<1>5. ASSUME NEW L, Long(m, L)
      PROVE  /\ m # 0 /\ L \in 1 .. FRAC + 1
             /\ e = (Float!Bias + L) - 1 => e # 0
  <2>1. L \in 1 .. FRAC + 1 /\ m # 0  BY <1>1, <1>5, SpreadRange DEF Long
  <2>2. (Float!Bias + L) - 1 >= FRAC + 2  BY <2>1, WholeExponent
  <2> QED  BY <2>1, <2>2, FloatSizes
<1>6. CASE m = 0
  <2>1. e = 0 /\ S = 0  BY <1>1, <1>5, <1>6
  <2>2. f = 0  BY <1>2, <2>1
  <2> QED  BY <1>1, <1>3, <1>4, <1>6, <2>1, <2>2 DEF e, S, O
<1>7. CASE m # 0
  <2>1. PICK L : Long(m, L) /\ e = (Float!Bias + L) - 1 /\ S = Spread(m, L)  BY <1>1, <1>7
  <2>2. e # 0 /\ L \in 1 .. FRAC + 1  BY <1>5, <2>1
  <2>3. S = O + f /\ S - O = f  BY <1>2, <1>3, <2>2
  <2>4. Float!Magnitude(a) # 0  BY <1>4, <2>2
  <2> QED  BY <1>1, <1>3, <1>7, <2>1, <2>2, <2>3, <2>4 DEF e, S, O, f
<1> QED  BY <1>6, <1>7

\* A word as a signed number.
LEMMA WordSigned ==
  ASSUME NEW a \in Register
  PROVE  LET x == IF Float!Sign(a) THEN Float!WordMod - a ELSE a
         IN  /\ x \in Nat /\ (x = 0 => a = 0) /\ Float!Sign(a) \in BOOLEAN
             /\ Signed(a, "SZ_WORD") = Signum(Float!Sign(a), x)
<1> DEFINE T == Float!Top
           W == Float!WordMod
           x == IF Float!Sign(a) THEN W - a ELSE a
<1>1. W = 2 * T /\ T \in Nat \ {0} /\ a \in 0 .. W - 1  BY RegisterWord, FloatSizes DEF Float!Word
<1>2. Mod("SZ_WORD") = W /\ Half["SZ_WORD"] = T
  <2>1. Mod("SZ_WORD") = 2 * Half["SZ_WORD"] /\ Half["SZ_WORD"] \in Nat
    BY SizeAssumption DEF Mod, Size
  <2>2. Mod("SZ_WORD") = W  BY RegisterWord
  <2> HIDE DEF T, W
  <2> QED  BY <1>1, <2>1, <2>2
<1>3. Float!Sign(a) = (a >= T)  BY DEF Float!Sign
<1>4. Signed(a, "SZ_WORD") = IF a >= T THEN a - W ELSE a  BY <1>2 DEF Signed, Msb
<1> HIDE DEF T, W
<1>5. CASE a >= T
  <2>1. x = W - a /\ Signed(a, "SZ_WORD") = a - W  BY <1>3, <1>4, <1>5
  <2>2. W - a \in Nat /\ W - a # 0 /\ -(W - a) = a - W  BY <1>1
  <2>3. Signum(Float!Sign(a), x) = -(W - a)  BY <1>3, <1>5, <2>1 DEF Signum
  <2> QED  BY <1>3, <2>1, <2>2, <2>3 DEF W
<1>6. CASE ~(a >= T)
  <2>1. x = a /\ Signed(a, "SZ_WORD") = a /\ ~Float!Sign(a)  BY <1>3, <1>4, <1>6
  <2>2. Signum(Float!Sign(a), x) = a  BY <2>1 DEF Signum
  <2>3. a \in Nat  BY <1>1
  <2> QED  BY <1>3, <2>1, <2>2, <2>3 DEF W
<1> QED  BY <1>5, <1>6

\* CVT.WS of a word that fits in a significand.
LEMMA FromWordExact ==
  ASSUME NEW a \in Register,
         Abs(Signed(a, "SZ_WORD")) < 2 * Float!One
  PROVE  Shows(Float!FromWord(a), Signed(a, "SZ_WORD"))
<1> DEFINE neg == Float!Sign(a)
           x == IF neg THEN Float!WordMod - a ELSE a
           n == Float!BitLength(x)
           norm == x * Float!Two[EXP + FRAC + 1 - n]
           up == Float!RoundUp(norm, EXP)
           f == ((norm \div Float!Two[EXP]) % Float!One) + (IF up THEN 1 ELSE 0)
           e == Float!Bias + n - 1
           r == Float!FromWord(a)
<1>1. r = IF a = 0 THEN 0
          ELSE IF f = Float!One THEN Float!Pack(neg, e + 1, 0)
          ELSE Float!Pack(neg, e, f)
  BY Zenon DEF Float!FromWord
<1>2. /\ x \in Nat /\ (x = 0 => a = 0) /\ neg \in BOOLEAN
      /\ Signed(a, "SZ_WORD") = Signum(neg, x)
  BY WordSigned
<1> HIDE DEF neg
<1>3. CASE a = 0
  <2>1. r = 0  BY <1>1, <1>3
  <2>2. Signed(0, "SZ_WORD") = 0
    <3>1. Half["SZ_WORD"] \in Nat \ {0}  BY SizeAssumption DEF Size
    <3> QED  BY <3>1 DEF Signed, Msb
  <2> QED  BY <1>3, <2>1, <2>2, ZeroShows
<1>4. CASE a # 0
  <2> HIDE DEF x
  <2>1. x \in Nat \ {0} /\ x < 2 * Float!One
    <3>1. Abs(Signum(neg, x)) = x  BY <1>2, AbsSignum
    <3> QED  BY <1>2, <1>4, <3>1
  <2>2. PICK L : Long(x, L)  BY <2>1, LongExists
  <2> DEFINE S == Spread(x, L)
  <2>3. L \in 1 .. FRAC + 1 /\ S \in Float!One .. 2 * Float!One - 1 /\ S \in Nat
    BY <2>1, <2>2, SpreadRange DEF Long
  <2>4. n = L
    <3>1. L \in 1 .. 2 * FRAC + EXP + 4  BY <2>3, FloatSizes
    <3> QED  BY <2>1, <2>2, <3>1, BitLengthIs DEF Long
  <2>5. norm = S * Two[EXP]
    <3> DEFINE k == (FRAC + 1) - L
    <3>1. k \in Nat /\ EXP \in Nat /\ EXP + FRAC + 1 - L = k + EXP  BY <2>3, FloatSizes
    <3> HIDE DEF k
    <3>2. Two[k + EXP] = Two[k] * Two[EXP] /\ Two[k] \in Nat /\ Two[EXP] \in Nat
      BY <3>1, TwoSum, TwoIs
    <3> DEFINE A == Two[k]
               B == Two[EXP]
    <3>3. A \in Nat /\ B \in Nat /\ Two[k + EXP] = A * B  BY <3>2
    <3> HIDE DEF A, B
    <3>4. x * (A * B) = (x * A) * B  BY <2>1, <3>3, SMTT(20)
    <3>5. norm = x * Two[k + EXP]  BY <2>4, <3>1, FloatTwo
    <3>6. S = x * A  BY DEF Spread, k, A
    <3> QED  BY <3>3, <3>4, <3>5, <3>6 DEF B
  <2>6. up = FALSE /\ norm \div Float!Two[EXP] = S
    <3>1. EXP \in Nat \ {0}  BY FloatSizes
    <3> HIDE DEF S, norm, up
    <3>2. (S * Two[EXP]) \div Two[EXP] = S /\ Float!RoundUp(S * Two[EXP], EXP) = FALSE
      BY <2>3, <3>1, RoundExact
    <3> QED  BY <2>5, <3>2, FloatTwo DEF up
  <2> HIDE DEF up, norm, n
  <2>7. f = S - Float!One
    <3> DEFINE O == Float!One
    <3>1. O \in Nat \ {0} /\ S \in O .. 2 * O - 1  BY <2>3, FloatSizes
    <3> HIDE DEF O, S
    <3>2. S % O = S - O  BY <3>1, SMTT(20)
    <3>3. f = (S % O) + 0  BY <2>6 DEF O
    <3> QED  BY <3>1, <3>2, <3>3 DEF O
  <2> HIDE DEF f
  <2>8. f # Float!One /\ e = (Float!Bias + L) - 1
    <3> HIDE DEF S
    <3> QED  BY <2>3, <2>4, <2>7, FloatSizes
  <2> HIDE DEF e, r
  <2>9. r = Written(neg, x, L)  BY <1>1, <1>4, <2>7, <2>8 DEF Written
  <2>10. Shows(r, Signum(neg, x))  BY <1>2, <2>2, <2>9, WrittenShows
  <2> QED  BY <1>2, <2>10 DEF r
<1> QED  BY <1>3, <1>4

\* A significand without its highest bit, an exponent in its field, and what is made of them.
LEMMA WrittenFields ==
  ASSUME NEW sign \in BOOLEAN, NEW m \in Nat, NEW L, Long(m, L)
  PROVE  LET S == Spread(m, L)
             e == (Float!Bias + L) - 1
         IN  /\ S \in Nat /\ S % Float!One = S - Float!One
             /\ S - Float!One \in 0 .. Float!One - 1
             /\ (S - Float!One) % Float!One = S - Float!One
             /\ e \in Nat \ {0} /\ e % Float!ExpMod = e /\ e % (2 * Float!ExpMod) = e
             /\ (e + 1) % (2 * Float!ExpMod) = e + 1
             /\ Float!Limited(sign, e, S - Float!One) = Written(sign, m, L)
<1> DEFINE S == Spread(m, L)
           e == (Float!Bias + L) - 1
           O == Float!One
           E == Float!ExpMod
           x == S - O
<1>1. L \in 1 .. FRAC + 1 /\ S \in O .. 2 * O - 1 /\ S \in Nat  BY SpreadRange DEF Long
<1>2. e \in 1 .. E - 2 /\ O \in Nat \ {0} /\ E \in Nat /\ E >= 4  BY <1>1, WholeExponent, FloatSizes
<1>3. x \in 0 .. O - 1 /\ O * 1 + x = S /\ O * 0 + x = x
  <2> HIDE DEF S, O
  <2> QED  BY <1>1, <1>2
<1>4. Float!Limited(sign, e, x) = Written(sign, m, L)
  <2>1. Written(sign, m, L) = Float!Pack(sign, e, x)  BY DEF Written
  <2> HIDE DEF e, x
  <2>2. ~(e = 0 \/ e >= Float!ExpMod) /\ e # Float!ExpMod - 1  BY <1>2 DEF E
  <2> QED  BY <2>1, <2>2 DEF Float!Limited
<1> HIDE DEF S, e, O, E, x
<1>5. S % O = x /\ x % O = x
  <2>1. (O * 1 + x) % O = x /\ (O * 0 + x) % O = x  BY <1>2, <1>3, DivideOnce
  <2> QED  BY <1>3, <2>1
<1>6. e % E = e
  <2>1. e \in 0 .. E - 1 /\ E \in Nat \ {0} /\ E * 0 + e = e  BY <1>2
  <2>2. (E * 0 + e) % E = e  BY <2>1, DivideOnce
  <2> QED  BY <2>1, <2>2
<1>7. e % (2 * E) = e /\ (e + 1) % (2 * E) = e + 1
  <2> DEFINE D == 2 * E
             y == e + 1
  <2>1. e \in 0 .. D - 1 /\ y \in 0 .. D - 1 /\ D \in Nat \ {0} /\ D * 0 + e = e /\ D * 0 + y = y
    BY <1>2
  <2> HIDE DEF D, y
  <2>2. (D * 0 + e) % D = e /\ (D * 0 + y) % D = y  BY <2>1, DivideOnce
  <2> QED  BY <2>1, <2>2 DEF D, y
<1>8. e \in Nat \ {0}  BY <1>2
<1> QED  BY <1>1, <1>3, <1>4, <1>5, <1>6, <1>7, <1>8 DEF S, e, O, E, x

\* The sign of a product.
LEMMA SignumTimes ==
  ASSUME NEW s \in BOOLEAN, NEW t \in BOOLEAN, NEW m \in Nat, NEW n \in Nat
  PROVE  m * n \in Nat /\ Signum(s, m) * Signum(t, n) = Signum(s # t, m * n)
<1>1. m * n \in Nat  BY SMTT(20)
<1>2. (-m) * n = -(m * n) /\ m * (-n) = -(m * n) /\ (-m) * (-n) = m * n  BY SMTT(20)
<1>3. CASE s /\ t
  <2>1. (s # t) = FALSE  BY <1>3
  <2> QED  BY <1>1, <1>2, <1>3, <2>1, Zenon DEF Signum
<1>4. CASE s /\ ~t
  <2>1. (s # t) = TRUE  BY <1>4
  <2> QED  BY <1>1, <1>2, <1>4, <2>1, Zenon DEF Signum
<1>5. CASE ~s /\ t
  <2>1. (s # t) = TRUE  BY <1>5
  <2> QED  BY <1>1, <1>2, <1>5, <2>1, Zenon DEF Signum
<1>6. CASE ~s /\ ~t
  <2>1. (s # t) = FALSE  BY <1>6
  <2> QED  BY <1>1, <1>2, <1>6, <2>1, Zenon DEF Signum
<1> QED  BY <1>3, <1>4, <1>5, <1>6

\* The parts of a whole number: nothing is behind the point.
LEMMA PartsExact ==
  ASSUME NEW a \in Nat, NEW m, Reads(a, m)
  PROVE  Float!Parts(a).int = m /\ Float!Parts(a).round = FALSE
<1> DEFINE e == Float!Exp(a) - Float!Bias
           x == Float!One + Float!Frac(a)
           right == FRAC - e
           p == Float!Parts(a)
<1>1. p = IF e < 0 THEN [int |-> 0, round |-> Float!Magnitude(a) # 0 /\ e = -1,
                         sticky |-> IF e = -1 THEN Float!Frac(a) # 0 ELSE Float!Exp(a) > 0]
          ELSE IF e >= EXP + FRAC
               THEN [int |-> Float!Top - 1, round |-> FALSE, sticky |-> FALSE]
          ELSE IF right <= 0 THEN [int |-> x * Two[-right], round |-> FALSE, sticky |-> FALSE]
          ELSE [int |-> x \div Two[right], round |-> (x \div Two[right - 1]) % 2 = 1,
                sticky |-> x % Two[right - 1] # 0]
  BY FloatTwo DEF Float!Parts
<1>2. CASE m = 0
  <2>1. Float!Magnitude(a) = 0 /\ Float!Exp(a) = 0  BY <1>2, ReadsFields
  <2>2. e < 0  BY <2>1, FloatSizes
  <2> HIDE DEF e
  <2>3. p.int = 0 /\ p.round = (Float!Magnitude(a) # 0 /\ e = -1)  BY <1>1, <2>2
  <2>4. (Float!Magnitude(a) # 0 /\ e = -1) = FALSE  BY <2>1
  <2> QED  BY <1>2, <2>3, <2>4
<1>3. CASE m # 0
  <2>1. PICK L : /\ Long(m, L) /\ L \in 1 .. FRAC + 1
                 /\ Float!Exp(a) = (Float!Bias + L) - 1
                 /\ x = Spread(m, L)
    BY <1>3, ReadsFields
  <2>2. /\ e = L - 1 /\ ~(e < 0) /\ ~(e >= EXP + FRAC)
        /\ right = (FRAC + 1) - L /\ right \in Nat
    BY <2>1, FloatSizes
  <2>3. m \in Nat  BY ReadsFields
  <2>4. x = m * Two[right]  BY <2>1, <2>2 DEF Spread
  <2> HIDE DEF x, right, e, p
  <2>5. CASE right <= 0
    <3>1. right = 0 /\ -right = 0  BY <2>2, <2>5
    <3>2. p = [int |-> x * Two[0], round |-> FALSE, sticky |-> FALSE]  BY <1>1, <2>2, <2>5, <3>1
    <3>3. x * Two[0] = m  BY <2>3, <2>4, <3>1, TwoIs
    <3> QED  BY <3>2, <3>3 DEF p
  <2>6. CASE ~(right <= 0)
    <3>1. p = [int |-> x \div Two[right], round |-> (x \div Two[right - 1]) % 2 = 1,
               sticky |-> x % Two[right - 1] # 0]
      BY <1>1, <2>2, <2>6
    <3>2. right - 1 \in Nat /\ (right - 1) + 1 = right  BY <2>2, <2>6
    <3> DEFINE h == Two[right - 1]
               w == Two[right]
    <3>3. h \in Nat \ {0} /\ w \in Nat \ {0} /\ w = 2 * h  BY <2>2, <3>2, TwoIs
    <3> HIDE DEF h, w
    <3>4. x = m * w  BY <2>4 DEF w
    <3>5. x \div w = m  BY <2>3, <3>3, <3>4, Multiple
    <3>6. x = (2 * m) * h  BY <2>3, <3>3, <3>4, SMTT(20)
    <3>7. x \div h = 2 * m
      <4> DEFINE y == 2 * m
      <4>1. y \in Nat /\ x = y * h  BY <2>3, <3>6
      <4> HIDE DEF y
      <4>2. x \div h = y  BY <3>3, <4>1, Multiple
      <4> QED  BY <4>2 DEF y
    <3>8. ((x \div h) % 2 = 1) = FALSE  BY <2>3, <3>7
    <3>9. p.int = x \div w /\ p.round = ((x \div h) % 2 = 1)  BY <3>1 DEF h, w
    <3> QED  BY <3>5, <3>8, <3>9 DEF p
  <2> QED  BY <2>5, <2>6
<1> QED  BY <1>2, <1>3

\* CVT.SW of a whole number.
LEMMA ToWordExact ==
  ASSUME NEW a \in Nat, NEW m, Reads(a, m)
  PROVE  Signed(Float!ToWord(a, 0), "SZ_WORD") = Float!Integer(a)
<1> DEFINE p == Float!Parts(a)
           up == CASE 0 = 0 -> p.round /\ (p.sticky \/ p.int % 2 = 1)
                   [] 0 = 1 -> Float!Sign(a) /\ (p.round \/ p.sticky)
                   [] 0 = 2 -> ~Float!Sign(a) /\ (p.round \/ p.sticky)
                   [] OTHER -> FALSE
           r == p.int + (IF up THEN 1 ELSE 0)
           W == Float!WordMod
           T == Float!Top
           neg == Float!Sign(a)
           n == Float!ToWord(a, 0)
<1>1. n = IF neg THEN (-r) % W ELSE r  BY DEF Float!ToWord
<1>2. p.int = m /\ p.round = FALSE  BY PartsExact
<1> HIDE DEF p
<1>3. up = FALSE  BY <1>2
<1> HIDE DEF up
<1>4. m \in Nat /\ m < 2 * Float!One /\ neg \in BOOLEAN /\ Float!Integer(a) = Signum(neg, m)
  BY ReadsFields
<1>5. r = m  BY <1>2, <1>3, <1>4
<1>6. W = 2 * T /\ T \in Nat \ {0} /\ Half["SZ_WORD"] = T /\ Mod("SZ_WORD") = W /\ m < T
  <2>1. W = 2 * T /\ T \in Nat \ {0} /\ T = Float!ExpMod * Float!One  BY FloatSizes
  <2>2. Mod("SZ_WORD") = 2 * Half["SZ_WORD"] /\ Half["SZ_WORD"] \in Nat
    BY SizeAssumption DEF Mod, Size
  <2>3. Mod("SZ_WORD") = W  BY RegisterWord
  <2>4. Half["SZ_WORD"] = T
    <3> HIDE DEF T, W
    <3> QED  BY <2>1, <2>2, <2>3
  <2>5. 4 * Float!One <= Float!ExpMod * Float!One  BY FloatSizes, Products
  <2>6. m < T
    <3> HIDE DEF T
    <3> QED  BY <1>4, <2>1, <2>5, FloatSizes
  <2> QED  BY <2>1, <2>3, <2>4, <2>6
<1>7. Signed(n, "SZ_WORD") = IF n >= T THEN n - W ELSE n  BY <1>6 DEF Signed, Msb
<1> HIDE DEF W, T, neg, n, r
<1>8. CASE ~neg
  <2>1. n = m  BY <1>1, <1>5, <1>8
  <2>2. Signed(n, "SZ_WORD") = m  BY <1>4, <1>6, <1>7, <2>1
  <2> QED  BY <1>4, <1>8, <2>2 DEF Signum, n
<1>9. CASE neg /\ m = 0
  <2>0. m \in Int /\ m <= 0 /\ m >= 0  BY <1>4, <1>9
  <2>1. (-m) % (2 * T) = 0
    <3> DEFINE t == -m
    <3>1. -m = 0 - m  BY <2>0
    <3>2. 0 - m = 0  BY <2>0
    <3>3. t = 0  BY <3>1, <3>2
    <3> HIDE DEF t
    <3>4. t \in Int /\ -2 * T <= t /\ t < 4 * T /\ t >= 0 /\ t < 2 * T  BY <1>6, <3>3
    <3>5. t % (2 * T) = t  BY <1>6, <3>4, ModOnce
    <3> QED  BY <3>3, <3>5 DEF t
  <2>2. n = 0  BY <1>1, <1>5, <1>6, <1>9, <2>1
  <2>3. Signed(n, "SZ_WORD") = 0  BY <1>6, <1>7, <2>2
  <2>4. Signum(neg, m) = 0  BY <1>4, <2>0, SignumZero
  <2> QED  BY <1>4, <2>3, <2>4 DEF n
<1>10. CASE neg /\ m # 0
  <2> DEFINE t == -m
  <2>1. t \in Int /\ t < 0 /\ -2 * T <= t /\ t < 4 * T  BY <1>4, <1>6, <1>10
  <2>2. t % (2 * T) = t + 2 * T
    <3> HIDE DEF t
    <3> QED  BY <1>6, <2>1, ModOnce
  <2>3. n = t + W  BY <1>1, <1>5, <1>6, <1>10, <2>2
  <2>4. n >= T /\ n - W = t  BY <1>4, <1>6, <2>3
  <2>5. Signum(neg, m) = t  BY <1>10 DEF Signum
  <2> QED  BY <1>4, <1>7, <2>4, <2>5 DEF n
<1> QED  BY <1>4, <1>8, <1>9, <1>10

\* A number spread further: its length grows with it, its significand stays.
LEMMA SpreadFurther ==
  ASSUME NEW m \in Nat, NEW L, Long(m, L), NEW k \in Nat, m * Two[k] < 2 * Float!One
  PROVE  /\ Long(m * Two[k], L + k) /\ L + k \in 1 .. FRAC + 1
         /\ Spread(m * Two[k], L + k) = Spread(m, L)
<1> DEFINE w == m * Two[k]
           N == L + k
<1>1. L \in 1 .. FRAC + 1 /\ L \in Nat \ {0} /\ FRAC \in Nat  BY SpreadRange, FloatSizes DEF Long
<1>2. w \in Nat \ {0} /\ Two[N - 1] <= w /\ w < Two[N]  BY <1>1, Longer DEF Long
<1>3. N \in Nat \ {0} /\ N - 1 \in Nat /\ FRAC + 1 \in Nat  BY <1>1
<1>4. Two[FRAC + 1] = 2 * Float!One /\ Float!One \in Nat  BY <1>1, FloatSizes, TwoIs
<1> HIDE DEF w, N
<1>5. N <= FRAC + 1
  <2>1. FRAC + 1 <= N - 1 => Two[FRAC + 1] <= Two[N - 1]  BY <1>3, TwoGrows
  <2>2. Two[N - 1] \in Nat /\ w < 2 * Float!One  BY <1>3, TwoIs DEF w
  <2> QED  BY <1>1, <1>2, <1>3, <1>4, <2>1, <2>2
<1>6. Long(w, N)  BY <1>2, <1>3, <1>5 DEF Long
<1> DEFINE j == (FRAC + 1) - N
<1>7. j \in Nat /\ k + j = (FRAC + 1) - L  BY <1>1, <1>3, <1>5 DEF N
<1> HIDE DEF j
<1>8. Two[k + j] = Two[k] * Two[j] /\ Two[k] \in Nat /\ Two[j] \in Nat  BY <1>7, TwoSum, TwoIs
<1>9. w * Two[j] = m * Two[k + j]
  <2> DEFINE A == Two[k]
             B == Two[j]
  <2>1. A \in Nat /\ B \in Nat /\ Two[k + j] = A * B  BY <1>8
  <2> HIDE DEF A, B
  <2>2. (m * A) * B = m * (A * B)  BY <2>1, SMTT(20)
  <2> QED  BY <2>1, <2>2 DEF A, B, w
<1>10. Spread(w, N) = Spread(m, L)  BY <1>7, <1>9 DEF Spread, j
<1>11. N \in 1 .. FRAC + 1  BY <1>3, <1>5
<1> QED  BY <1>6, <1>10, <1>11 DEF w, N

\* SCLF of a whole number by a count that is not negative.
LEMMA ScaleExact ==
  ASSUME NEW a \in Nat, NEW b \in Nat, NEW m, Reads(b, m), Float!ScaleCount(a) >= 0,
         Abs(Float!Integer(b) * Two[Float!ScaleCount(a)]) < 2 * Float!One
  PROVE  Shows(Float!Scale(a, b), Float!Integer(b) * Two[Float!ScaleCount(a)])
<1> DEFINE k == Float!ScaleCount(a)
           K == Two[k]
           e == Float!Exp(b) + k
           neg == Float!Sign(b)
           w == m * K
           r == Float!Scale(a, b)
           n == Float!Integer(b)
<1>1. r = IF Float!Magnitude(b) = 0 \/ e <= 0 THEN 0
          ELSE IF e >= Float!ExpMod - 1 THEN Float!Infinity(neg)
          ELSE Float!Pack(neg, e, Float!Frac(b))
  BY DEF Float!Scale
<1>2. k \in Nat  BY CountInt
<1>3. m \in Nat /\ m < 2 * Float!One /\ neg \in BOOLEAN /\ n = Signum(neg, m)  BY ReadsFields
<1> HIDE DEF k, r, neg, n
<1>4. K \in Nat  BY <1>2, TwoIs
<1>5. n * K = Signum(neg, w) /\ w \in Nat
  <2> HIDE DEF K
  <2>1. m * K \in Nat /\ Signum(neg, m) * Signum(FALSE, K) = Signum(neg # FALSE, m * K)
    BY <1>3, <1>4, SignumTimes
  <2>2. Signum(FALSE, K) = K /\ (neg # FALSE) = neg  BY <1>3 DEF Signum
  <2> QED  BY <1>3, <2>1, <2>2
<1>6. w < 2 * Float!One
  <2>1. Abs(n * K) < 2 * Float!One  BY DEF n, K, k
  <2>2. Abs(Signum(neg, w)) = w  BY <1>3, <1>5, AbsSignum
  <2> QED  BY <1>5, <2>1, <2>2
<1>7. CASE m = 0
  <2>1. r = 0  BY <1>1, <1>7, ReadsFields
  <2>2. w = 0
    <3> HIDE DEF K
    <3> QED  BY <1>4, <1>7
  <2>3. Signum(neg, w) = 0  BY <1>3, <2>2, SignumZero
  <2> QED  BY <1>5, <2>1, <2>3, ZeroShows DEF r, n, K, k
<1>8. CASE m # 0
  <2>1. PICK L : /\ Long(m, L) /\ L \in 1 .. FRAC + 1 /\ Float!Exp(b) = (Float!Bias + L) - 1
                 /\ Float!Frac(b) = Spread(m, L) - Float!One
    BY <1>8, ReadsFields
  <2> DEFINE N == L + k
  <2>2. Long(w, N) /\ N \in 1 .. FRAC + 1 /\ Spread(w, N) = Spread(m, L)
    BY <1>2, <1>3, <1>6, <2>1, SpreadFurther
  <2>3. e = (Float!Bias + N) - 1  BY <1>2, <2>1, FloatSizes
  <2> HIDE DEF N, e, K
  <2>4. e \in 1 .. Float!ExpMod - 2 /\ ~(e <= 0) /\ ~(e >= Float!ExpMod - 1)
    BY <2>2, <2>3, WholeExponent, FloatSizes
  <2>5. r = Float!Pack(neg, e, Float!Frac(b))  BY <1>1, <1>8, <2>4, ReadsFields
  <2>6. r = Written(neg, w, N)  BY <2>1, <2>2, <2>3, <2>5 DEF Written
  <2>7. Shows(r, Signum(neg, w))  BY <1>3, <1>5, <2>2, <2>6, WrittenShows
  <2> QED  BY <1>5, <2>7 DEF r, n, K, k
<1> QED  BY <1>3, <1>7, <1>8

\* The factors of a product of products.
LEMMA Regroup ==
  ASSUME NEW x \in Nat, NEW y \in Nat, NEW p \in Nat, NEW q \in Nat
  PROVE  (x * p) * (y * q) = (x * y) * (p * q)
<1>1. x * p \in Nat /\ y * q \in Nat /\ p * q \in Nat /\ x * y \in Nat  BY SMTT(20)
<1>2. (x * p) * (y * q) = x * (p * (y * q))  BY <1>1, SMTT(20)
<1>3. p * (y * q) = y * (p * q)  BY <1>1, SMTT(20)
<1>4. x * (y * (p * q)) = (x * y) * (p * q)  BY <1>1, SMTT(20)
<1> QED  BY <1>2, <1>3, <1>4

\* The product of two significands is as long as their sum allows: one bit decides.
LEMMA SignificandProduct ==
  ASSUME NEW x \in Float!One .. 2 * Float!One - 1, NEW y \in Float!One .. 2 * Float!One - 1
  PROVE  LET O == Float!One
             high == x * y >= 2 * O * O
         IN  /\ x * y \in Nat
             /\ high => Two[2 * FRAC + 1] <= x * y /\ x * y < Two[2 * FRAC + 2]
             /\ ~high => Two[2 * FRAC] <= x * y /\ x * y < Two[2 * FRAC + 1]
<1> DEFINE O == Float!One
           W == O * O
           p == x * y
<1>1. O \in Nat \ {0} /\ Two[FRAC] = O /\ FRAC \in Nat  BY FloatSizes
<1>2. Two[2 * FRAC] = W /\ Two[2 * FRAC + 1] = 2 * W /\ Two[2 * FRAC + 2] = 4 * W
  <2>1. FRAC + FRAC = 2 * FRAC /\ 2 * FRAC \in Nat /\ 2 * FRAC + 1 \in Nat
        /\ (2 * FRAC + 1) + 1 = 2 * FRAC + 2
    BY <1>1
  <2>2. Two[FRAC + FRAC] = W  BY <1>1, TwoSum
  <2>3. Two[2 * FRAC + 1] = 2 * Two[2 * FRAC]
        /\ Two[(2 * FRAC + 1) + 1] = 2 * Two[2 * FRAC + 1]
        /\ Two[2 * FRAC] \in Nat
    BY <2>1, TwoIs
  <2> HIDE DEF W
  <2> QED  BY <2>1, <2>2, <2>3
<1> HIDE DEF O
<1>3. x \in Nat /\ y \in Nat /\ O <= x /\ O <= y /\ x < 2 * O /\ y < 2 * O  BY <1>1 DEF O
<1>4. p \in Nat /\ W \in Nat /\ x * O \in Nat  BY <1>1, <1>3, SMTT(20)
<1>5. W <= p
  <2>1. O * O <= x * O  BY <1>1, <1>3, Products
  <2>2. O * x <= y * x /\ O * x = x * O /\ y * x = x * y  BY <1>1, <1>3, Products, SMTT(20)
  <2> HIDE DEF W, p
  <2>3. W <= x * O /\ x * O <= p  BY <2>1, <2>2 DEF W, p
  <2> QED  BY <1>4, <2>3
<1>6. p < 4 * W
  <2> DEFINE D == 2 * O
  <2>1. D \in Nat /\ x < D /\ y < D  BY <1>1, <1>3
  <2>2. D * D = 4 * W  BY <1>1, SMTT(20)
  <2> HIDE DEF D
  <2>3. x * y + y <= D * y /\ D * y = y * D /\ y * D + D <= D * D /\ y * D \in Nat /\ D * D \in Nat
    BY <1>3, <2>1, Products, SMTT(20)
  <2>4. p + y <= y * D /\ y * D + D <= 4 * W  BY <2>2, <2>3 DEF p
  <2> HIDE DEF p, W
  <2> QED  BY <1>3, <1>4, <2>1, <2>3, <2>4
<1>7. 2 * O * O = 2 * W  BY <1>1, SMTT(20)
<1> HIDE DEF W, p
<1>8. /\ p >= 2 * W => Two[2 * FRAC + 1] <= p /\ p < Two[2 * FRAC + 2]
      /\ ~(p >= 2 * W) => Two[2 * FRAC] <= p /\ p < Two[2 * FRAC + 1]
  BY <1>2, <1>4, <1>5, <1>6
<1> QED  BY <1>4, <1>7, <1>8 DEF p, O

\* The product of two numbers spread is their product spread, further by what is dropped.
LEMMA ProductSpread ==
  ASSUME NEW m \in Nat, NEW n \in Nat, NEW j, Long(m, j), NEW k, Long(n, k),
         NEW L, Long(m * n, L)
  PROVE  LET p    == Spread(m, j) * Spread(n, k)
             drop == IF p >= 2 * Float!One * Float!One THEN FRAC + 1 ELSE FRAC
         IN  p = Spread(m * n, L) * Two[drop] /\ L + FRAC + 1 = j + k + drop
<1> DEFINE w == m * n
           x == Spread(m, j)
           y == Spread(n, k)
           p == x * y
           high == p >= 2 * Float!One * Float!One
           drop == IF high THEN FRAC + 1 ELSE FRAC
           A == (FRAC + 1) - j
           B == (FRAC + 1) - k
           C == (FRAC + 1) - L
           N == L + (A + B)
<1>1. /\ j \in 1 .. FRAC + 1 /\ k \in 1 .. FRAC + 1 /\ L \in 1 .. FRAC + 1 /\ FRAC \in Nat
      /\ FRAC >= 1
  BY FloatSizes DEF Long
<1>2. A \in Nat /\ B \in Nat /\ C \in Nat /\ A + B \in Nat /\ N \in Nat \ {0} /\ L \in Nat \ {0}
  BY <1>1
<1>3. w \in Nat  BY SMTT(20)
<1>4. x \in Float!One .. 2 * Float!One - 1 /\ y \in Float!One .. 2 * Float!One - 1
  BY SpreadRange
<1>5. p = w * Two[A + B]
  <2>1. Two[A + B] = Two[A] * Two[B] /\ Two[A] \in Nat /\ Two[B] \in Nat  BY <1>2, TwoSum, TwoIs
  <2>2. x = m * Two[A] /\ y = n * Two[B]  BY DEF Spread
  <2> HIDE DEF A, B, x, y
  <2>3. (m * Two[A]) * (n * Two[B]) = (m * n) * (Two[A] * Two[B])  BY <2>1, Regroup
  <2> QED  BY <2>1, <2>2, <2>3
<1> HIDE DEF w, x, y
<1>6. /\ p \in Nat
      /\ high => Two[2 * FRAC + 1] <= p /\ p < Two[2 * FRAC + 2]
      /\ ~high => Two[2 * FRAC] <= p /\ p < Two[2 * FRAC + 1]
  BY <1>4, SignificandProduct
<1>7. Two[N - 1] <= p /\ p < Two[N]
  <2> DEFINE i == A + B
  <2>1. i \in Nat /\ Two[L - 1] <= w /\ w < Two[L]  BY <1>2 DEF Long, w
  <2> HIDE DEF i
  <2>2. Two[(L + i) - 1] <= w * Two[i] /\ w * Two[i] < Two[L + i]  BY <1>2, <1>3, <2>1, Longer
  <2> QED  BY <1>5, <2>2 DEF i
<1> HIDE DEF p, N, high
<1>8. N = (FRAC + 1) + drop
  <2>1. CASE high
    <3> DEFINE M == 2 * FRAC + 2
    <3>1. M \in Nat \ {0} /\ M - 1 = 2 * FRAC + 1  BY <1>1
    <3>2. Two[M - 1] <= p /\ p < Two[M]  BY <1>6, <2>1, <3>1
    <3> HIDE DEF M
    <3>3. N = M  BY <1>2, <1>6, <1>7, <3>1, <3>2, LengthOnce
    <3> QED  BY <1>1, <2>1, <3>3 DEF M
  <2>2. CASE ~high
    <3> DEFINE M == 2 * FRAC + 1
    <3>1. M \in Nat \ {0} /\ M - 1 = 2 * FRAC  BY <1>1
    <3>2. Two[M - 1] <= p /\ p < Two[M]  BY <1>6, <2>2, <3>1
    <3> HIDE DEF M
    <3>3. N = M  BY <1>2, <1>6, <1>7, <3>1, <3>2, LengthOnce
    <3> QED  BY <1>1, <2>2, <3>3 DEF M
  <2> QED  BY <2>1, <2>2
<1>9. drop \in Nat  BY <1>1
<1> HIDE DEF drop
<1>10. A + B = C + drop /\ L + FRAC + 1 = j + k + drop  BY <1>1, <1>8, <1>9 DEF N
<1> HIDE DEF A, B, C
<1>11. p = (w * Two[C]) * Two[drop]
  <2>1. Two[C + drop] = Two[C] * Two[drop] /\ Two[C] \in Nat /\ Two[drop] \in Nat
    BY <1>2, <1>9, TwoSum, TwoIs
  <2> DEFINE c == Two[C]
             d == Two[drop]
  <2> HIDE DEF c, d
  <2>2. (w * c) * d = w * (c * d)  BY <1>3, <2>1, SMTT(20) DEF c, d
  <2> QED  BY <1>5, <1>10, <2>1, <2>2 DEF c, d
<1>12. Spread(w, L) = w * Two[C]  BY DEF Spread, C
<1> QED  BY <1>10, <1>11, <1>12 DEF w, x, y, p, drop, high

\* MULF of whole numbers with a product that fits.
LEMMA MultiplyExact ==
  ASSUME NEW a \in Nat, NEW b \in Nat, NEW m, Reads(a, m), NEW n, Reads(b, n),
         Abs(Float!Integer(b) * Float!Integer(a)) < 2 * Float!One
  PROVE  Shows(Float!Multiply(a, b), Float!Integer(b) * Float!Integer(a))
<1> DEFINE sign == Float!Sign(a) # Float!Sign(b)
           O == Float!One
           p == (O + Float!Frac(a)) * (O + Float!Frac(b))
           drop == IF p >= 2 * O * O THEN FRAC + 1 ELSE FRAC
           f == (p \div Two[drop]) + (IF Float!RoundUp(p, drop) THEN 1 ELSE 0)
           e == Float!Exp(a) + Float!Exp(b) - Float!Bias + drop - FRAC
           w == m * n
           x == Float!Integer(a)
           y == Float!Integer(b)
           r == Float!Multiply(a, b)
<1>1. r = IF Float!Magnitude(a) = 0 \/ Float!Magnitude(b) = 0 THEN 0
          ELSE Float!Limited(sign, e % (2 * Float!ExpMod), f % O)
  BY FloatTwo DEF Float!Multiply
<1>2. /\ m \in Nat /\ Float!Sign(a) \in BOOLEAN /\ x = Signum(Float!Sign(a), m)
      /\ n \in Nat /\ Float!Sign(b) \in BOOLEAN /\ y = Signum(Float!Sign(b), n)
  BY ReadsFields
<1>3. sign \in BOOLEAN  BY <1>2
<1> HIDE DEF x, y, r
<1>4. w \in Nat /\ y * x = Signum(sign, w)
  <2>1. /\ n * m \in Nat
        /\ Signum(Float!Sign(b), n) * Signum(Float!Sign(a), m)
             = Signum(Float!Sign(b) # Float!Sign(a), n * m)
    BY <1>2, SignumTimes
  <2>2. n * m = w  BY <1>2, SMTT(20)
  <2>3. (Float!Sign(b) # Float!Sign(a)) = sign  BY <1>2
  <2> HIDE DEF sign, w
  <2> QED  BY <1>2, <2>1, <2>2, <2>3
<1> HIDE DEF sign
<1>5. w < 2 * O
  <2>1. Abs(y * x) < 2 * O  BY DEF x, y
  <2> HIDE DEF w, O
  <2>2. Abs(Signum(sign, w)) = w  BY <1>3, <1>4, AbsSignum
  <2> QED  BY <1>4, <2>1, <2>2
<1>6. CASE m = 0 \/ n = 0
  <2>1. Float!Magnitude(a) = 0 \/ Float!Magnitude(b) = 0  BY <1>6, ReadsFields
  <2>2. r = 0  BY <1>1, <2>1
  <2>3. w = 0  BY <1>2, <1>6
  <2> HIDE DEF w
  <2>4. Signum(sign, w) = 0  BY <1>3, <2>3, SignumZero
  <2> QED  BY <1>4, <2>2, <2>4, ZeroShows DEF r, x, y
<1>7. CASE ~(m = 0 \/ n = 0)
  <2>1. PICK j : /\ Long(m, j) /\ j \in 1 .. FRAC + 1 /\ Float!Exp(a) = (Float!Bias + j) - 1
                 /\ O + Float!Frac(a) = Spread(m, j)
    BY <1>7, ReadsFields
  <2>2. PICK k : /\ Long(n, k) /\ k \in 1 .. FRAC + 1 /\ Float!Exp(b) = (Float!Bias + k) - 1
                 /\ O + Float!Frac(b) = Spread(n, k)
    BY <1>7, ReadsFields
  <2>3. Float!Magnitude(a) # 0 /\ Float!Magnitude(b) # 0  BY <1>7, ReadsFields
  <2>4. w # 0
    <3>1. m \in Nat \ {0} /\ n \in Nat \ {0}  BY <1>2, <1>7
    <3> QED  BY <3>1, SMTT(20)
  <2>5. PICK L : Long(w, L)
    <3> HIDE DEF w
    <3> QED  BY <1>4, <1>5, <2>4, LongExists
  <2> DEFINE S == Spread(w, L)
             E == (Float!Bias + L) - 1
  <2>6. p = S * Two[drop] /\ L + FRAC + 1 = j + k + drop
    BY <1>2, <2>1, <2>2, <2>5, ProductSpread
  <2>7. drop \in Nat \ {0}  BY FloatSizes
  <2>8. /\ S \in Nat /\ S % O = S - O /\ E % (2 * Float!ExpMod) = E
        /\ Float!Limited(sign, E, S - O) = Written(sign, w, L)
    <3> HIDE DEF w
    <3> QED  BY <1>3, <1>4, <2>5, WrittenFields
  <2>9. e = E
    <3>1. L \in Nat /\ Float!Bias \in Nat /\ FRAC \in Nat  BY <2>5, FloatSizes DEF Long
    <3> HIDE DEF drop
    <3> QED  BY <2>1, <2>2, <2>6, <2>7, <3>1
  <2> HIDE DEF S, E, w, p, drop, e
  <2>10. p \div Two[drop] = S /\ Float!RoundUp(p, drop) = FALSE  BY <2>6, <2>7, <2>8, RoundExact
  <2>11. f = S  BY <2>8, <2>10
  <2> HIDE DEF f
  <2>12. r = Written(sign, w, L)  BY <1>1, <2>3, <2>8, <2>9, <2>11
  <2>13. Shows(r, Signum(sign, w))  BY <1>3, <1>4, <2>5, <2>12, WrittenShows
  <2> QED  BY <1>4, <2>13 DEF r, x, y
<1> QED  BY <1>6, <1>7

\* The sign and the magnitude of a quotient without a remainder.
LEMMA QuotientSigned ==
  ASSUME NEW s \in BOOLEAN, NEW t \in BOOLEAN, NEW m \in Nat \ {0}, NEW n \in Nat,
         NEW q \in Int, q * Signum(s, m) = Signum(t, n)
  PROVE  \E u \in Nat : u * m = n /\ q = Signum(s # t, u)
<1>1. ASSUME NEW u \in Int, u * m = n
      PROVE  u \in Nat
  <2>1. u < 0 => u * m < 0  BY SMTT(20)
  <2> QED  BY <1>1, <2>1
<1>2. q * (-m) = -(q * m) /\ (-q) * m = -(q * m) /\ -(-q) = q /\ q * m \in Int /\ -q \in Int
  BY SMTT(20)
<1>3. CASE s /\ t
  <2>1. Signum(s, m) = -m /\ Signum(t, n) = -n /\ Signum(s # t, q) = q  BY <1>3, Zenon DEF Signum
  <2>2. q * m = n  BY <1>2, <2>1
  <2> QED  BY <1>1, <2>1, <2>2
<1>4. CASE s /\ ~t
  <2>1. Signum(s, m) = -m /\ Signum(t, n) = n /\ Signum(s # t, -q) = -(-q)
    BY <1>4, Zenon DEF Signum
  <2>2. (-q) * m = n  BY <1>2, <2>1
  <2> QED  BY <1>1, <1>2, <2>1, <2>2
<1>5. CASE ~s /\ t
  <2>1. Signum(s, m) = m /\ Signum(t, n) = -n /\ Signum(s # t, -q) = -(-q)
    BY <1>5, Zenon DEF Signum
  <2>2. (-q) * m = n  BY <1>2, <2>1
  <2> QED  BY <1>1, <1>2, <2>1, <2>2
<1>6. CASE ~s /\ ~t
  <2>1. Signum(s, m) = m /\ Signum(t, n) = n /\ Signum(s # t, q) = q  BY <1>6, Zenon DEF Signum
  <2> QED  BY <1>1, <2>1
<1> QED  BY <1>3, <1>4, <1>5, <1>6

\* The significand of a quotient without a remainder is that of the quotient, or twice it.
LEMMA QuotientSpread ==
  ASSUME NEW m \in Nat, NEW j, Long(m, j), NEW u \in Nat, NEW L, Long(u, L),
         NEW k, Long(u * m, k)
  PROVE  LET d == (Spread(u * m, k) * 2 * Float!One) \div Spread(m, j)
             S == Spread(u, L)
         IN  \/ d = 2 * S /\ L + j = k + 1
             \/ d = S /\ L + j = k
<1> DEFINE S == Spread(u, L)
           x == Spread(m, j)
           y == Spread(u * m, k)
           O == Float!One
           drop == IF S * x >= 2 * Float!One * Float!One THEN FRAC + 1 ELSE FRAC
           num == y * 2 * O
<1>1. S * x = y * Two[drop] /\ k + FRAC + 1 = L + j + drop  BY ProductSpread
<1>2. x \in O .. 2 * O - 1 /\ S \in Nat /\ O \in Nat \ {0}  BY SpreadRange, FloatSizes
<1>3. y \in Nat
  <2>1. u * m \in Nat  BY SMTT(20)
  <2> QED  BY <2>1, SpreadRange
<1>4. Two[FRAC + 1] = 2 * O /\ Two[FRAC] = O /\ FRAC \in Nat  BY FloatSizes, TwoIs
<1>5. k \in Int /\ L \in Int /\ j \in Int  BY DEF Long
<1>6. drop = FRAC + 1 \/ drop = FRAC  OBVIOUS
<1> HIDE DEF S, x, y, O, drop
<1>7. x \in Nat \ {0}  BY <1>2
<1>8. CASE drop = FRAC + 1
  <2>1. y * 2 * O = y * (2 * O)  BY <1>2, <1>3, SMTT(20)
  <2>2. num = S * x  BY <1>1, <1>4, <1>8, <2>1
  <2> HIDE DEF num
  <2>3. num \div x = S  BY <1>2, <1>7, <2>2, Multiple
  <2>4. L + j = k  BY <1>1, <1>4, <1>5, <1>8
  <2> QED  BY <2>3, <2>4 DEF num, S, x, y, O
<1>9. CASE drop = FRAC
  <2>1. y * 2 * O = 2 * (y * O)  BY <1>2, <1>3, SMTT(20)
  <2>2. 2 * (S * x) = (2 * S) * x  BY <1>2, <1>7, SMTT(20)
  <2> DEFINE D == 2 * S
  <2>3. num = D * x /\ D \in Nat  BY <1>1, <1>2, <1>4, <1>9, <2>1, <2>2
  <2> HIDE DEF num, D
  <2>4. num \div x = D  BY <1>7, <2>3, Multiple
  <2>5. L + j = k + 1  BY <1>1, <1>4, <1>5, <1>9
  <2> QED  BY <2>4, <2>5 DEF num, S, x, y, O, D
<1> QED  BY <1>6, <1>8, <1>9

\* DIVF of whole numbers without a remainder.
LEMMA DivideExact ==
  ASSUME NEW a \in Nat, NEW b \in Nat, NEW m, Reads(a, m), NEW n, Reads(b, n),
         Float!Integer(a) # 0, NEW q \in Int, q * Float!Integer(a) = Float!Integer(b),
         Abs(q) < 2 * Float!One
  PROVE  Shows(Float!Divide(a, b), q)
<1> DEFINE sign == Float!Sign(a) # Float!Sign(b)
           O == Float!One
           d == ((O + Float!Frac(b)) * 2 * O) \div (O + Float!Frac(a))
           e == (Float!Exp(b) - Float!Exp(a) + Float!Bias) % (2 * Float!ExpMod)
           up == d % 2 = 1 /\ (d \div 2) % 2 = 1
           r == Float!Divide(a, b)
<1>1. r = IF Float!Magnitude(b) = 0 THEN 0
          ELSE IF Float!Magnitude(a) = 0 THEN Float!Infinity(sign)
          ELSE IF d >= 2 * O
               THEN Float!Limited(sign, e, ((d \div 2) + (IF up THEN 1 ELSE 0)) % O)
          ELSE Float!Limited(sign, IF e > 0 THEN e - 1 ELSE e, d % O)
  BY DEF Float!Divide
<1>2. /\ m \in Nat /\ Float!Sign(a) \in BOOLEAN /\ Float!Integer(a) = Signum(Float!Sign(a), m)
      /\ n \in Nat /\ Float!Sign(b) \in BOOLEAN /\ Float!Integer(b) = Signum(Float!Sign(b), n)
  BY ReadsFields
<1>3. sign \in BOOLEAN  BY <1>2
<1>4. m # 0
  <2> SUFFICES ASSUME m = 0
               PROVE  FALSE
    OBVIOUS
  <2>1. Signum(Float!Sign(a), m) = 0  BY <1>2, SignumZero
  <2> QED  BY <1>2, <2>1
<1>5. PICK u \in Nat : u * m = n /\ q = Signum(sign, u)
  <2>1. m \in Nat \ {0}  BY <1>2, <1>4
  <2>2. q * Signum(Float!Sign(a), m) = Signum(Float!Sign(b), n)  BY <1>2
  <2> QED  BY <1>2, <2>1, <2>2, QuotientSigned
<1> HIDE DEF r, sign
<1>6. u < 2 * O  BY <1>3, <1>5, AbsSignum
<1>7. CASE n = 0
  <2>1. r = 0  BY <1>1, <1>7, ReadsFields
  <2>2. u = 0
    <3>1. u # 0 => u * m # 0  BY <1>2, <1>4, SMTT(20)
    <3> QED  BY <1>5, <1>7, <3>1
  <2>3. Signum(sign, u) = 0  BY <1>3, <2>2, SignumZero
  <2> QED  BY <1>5, <2>1, <2>3, ZeroShows DEF r
<1>8. CASE n # 0
  <2>1. PICK j : /\ Long(m, j) /\ j \in 1 .. FRAC + 1 /\ Float!Exp(a) = (Float!Bias + j) - 1
                 /\ O + Float!Frac(a) = Spread(m, j)
    BY <1>4, ReadsFields
  <2>2. PICK k : /\ Long(n, k) /\ k \in 1 .. FRAC + 1 /\ Float!Exp(b) = (Float!Bias + k) - 1
                 /\ O + Float!Frac(b) = Spread(n, k)
    BY <1>8, ReadsFields
  <2>3. Float!Magnitude(a) # 0 /\ Float!Magnitude(b) # 0  BY <1>4, <1>8, ReadsFields
  <2>4. u # 0
    <3>1. u = 0 => u * m = 0  BY <1>2
    <3> QED  BY <1>5, <1>8, <3>1
  <2>5. PICK L : Long(u, L)  BY <1>6, <2>4, LongExists
  <2> DEFINE S == Spread(u, L)
             E == (Float!Bias + L) - 1
  <2>6. (d = 2 * S /\ L + j = k + 1) \/ (d = S /\ L + j = k)
    <3>1. Long(u * m, k) /\ Spread(u * m, k) = Spread(n, k)  BY <1>5, <2>2
    <3>2. \/ (Spread(u * m, k) * 2 * O) \div Spread(m, j) = 2 * S /\ L + j = k + 1
          \/ (Spread(u * m, k) * 2 * O) \div Spread(m, j) = S /\ L + j = k
      BY <1>2, <2>1, <2>5, <3>1, QuotientSpread
    <3> HIDE DEF S
    <3> QED  BY <2>1, <2>2, <3>1, <3>2
  <2>7. /\ S % O = S - O /\ E \in Nat \ {0}
        /\ E % (2 * Float!ExpMod) = E /\ (E + 1) % (2 * Float!ExpMod) = E + 1
        /\ Float!Limited(sign, E, S - O) = Written(sign, u, L)
    BY <1>3, <2>5, WrittenFields
  <2>8. S \in O .. 2 * O - 1 /\ S \in Nat /\ O \in Nat  BY <2>5, SpreadRange, FloatSizes
  <2>9. L \in Int /\ Float!Bias \in Nat  BY <2>5, FloatSizes DEF Long
  <2>10. /\ L + j = k + 1 => Float!Exp(b) - Float!Exp(a) + Float!Bias = E
         /\ L + j = k => Float!Exp(b) - Float!Exp(a) + Float!Bias = E + 1
    BY <2>1, <2>2, <2>9
  <2>11. /\ L + j = k + 1 => e = E
         /\ L + j = k => e = E + 1
    <3> HIDE DEF E
    <3> QED  BY <2>7, <2>10
  <2> HIDE DEF S, E, d, e
  <2>12. r = Written(sign, u, L)
    <3>1. CASE d = 2 * S /\ L + j = k + 1
      <4>1. d >= 2 * O /\ d \div 2 = S  BY <2>8, <3>1
      <4>2. up = FALSE  BY <2>8, <3>1
      <4> HIDE DEF up
      <4>3. (d \div 2) + (IF up THEN 1 ELSE 0) = S  BY <2>8, <4>1, <4>2
      <4> QED  BY <1>1, <2>3, <2>7, <2>11, <3>1, <4>1, <4>3
    <3>2. CASE d = S /\ L + j = k
      <4>1. ~(d >= 2 * O)  BY <2>8, <3>2
      <4>2. (IF e > 0 THEN e - 1 ELSE e) = E  BY <2>7, <2>11, <3>2
      <4> QED  BY <1>1, <2>3, <2>7, <3>2, <4>1, <4>2
    <3> QED  BY <2>6, <3>1, <3>2
  <2>13. Shows(r, Signum(sign, u))  BY <1>3, <2>5, <2>12, WrittenShows
  <2> QED  BY <1>5, <2>13 DEF r
<1> QED  BY <1>7, <1>8

\* The ranges of the parts of a whole number.
LEMMA PartedRange ==
  ASSUME NEW m, NEW e, NEW S, Parted(m, e, S)
  PROVE  /\ m \in Nat /\ m < 2 * Float!One
         /\ e \in 0 .. Float!ExpMod - 2 /\ S \in 0 .. 2 * Float!One - 1
         /\ e = 0 => S = 0 /\ m = 0
         /\ e # 0 => S >= Float!One /\ m # 0
         /\ m = 0 => e = 0 /\ S = 0
         /\ m # 0 => \E L : /\ Long(m, L) /\ L \in 1 .. FRAC + 1
                            /\ e = (Float!Bias + L) - 1 /\ S = Spread(m, L)
<1>1. m \in Nat /\ m < 2 * Float!One  BY DEF Parted
<1>2. CASE m = 0 /\ e = 0 /\ S = 0
  BY <1>1, <1>2, FloatSizes
<1>3. ASSUME NEW L, Long(m, L), e = (Float!Bias + L) - 1, S = Spread(m, L)
      PROVE  /\ m # 0 /\ L \in 1 .. FRAC + 1
             /\ e \in 1 .. Float!ExpMod - 2 /\ S \in Float!One .. 2 * Float!One - 1
  BY <1>1, <1>3, SpreadRange, WholeExponent DEF Long
<1>4. CASE \E L : Long(m, L) /\ e = (Float!Bias + L) - 1 /\ S = Spread(m, L)
  <2>1. PICK L : Long(m, L) /\ e = (Float!Bias + L) - 1 /\ S = Spread(m, L)  BY <1>4
  <2>2. /\ m # 0 /\ L \in 1 .. FRAC + 1
        /\ e \in 1 .. Float!ExpMod - 2 /\ S \in Float!One .. 2 * Float!One - 1
    BY <1>3, <2>1
  <2>3. e \in 0 .. Float!ExpMod - 2 /\ e # 0 /\ S \in 0 .. 2 * Float!One - 1 /\ S >= Float!One
    BY <2>2, FloatSizes
  <2> QED  BY <1>1, <2>1, <2>2, <2>3
<1> QED  BY <1>2, <1>4 DEF Parted

\* A sum of whole numbers, aligned like the larger of them, M, with L bits, is made the float
\* of that sum: a carry leaves an even number.
LEMMA NormalizedExact ==
  ASSUME NEW sign \in BOOLEAN, NEW L \in 1 .. FRAC + 1, NEW x \in Nat \ {0},
         x < 2 * Float!One, x < Two[L + 1]
  PROVE  Shows(Float!Normalized(sign, (Float!Bias + L) - 1, x * Two[(FRAC + 1) - L]),
               Signum(sign, x))
<1> DEFINE O == Float!One
           e == (Float!Bias + L) - 1
           i == (FRAC + 1) - L
           sum == x * Two[i]
           n == FRAC + 2 - Float!BitLength(sum)
           f == IF n = 0
                THEN (sum \div 2) + (IF sum % 2 = 1 /\ (sum \div 2) % 2 = 1 THEN 1 ELSE 0)
                ELSE (sum * Two[n - 1]) % O
           z == IF n > 1 /\ n > e THEN 0 ELSE (e + 1 - n) % Float!ExpMod
           r == Float!Normalized(sign, e, sum)
<1>1. r = IF z = 0 THEN 0 ELSE Float!Pack(sign, z, f % O)
  BY FloatTwo DEF Float!Normalized
<1>2. PICK K : Long(x, K)  BY LongExists
<1>3. K \in 1 .. FRAC + 1 /\ K \in Nat \ {0} /\ L \in Nat \ {0} /\ FRAC \in Nat
      /\ Float!Bias \in Nat
  BY <1>2, FloatSizes DEF Long
<1>4. K <= L + 1
  <2>1. L + 1 \in Nat /\ K - 1 \in Nat  BY <1>3
  <2>2. L + 1 <= K - 1 => Two[L + 1] <= Two[K - 1]  BY <2>1, TwoGrows
  <2>3. Two[L + 1] \in Nat /\ Two[K - 1] \in Nat /\ Two[K - 1] <= x
    BY <1>2, <2>1, TwoIs DEF Long
  <2> QED  BY <1>3, <2>1, <2>2, <2>3
<1>5. i \in Nat /\ K + i \in 1 .. 2 * FRAC + EXP + 4  BY <1>3, <1>4, FloatSizes
<1>6. sum \in Nat \ {0} /\ Two[(K + i) - 1] <= sum /\ sum < Two[K + i]
  <2> HIDE DEF i
  <2> QED  BY <1>2, <1>3, <1>5, Longer DEF Long
<1> HIDE DEF r
<1>7. n = (L + 1) - K /\ n \in Nat
  <2> DEFINE N == K + i
  <2>1. N \in 1 .. 2 * FRAC + EXP + 4 /\ Two[N - 1] <= sum /\ sum < Two[N]  BY <1>5, <1>6
  <2>2. FRAC + 2 - N = (L + 1) - K /\ (L + 1) - K \in Nat  BY <1>3, <1>4
  <2> HIDE DEF N, sum
  <2>3. Float!BitLength(sum) = N  BY <1>6, <2>1, BitLengthIs
  <2> QED  BY <2>2, <2>3
<1> DEFINE S == Spread(x, K)
           E == (Float!Bias + K) - 1
<1>8. S \in Nat /\ S % O = S - O /\ E \in Nat \ {0} /\ E % Float!ExpMod = E
      /\ (S - O) % O = S - O /\ Written(sign, x, K) = Float!Pack(sign, E, S - O)
  BY <1>2, WrittenFields DEF Written
<1>9. z = E
  <2>1. e + 1 - n = E /\ e >= FRAC + 2 /\ e \in Nat  BY <1>3, <1>7, WholeExponent
  <2>2. ~(n > 1 /\ n > e)  BY <1>3, <1>7, <2>1
  <2> HIDE DEF n, e, E
  <2> QED  BY <1>8, <2>1, <2>2
<1>10. f % O = S - O
  <2>1. CASE n = 0
    <3>1. K = L + 1 /\ i \in Nat \ {0} /\ i - 1 \in Nat /\ (i - 1) + 1 = i
          /\ i - 1 = (FRAC + 1) - K
      BY <1>3, <1>7, <2>1
    <3>2. Two[i] = 2 * Two[i - 1] /\ Two[i - 1] \in Nat
      <4> HIDE DEF i
      <4> QED  BY <3>1, TwoIs
    <3>3. S = x * Two[i - 1]  BY <3>1 DEF Spread
    <3>4. sum = 2 * S
      <4> DEFINE g == Two[i - 1]
      <4>1. x * (2 * g) = 2 * (x * g)  BY <3>2, SMTT(20)
      <4>2. sum = x * (2 * g) /\ S = x * g  BY <3>2, <3>3
      <4> HIDE DEF g, sum, S
      <4> QED  BY <4>1, <4>2
    <3> HIDE DEF S, n
    <3>5. f = (sum \div 2) + (IF sum % 2 = 1 /\ (sum \div 2) % 2 = 1 THEN 1 ELSE 0)  BY <2>1
    <3> HIDE DEF sum, f
    <3>6. sum \div 2 = S /\ (sum % 2 = 1) = FALSE  BY <1>8, <3>4
    <3>7. f = S  BY <1>8, <3>5, <3>6
    <3> QED  BY <1>8, <3>7
  <2>2. CASE n # 0
    <3>1. n - 1 \in Nat /\ i + (n - 1) = (FRAC + 1) - K  BY <1>3, <1>7, <2>2
    <3> DEFINE h == n - 1
    <3>2. h \in Nat /\ S = x * Two[i + h]  BY <3>1 DEF Spread
    <3>3. f = (sum * Two[h]) % O  BY <2>2
    <3> HIDE DEF h, i
    <3>4. Two[i + h] = Two[i] * Two[h] /\ Two[i] \in Nat /\ Two[h] \in Nat
      BY <1>5, <3>2, TwoSum, TwoIs
    <3>5. sum * Two[h] = S
      <4> DEFINE c == Two[i]
                 d == Two[h]
      <4> HIDE DEF c, d
      <4>1. (x * c) * d = x * (c * d)  BY <3>4, SMTT(20) DEF c, d
      <4> QED  BY <3>2, <3>4, <4>1 DEF c, d
    <3> HIDE DEF f, S, sum
    <3> QED  BY <1>8, <3>3, <3>5
  <2> QED  BY <2>1, <2>2
<1> HIDE DEF z, f, E, S
<1>11. r = Written(sign, x, K)  BY <1>1, <1>8, <1>9, <1>10
<1>12. Shows(r, Signum(sign, x))  BY <1>2, <1>11, WrittenShows
<1> QED  BY <1>12 DEF r

\* Aligning a whole number like a larger one loses nothing of it.
LEMMA WholeAligned ==
  ASSUME NEW m \in Nat, NEW L, Long(m, L), NEW x, NEW k, NEW T, Parted(x, k, T),
         k <= (Float!Bias + L) - 1
  PROVE  LET e == (Float!Bias + L) - 1
         IN  /\ Float!Aligned(T, (e - k) % Float!ExpMod) = x * Two[(FRAC + 1) - L]
             /\ x < Two[L]
<1> DEFINE e == (Float!Bias + L) - 1
           E == Float!ExpMod
           diff == (e - k) % E
           s == Float!Aligned(T, diff)
           i == (FRAC + 1) - L
<1>1. s = IF diff > FRAC + 1 THEN 0 ELSE T \div Two[diff]  BY FloatTwo DEF Float!Aligned
<1>2. L \in 1 .. FRAC + 1 /\ L \in Nat \ {0} /\ i \in Nat /\ FRAC \in Nat  BY SpreadRange, FloatSizes DEF Long
<1>3. e \in 1 .. E - 2 /\ E \in Nat /\ Float!Bias \in Nat  BY <1>2, WholeExponent, FloatSizes
<1>4. Two[L] \in Nat \ {0} /\ Two[i] \in Nat
  <2> HIDE DEF i
  <2> QED  BY <1>2, TwoIs
<1>5. CASE x = 0
  <2>1. T = 0  BY <1>5, PartedRange
  <2>2. k \in 0 .. E - 2 /\ k <= e  BY PartedRange
  <2>3. diff \in Nat
    <3> DEFINE c == e - k
    <3>1. c \in Int /\ E \in Nat \ {0}  BY <1>3, <2>2
    <3> HIDE DEF c, E
    <3>2. c % E \in Nat  BY <3>1
    <3> QED  BY <3>2 DEF c
  <2> HIDE DEF diff, e, i, s
  <2>4. Two[diff] \in Nat \ {0}  BY <2>3, TwoIs
  <2>5. 0 \div Two[diff] = 0  BY <2>4
  <2>6. s = 0  BY <1>1, <2>1, <2>5
  <2>7. x * Two[i] = 0
    <3> DEFINE g == Two[i]
    <3>1. g \in Nat  BY <1>4
    <3> HIDE DEF g
    <3>2. 0 * g = 0  BY <3>1
    <3> QED  BY <1>5, <3>2 DEF g
  <2>8. x < Two[L]  BY <1>4, <1>5
  <2> QED  BY <2>6, <2>7, <2>8 DEF s, diff, e, i
<1>6. CASE x # 0
  <2>1. PICK K : /\ Long(x, K) /\ K \in 1 .. FRAC + 1
                 /\ k = (Float!Bias + K) - 1 /\ T = Spread(x, K)
    BY <1>6, PartedRange
  <2>2. x \in Nat  BY PartedRange
  <2> DEFINE d == L - K
  <2>3. d \in Nat /\ e - k = d /\ d <= FRAC /\ K <= L  BY <1>2, <1>3, <2>1
  <2>4. diff = d
    <3>1. d \in 0 .. E - 1 /\ E \in Nat \ {0} /\ E * 0 + d = d
      <4>1. k \in Nat  BY <1>3, <2>1
      <4> HIDE DEF d, e
      <4> QED  BY <1>3, <2>3, <4>1
    <3> HIDE DEF d, E, e
    <3>2. (E * 0 + d) % E = d  BY <2>3, <3>1, DivideOnce
    <3> QED  BY <2>3, <3>1, <3>2
  <2>5. T = x * Two[i + d]
    <3>1. i + d = (FRAC + 1) - K  BY <1>2, <2>1
    <3> HIDE DEF i, d
    <3> QED  BY <2>1, <3>1 DEF Spread
  <2> HIDE DEF s, diff, d, i
  <2>6. Two[i + d] = Two[i] * Two[d] /\ Two[d] \in Nat \ {0}  BY <1>2, <2>3, TwoSum, TwoIs
  <2> DEFINE X == x * Two[i]
  <2>7. X \in Nat /\ T = X * Two[d]
    <3> DEFINE g == Two[i]
               h == Two[d]
    <3>1. g \in Nat /\ h \in Nat /\ T = x * (g * h)  BY <1>4, <2>5, <2>6
    <3> HIDE DEF g, h
    <3>2. x * g \in Nat /\ x * (g * h) = (x * g) * h  BY <2>2, <3>1, SMTT(20)
    <3> QED  BY <3>1, <3>2 DEF g, h
  <2> HIDE DEF X
  <2>8. T \div Two[d] = X  BY <2>6, <2>7, Multiple
  <2>9. s = X  BY <1>1, <1>2, <2>3, <2>4, <2>8
  <2>10. x < Two[L]
    <3>1. K \in Nat /\ L \in Nat /\ Two[K] \in Nat  BY <1>2, <2>1, TwoIs
    <3>2. Two[K] <= Two[L]  BY <2>3, <3>1, TwoGrows
    <3>3. x < Two[K]  BY <2>1 DEF Long
    <3> QED  BY <1>4, <2>2, <3>1, <3>2, <3>3
  <2> QED  BY <2>9, <2>10 DEF s, diff, i, X
<1> QED  BY <1>5, <1>6

\* The larger of two whole numbers, m, and the smaller, x, aligned.
LEMMA WholeSum ==
  ASSUME NEW m, NEW e, NEW S, Parted(m, e, S), m # 0, NEW x, NEW k, NEW T, Parted(x, k, T),
         k <= e, e = k => T <= S
  PROVE  LET s == Float!Aligned(T, (e - k) % Float!ExpMod)
         IN  /\ m \in Nat /\ x \in Nat /\ x <= m
             /\ s \in 0 .. S /\ S + s < 4 * Float!One
             /\ \E L \in 1 .. FRAC + 1 :
                  /\ e = (Float!Bias + L) - 1
                  /\ S - s = (m - x) * Two[(FRAC + 1) - L]
                  /\ S + s = (m + x) * Two[(FRAC + 1) - L]
                  /\ m + x < Two[L + 1]
<1> DEFINE s == Float!Aligned(T, (e - k) % Float!ExpMod)
<1>1. /\ m \in Nat /\ e \in 0 .. Float!ExpMod - 2 /\ S \in 0 .. 2 * Float!One - 1
      /\ e = 0 => S = 0
      /\ e # 0 => S >= Float!One
  BY PartedRange
<1>2. /\ x \in Nat /\ k \in 0 .. Float!ExpMod - 2 /\ T \in 0 .. 2 * Float!One - 1
      /\ k = 0 => T = 0
      /\ k # 0 => T >= Float!One
  BY PartedRange
<1>3. k \in 0 .. e  BY <1>1, <1>2, FloatSizes
<1>4. s \in 0 .. S /\ S + s < 4 * Float!One  BY <1>1, <1>2, <1>3, Alignment
<1>5. PICK L : /\ Long(m, L) /\ L \in 1 .. FRAC + 1
               /\ e = (Float!Bias + L) - 1 /\ S = Spread(m, L)
  BY PartedRange
<1> DEFINE W == Two[(FRAC + 1) - L]
<1>6. S = m * W  BY <1>5 DEF Spread
<1>7. s = x * W /\ x < Two[L]  BY <1>1, <1>5, WholeAligned
<1>8. W \in Nat \ {0}
  <2>1. (FRAC + 1) - L \in Nat  BY <1>5, FloatSizes
  <2> QED  BY <2>1, TwoIs
<1>9. m < Two[L] /\ Two[L + 1] = 2 * Two[L] /\ Two[L] \in Nat
  <2>1. L \in Nat  BY <1>5
  <2> QED  BY <1>5, <2>1, TwoIs DEF Long
<1> HIDE DEF s, W
<1>10. x <= m
  <2>1. m < x => m * W + W <= x * W  BY <1>1, <1>2, <1>8, Products
  <2>2. m * W \in Nat /\ x * W \in Nat  BY <1>1, <1>2, <1>8, Products
  <2> QED  BY <1>1, <1>2, <1>4, <1>6, <1>7, <1>8, <2>1, <2>2
<1>11. (m - x) * W = m * W - x * W /\ (m + x) * W = m * W + x * W  BY <1>1, <1>2, <1>8, SMTT(20)
<1>12. m + x < Two[L + 1]  BY <1>1, <1>2, <1>7, <1>9
<1>13. \E K \in 1 .. FRAC + 1 :
         /\ e = (Float!Bias + K) - 1
         /\ S - s = (m - x) * Two[(FRAC + 1) - K]
         /\ S + s = (m + x) * Two[(FRAC + 1) - K]
         /\ m + x < Two[K + 1]
  BY <1>5, <1>6, <1>7, <1>11, <1>12 DEF W
<1> QED  BY <1>1, <1>2, <1>4, <1>10, <1>13 DEF s

\* ADDF and SUBF of whole numbers with a sum that fits.
LEMMA SumExact ==
  ASSUME NEW a \in Nat, NEW b \in Nat, NEW m, Reads(a, m), NEW n, Reads(b, n),
         NEW sub \in BOOLEAN,
         Abs(Signum(Float!Sign(b), n) + Signum(Float!Sign(a) # sub, m)) < 2 * Float!One
  PROVE  Shows(Float!AddSub(a, b, sub),
               Signum(Float!Sign(b), n) + Signum(Float!Sign(a) # sub, m))
<1> DEFINE O == Float!One
           swap == Float!Swap(a, b)
           sa == Float!Sign(a) # sub
           sb == Float!Sign(b)
           big == IF swap THEN b ELSE a
           small == IF swap THEN a ELSE b
           M == IF swap THEN n ELSE m
           N == IF swap THEN m ELSE n
           S == Float!Significand(big)
           T == Float!Significand(small)
           e == Float!Exp(big)
           k == Float!Exp(small)
           s == Float!Aligned(T, (e - k) % Float!ExpMod)
           sum == (IF sa # sb THEN S - s ELSE S + s) % (4 * O)
           sign == IF swap THEN sb ELSE sa
           r == Float!AddSub(a, b, sub)
           v == Signum(sb, n) + Signum(sa, m)
           none == Float!Magnitude(a) = 0 /\ Float!Magnitude(b) = 0
<1>1. r = IF sum = 0 \/ none THEN 0 ELSE Float!Normalized(sign, e, sum)
  BY DEF Float!AddSub
<1>2. /\ Float!Sign(a) \in BOOLEAN /\ sa \in BOOLEAN /\ sb \in BOOLEAN /\ sign \in BOOLEAN
      /\ m \in Nat /\ n \in Nat
  <2>1. sb \in BOOLEAN /\ sa \in BOOLEAN /\ Float!Sign(a) \in BOOLEAN  BY DEF Float!Sign
  <2>2. m \in Nat /\ n \in Nat  BY ReadsFields
  <2> HIDE DEF sa, sb
  <2> QED  BY <2>1, <2>2
<1>3. Parted(M, e, S) /\ Parted(N, k, T)
  <2>1. /\ Parted(m, Float!Exp(a), Float!Significand(a))
        /\ Parted(n, Float!Exp(b), Float!Significand(b))
    BY DEF Reads
  <2>2. CASE swap  BY <2>1, <2>2
  <2>3. CASE ~swap  BY <2>1, <2>3
  <2> QED  BY <2>2, <2>3
<1>4. k <= e /\ (e = k => T <= S)
  <2>1. /\ Float!Exp(a) \in 0 .. Float!ExpMod - 2 /\ Float!Exp(b) \in 0 .. Float!ExpMod - 2
        /\ Float!Significand(a) \in 0 .. 2 * O - 1 /\ Float!Significand(b) \in 0 .. 2 * O - 1
        /\ O \in Nat /\ Float!ExpMod \in Nat
    BY PartedRange, FloatSizes DEF Reads
  <2>2. swap <=> \/ Float!Exp(b) > Float!Exp(a)
                 \/ Float!Exp(b) = Float!Exp(a) /\ Float!Significand(b) > Float!Significand(a)
    BY DEF Float!Swap
  <2> HIDE DEF swap, O
  <2>3. CASE swap  BY <2>1, <2>2, <2>3
  <2>4. CASE ~swap  BY <2>1, <2>2, <2>4
  <2> QED  BY <2>3, <2>4
<1>5. M \in Nat /\ N \in Nat
  <2> HIDE DEF swap
  <2> QED  BY <1>2
<1>6. N <= M => v = IF sa # sb THEN Signum(sign, M - N) ELSE Signum(sign, M + N)
  <2> HAVE N <= M
  <2>1. CASE swap
    <3>1. M = n /\ N = m /\ sign = sb  BY <2>1
    <3> HIDE DEF M, N, sign, sa, sb
    <3> QED  BY <1>2, <3>1 DEF Signum
  <2>2. CASE ~swap
    <3>1. M = m /\ N = n /\ sign = sa  BY <2>2
    <3> HIDE DEF M, N, sign, sa, sb
    <3> QED  BY <1>2, <3>1 DEF Signum
  <2> QED  BY <2>1, <2>2
<1>7. none <=> m = 0 /\ n = 0  BY ReadsFields
<1>8. M = 0 => m = 0 /\ n = 0
  <2> HAVE M = 0
  <2>1. e = 0  BY <1>3, PartedRange
  <2>2. k \in 0 .. Float!ExpMod - 2 /\ Float!ExpMod \in Nat  BY <1>3, PartedRange, FloatSizes
  <2>3. k = 0
    <3> HIDE DEF k, e
    <3> QED  BY <1>4, <2>1, <2>2
  <2>4. N = 0  BY <1>3, <2>3, PartedRange
  <2>5. CASE swap  BY <2>4, <2>5
  <2>6. CASE ~swap  BY <2>4, <2>6
  <2> QED  BY <2>5, <2>6
<1>9. m = 0 /\ n = 0 => M = 0 /\ N = 0  OBVIOUS
<1>10. Abs(v) < 2 * O  OBVIOUS
<1> HIDE DEF none, v, r, sign, M, N, sa, sb
<1>11. CASE M = 0
  <2>1. r = 0  BY <1>1, <1>7, <1>8, <1>11
  <2>2. M - N <= 0 /\ M - N >= 0 /\ M + N <= 0 /\ M + N >= 0 /\ M - N \in Int /\ M + N \in Int
        /\ N <= M
    BY <1>5, <1>8, <1>9, <1>11
  <2>3. v = 0
    <3>1. Signum(sign, M - N) = 0 /\ Signum(sign, M + N) = 0  BY <1>2, <2>2, SignumZero
    <3> QED  BY <1>6, <2>2, <3>1
  <2> QED  BY <2>1, <2>3, ZeroShows DEF r, v, sa, sb
<1>12. CASE M # 0
  <2>1. ~none  BY <1>7, <1>9, <1>12
  <2>2. /\ N <= M /\ s \in 0 .. S /\ S + s < 4 * O
        /\ \E L \in 1 .. FRAC + 1 :
             /\ e = (Float!Bias + L) - 1
             /\ S - s = (M - N) * Two[(FRAC + 1) - L]
             /\ S + s = (M + N) * Two[(FRAC + 1) - L]
             /\ M + N < Two[L + 1]
    <3> HIDE DEF e, S, T, k
    <3> QED  BY <1>3, <1>4, <1>12, WholeSum
  <2>3. PICK L \in 1 .. FRAC + 1 :
             /\ e = (Float!Bias + L) - 1
             /\ S - s = (M - N) * Two[(FRAC + 1) - L]
             /\ S + s = (M + N) * Two[(FRAC + 1) - L]
             /\ M + N < Two[L + 1]
    BY <2>2
  <2> DEFINE x == IF sa # sb THEN M - N ELSE M + N
             W == Two[(FRAC + 1) - L]
  <2>4. v = Signum(sign, x) /\ x \in Nat
    <3>1. CASE sa # sb  BY <1>5, <1>6, <2>2, <3>1
    <3>2. CASE ~(sa # sb)  BY <1>5, <1>6, <2>2, <3>2
    <3> QED  BY <3>1, <3>2
  <2>5. x < Two[L + 1]
    <3>1. L + 1 \in Nat  BY <2>3
    <3>2. Two[L + 1] \in Nat  BY <3>1, TwoIs
    <3>3. M - N <= M + N /\ M - N \in Int /\ M + N \in Int  BY <1>5
    <3> HIDE DEF W
    <3> QED  BY <2>3, <3>2, <3>3
  <2>6. S \in 0 .. 2 * O - 1 /\ O \in Nat \ {0}  BY <1>3, PartedRange, FloatSizes
  <2> HIDE DEF S, T, e, k, s, W
  <2>7. sum = x * W
    <3> DEFINE w == IF sa # sb THEN S - s ELSE S + s
               D == 4 * O
    <3>1. w \in 0 .. D - 1 /\ D \in Nat \ {0}
      <4> HIDE DEF O
      <4> QED  BY <2>2, <2>6
    <3>2. sum = w % D /\ D * 0 + w = w  BY <3>1
    <3>3. w = x * W
      <4>1. CASE sa # sb  BY <2>3, <4>1 DEF W
      <4>2. CASE ~(sa # sb)  BY <2>3, <4>2 DEF W
      <4> QED  BY <4>1, <4>2
    <3> HIDE DEF w, D, sum, x
    <3>4. (D * 0 + w) % D = w  BY <3>1, DivideOnce
    <3> QED  BY <3>2, <3>3, <3>4
  <2> HIDE DEF x, sum, O
  <2>8. x < 2 * O
    <3>1. Abs(Signum(sign, x)) = x  BY <1>2, <2>4, AbsSignum
    <3> QED  BY <1>10, <2>4, <3>1
  <2>9. W \in Nat \ {0}
    <3>1. (FRAC + 1) - L \in Nat  BY <2>3, FloatSizes
    <3> QED  BY <3>1, TwoIs DEF W
  <2>10. CASE x = 0
    <3>1. sum = 0  BY <2>7, <2>9, <2>10
    <3>2. r = 0  BY <1>1, <3>1
    <3>3. v = 0  BY <1>2, <2>4, <2>10, SignumZero
    <3> QED  BY <3>2, <3>3, ZeroShows DEF r, v, sa, sb
  <2>11. CASE x # 0
    <3>1. sum # 0
      <4>1. x \in Nat \ {0}  BY <2>4, <2>11
      <4> QED  BY <2>7, <2>9, <4>1, SMTT(20)
    <3>2. r = Float!Normalized(sign, (Float!Bias + L) - 1, x * Two[(FRAC + 1) - L])
      BY <1>1, <2>1, <2>3, <2>7, <3>1 DEF W
    <3>3. Shows(r, Signum(sign, x))
      <4>1. x \in Nat \ {0} /\ x < 2 * Float!One  BY <2>4, <2>8, <2>11 DEF O
      <4> QED  BY <1>2, <2>3, <2>5, <3>2, <4>1, NormalizedExact
    <3> QED  BY <2>4, <3>3 DEF r, v, sa, sb
  <2> QED  BY <2>10, <2>11
<1> QED  BY <1>11, <1>12

\* What the unit makes of its operands.
LEMMA Results ==
  ASSUME NEW a, NEW b
  PROVE  LET Of(op) == Float!FpuOutcome(op, a, b, 0).result
         IN  /\ Of("FP_ADDF") = Float!AddSub(a, b, FALSE)
             /\ Of("FP_SUBF") = Float!AddSub(a, b, TRUE)
             /\ Of("FP_MULF") = Float!Multiply(a, b)
             /\ Of("FP_DIVF") = Float!Divide(a, b)
             /\ Of("FP_SCLF") = Float!Scale(a, b)
             /\ Of("FP_NEGF") = (a + Float!Top) % Float!WordMod
             /\ Of("FP_ABSF") = Float!Magnitude(a)
             /\ Of("FP_CVTWS") = Float!FromWord(a)
             /\ Of("FP_CVTSW") = Float!ToWord(a, 0)
<1> DEFINE Of(op) == Float!FpuOutcome(op, a, b, 0).result
<1>1. ASSUME NEW r PROVE Float!FpResult(r).result = r  BY DEF Float!FpResult
<1>2. /\ Of("FP_ADDF") = Float!FpResult(Float!AddSub(a, b, FALSE)).result
      /\ Of("FP_SUBF") = Float!FpResult(Float!AddSub(a, b, TRUE)).result
      /\ Of("FP_MULF") = Float!FpResult(Float!Multiply(a, b)).result
      /\ Of("FP_DIVF") = Float!FpResult(Float!Divide(a, b)).result
      /\ Of("FP_SCLF") = Float!FpResult(Float!Scale(a, b)).result
  BY DEF Float!FpuOutcome
<1>3. Of("FP_NEGF") = (a + Float!Top) % Float!WordMod /\ Of("FP_ABSF") = Float!Magnitude(a)
  BY DEF Float!FpuOutcome
<1>4. Of("FP_CVTWS") = Float!FromWord(a)
  <2> DEFINE r == Float!FromWord(a)
             o == Float!FpResult(r)
  <2>1. Float!FpuOutcome("FP_CVTWS", a, b, 0) = [o EXCEPT !.flags.cy = o.flags.s]
    BY DEF Float!FpuOutcome
  <2> HIDE DEF r
  <2>2. [o EXCEPT !.flags.cy = o.flags.s].result = r  BY DEF Float!FpResult
  <2> QED  BY <2>1, <2>2 DEF r
<1>5. Of("FP_CVTSW") = Float!ToWord(a, 0)
  <2> DEFINE r == Float!ToWord(a, 0)
             o == Float!FpResult(r)
             ov == (o.flags.s /\ ~Float!Sign(a)) \/ (~o.flags.s /\ Float!Sign(a) /\ ~o.flags.z)
  <2>1. Float!FpuOutcome("FP_CVTSW", a, b, 0) = [o EXCEPT !.flags.ov = ov]
    BY DEF Float!FpuOutcome
  <2> HIDE DEF r, ov
  <2>2. [o EXCEPT !.flags.ov = ov].result = r  BY DEF Float!FpResult
  <2> QED  BY <2>1, <2>2 DEF r
<1> QED  BY <1>1, <1>2, <1>3, <1>4, <1>5

\* Floating-point arithmetic on whole numbers is exact: when the operands and the number the
\* operation promises have no more bits than a significand, ADDF, SUBF, MULF, DIVF without a
\* remainder, SCLF upwards, NEGF, ABSF and the two conversions leave the float (or the word)
\* of exactly that number, whatever the signs and the exponents of the operands.
THEOREM IntegersExactHolds == Spec => []IntegersExact
<1> DEFINE a == inst.src
           b == before.reg
           x == Float!Integer(a)
           y == Float!Integer(b)
           k == Float!ScaleCount(a)
           Counts(f) == Float!IsInteger(f) /\ Abs(Float!Integer(f)) < 2 * Float!One
           Fit(n) == Abs(n) < 2 * Float!One
<1>1. ASSUME FloatDone
      PROVE  IntegersExact
  <2>1. ASSUME inst.op \in FpOps, inst.op # "FP_CMPF"
        PROVE  /\ a \in Register /\ a \in Nat /\ b \in Nat
               /\ reg = Float!FpuOutcome(inst.op, a, b, 0).result
    BY <1>1, <2>1 DEF FloatDone, Register
  <2> HIDE DEF a, b
  <2>2. ASSUME NEW sub \in BOOLEAN,
               inst.op = IF sub THEN "FP_SUBF" ELSE "FP_ADDF",
               Counts(a), Counts(b), Fit(IF sub THEN y - x ELSE y + x)
        PROVE  Shows(reg, IF sub THEN y - x ELSE y + x)
    <3>1. inst.op \in FpOps /\ inst.op # "FP_CMPF"  BY <2>2 DEF FpOps
    <3>2. a \in Nat /\ b \in Nat /\ reg = Float!AddSub(a, b, sub)  BY <2>1, <2>2, <3>1, Results
    <3>3. PICK m : Reads(a, m)  BY <2>2, <3>2, IntegerReads
    <3>4. PICK n : Reads(b, n)  BY <2>2, <3>2, IntegerReads
    <3> DEFINE sa == Float!Sign(a)
               v == Signum(Float!Sign(b), n) + Signum(sa # sub, m)
    <3>5. /\ m \in Nat /\ sa \in BOOLEAN /\ x = Signum(sa, m)
          /\ n \in Nat /\ Float!Sign(b) \in BOOLEAN /\ y = Signum(Float!Sign(b), n)
      <4>1. m \in Nat /\ sa \in BOOLEAN /\ x = Signum(sa, m)  BY <3>2, <3>3, ReadsFields
      <4>2. n \in Nat /\ Float!Sign(b) \in BOOLEAN /\ y = Signum(Float!Sign(b), n)
        BY <3>2, <3>4, ReadsFields
      <4> QED  BY <4>1, <4>2
    <3>6. x \in Int /\ y \in Int /\ Signum(sa # TRUE, m) \in Int
          /\ x + Signum(sa # TRUE, m) = 0
      BY <3>5, SignumOpposite
    <3>7. v = IF sub THEN y - x ELSE y + x
      <4>1. CASE sub
        <5> DEFINE t == Signum(sa # TRUE, m)
        <5>1. v = y + t  BY <3>5, <4>1
        <5>2. x \in Int /\ y \in Int /\ t \in Int /\ x + t = 0  BY <3>6
        <5> HIDE DEF t, x, y, v
        <5>3. v = y - x  BY <5>1, <5>2
        <5> QED  BY <4>1, <5>3
      <4>2. CASE ~sub
        <5>1. (sa # sub) = sa  BY <3>5, <4>2
        <5>2. v = y + x  BY <3>5, <5>1
        <5> HIDE DEF v, x, y
        <5> QED  BY <4>2, <5>2
      <4> QED  BY <4>1, <4>2
    <3>8. Shows(Float!AddSub(a, b, sub), v)
      <4>1. Abs(v) < 2 * Float!One  BY <2>2, <3>7
      <4> QED  BY <3>2, <3>3, <3>4, <4>1, SumExact
    <3> HIDE DEF v, x, y
    <3> QED  BY <3>2, <3>7, <3>8
  <2>3. ASSUME inst.op = "FP_MULF", Counts(a), Counts(b), Fit(y * x)
        PROVE  Shows(reg, y * x)
    <3>1. inst.op \in FpOps /\ inst.op # "FP_CMPF"  BY <2>3 DEF FpOps
    <3>2. a \in Nat /\ b \in Nat /\ reg = Float!Multiply(a, b)  BY <2>1, <2>3, <3>1, Results
    <3>3. PICK m : Reads(a, m)  BY <2>3, <3>2, IntegerReads
    <3>4. PICK n : Reads(b, n)  BY <2>3, <3>2, IntegerReads
    <3> QED  BY <2>3, <3>2, <3>3, <3>4, MultiplyExact
  <2>4. ASSUME inst.op = "FP_DIVF", NEW q \in -Abs(y) .. Abs(y), x # 0, q * x = y,
               Counts(a), Counts(b), Fit(q)
        PROVE  Shows(reg, q)
    <3>1. inst.op \in FpOps /\ inst.op # "FP_CMPF"  BY <2>4 DEF FpOps
    <3>2. a \in Nat /\ b \in Nat /\ reg = Float!Divide(a, b)  BY <2>1, <2>4, <3>1, Results
    <3>3. PICK m : Reads(a, m)  BY <2>4, <3>2, IntegerReads
    <3>4. PICK n : Reads(b, n)  BY <2>4, <3>2, IntegerReads
    <3>5. q \in Int
      <4> HIDE DEF y
      <4> QED  OBVIOUS
    <3> QED  BY <2>4, <3>2, <3>3, <3>4, <3>5, DivideExact
  <2>5. ASSUME inst.op = "FP_SCLF", k >= 0, Counts(b), Fit(y * Two[k])
        PROVE  Shows(reg, y * Two[k])
    <3>1. inst.op \in FpOps /\ inst.op # "FP_CMPF"  BY <2>5 DEF FpOps
    <3>2. a \in Nat /\ b \in Nat /\ reg = Float!Scale(a, b)  BY <2>1, <2>5, <3>1, Results
    <3>3. PICK n : Reads(b, n)  BY <2>5, <3>2, IntegerReads
    <3> QED  BY <2>5, <3>2, <3>3, ScaleExact
  <2>6. ASSUME inst.op = "FP_NEGF", Counts(a)
        PROVE  Shows(reg, -x)
    <3>1. inst.op \in FpOps /\ inst.op # "FP_CMPF"  BY <2>6 DEF FpOps
    <3>2. a \in Register /\ reg = (a + Float!Top) % Float!WordMod  BY <2>1, <2>6, <3>1, Results
    <3> QED  BY <2>6, <3>2, SignsExact
  <2>7. ASSUME inst.op = "FP_ABSF", Counts(a)
        PROVE  Shows(reg, Abs(x))
    <3>1. inst.op \in FpOps /\ inst.op # "FP_CMPF"  BY <2>7 DEF FpOps
    <3>2. a \in Register /\ reg = Float!Magnitude(a)  BY <2>1, <2>7, <3>1, Results
    <3> QED  BY <2>7, <3>2, SignsExact
  <2>8. ASSUME inst.op = "FP_CVTWS", Fit(Signed(a, "SZ_WORD"))
        PROVE  Shows(reg, Signed(a, "SZ_WORD"))
    <3>1. inst.op \in FpOps /\ inst.op # "FP_CMPF"  BY <2>8 DEF FpOps
    <3>2. a \in Register /\ reg = Float!FromWord(a)  BY <2>1, <2>8, <3>1, Results
    <3> QED  BY <2>8, <3>2, FromWordExact
  <2>9. ASSUME inst.op = "FP_CVTSW", Counts(a)
        PROVE  Signed(reg, "SZ_WORD") = x
    <3>1. inst.op \in FpOps /\ inst.op # "FP_CMPF"  BY <2>9 DEF FpOps
    <3>2. a \in Nat /\ reg = Float!ToWord(a, 0)  BY <2>1, <2>9, <3>1, Results
    <3>3. PICK m : Reads(a, m)  BY <2>9, <3>2, IntegerReads
    <3> QED  BY <3>2, <3>3, ToWordExact
  <2>10. inst.op = "FP_ADDF" => (Counts(a) /\ Counts(b) => (Fit(y + x) => Shows(reg, y + x)))
    BY <2>2, FALSE \in BOOLEAN
  <2>11. inst.op = "FP_SUBF" => (Counts(a) /\ Counts(b) => (Fit(y - x) => Shows(reg, y - x)))
    BY <2>2, TRUE \in BOOLEAN
  <2> QED  BY <2>3, <2>4, <2>5, <2>6, <2>7, <2>8, <2>9, <2>10, <2>11 DEF IntegersExact, Shows, a, b
<1>2. FloatDone => IntegersExact  BY <1>1
<1> QED  BY <1>2, FloatInvariant, PTL

-----------------------------------------------------------------------------
(* The nearest float.                                                      *)

\* A number of n / d units whose place is K is counted on from the pattern of that place.
LEMMA NearestAt ==
  ASSUME NEW neg \in BOOLEAN, NEW n \in Nat, NEW d \in Nat \ {0}, NEW K \in 0 .. 2 * Float!ExpMod,
         n < 2 * (Float!One * d * Two[K]), K = 0 \/ n >= Float!One * d * Two[K]
  PROVE  LET gap  == d * Two[K]
             m    == n \div gap
             over == 2 * (n % gap)
             p    == K * Float!One + m
                       + (IF over > gap \/ (over = gap /\ m % 2 = 1) THEN 1 ELSE 0)
             r    == Float!Nearest(neg, n, d)
         IN  /\ gap \in Nat \ {0} /\ m \in Nat /\ p \in Nat /\ p >= K * Float!One + m
             /\ K * Float!One \in Nat
             /\ p <= Float!Largest => /\ r = (IF neg THEN Float!Top ELSE 0) + p
                                      /\ Float!Magnitude(r) = p
             /\ Float!Number(r) => p <= Float!Largest
<1> DEFINE O == Float!One
           T == Float!Top
           P(k) == LET least == O * d * Two[k] IN n < 2 * least /\ (k = 0 \/ n >= least)
           place == CHOOSE k \in 0 .. 2 * Float!ExpMod : P(k)
           gap == d * Two[K]
           m == n \div gap
           over == 2 * (n % gap)
           up == over > gap \/ (over = gap /\ m % 2 = 1)
           p == K * O + m + (IF up THEN 1 ELSE 0)
           r == Float!Nearest(neg, n, d)
           I == Float!Infinity(FALSE)
<1>1. O \in Nat \ {0, 1} /\ Float!ExpMod \in Nat /\ Float!ExpMod >= 4 /\ T \in Nat \ {0}
      /\ T = Float!ExpMod * O
  BY FloatSizes
<1>2. I = O * (Float!ExpMod - 1) /\ Float!Largest = I - 1 /\ I \in Nat \ {0} /\ I < T
  <2> DEFINE E == Float!ExpMod
             c == E - 1
  <2>1. c \in Nat \ {0} /\ E \in Nat /\ c + 1 = E  BY <1>1
  <2>2. I = 0 + O * c + 0  BY DEF Float!Infinity, Float!Pack
  <2>3. Float!Largest = I - 1  BY DEF Float!Largest
  <2> HIDE DEF c, E, O, I, T
  <2>4. O * c \in Nat \ {0} /\ O * (c + 1) = O * c + O /\ E * O = O * E
    BY <1>1, <2>1, SMTT(20)
  <2>5. I = O * c  BY <2>2, <2>4
  <2>6. T = O * c + O  BY <1>1, <2>1, <2>4 DEF E
  <2> QED  BY <1>1, <2>3, <2>4, <2>5, <2>6 DEF c, E
<1> HIDE DEF O, T, I
<1>3. \A k \in 0 .. 2 * Float!ExpMod : P(k) => k = K
  <2> SUFFICES ASSUME NEW k \in 0 .. 2 * Float!ExpMod, P(k)
               PROVE  k = K
    OBVIOUS
  <2> DEFINE D == O * d
  <2>1. D \in Nat \ {0} /\ k \in Nat /\ K \in Nat  BY <1>1, SMTT(20)
  <2>2. Two[k] \in Nat \ {0} /\ Two[K] \in Nat \ {0}  BY <2>1, TwoIs
  <2>3. k < K => 2 * Two[k] <= Two[K]  BY <2>1, TwoGrows
  <2>4. K < k => 2 * Two[K] <= Two[k]  BY <2>1, TwoGrows
  <2> DEFINE u == Two[k]
             w == Two[K]
             x == D * u
             y == D * w
  <2>5. n < 2 * x /\ (k = 0 \/ n >= x) /\ n < 2 * y /\ (K = 0 \/ n >= y)  BY DEF O
  <2> HIDE DEF D, u, w
  <2>6. /\ x \in Nat /\ y \in Nat
        /\ 2 * u <= w => 2 * x <= y
        /\ 2 * w <= u => 2 * y <= x
    <3>1. u \in Nat /\ w \in Nat  BY <2>2 DEF u, w
    <3>2. x = u * D /\ y = w * D /\ x \in Nat /\ y \in Nat  BY <2>1, <3>1, SMTT(20)
    <3>3. (2 * u) * D = 2 * (u * D) /\ (2 * w) * D = 2 * (w * D)  BY <2>1, <3>1, SMTT(20)
    <3>4. /\ 2 * u <= w => (2 * u) * D <= w * D
          /\ 2 * w <= u => (2 * w) * D <= u * D
      BY <2>1, <3>1, Products
    <3> QED  BY <3>2, <3>3, <3>4
  <2> HIDE DEF x, y
  <2>7. ~(k < K) /\ ~(K < k)  BY <2>1, <2>3, <2>4, <2>5, <2>6 DEF u, w
  <2> QED  BY <2>1, <2>7
<1>4. P(K)  BY DEF O
<1>5. place = K
  <2> HIDE DEF P
  <2> QED  BY <1>3, <1>4
<1>6. gap \in Nat \ {0}
  <2>1. Two[K] \in Nat \ {0}  BY TwoIs
  <2> DEFINE w == Two[K]
  <2> HIDE DEF w
  <2> QED  BY <2>1, SMTT(20) DEF w
<1>7. r = (IF neg THEN T ELSE 0) + (IF p > Float!Largest THEN I ELSE p)
  <2>1. r = LET g == d * Float!Two[place]
                q == n \div g
                o == 2 * (n % g)
                c == place * O + q + (IF o > g \/ (o = g /\ q % 2 = 1) THEN 1 ELSE 0)
            IN  (IF neg THEN T ELSE 0) + (IF c > Float!Largest THEN I ELSE c)
    BY FloatTwo DEF Float!Nearest, O, T, I
  <2> HIDE DEF place
  <2> QED  BY <1>5, <2>1, FloatTwo
<1> HIDE DEF gap, P, place, r, up
<1>8. m \in Nat  BY <1>6, Division
<1> HIDE DEF m
<1>9. K * O \in Nat /\ p \in Nat /\ p >= K * O + m
  <2>1. K * O \in Nat  BY <1>1, SMTT(20)
  <2> DEFINE x == K * O
  <2> HIDE DEF x
  <2>2. x \in Nat  BY <2>1 DEF x
  <2>3. x + m + (IF up THEN 1 ELSE 0) \in Nat /\ x + m + (IF up THEN 1 ELSE 0) >= x + m
    BY <1>8, <2>2
  <2> QED  BY <2>1, <2>3 DEF x
<1> HIDE DEF p
<1> DEFINE f == IF p > Float!Largest THEN I ELSE p
<1>10. f \in 0 .. T - 1  BY <1>1, <1>2, <1>9
<1>11. Float!Magnitude(r) = f
  <2> HIDE DEF f
  <2>1. Float!Magnitude(r) = r % T  BY DEF Float!Magnitude, T
  <2>2. r = T * 1 + f \/ r = T * 0 + f
    <3>1. r = (IF neg THEN T ELSE 0) + f  BY <1>7 DEF f
    <3> QED  BY <1>1, <1>10, <3>1
  <2>3. (T * 1 + f) % T = f /\ (T * 0 + f) % T = f  BY <1>1, <1>10, DivideOnce
  <2> QED  BY <2>1, <2>2, <2>3
<1>12. p <= Float!Largest => r = (IF neg THEN T ELSE 0) + p /\ Float!Magnitude(r) = p
  <2> HAVE p <= Float!Largest
  <2>1. ~(p > Float!Largest)  BY <1>2, <1>9
  <2>2. f = p  BY <2>1
  <2> QED  BY <1>7, <1>11, <2>1, <2>2
<1>13. Float!Number(r) => p <= Float!Largest
  <2> HAVE Float!Number(r)
  <2>1. f < I  BY <1>11 DEF Float!Number, I
  <2> QED  BY <1>2, <1>9, <2>1
<1> QED  BY <1>6, <1>8, <1>9, <1>12, <1>13 DEF gap, m, up, p, r, O, T, over

\* What is less than the least normal number has a pattern no greater than that number's.
LEMMA NearestSmall ==
  ASSUME NEW neg \in BOOLEAN, NEW n \in Nat, NEW d \in Nat \ {0}, n < Float!One * d
  PROVE  Float!Magnitude(Float!Nearest(neg, n, d)) \in 0 .. Float!LeastNormal
<1> DEFINE O == Float!One
           r == Float!Nearest(neg, n, d)
           gap == d * Two[0]
           m == n \div gap
           over == 2 * (n % gap)
           p == 0 * O + m + (IF over > gap \/ (over = gap /\ m % 2 = 1) THEN 1 ELSE 0)
           least == O * d * Two[0]
<1>1. O \in Nat \ {0, 1} /\ Float!ExpMod \in Nat /\ Float!ExpMod >= 4
      /\ Float!Top = Float!ExpMod * O /\ Float!LeastNormal = O
  BY FloatSizes DEF Float!LeastNormal
<1> HIDE DEF O
<1>2. Two[0] = 1  BY TwoIs
<1>3. O * d \in Nat  BY <1>1, SMTT(20)
<1>4. gap = d /\ least = O * d
  <2> DEFINE D == O * d
  <2>1. D \in Nat  BY <1>3
  <2> HIDE DEF D
  <2>2. D * Two[0] = D /\ d * Two[0] = d  BY <1>2, <2>1
  <2> QED  BY <2>2 DEF D
<1>5. n < O * d  BY DEF O
<1>6. n < 2 * least
  <2> DEFINE D == O * d
  <2>1. D \in Nat /\ n < D /\ least = D  BY <1>3, <1>4, <1>5
  <2> HIDE DEF D, least
  <2> QED  BY <2>1
<1>7. /\ m \in Nat /\ p \in Nat
      /\ p <= Float!Largest => Float!Magnitude(r) = p
  <2>1. 0 \in 0 .. 2 * Float!ExpMod  BY <1>1
  <2>2. n < 2 * (Float!One * d * Two[0])  BY <1>6 DEF O
  <2> QED  BY <2>1, <2>2, NearestAt DEF O
<1>8. m <= O - 1
  <2> DEFINE q == n \div d
             f == n % d
  <2>1. q \in Nat /\ f \in Nat /\ n = d * q + f
    <3>1. n \div d \in Nat /\ n % d \in 0 .. d - 1 /\ n = d * (n \div d) + (n % d)
      BY Division
    <3>2. q \in Nat /\ f \in 0 .. d - 1 /\ n = d * q + f  BY <3>1, Zenon DEF q, f
    <3> HIDE DEF q, f
    <3>3. f \in Nat  BY <3>2
    <3> QED  BY <3>2, <3>3
  <2>2. m = q  BY <1>4
  <2> HIDE DEF q, f
  <2>3. q >= O => d * q >= O * d
    <3>1. O <= q => O * d <= q * d  BY <1>1, <2>1, Products
    <3>2. q * d = d * q  BY <2>1, SMTT(20)
    <3> QED  BY <1>1, <2>1, <3>1, <3>2
  <2>4. d * q \in Nat  BY <2>1, SMTT(20)
  <2> DEFINE D == O * d
             Q == d * q
  <2>5. D \in Nat /\ Q \in Nat /\ n < D /\ n = Q + f /\ (q >= O => Q >= D)
    BY <1>3, <1>5, <2>1, <2>3, <2>4
  <2> HIDE DEF D, Q, m
  <2> QED  BY <1>1, <2>1, <2>2, <2>5
<1>9. p <= O
  <2>1. 0 * O = 0  BY <1>1
  <2> HIDE DEF m, gap
  <2> QED  BY <1>1, <1>7, <1>8, <2>1
<1>10. O <= Float!Largest /\ Float!Largest \in Int
  <2> DEFINE E == Float!ExpMod
             c == E - 1
             I == Float!Infinity(FALSE)
  <2>1. I = 0 + O * c + 0 /\ Float!Largest = I - 1
    BY DEF Float!Infinity, Float!Pack, Float!Largest, O
  <2>2. c \in Nat /\ 3 <= c  BY <1>1
  <2> HIDE DEF c, I
  <2>3. 3 * O <= c * O /\ c * O \in Nat  BY <1>1, <2>2, Products
  <2>4. c * O = O * c  BY <1>1, <2>2, SMTT(20)
  <2> DEFINE x == O * c
  <2>5. I = x /\ x \in Nat /\ 3 * O <= x  BY <2>1, <2>3, <2>4
  <2> HIDE DEF x
  <2> QED  BY <1>1, <2>1, <2>5
<1> HIDE DEF p, m, gap, r
<1>11. p <= Float!Largest  BY <1>1, <1>7, <1>9, <1>10
<1> QED  BY <1>1, <1>7, <1>9, <1>11 DEF r

\* A number of units whose nearest float is finite is less than the first power of two that
\* is none.
LEMMA NearestBound ==
  ASSUME NEW neg \in BOOLEAN, NEW n \in Nat, n < 2 * (Float!One * Two[Float!ExpMod]),
         Float!Number(Float!Nearest(neg, n, 1))
  PROVE  n < 2 * (Float!One * Two[Float!ExpMod - 3])
<1> DEFINE O == Float!One
           E == Float!ExpMod
           Y == O * Two[E - 3]
<1>1. O \in Nat \ {0, 1} /\ E \in Nat /\ E >= 4 /\ O = Two[FRAC] /\ FRAC \in Nat  BY FloatSizes
<1> HIDE DEF O, E
<1>2. E - 3 \in Nat  BY <1>1
<1>3. Two[E - 3] \in Nat \ {0} /\ Y \in Nat \ {0}
  <2>1. Two[E - 3] \in Nat \ {0}  BY <1>2, TwoIs
  <2> DEFINE w == Two[E - 3]
  <2> HIDE DEF w
  <2>2. O * w \in Nat \ {0}  BY <1>1, <2>1, SMTT(20) DEF w
  <2> QED  BY <2>1, <2>2 DEF w
<1>4. \A K \in Nat : 2 * (O * Two[K]) = Two[(FRAC + 1) + K]
  <2> SUFFICES ASSUME NEW K \in Nat
               PROVE  2 * (O * Two[K]) = Two[(FRAC + 1) + K]
    OBVIOUS
  <2>1. FRAC + K \in Nat /\ (FRAC + K) + 1 = (FRAC + 1) + K  BY <1>1
  <2>2. Two[(FRAC + K) + 1] = 2 * Two[FRAC + K]  BY <2>1, TwoIs
  <2>3. Two[FRAC + K] = O * Two[K]  BY <1>1, TwoSum
  <2> QED  BY <2>1, <2>2, <2>3
<1>5. CASE n < 2 * O
  <2>1. Two[E - 3] >= 1  BY <1>3
  <2> DEFINE w == Two[E - 3]
  <2>2. w \in Nat /\ 1 <= w  BY <1>3, <2>1
  <2> HIDE DEF w
  <2>3. 1 * O <= w * O /\ w * O = O * w /\ O * w \in Nat  BY <1>1, <2>2, Products, SMTT(20)
  <2>4. Y = O * w  BY DEF w
  <2> HIDE DEF Y
  <2>5. O <= Y /\ Y \in Nat  BY <1>1, <2>3, <2>4
  <2>6. n < 2 * Y  BY <1>1, <1>5, <2>5
  <2> QED  BY <2>6 DEF Y, O, E
<1>6. CASE ~(n < 2 * O)
  <2>1. PICK j \in 1 .. (FRAC + 1) + E : Two[j - 1] <= n /\ n < Two[j]
    <3> DEFINE N == (FRAC + 1) + E
    <3>1. N \in Nat /\ n < Two[N] /\ n # 0  BY <1>1, <1>4, <1>6 DEF O, E
    <3> HIDE DEF N
    <3>2. n \in Nat \ {0}  BY <3>1
    <3>3. \E j \in 1 .. N : Two[j - 1] <= n /\ n < Two[j]  BY <3>1, <3>2, TwoBetween
    <3> QED  BY <3>3 DEF N
  <2>2. j > FRAC + 1
    <3>1. j \in Nat /\ FRAC + 1 \in Nat /\ Two[FRAC + 1] = 2 * O  BY <1>1, TwoIs
    <3>2. Two[j] \in Nat  BY <3>1, TwoIs
    <3>3. j <= FRAC + 1 => Two[j] <= Two[FRAC + 1]  BY <3>1, TwoGrows
    <3> QED  BY <1>1, <1>6, <2>1, <3>1, <3>2, <3>3
  <2> DEFINE K == j - (FRAC + 1)
             g == Two[K]
             X == O * g
  <2>3. K \in Nat \ {0} /\ K <= E /\ (FRAC + 1) + K = j  BY <1>1, <2>1, <2>2
  <2>4. 2 * X = Two[j]
    <3> HIDE DEF K
    <3> QED  BY <1>4, <2>3
  <2>5. g \in Nat \ {0}
    <3> HIDE DEF K
    <3> QED  BY <2>3, TwoIs
  <2> HIDE DEF K, g
  <2>6. X \in Nat \ {0}  BY <1>1, <2>5, SMTT(20)
  <2>7. X <= n /\ n < 2 * X
    <3>1. j \in Nat \ {0} /\ j - 1 \in Nat /\ (j - 1) + 1 = j  BY <2>1
    <3>2. Two[j] = 2 * Two[j - 1] /\ Two[j - 1] \in Nat  BY <3>1, TwoIs
    <3> HIDE DEF X
    <3> QED  BY <2>1, <2>4, <2>6, <3>2
  <2> DEFINE m == n \div (1 * g)
             over == 2 * (n % (1 * g))
             p == K * O + m + (IF over > 1 * g \/ (over = 1 * g /\ m % 2 = 1) THEN 1 ELSE 0)
  <2>8. m \in Nat /\ p \in Nat /\ p >= K * O + m /\ K * O \in Nat /\ p <= Float!Largest
    <3>1. K \in 0 .. 2 * Float!ExpMod /\ 1 \in Nat \ {0}  BY <1>1, <2>3 DEF E
    <3>2. O * 1 * g = X  BY <1>1, <2>5
    <3>3. n < 2 * (Float!One * 1 * Two[K]) /\ n >= Float!One * 1 * Two[K]
      <4> HIDE DEF X
      <4>1. n < 2 * (O * 1 * g) /\ n >= O * 1 * g  BY <2>6, <2>7, <3>2
      <4> QED  BY <4>1 DEF O, g
    <3> QED  BY <3>1, <3>3, NearestAt DEF O, g
  <2>9. m >= O
    <3> DEFINE f == n % g
    <3>1. m \in Nat /\ f \in 0 .. g - 1 /\ n = g * m + f
      <4>1. 1 * g = g  BY <2>5
      <4> QED  BY <2>5, <4>1, Division
    <3> HIDE DEF m, f
    <3>2. m < O => m * g + g <= O * g  BY <1>1, <2>5, <3>1, Products
    <3>3. m * g = g * m /\ g * m \in Nat  BY <2>5, <3>1, SMTT(20)
    <3> DEFINE y == g * m
    <3>4. y \in Nat /\ n = y + f /\ (m < O => y + g <= X)  BY <3>1, <3>2, <3>3
    <3> HIDE DEF y, X
    <3> QED  BY <1>1, <2>5, <2>6, <2>7, <3>1, <3>4
  <2>10. K <= E - 3
    <3> DEFINE c == E - 1
               I == Float!Infinity(FALSE)
    <3>1. I = 0 + O * c + 0 /\ Float!Largest = I - 1
      BY DEF Float!Infinity, Float!Pack, Float!Largest, O, E
    <3>2. c \in Nat /\ K \in Nat  BY <1>1, <2>3
    <3>3. c * O = O * c /\ c * O \in Nat  BY <1>1, <3>2, SMTT(20)
    <3> DEFINE h == K + 1
    <3>4. h \in Nat /\ h * O = K * O + O
      <4>1. (K + 1) * O = K * O + 1 * O /\ 1 * O = O  BY <1>1, <3>2, SMTT(20)
      <4> QED  BY <3>2, <4>1
    <3>5. c <= h => c * O <= h * O  BY <1>1, <3>2, <3>4, Products
    <3> DEFINE x == c * O
               y == K * O
    <3>6. I = x /\ x \in Nat /\ y \in Nat /\ (c <= h => x <= y + O)
      <4> DEFINE z == O * c
      <4>1. I = 0 + z + 0 /\ x = z /\ x \in Nat /\ y \in Nat  BY <2>8, <3>1, <3>3
      <4>2. c <= h => x <= y + O  BY <3>4, <3>5
      <4> HIDE DEF z, x, y, I, c, h
      <4> QED  BY <4>1, <4>2
    <3>7. p >= y + m /\ p <= x - 1 /\ p \in Nat  BY <2>8, <3>1, <3>6
    <3> HIDE DEF x, y, p, m
    <3>8. ~(c <= h)  BY <1>1, <2>8, <2>9, <3>6, <3>7
    <3> QED  BY <1>1, <3>2, <3>8
  <2>11. 2 * X <= 2 * Y
    <3>1. Two[K] <= Two[E - 3]  BY <1>2, <2>3, <2>10, TwoGrows
    <3> DEFINE w == Two[E - 3]
    <3>2. w \in Nat /\ g <= w  BY <1>3, <3>1 DEF g
    <3> HIDE DEF w
    <3>3. g * O <= w * O /\ g * O = O * g /\ w * O = O * w  BY <1>1, <2>5, <3>2, Products, SMTT(20)
    <3>4. X <= O * w  BY <3>3
    <3>5. Y = O * w  BY DEF w
    <3> HIDE DEF X, Y
    <3> QED  BY <1>3, <2>6, <3>4, <3>5
  <2> HIDE DEF X, Y
  <2>12. n < 2 * Y  BY <1>3, <2>6, <2>7, <2>11
  <2> QED  BY <2>12 DEF Y, O, E
<1> QED  BY <1>5, <1>6

-----------------------------------------------------------------------------
(* How far off a sum is.                                                   *)

\* Aligning loses less than a place of the larger operand.
LEMMA AlignmentClose ==
  ASSUME NEW T \in 0 .. 2 * Float!One - 1, NEW e \in 1 .. Float!ExpMod - 2, NEW k \in 0 .. e,
         k = 0 => T = 0
  PROVE  LET s  == Float!Aligned(T, (e - k) % Float!ExpMod)
             P  == Two[e - 1]
             ut == T * Two[PlaceOf(k)]
         IN  /\ s \in Nat /\ ut \in Nat /\ P \in Nat \ {0} /\ s * P \in Nat
             /\ s * P <= ut /\ ut < s * P + P
<1> DEFINE O == Float!One
           E == Float!ExpMod
           s == Float!Aligned(T, (e - k) % E)
           d == e - k
           P == Two[e - 1]
           Q == Two[PlaceOf(k)]
           D == Two[d]
           ut == T * Q
<1>1. O \in Nat \ {0, 1} /\ E \in Nat /\ E >= 4 /\ O = Two[FRAC] /\ FRAC \in Nat /\ FRAC >= 1
  BY FloatSizes
<1>2. T \in 0 .. 2 * O - 1 /\ e \in 1 .. E - 2 /\ k \in 0 .. e
  OBVIOUS
<1>3. s = IF d > FRAC + 1 THEN 0 ELSE T \div D
  <2> HIDE DEF E
  <2>1. d \in 0 .. E - 1 /\ E * 0 + d = d /\ E \in Nat \ {0}  BY <1>1, <1>2
  <2>2. (E * 0 + d) % E = d  BY <2>1, DivideOnce
  <2>3. (e - k) % E = d  BY <2>1, <2>2
  <2> HIDE DEF d
  <2> QED  BY <2>3, FloatTwo DEF Float!Aligned
<1>4. PlaceOf(k) \in Nat /\ d \in Nat /\ e - 1 \in Nat  BY <1>1, <1>2 DEF PlaceOf
<1>5. P \in Nat \ {0} /\ Q \in Nat \ {0} /\ D \in Nat \ {0}  BY <1>4, TwoIs
<1> HIDE DEF O, E, s
<1>6. T \in Nat  BY <1>1, <1>2
<1>7. s \in Nat /\ s * D <= T /\ T < s * D + D /\ s * D \in Nat
  <2>1. CASE d > FRAC + 1
    <3>1. s = 0  BY <1>3, <2>1
    <3>2. Two[FRAC + 1] = 2 * O /\ Two[FRAC + 1] <= Two[d]
      <4>1. FRAC + 1 \in Nat /\ FRAC + 1 <= d  BY <1>1, <1>4, <2>1
      <4> HIDE DEF d
      <4> QED  BY <1>1, <1>4, <4>1, TwoIs, TwoGrows
    <3> HIDE DEF D
    <3>3. 0 * D = 0  BY <1>5
    <3> QED  BY <1>1, <1>2, <1>5, <1>6, <3>1, <3>2, <3>3 DEF D
  <2>2. CASE ~(d > FRAC + 1)
    <3>1. s = T \div D  BY <1>3, <2>2
    <3> HIDE DEF D
    <3> DEFINE q == T \div D
               f == T % D
    <3>2. q \in Nat /\ f \in 0 .. D - 1 /\ T = D * q + f  BY <1>5, <1>6, Division
    <3> HIDE DEF q, f
    <3>3. s = q  BY <3>1 DEF q
    <3>4. D * q \in Nat /\ D * q = q * D  BY <1>5, <3>2, SMTT(20)
    <3> DEFINE y == D * q
    <3>5. y \in Nat /\ s * D = y /\ T = y + f  BY <3>2, <3>3, <3>4
    <3> HIDE DEF y
    <3> QED  BY <1>5, <3>2, <3>3, <3>5
  <2> QED  BY <2>1, <2>2
<1>8. s * P \in Nat
  <2> HIDE DEF P
  <2> QED  BY <1>5, <1>7, SMTT(20)
<1>9. CASE k = 0
  <2>1. T = 0  BY <1>9
  <2>2. ut = 0
    <3> HIDE DEF Q
    <3>1. 0 * Q = 0  BY <1>5
    <3> QED  BY <2>1, <3>1
  <2>3. s = 0
    <3> HIDE DEF D
    <3>1. s # 0 => 1 * D <= s * D  BY <1>5, <1>7, Products
    <3> QED  BY <1>5, <1>7, <2>1, <3>1
  <2>4. s * P = 0
    <3> HIDE DEF P
    <3> QED  BY <1>5, <2>3
  <2> HIDE DEF P, ut
  <2>5. s \in Nat /\ ut \in Nat /\ P \in Nat \ {0} /\ s * P \in Nat
        /\ s * P <= ut /\ ut < s * P + P
    BY <1>5, <1>7, <1>8, <2>2, <2>4
  <2> QED  BY <2>5 DEF s, P, ut, Q, E
<1>10. CASE k # 0
  <2>1. P = D * Q
    <3>1. e - 1 = d + PlaceOf(k)  BY <1>1, <1>2, <1>10 DEF PlaceOf
    <3> HIDE DEF d
    <3>2. Two[d + PlaceOf(k)] = Two[d] * Two[PlaceOf(k)]  BY <1>4, TwoSum
    <3> QED  BY <3>1, <3>2
  <2> HIDE DEF P, Q, D, d
  <2> DEFINE y == s * D
             z == y + D
  <2>2. y \in Nat /\ z \in Nat /\ y <= T /\ T < z  BY <1>5, <1>7
  <2>3. y * Q = s * P /\ z * Q = s * P + P
    <3>1. (s * D) * Q = s * (D * Q)  BY <1>5, <1>7, SMTT(20)
    <3>2. (s * D + D) * Q = (s * D) * Q + D * Q  BY <1>5, <1>7, SMTT(20)
    <3> QED  BY <2>1, <3>1, <3>2
  <2> HIDE DEF y, z
  <2>4. y * Q <= T * Q /\ T * Q + Q <= z * Q /\ T * Q \in Nat /\ y * Q \in Nat
    BY <1>5, <1>6, <2>2, Products
  <2> DEFINE A == s * P
  <2>5. A \in Nat /\ ut \in Nat /\ A <= ut /\ ut + Q <= A + P  BY <1>8, <2>3, <2>4
  <2> HIDE DEF A, ut
  <2>6. ut < A + P  BY <1>5, <2>5
  <2> QED  BY <1>5, <1>7, <2>5, <2>6 DEF A, ut, s, P, Q, E
<1> QED  BY <1>9, <1>10

\* A float put together from an exponent and a significand, and its units.
LEMMA PackUnits ==
  ASSUME NEW sign \in BOOLEAN, NEW x \in 1 .. Float!ExpMod - 2,
         NEW F \in Float!One .. 2 * Float!One - 1
  PROVE  LET r == Float!Pack(sign, x, F - Float!One)
         IN  /\ r \in Nat /\ F * Two[x - 1] \in Nat
             /\ Float!Value(r) = Signum(sign, F * Two[x - 1])
<1> DEFINE h == F - Float!One
           r == Float!Pack(sign, x, h)
<1>1. /\ h \in 0 .. Float!One - 1 /\ Float!One + h = F /\ F \in Nat
      /\ x \in 0 .. Float!ExpMod - 1 /\ x # 0 /\ x - 1 \in Nat
  BY FloatSizes
<1> HIDE DEF h
<1>2. r \in Nat /\ Float!Exp(r) = x /\ Float!Frac(r) = h /\ Float!Sign(r) = sign
  BY <1>1, PackFields, PackWord
<1> HIDE DEF r
<1>3. Float!Significand(r) = F  BY <1>1, <1>2 DEF Float!Significand
<1>4. Float!Units(r) = F * Two[x - 1]  BY <1>1, <1>2, <1>3, FloatTwo DEF Float!Units, Float!Place
<1>5. Two[x - 1] \in Nat  BY <1>1, TwoIs
<1> DEFINE u == F * Two[x - 1]
<1>6. u \in Nat
  <2> DEFINE g == Two[x - 1]
  <2> HIDE DEF g
  <2> QED  BY <1>1, <1>5, SMTT(20) DEF g
<1>7. Float!Value(r) = Signum(sign, u)  BY <1>2, <1>4 DEF Float!Value, Signum
<1> QED  BY <1>2, <1>6, <1>7 DEF r, h

\* Normalizing a sum that is not made zero, and that has room for its carry, moves it by no
\* more than a place; a carry that is rounded up cannot be the largest, which is even.
LEMMA NormalizedClose ==
  ASSUME NEW sign \in BOOLEAN, NEW e \in 1 .. Float!ExpMod - 2,
         NEW sum \in 1 .. 4 * Float!One - 2,
         sum >= 2 * Float!One => e <= Float!ExpMod - 3,
         Float!One <= sum * Two[e - 1]
  PROVE  LET r == Float!Normalized(sign, e, sum)
             P == Two[e - 1]
         IN  /\ r \in Nat
             /\ \E U \in Nat : /\ Float!Value(r) = Signum(sign, U)
                               /\ sum * P - P <= U /\ U <= sum * P + P
<1> DEFINE O == Float!One
           B == Float!BitLength(sum)
           n == FRAC + 2 - B
           f == IF n = 0
                THEN (sum \div 2) + (IF sum % 2 = 1 /\ (sum \div 2) % 2 = 1 THEN 1 ELSE 0)
                ELSE (sum * Two[n - 1]) % O
           x == IF n > 1 /\ n > e THEN 0 ELSE (e + 1 - n) % Float!ExpMod
           r == Float!Normalized(sign, e, sum)
           P == Two[e - 1]
<1>1. r = IF x = 0 THEN 0 ELSE Float!Pack(sign, x, f % O)
  BY FloatTwo DEF Float!Normalized
<1>2. O \in Nat \ {0, 1} /\ Two[FRAC] = O /\ FRAC \in Nat /\ Float!ExpMod \in Nat
      /\ Float!ExpMod >= 4
  BY FloatSizes
<1>3. Two[FRAC + 1] = 2 * O /\ Two[FRAC + 2] = 4 * O
  <2>1. FRAC + 1 \in Nat /\ (FRAC + 1) + 1 = FRAC + 2  BY <1>2
  <2>2. Two[FRAC + 1] = 2 * Two[FRAC] /\ Two[(FRAC + 1) + 1] = 2 * Two[FRAC + 1]
    BY <1>2, <2>1, TwoIs
  <2> QED  BY <1>2, <2>1, <2>2
<1>4. sum \in 1 .. 4 * O - 1 /\ sum \in Nat \ {0} /\ sum <= 4 * O - 2  BY <1>2
<1>5. B \in 1 .. FRAC + 2 /\ Two[B - 1] <= sum /\ sum < Two[B]
  <2>1. FRAC + 2 \in Nat /\ FRAC + 2 <= 2 * FRAC + EXP + 4  BY FloatSizes
  <2>2. sum < Two[FRAC + 2]  BY <1>2, <1>3, <1>4
  <2> HIDE DEF B
  <2> QED  BY <1>4, <2>1, <2>2, HighestBit DEF B
<1>6. n \in 0 .. FRAC + 1 /\ B = FRAC + 2 - n  BY <1>2, <1>5
<1>7. r # 0
  <2>1. r = 0 => sum * Two[e - 1] < O  BY <1>4, NormalizedSum
  <2>2. sum * Two[e - 1] \in Nat
    <3>1. Two[e - 1] \in Nat
      <4>1. e - 1 \in Nat  OBVIOUS
      <4> QED  BY <4>1, TwoIs
    <3> DEFINE g == Two[e - 1]
    <3> HIDE DEF g
    <3>2. sum * g \in Nat  BY <1>4, <3>1, SMTT(20) DEF g
    <3> QED  BY <3>2 DEF g
  <2> HIDE DEF r
  <2> DEFINE y == sum * Two[e - 1]
  <2>3. y \in Nat /\ O <= y /\ (r = 0 => y < O)  BY <2>1, <2>2
  <2> HIDE DEF y, O
  <2> QED  BY <1>2, <2>3
<1> HIDE DEF r, B, f
<1>8. x # 0 /\ x = e + 1 - n /\ x \in 0 .. Float!ExpMod - 1
  <2>1. x # 0  BY <1>1, <1>7
  <2>2. ~(n > 1 /\ n > e)  BY <2>1
  <2> DEFINE E == Float!ExpMod
             c == e + 1 - n
  <2>3. c \in 0 .. E - 1 /\ E \in Nat \ {0} /\ E * 0 + c = c  BY <1>2, <1>6, <2>2
  <2>4. x = c % E  BY <2>2
  <2> HIDE DEF c, E, x
  <2>5. (E * 0 + c) % E = c  BY <2>3, DivideOnce
  <2>6. x = c /\ x \in 0 .. E - 1  BY <2>3, <2>4, <2>5
  <2> QED  BY <2>1, <2>6 DEF c, E
<1> HIDE DEF x
<1>9. x \in 1 .. Float!ExpMod - 2
  <2>1. CASE n = 0
    <3>1. B - 1 = FRAC + 1  BY <1>2, <1>6, <2>1
    <3>2. sum >= 2 * O  BY <1>3, <1>5, <3>1
    <3>3. e <= Float!ExpMod - 3  BY <3>2
    <3> HIDE DEF n
    <3> QED  BY <1>2, <1>8, <2>1, <3>3
  <2>2. CASE n # 0
    <3> HIDE DEF n
    <3> QED  BY <1>2, <1>6, <1>8, <2>2
  <2> QED  BY <2>1, <2>2
<1>10. e - 1 \in Nat /\ P \in Nat \ {0}
  <2>1. e - 1 \in Nat  OBVIOUS
  <2> QED  BY <2>1, TwoIs
<1>11. sum * P \in Nat
  <2> HIDE DEF P
  <2> QED  BY <1>4, <1>10, SMTT(20)
<1>12. ASSUME NEW F \in O .. 2 * O - 1, f % O = F - O,
              sum * P - P <= F * Two[x - 1], F * Two[x - 1] <= sum * P + P
       PROVE  /\ r \in Nat
              /\ \E U \in Nat : /\ Float!Value(r) = Signum(sign, U)
                                /\ sum * P - P <= U /\ U <= sum * P + P
  <2>1. r = Float!Pack(sign, x, F - O)  BY <1>1, <1>8, <1>12
  <2>2. r \in Nat /\ F * Two[x - 1] \in Nat /\ Float!Value(r) = Signum(sign, F * Two[x - 1])
    BY <1>9, <1>12, <2>1, PackUnits
  <2> HIDE DEF P
  <2> QED  BY <1>12, <2>2
<1>13. CASE n = 0
  <2> DEFINE up == sum % 2 = 1 /\ (sum \div 2) % 2 = 1
             h == sum \div 2
             F == h + (IF up THEN 1 ELSE 0)
  <2>1. f = F  BY <1>13 DEF f
  <2>2. sum >= 2 * O  BY <1>2, <1>3, <1>5, <1>6, <1>13
  <2>3. F \in O .. 2 * O - 1 /\ sum - 1 <= 2 * F /\ 2 * F <= sum + 1
    <3> HIDE DEF O
    <3>1. h \in Nat /\ (sum = 2 * h \/ sum = 2 * h + 1) /\ (sum % 2 = 1 <=> sum = 2 * h + 1)
      BY <1>4
    <3>2. CASE up
      <4>1. sum = 2 * h + 1 /\ F = h + 1  BY <3>1, <3>2
      <4> HIDE DEF h, F, up
      <4> QED  BY <1>2, <1>4, <2>2, <3>1, <4>1
    <3>3. CASE ~up
      <4>1. F = h  BY <3>1, <3>3
      <4> HIDE DEF h, F, up
      <4> QED  BY <1>2, <1>4, <2>2, <3>1, <4>1
    <3> QED  BY <3>2, <3>3
  <2> HIDE DEF h, F, up
  <2>4. f % O = F - O
    <3> HIDE DEF O
    <3>1. F - O \in 0 .. O - 1 /\ O * 1 + (F - O) = F  BY <1>2, <2>3
    <3> DEFINE g == F - O
    <3>2. g \in 0 .. O - 1 /\ O * 1 + g = F  BY <3>1
    <3> HIDE DEF g
    <3>3. (O * 1 + g) % O = g  BY <1>2, <3>2, DivideOnce
    <3> QED  BY <2>1, <3>2, <3>3 DEF g
  <2>5. Two[x - 1] = 2 * P
    <3>1. x - 1 = (e - 1) + 1
      <4> HIDE DEF n
      <4> QED  BY <1>8, <1>13
    <3>2. Two[(e - 1) + 1] = 2 * Two[e - 1]  BY <1>10, TwoIs
    <3> QED  BY <3>1, <3>2
  <2>6. sum * P - P <= F * Two[x - 1] /\ F * Two[x - 1] <= sum * P + P
    <3> HIDE DEF P, O
    <3> DEFINE D == 2 * F
               y == sum * P
               z == F * Two[x - 1]
    <3>0. F \in Nat  BY <1>2, <2>3
    <3>1. D \in Nat /\ sum - 1 <= D /\ D <= sum + 1  BY <2>3, <3>0
    <3>2. z = D * P
      <4>1. F * (2 * P) = (2 * F) * P  BY <1>10, <3>0, SMTT(20)
      <4> QED  BY <2>5, <4>1
    <3> HIDE DEF D
    <3> DEFINE b == sum - 1
               c == sum + 1
    <3>3. b \in Nat /\ c \in Nat /\ b <= D /\ D <= c  BY <1>4, <3>1
    <3>4. b * P = sum * P - P /\ c * P = sum * P + P  BY <1>4, <1>10, SMTT(20)
    <3> HIDE DEF b, c
    <3>5. b * P <= D * P /\ D * P <= c * P  BY <1>10, <3>1, <3>3, Products
    <3> QED  BY <3>2, <3>4, <3>5
  <2> QED  BY <1>12, <2>3, <2>4, <2>6 DEF r, P
<1>14. CASE n # 0
  <2> DEFINE i == n - 1
             F == sum * Two[i]
  <2>1. i \in Nat /\ B + i = FRAC + 1 /\ (B + i) - 1 = FRAC /\ B \in Nat \ {0}
        /\ (x - 1) + i = e - 1 /\ x - 1 \in Nat
    <3>1. x - 1 \in Nat  BY <1>9
    <3> HIDE DEF x
    <3>2. n \in Nat \ {0} /\ B = FRAC + 2 - n /\ x = e + 1 - n  BY <1>6, <1>8, <1>14
    <3> HIDE DEF n
    <3> QED  BY <1>2, <1>5, <3>1, <3>2
  <2>2. f = F % O  BY <1>14 DEF f
  <2> HIDE DEF n, i
  <2>3. F \in O .. 2 * O - 1 /\ F \in Nat
    <3>1. /\ F \in Nat \ {0} /\ Two[(B + i) - 1] <= F /\ F < Two[B + i]
      BY <1>4, <1>5, <2>1, Longer
    <3> HIDE DEF F, O
    <3>2. O <= F /\ F < 2 * O  BY <1>2, <1>3, <2>1, <3>1
    <3> QED  BY <1>2, <3>1, <3>2
  <2>4. F * Two[x - 1] = sum * P
    <3>1. Two[(x - 1) + i] = Two[x - 1] * Two[i] /\ Two[x - 1] \in Nat /\ Two[i] \in Nat
      BY <2>1, TwoSum, TwoIs
    <3> DEFINE g == Two[x - 1]
               h == Two[i]
    <3>2. g \in Nat /\ h \in Nat /\ P = g * h  BY <2>1, <3>1
    <3> HIDE DEF g, h, P
    <3>3. (sum * h) * g = sum * (g * h)  BY <1>4, <3>2, SMTT(20)
    <3> QED  BY <3>2, <3>3 DEF g, h
  <2> HIDE DEF F
  <2>5. f % O = F - O
    <3> HIDE DEF O
    <3> DEFINE g == F - O
    <3>1. g \in 0 .. O - 1 /\ O * 1 + g = F /\ O * 0 + g = g  BY <1>2, <2>3
    <3> HIDE DEF g
    <3>2. (O * 1 + g) % O = g /\ (O * 0 + g) % O = g  BY <1>2, <3>1, DivideOnce
    <3>3. f = g  BY <2>2, <3>1, <3>2
    <3> QED  BY <3>1, <3>2, <3>3 DEF g
  <2>6. sum * P - P <= F * Two[x - 1] /\ F * Two[x - 1] <= sum * P + P
    <3> DEFINE y == sum * P
    <3>1. y \in Nat /\ F * Two[x - 1] = y  BY <1>11, <2>4
    <3> HIDE DEF y, P
    <3>2. y - P <= y /\ y <= y + P  BY <1>10, <3>1
    <3> QED  BY <3>1, <3>2 DEF y
  <2> QED  BY <1>12, <2>3, <2>5, <2>6 DEF r, P
<1> QED  BY <1>13, <1>14

\* The larger operand of a sum, when the numbers are equal too, has the larger exponent.
LEMMA LargerPlace ==
  ASSUME NEW a \in Nat, NEW b \in Nat, Float!Ordinary(a), Float!Ordinary(b), NEW sub \in BOOLEAN,
         NEW S, NEW T, NEW e, NEW k, NEW sign, SumIs(a, b, sub, S, T, e, k, sign)
  PROVE  Float!Place(IF Float!Units(a) > Float!Units(b) THEN a ELSE b) = PlaceOf(e)
<1> DEFINE swap == Float!Swap(a, b)
           us == S * Two[PlaceOf(e)]
           ut == T * Two[PlaceOf(k)]
           big == IF swap THEN b ELSE a
           small == IF swap THEN a ELSE b
           larger == IF Float!Units(a) > Float!Units(b) THEN a ELSE b
<1>1. /\ e = Float!Exp(big) /\ us = Float!Units(big)
      /\ k = Float!Exp(small) /\ ut = Float!Units(small)
      /\ us \in Nat /\ ut \in Nat /\ ut <= us
      /\ Float!Units(a) \in Nat /\ Float!Units(b) \in Nat
      /\ e \in 0 .. Float!ExpMod - 2 /\ k \in 0 .. e /\ (k = 0 => T = 0)
  BY DEF SumIs
<1> HIDE DEF swap, us
<1>2. Float!ExpMod \in Nat  BY FloatSizes
<1>3. Float!Exp(larger) = e
  <2>1. CASE swap
    <3>1. Float!Units(a) <= Float!Units(b)  BY <1>1, <2>1
    <3>2. ~(Float!Units(a) > Float!Units(b))  BY <1>1, <3>1
    <3> QED  BY <1>1, <2>1, <3>2
  <2>2. CASE ~swap /\ Float!Units(a) > Float!Units(b)
    BY <1>1, <2>2
  <2>3. CASE ~swap /\ ~(Float!Units(a) > Float!Units(b))
    <3>1. big = a /\ small = b /\ larger = b  BY <2>3
    <3>2. e = Float!Exp(a) /\ k = Float!Exp(b) /\ us = Float!Units(a) /\ ut = Float!Units(b)
      BY <1>1, <3>1
    <3>3. Float!Units(a) = Float!Units(b)  BY <1>1, <2>3, <3>2
    <3>4. CASE e = 0
      <4>1. k = 0  BY <1>1, <1>2, <3>4
      <4> QED  BY <3>1, <3>2, <3>4, <4>1
    <3>5. CASE e # 0
      <4>1. /\ Float!Units(a) \in Nat \ {0} /\ FRAC + e \in Nat \ {0}
            /\ Two[(FRAC + e) - 1] <= Float!Units(a) /\ Float!Units(a) < Two[FRAC + e]
        BY <3>2, <3>5, NormalUnits
      <4>2. k # 0
        <5> SUFFICES ASSUME k = 0
                     PROVE  FALSE
          OBVIOUS
        <5>1. T = 0  BY <1>1
        <5>2. Two[PlaceOf(k)] \in Nat
          <6>1. PlaceOf(k) = 0  BY DEF PlaceOf
          <6> QED  BY <6>1, TwoIs
        <5>3. ut = 0  BY <5>1, <5>2
        <5> QED  BY <3>2, <3>3, <4>1, <5>3
      <4>3. /\ FRAC + k \in Nat \ {0}
            /\ Two[(FRAC + k) - 1] <= Float!Units(b) /\ Float!Units(b) < Two[FRAC + k]
        BY <3>2, <4>2, NormalUnits
      <4> DEFINE i == FRAC + e
                 j == FRAC + k
                 u == Float!Units(a)
      <4>4. /\ u \in Nat /\ i \in Nat \ {0} /\ j \in Nat \ {0}
            /\ Two[i - 1] <= u /\ u < Two[i] /\ Two[j - 1] <= u /\ u < Two[j]
        BY <3>3, <4>1, <4>3
      <4> HIDE DEF i, j, u
      <4>5. i = j  BY <4>4, LengthOnce
      <4>6. e = k  BY <1>1, <1>2, <4>5, FloatSizes DEF i, j
      <4> QED  BY <3>1, <3>2, <4>6
    <3> QED  BY <3>4, <3>5
  <2> QED  BY <2>1, <2>2, <2>3
<1> QED  BY <1>3 DEF Float!Place, PlaceOf, larger

\* Two numbers of the same sign are as far apart as their magnitudes.
LEMMA SignumApart ==
  ASSUME NEW sign \in BOOLEAN, NEW u \in Nat, NEW m \in Nat, NEW Q \in Nat,
         u - m < Q, m - u < Q
  PROVE  Abs(Signum(sign, u) - Signum(sign, m)) < Q
<1> DEFINE d == Signum(sign, u) - Signum(sign, m)
<1>1. d \in Int /\ d < Q /\ 0 - d < Q
  <2>1. CASE sign
    <3> DEFINE x == -u
               y == -m
    <3>1. x \in Int /\ y \in Int /\ x = 0 - u /\ y = 0 - m  OBVIOUS
    <3>2. d = x - y  BY <2>1, Zenon DEF Signum
    <3> HIDE DEF x, y, d
    <3> QED  BY <3>1, <3>2
  <2>2. CASE ~sign
    <3>1. d = u - m  BY <2>2, Zenon DEF Signum
    <3> HIDE DEF d
    <3> QED  BY <3>1
  <2> QED  BY <2>1, <2>2
<1> HIDE DEF d
<1>2. CASE d < 0
  <2>1. Abs(d) = -d  BY <1>2, Zenon DEF Abs
  <2>2. -d = 0 - d  BY <1>1
  <2> QED  BY <1>1, <2>1, <2>2 DEF d
<1>3. CASE ~(d < 0)
  <2>1. Abs(d) = d  BY <1>3, Zenon DEF Abs
  <2> QED  BY <1>1, <2>1 DEF d
<1> QED  BY <1>2, <1>3

\* A sum that is neither less than the least normal number nor beyond the largest is less than
\* two places of the larger operand off.
LEMMA SumClose ==
  ASSUME NEW a \in Nat, NEW b \in Nat, Float!Ordinary(a), Float!Ordinary(b), NEW sub \in BOOLEAN
  PROVE  LET v == Signum(Float!Sign(b), Float!Units(b))
                    + Signum(Float!Sign(a) # sub, Float!Units(a))
             r == Float!AddSub(a, b, sub)
             larger == IF Float!Units(a) > Float!Units(b) THEN a ELSE b
         IN  Float!One <= Abs(v) /\ Abs(v) < 2 * (Float!One * Two[Float!ExpMod - 3]) =>
               Abs(Float!Value(r) - v) < 2 * Two[Float!Place(larger)]
<1>1. PICK S, T, e, k, sign : SumIs(a, b, sub, S, T, e, k, sign)  BY SumParts
<1> DEFINE O == Float!One
           E == Float!ExpMod
           differ == (Float!Sign(a) # sub) # Float!Sign(b)
           s == Float!Aligned(T, (e - k) % Float!ExpMod)
           sum == IF differ THEN S - s ELSE S + s
           us == S * Two[PlaceOf(e)]
           ut == T * Two[PlaceOf(k)]
           m == IF differ THEN us - ut ELSE us + ut
           r == Float!AddSub(a, b, sub)
           v == Signum(Float!Sign(b), Float!Units(b))
                  + Signum(Float!Sign(a) # sub, Float!Units(a))
           larger == IF Float!Units(a) > Float!Units(b) THEN a ELSE b
           P == Two[e - 1]
           Y == O * Two[E - 3]
<1> SUFFICES ASSUME O <= Abs(v), Abs(v) < 2 * Y
             PROVE  Abs(Float!Value(r) - v) < 2 * Two[Float!Place(larger)]
  OBVIOUS
<1>2. O \in Nat \ {0, 1} /\ E \in Nat /\ E >= 4  BY FloatSizes
<1>3. /\ S \in 0 .. 2 * O - 1 /\ T \in 0 .. 2 * O - 1
      /\ e \in 0 .. E - 2 /\ k \in 0 .. e /\ sign \in BOOLEAN
      /\ e = 0 => S = 0
      /\ e # 0 => S >= O
      /\ k = 0 => T = 0
      /\ s \in 0 .. S
      /\ us \in Nat /\ ut \in Nat /\ ut <= us
  BY <1>1 DEF SumIs
<1>4. v = Signum(sign, m)  BY <1>1 DEF SumIs
<1>5. r = IF sum = 0 \/ e = 0 THEN 0 ELSE Float!Normalized(sign, e, sum)  BY <1>1 DEF SumIs
<1>6. Float!Place(larger) = PlaceOf(e)  BY <1>1, LargerPlace
<1> HIDE DEF v, r, larger, O, E, Y
<1>7. m \in Nat
  <2> HIDE DEF us, ut, differ
  <2> QED  BY <1>3
<1>8. O <= m /\ m < 2 * Y  BY <1>3, <1>4, <1>7, AbsSignum
<1>9. e # 0
  <2> SUFFICES ASSUME e = 0
               PROVE  FALSE
    OBVIOUS
  <2>1. Two[PlaceOf(e)] \in Nat
    <3>1. PlaceOf(e) = 0  BY DEF PlaceOf
    <3> QED  BY <3>1, TwoIs
  <2>2. us = 0  BY <1>3, <2>1
  <2> HIDE DEF us, ut, differ
  <2>3. m = 0  BY <1>3, <2>2
  <2> QED  BY <1>2, <1>8, <2>3
<1>10. e \in 1 .. E - 2 /\ PlaceOf(e) = e - 1 /\ e - 1 \in Nat  BY <1>2, <1>3, <1>9 DEF PlaceOf
<1>11. P \in Nat \ {0} /\ us = S * P  BY <1>10, TwoIs
<1>12. s \in Nat /\ s * P \in Nat /\ s * P <= ut /\ ut < s * P + P
  BY <1>3, <1>10, AlignmentClose DEF O, E
<1> HIDE DEF us, ut, s, P, differ
<1>13. S \in Nat /\ S * P \in Nat  BY <1>2, <1>3, <1>11, SMTT(20)
<1> DEFINE A == S * P
           B == s * P
           C == sum * P
           Between == /\ sum \in 1 .. 4 * O - 2 /\ (sum >= 2 * O => e <= E - 3)
                      /\ C \in Nat /\ O <= C /\ C < m + P /\ m < C + P
<1>14. A \in Nat /\ B \in Nat /\ us = A /\ B <= ut /\ ut < B + P  BY <1>11, <1>12, <1>13
<1>15. ASSUME differ
       PROVE  Between
  <2>1. sum = S - s /\ m = us - ut  BY <1>15
  <2>2. C = A - B
    <3>1. (S - s) * P = S * P - s * P  BY <1>11, <1>12, <1>13, SMTT(20)
    <3> QED  BY <2>1, <3>1
  <2> HIDE DEF A, B, C, sum, m
  <2>3. sum \in Nat /\ sum < 2 * O  BY <1>2, <1>3, <2>1
  <2>4. m <= C /\ C < m + P /\ C \in Int  BY <1>3, <1>11, <1>14, <2>1, <2>2
  <2>5. sum # 0
    <3> SUFFICES ASSUME sum = 0
                 PROVE  FALSE
      OBVIOUS
    <3>1. C = 0  BY <1>11 DEF C
    <3> QED  BY <1>2, <1>7, <1>8, <2>4, <3>1
  <2>6. /\ sum \in 1 .. 4 * O - 2 /\ (sum >= 2 * O => e <= E - 3)
        /\ C \in Nat /\ O <= C /\ C < m + P /\ m < C + P
    BY <1>2, <1>7, <1>8, <1>11, <2>3, <2>4, <2>5
  <2> QED  BY <2>6
<1>16. ASSUME ~differ
       PROVE  Between
  <2>1. sum = S + s /\ m = us + ut  BY <1>16
  <2>2. C = A + B
    <3>1. (S + s) * P = S * P + s * P  BY <1>11, <1>12, <1>13, SMTT(20)
    <3> QED  BY <2>1, <3>1
  <2> HIDE DEF A, B, sum, m
  <2>3. sum \in 1 .. 4 * O - 2 /\ sum >= O /\ sum \in Nat  BY <1>2, <1>3, <1>9, <1>12, <2>1
  <2>4. 1 * sum <= P * sum /\ P * sum = C  BY <1>11, <2>3, Products, SMTT(20)
  <2>5. sum >= 2 * O => e <= E - 3
    <3> SUFFICES ASSUME sum >= 2 * O, ~(e <= E - 3)
                 PROVE  FALSE
      OBVIOUS
    <3>1. e - 1 = E - 3  BY <1>2, <1>10
    <3>2. Y = O * P  BY <3>1 DEF Y, P
    <3>3. 2 * O \in Nat  BY <1>2
    <3> DEFINE D == 2 * O
    <3>4. D \in Nat /\ D <= sum  BY <3>3
    <3> HIDE DEF D
    <3>5. D * P <= sum * P  BY <1>11, <2>3, <3>4, Products
    <3>6. D * P = 2 * (O * P) /\ O * P \in Nat  BY <1>2, <1>11, SMTT(20) DEF D
    <3>7. 2 * Y <= C /\ Y \in Nat  BY <3>2, <3>5, <3>6
    <3> HIDE DEF C
    <3> QED  BY <1>3, <1>7, <1>8, <1>14, <2>1, <2>2, <3>7
  <2> HIDE DEF C
  <2>6. /\ C \in Nat /\ O <= C /\ C < m + P /\ m < C + P
    BY <1>2, <1>3, <1>7, <1>11, <1>14, <2>1, <2>2, <2>3, <2>4
  <2> QED  BY <2>3, <2>5, <2>6 DEF C
<1>17. Between  BY <1>15, <1>16
<1> HIDE DEF sum, m
<1>18. r = Float!Normalized(sign, e, sum)  BY <1>2, <1>5, <1>9, <1>17
<1>19. PICK U \in Nat : /\ Float!Value(r) = Signum(sign, U)
                        /\ sum * P - P <= U /\ U <= sum * P + P
  <2>1. e \in 1 .. Float!ExpMod - 2 /\ sum \in 1 .. 4 * Float!One - 2
        /\ (sum >= 2 * Float!One => e <= Float!ExpMod - 3) /\ Float!One <= sum * Two[e - 1]
    BY <1>10, <1>17 DEF O, E, P
  <2> QED  BY <1>3, <1>18, <2>1, NormalizedClose DEF P
<1> HIDE DEF C
<1>20. U - m < 2 * P /\ m - U < 2 * P /\ 2 * P \in Nat
  <2>1. C - P <= U /\ U <= C + P  BY <1>19 DEF C
  <2> QED  BY <1>7, <1>11, <1>17, <2>1
<1>21. Abs(Float!Value(r) - v) < 2 * P  BY <1>3, <1>4, <1>7, <1>19, <1>20, SignumApart
<1> QED  BY <1>6, <1>10, <1>21 DEF P

-----------------------------------------------------------------------------
(* How far off a quotient is.                                              *)

\* The quotient of the significands y and x, as the unit rounds it: it has two bits before the
\* point unless y < x. Rounded to the nearest it is that number or the next one.
LEMMA QuotientRounded ==
  ASSUME NEW x \in Float!One .. 2 * Float!One - 1, NEW y \in Float!One .. 2 * Float!One - 1,
         NEW g \in Nat \ {0}
  PROVE  LET N    == IF y >= x THEN y * Float!One ELSE y * (2 * Float!One)
             q    == (y * 2 * Float!One) \div x
             up   == q % 2 = 1 /\ (q \div 2) % 2 = 1
             F    == IF q >= 2 * Float!One THEN (q \div 2) + (IF up THEN 1 ELSE 0) ELSE q
             n    == N * g
             gap  == x * g
             m    == n \div gap
             over == 2 * (n % gap)
             one  == IF over > gap \/ (over = gap /\ m % 2 = 1) THEN 1 ELSE 0
         IN  /\ q >= 2 * Float!One <=> y >= x
             /\ n \in Nat /\ n < 2 * (Float!One * x * g) /\ n >= Float!One * x * g
             /\ F \in Float!One .. 2 * Float!One - 1 /\ m \in Nat /\ m >= Float!One
             /\ m + one \in {F, F + 1}
<1> DEFINE O == Float!One
           N == IF y >= x THEN y * O ELSE y * (2 * O)
           q == (y * 2 * O) \div x
           up == q % 2 = 1 /\ (q \div 2) % 2 = 1
           F == IF q >= 2 * O THEN (q \div 2) + (IF up THEN 1 ELSE 0) ELSE q
           n == N * g
           gap == x * g
           m == n \div gap
           over == 2 * (n % gap)
           one == IF over > gap \/ (over = gap /\ m % 2 = 1) THEN 1 ELSE 0
           d == N \div x
           f == N % x
           L == O * x
<1>1. O \in Nat \ {0, 1}  BY FloatSizes
<1>2. x \in O .. 2 * O - 1 /\ y \in O .. 2 * O - 1  OBVIOUS
<1> HIDE DEF O
<1>3. x \in Nat \ {0} /\ y \in Nat \ {0} /\ x >= O /\ y >= O /\ x < 2 * O /\ y < 2 * O
      /\ 2 * O \in Nat /\ 2 * x \in Nat /\ 2 * y \in Nat
  BY <1>1, <1>2
<1>4. y * O \in Nat /\ y * (2 * O) \in Nat /\ y * 2 * O = y * (2 * O)
      /\ y * (2 * O) = 2 * (y * O) /\ y * (2 * O) = (2 * y) * O
  BY <1>1, <1>3, SMTT(20)
<1>5. L \in Nat /\ L = x * O /\ x * (2 * O) = 2 * L /\ (2 * x) * O = 2 * L
  BY <1>1, <1>3, SMTT(20)
<1>6. N \in Nat /\ L <= N /\ N < 2 * L
  <2>1. CASE y >= x
    <3>1. N = y * O  BY <2>1
    <3>2. x * O <= y * O  BY <1>1, <1>3, <2>1, Products
    <3>3. y * O + O <= (2 * x) * O
      <4> DEFINE w == 2 * x
      <4>1. w \in Nat /\ y < w  BY <1>1, <1>3
      <4> HIDE DEF w
      <4> QED  BY <1>1, <1>3, <4>1, Products DEF w
    <3> DEFINE Z == y * O
    <3>4. Z \in Nat /\ N = Z /\ L <= Z /\ Z + O <= 2 * L  BY <1>4, <1>5, <3>1, <3>2, <3>3
    <3> HIDE DEF Z, N, L
    <3> QED  BY <1>1, <1>5, <3>4
  <2>2. CASE ~(y >= x)
    <3>1. N = y * (2 * O)  BY <2>2
    <3>2. x * O <= (2 * y) * O
      <4> DEFINE w == 2 * y
      <4>1. w \in Nat /\ x <= w  BY <1>1, <1>3
      <4> HIDE DEF w
      <4> QED  BY <1>1, <1>3, <4>1, Products DEF w
    <3>3. y * (2 * O) + 2 * O <= x * (2 * O)
      <4> DEFINE w == 2 * O
      <4>1. w \in Nat /\ y < x  BY <1>3, <2>2
      <4> HIDE DEF w
      <4> QED  BY <1>3, <4>1, Products DEF w
    <3> DEFINE Z == y * (2 * O)
    <3>4. Z \in Nat /\ N = Z /\ L <= Z /\ Z + 2 * O <= 2 * L  BY <1>4, <1>5, <3>1, <3>2, <3>3
    <3> HIDE DEF Z, N, L
    <3> QED  BY <1>1, <1>5, <3>4
  <2> QED  BY <2>1, <2>2
<1> HIDE DEF N, L
<1>7. d \in Nat /\ f \in 0 .. x - 1 /\ N = x * d + f  BY <1>3, <1>6, Division
<1> HIDE DEF d, f
<1>8. f \in Nat /\ f < x /\ 2 * f \in Nat  BY <1>3, <1>7
<1>9. gap \in Nat \ {0} /\ m = d /\ n % gap = f * g /\ n \in Nat
  <2>1. gap \in Nat \ {0}  BY <1>3, SMTT(20)
  <2>2. N * g = (x * g) * d + f * g  BY <1>3, <1>7, <1>8, SMTT(20)
  <2>3. f * g \in Nat /\ f * g + g <= x * g  BY <1>3, <1>8, Products
  <2> DEFINE c == f * g
  <2>4. c \in Nat /\ c + g <= gap  BY <2>3
  <2> HIDE DEF c, gap
  <2>5. c \in 0 .. gap - 1  BY <2>1, <2>4
  <2>6. gap * d + c \in Nat /\ (gap * d + c) \div gap = d /\ (gap * d + c) % gap = c
    BY <1>7, <2>1, <2>5, DivideOnce
  <2>7. n = gap * d + c  BY <2>2 DEF gap, c
  <2> QED  BY <2>1, <2>6, <2>7 DEF c
<1>10. (over > gap <=> 2 * f > x) /\ (over = gap <=> 2 * f = x)
  <2> DEFINE w == 2 * f
  <2>1. over = w * g
    <3>1. 2 * (f * g) = (2 * f) * g  BY <1>8, SMTT(20)
    <3> QED  BY <1>9, <3>1
  <2>2. w \in Nat  BY <1>8
  <2> HIDE DEF w, over
  <2>3. /\ x * g = w * g => x = w
        /\ x * g < w * g => x < w
        /\ x < w => x * g + g <= w * g
        /\ x * g \in Nat /\ w * g \in Nat
    BY <1>3, <2>2, Cancel, Products
  <2> DEFINE X == x * g
             W == w * g
  <2>4. /\ X = W => x = w
        /\ X < W => x < w
        /\ x < w => X + g <= W
        /\ x = w => X = W
        /\ X \in Nat /\ W \in Nat /\ gap = X /\ over = W
    BY <2>1, <2>3
  <2> HIDE DEF X, W, gap
  <2>5. (over > gap <=> w > x) /\ (over = gap <=> w = x)  BY <1>3, <2>2, <2>4
  <2> QED  BY <2>5 DEF w
<1>11. n < 2 * (O * x * g) /\ n >= O * x * g
  <2> DEFINE w == 2 * L
  <2>1. w \in Nat /\ N < w /\ L <= N  BY <1>5, <1>6
  <2> HIDE DEF w
  <2>2. N * g + g <= w * g /\ L * g <= N * g /\ N * g \in Nat /\ L * g \in Nat
    BY <1>5, <1>6, <2>1, Products
  <2>3. w * g = 2 * (L * g)  BY <1>5, SMTT(20) DEF w
  <2>4. O * x * g = L * g  BY DEF L
  <2> DEFINE A == L * g
             B == N * g
  <2>5. A \in Nat /\ B \in Nat /\ B + g <= 2 * A /\ A <= B  BY <2>2, <2>3
  <2> HIDE DEF A, B
  <2>6. B < 2 * A /\ B >= A  BY <2>5
  <2> QED  BY <2>4, <2>6 DEF A, B
<1> HIDE DEF n, gap, m, over
<1>12. d \in O .. 2 * O - 1
  <2> DEFINE D == d * x
             w == 2 * O
  <2>1. D \in Nat /\ N = D + f
    <3>1. x * d = d * x /\ d * x \in Nat  BY <1>3, <1>7, Products, SMTT(20)
    <3> QED  BY <1>7, <3>1
  <2>2. d < O => D + x <= L
    <3>1. d < O => d * x + x <= O * x  BY <1>1, <1>3, <1>7, Products
    <3> QED  BY <3>1 DEF L
  <2>3. w <= d => 2 * L <= D
    <3>1. w \in Nat  BY <1>3
    <3> HIDE DEF w
    <3>2. w <= d => w * x <= d * x  BY <1>3, <1>7, <3>1, Products
    <3>3. (2 * O) * x = 2 * (O * x)  BY <1>1, <1>3, SMTT(20)
    <3> QED  BY <3>2, <3>3 DEF L, w
  <2> HIDE DEF D
  <2> QED  BY <1>1, <1>3, <1>5, <1>6, <1>7, <1>8, <2>1, <2>2, <2>3
<1>13. /\ q >= 2 * O <=> y >= x
       /\ F = d + (IF y >= x /\ 2 * f >= x /\ d % 2 = 1 THEN 1 ELSE 0)
  <2>1. CASE y >= x
    <3> DEFINE c == IF 2 * f >= x THEN 1 ELSE 0
               e == 2 * f - (IF 2 * f >= x THEN x ELSE 0)
               D == 2 * d + c
    <3>1. c \in {0, 1} /\ (c = 1 <=> 2 * f >= x) /\ e \in 0 .. x - 1 /\ 2 * f = x * c + e
          /\ D \in Nat
      BY <1>3, <1>7, <1>8
    <3>2. y * 2 * O = x * D + e
      <4>1. N = y * O  BY <2>1 DEF N
      <4>2. y * 2 * O = 2 * (x * d + f)  BY <1>4, <1>7, <4>1
      <4> HIDE DEF c, e
      <4>3. x * (2 * d + c) = 2 * (x * d) + x * c  BY <1>3, <1>7, <3>1, SMTT(20)
      <4>4. x * d \in Nat /\ x * c \in Nat  BY <1>3, <1>7, <3>1, SMTT(20)
      <4> DEFINE A == x * d
                 B == x * c
      <4>5. A \in Nat /\ B \in Nat /\ 2 * f = B + e /\ x * D = 2 * A + B /\ y * 2 * O = 2 * (A + f)
        BY <3>1, <4>2, <4>3, <4>4
      <4> HIDE DEF A, B, D
      <4> QED  BY <1>8, <3>1, <4>5
    <3>3. q = D
      <4> HIDE DEF D, e
      <4>1. (x * D + e) \div x = D  BY <1>3, <3>1, DivideOnce
      <4> QED  BY <3>2, <4>1
    <3> HIDE DEF c, e, q
    <3>4. q >= 2 * O /\ q \div 2 = d /\ (q % 2 = 1 <=> c = 1)  BY <1>1, <1>3, <1>7, <1>12, <3>1, <3>3
    <3>5. F = d + (IF up THEN 1 ELSE 0)  BY <3>4
    <3>6. up <=> 2 * f >= x /\ d % 2 = 1  BY <3>1, <3>4
    <3> HIDE DEF up, F
    <3> QED  BY <2>1, <3>4, <3>5, <3>6
  <2>2. CASE ~(y >= x)
    <3>1. N = y * 2 * O  BY <1>4, <2>2 DEF N
    <3>2. q = d  BY <3>1 DEF d
    <3> HIDE DEF q
    <3>3. ~(q >= 2 * O)  BY <1>1, <1>12, <3>2
    <3>4. F = d  BY <3>2, <3>3
    <3> HIDE DEF F
    <3>5. d + 0 = d  BY <1>7
    <3> QED  BY <2>2, <3>3, <3>4, <3>5
  <2> QED  BY <2>1, <2>2
<1>14. y >= x /\ 2 * f >= x => d + 1 <= 2 * O - 1
  <2> SUFFICES ASSUME y >= x, 2 * f >= x, ~(d + 1 <= 2 * O - 1)
               PROVE  FALSE
    BY <1>7
  <2>1. y <= d  BY <1>1, <1>2, <1>12
  <2>2. y * O <= d * O  BY <1>1, <1>3, <1>7, <2>1, Products
  <2>3. O * d <= x * d  BY <1>1, <1>3, <1>7, Products
  <2>4. O * d = d * O /\ O * d \in Nat /\ x * d \in Nat  BY <1>1, <1>3, <1>7, SMTT(20)
  <2>5. N = y * O  BY DEF N
  <2> DEFINE A == x * d
  <2>6. A \in Nat /\ N <= A /\ N = A + f
    <3> DEFINE B == d * O
               C == y * O
    <3>1. B \in Nat /\ C \in Nat /\ A \in Nat /\ C <= B /\ B <= A /\ N = C
      BY <1>4, <2>2, <2>3, <2>4, <2>5
    <3>2. N = A + f  BY <1>7
    <3> HIDE DEF A, B, C
    <3> QED  BY <3>1, <3>2
  <2> HIDE DEF A
  <2> QED  BY <1>3, <1>6, <1>8, <2>6
<1> HIDE DEF q, F
<1>15. F \in O .. 2 * O - 1  BY <1>1, <1>12, <1>13, <1>14
<1>16. one = IF 2 * f > x \/ (2 * f = x /\ d % 2 = 1) THEN 1 ELSE 0  BY <1>9, <1>10
<1> HIDE DEF one
<1>17. m + one \in {F, F + 1}
  <2>1. m = d  BY <1>9
  <2>2. CASE y >= x /\ 2 * f >= x /\ d % 2 = 1
    <3>1. F = d + 1  BY <1>13, <2>2
    <3>2. one = 1  BY <1>3, <1>8, <1>16, <2>2
    <3> QED  BY <2>1, <3>1, <3>2
  <2>3. CASE ~(y >= x /\ 2 * f >= x /\ d % 2 = 1)
    <3>1. F = d + 0  BY <1>13, <2>3
    <3>2. one \in {0, 1}  BY <1>16
    <3> QED  BY <1>7, <2>1, <3>1, <3>2
  <2> QED  BY <2>2, <2>3
<1> HIDE DEF up
<1>18. m \in Nat /\ m >= O /\ n \in Nat  BY <1>1, <1>9, <1>12
<1> QED  BY <1>11, <1>13, <1>15, <1>17, <1>18 DEF O, N, q, up, F, n, gap, m, over, one

\* A quotient that is finite and greater than the least normal number is rounded to the float
\* nearest to it or to the one before that.
LEMMA DivideClose ==
  ASSUME NEW a \in Nat, NEW b \in Nat, Float!Ordinary(a), Float!Ordinary(b), Float!Exp(a) # 0,
         Float!Number(Float!Ratio(a, b)),
         Float!Magnitude(Float!Ratio(a, b)) > Float!LeastNormal
  PROVE  /\ Float!Divide(a, b) \in {Float!Ratio(a, b) - 1, Float!Ratio(a, b)}
         /\ Float!Ratio(a, b) \in Nat
<1> DEFINE O == Float!One
           E == Float!ExpMod
           sign == Float!Sign(a) # Float!Sign(b)
           x == Float!Significand(a)
           y == Float!Significand(b)
           E0 == Float!Place(b) - Float!Place(a) + Float!UnitPlace
           ratio == Float!Ratio(a, b)
           top == IF sign THEN Float!Top ELSE 0
<1>1. /\ O \in Nat \ {0, 1} /\ E \in Nat /\ E >= 4 /\ FRAC \in Nat /\ FRAC >= 1
      /\ O = Two[FRAC] /\ Float!Bias \in Nat /\ 2 * (Float!Bias + 1) = E
      /\ Float!Top \in Nat /\ Float!LeastNormal = O
  BY FloatSizes DEF Float!LeastNormal
<1>2. Two[FRAC + 1] = 2 * O /\ Two[FRAC - 1] \in Nat /\ O = 2 * Two[FRAC - 1]
  <2>1. FRAC - 1 \in Nat /\ (FRAC - 1) + 1 = FRAC  BY <1>1
  <2> QED  BY <1>1, <2>1, TwoIs
<1>3. sign \in BOOLEAN  BY DEF Float!Sign
<1>4. Float!Exp(a) \in 1 .. E - 2 /\ x \in O .. 2 * O - 1
  BY <1>1, OrdinaryFields
<1>5. Float!Exp(b) \in 0 .. E - 2 /\ y \in 0 .. 2 * O - 1 /\ (Float!Exp(b) = 0 => y = 0)
      /\ (Float!Exp(b) # 0 => y >= O)
  BY OrdinaryFields
<1>6. /\ x \in Nat \ {0} /\ y \in Nat /\ E0 \in Int
  <2>1. Float!Place(a) \in Nat /\ Float!Place(b) \in Nat  BY <1>1, <1>4, <1>5 DEF Float!Place
  <2>2. Float!UnitPlace \in Int  BY <1>1 DEF Float!UnitPlace
  <2> QED  BY <1>1, <1>4, <1>5, <2>1, <2>2
<1>7. ratio = IF E0 >= 0 THEN Float!Nearest(sign, y * Two[E0], x)
              ELSE Float!Nearest(sign, y, x * Two[-E0])
  BY FloatTwo DEF Float!Ratio, Float!NearestScaled
<1> HIDE DEF O, E, x, y, E0
\* It is not so small as to be made the least normal number or less.
<1>8. ASSUME NEW n \in Nat, NEW d \in Nat \ {0}, n < O * d, ratio = Float!Nearest(sign, n, d)
      PROVE  FALSE
  <2> HIDE DEF ratio
  <2>1. Float!Magnitude(ratio) \in 0 .. Float!LeastNormal  BY <1>3, <1>8, NearestSmall DEF O
  <2>2. Float!Magnitude(ratio) > Float!LeastNormal  BY DEF ratio
  <2> QED  BY <1>1, <2>1, <2>2
<1> HIDE DEF sign
<1>9. Float!Exp(b) # 0
  <2> SUFFICES ASSUME Float!Exp(b) = 0
               PROVE  FALSE
    OBVIOUS
  <2>1. y = 0  BY <1>5
  <2>2. CASE E0 >= 0
    <3> DEFINE n == y * Two[E0]
    <3>1. Two[E0] \in Nat  BY <1>6, <2>2, TwoIs
    <3>2. n = 0  BY <2>1, <3>1
    <3>3. O * x \in Nat \ {0}  BY <1>1, <1>6, SMTT(20)
    <3>4. ratio = Float!Nearest(sign, n, x)  BY <1>7, <2>2
    <3> HIDE DEF n, ratio
    <3>5. n \in Nat /\ n < O * x
      <4> DEFINE L == O * x
      <4>1. L \in Nat \ {0}  BY <3>3
      <4> HIDE DEF L
      <4> QED  BY <3>2, <4>1 DEF L
    <3> QED  BY <1>6, <1>8, <3>4, <3>5 DEF ratio
  <2>3. CASE ~(E0 >= 0)
    <3> DEFINE d == x * Two[-E0]
    <3>1. Two[-E0] \in Nat \ {0}
      <4>1. -E0 \in Nat  BY <1>6, <2>3
      <4> QED  BY <4>1, TwoIs
    <3>2. d \in Nat \ {0}
      <4> DEFINE w == Two[-E0]
      <4> HIDE DEF w
      <4> QED  BY <1>6, <3>1, SMTT(20) DEF w
    <3>3. ratio = Float!Nearest(sign, y, d)  BY <1>7, <2>3
    <3> HIDE DEF d, ratio
    <3>4. O * d \in Nat \ {0}  BY <1>1, <3>2, SMTT(20)
    <3>5. y < O * d
      <4> DEFINE L == O * d
      <4>1. L \in Nat \ {0}  BY <3>4
      <4> HIDE DEF L
      <4> QED  BY <2>1, <4>1 DEF L
    <3> QED  BY <1>6, <1>8, <3>2, <3>3, <3>5 DEF ratio
  <2> QED  BY <2>2, <2>3
<1>10. y \in O .. 2 * O - 1  BY <1>1, <1>5, <1>9
<1>11. E0 \in Nat
  <2> SUFFICES ASSUME ~(E0 >= 0)
               PROVE  FALSE
    BY <1>6
  <2> DEFINE w == Two[-E0]
             d == x * w
  <2>1. w \in Nat /\ w >= 2
    <3>1. -E0 \in Nat /\ 1 <= -E0  BY <1>6
    <3>2. Two[0 + 1] = 2 * Two[0] /\ Two[0] = 1  BY TwoIs
    <3>3. Two[1] <= Two[-E0]  BY <3>1, TwoGrows
    <3>4. Two[-E0] \in Nat  BY <3>1, TwoIs
    <3> QED  BY <3>2, <3>3, <3>4
  <2>2. ratio = Float!Nearest(sign, y, d)  BY <1>7
  <2> HIDE DEF w
  <2>3. 2 * x <= w * x /\ w * x = x * w /\ d \in Nat  BY <1>6, <2>1, Products, SMTT(20)
  <2>4. d \in Nat \ {0} /\ 2 * x <= d  BY <1>6, <2>3
  <2> HIDE DEF d, ratio
  <2>5. 1 * d <= O * d /\ O * d \in Nat  BY <1>1, <2>4, Products
  <2> DEFINE L == O * d
  <2>6. L \in Nat /\ d <= L  BY <2>4, <2>5
  <2> HIDE DEF L
  <2>7. y < L  BY <1>1, <1>4, <1>5, <1>6, <2>4, <2>6
  <2> QED  BY <1>6, <1>8, <2>2, <2>4, <2>7 DEF L, ratio
<1> DEFINE n == y * Two[E0]
           h == IF y >= x THEN 0 ELSE 1
           K == E0 - FRAC - h
           g == Two[K]
<1>12. ratio = Float!Nearest(sign, n, x)  BY <1>7, <1>11
<1>13. Two[E0] \in Nat \ {0} /\ n \in Nat
  <2>1. Two[E0] \in Nat \ {0}  BY <1>11, TwoIs
  <2> DEFINE w == Two[E0]
  <2>2. w \in Nat  BY <2>1
  <2> HIDE DEF w
  <2>3. y * w \in Nat  BY <1>6, <2>2, SMTT(20)
  <2> QED  BY <2>1, <2>3 DEF w
<1> HIDE DEF ratio
<1>14. K \in Nat
  <2> DEFINE L == O * x
             w == Two[E0]
  <2>1. L \in Nat /\ L = x * O /\ (2 * x) * O = 2 * L  BY <1>1, <1>6, SMTT(20)
  <2>2. ~(n < L)  BY <1>6, <1>8, <1>12, <1>13
  <2>3. h \in {0, 1} /\ (h = 0 <=> y >= x)  OBVIOUS
  <2>4. w \in Nat /\ n = w * y  BY <1>6, <1>13, SMTT(20)
  <2> HIDE DEF L, n, h
  <2> SUFFICES ASSUME ~(K >= 0)
               PROVE  FALSE
    BY <1>1, <1>6, <2>3
  <2>5. CASE h = 0
    <3> DEFINE v == Two[FRAC - 1]
               c == 2 * v
               z == 2 * x
    <3>1. w <= v
      <4>1. FRAC - 1 \in Nat /\ E0 <= FRAC - 1  BY <1>1, <1>11, <2>5
      <4> QED  BY <1>11, <4>1, TwoGrows
    <3>2. v \in Nat /\ c = O /\ z \in Nat /\ y < z  BY <1>1, <1>2, <1>4, <1>6, <1>10
    <3> HIDE DEF v, w, z
    <3>3. w * y <= v * y  BY <1>6, <2>4, <3>1, <3>2, Products
    <3>4. y * O + O <= z * O  BY <1>1, <1>6, <3>2, Products
    <3>5. y * (2 * v) = 2 * (v * y) /\ v * y \in Nat  BY <1>6, <3>2, SMTT(20)
    <3>6. z * O = 2 * L  BY <2>1 DEF z
    <3> DEFINE A == v * y
    <3>7. A \in Nat /\ n <= A /\ 2 * A + O <= 2 * L  BY <2>4, <3>2, <3>3, <3>4, <3>5, <3>6
    <3> HIDE DEF A, c
    <3> QED  BY <1>1, <1>13, <2>1, <2>2, <3>7
  <2>6. CASE h = 1
    <3>1. y < x  BY <1>6, <2>3, <2>6
    <3>2. w <= O
      <4>1. E0 <= FRAC  BY <1>1, <1>11, <2>6
      <4> QED  BY <1>1, <1>11, <4>1, TwoGrows
    <3> HIDE DEF w
    <3>3. w * y <= O * y  BY <1>1, <1>6, <2>4, <3>2, Products
    <3>4. y * O + O <= x * O  BY <1>1, <1>6, <3>1, Products
    <3>5. O * y = y * O /\ y * O \in Nat  BY <1>1, <1>6, SMTT(20)
    <3> DEFINE A == y * O
    <3>6. A \in Nat /\ n <= A /\ A + O <= L  BY <2>1, <2>4, <3>3, <3>4, <3>5
    <3> HIDE DEF A
    <3> QED  BY <1>1, <1>13, <2>1, <2>2, <3>6
  <2> QED  BY <2>3, <2>5, <2>6
<1>15. g \in Nat \ {0} /\ h \in {0, 1} /\ (h = 0 <=> y >= x)
  <2>1. g \in Nat \ {0}  BY <1>14, TwoIs
  <2> QED  BY <2>1
<1> DEFINE N == IF y >= x THEN y * O ELSE y * (2 * O)
           q == (y * 2 * O) \div x
           up == q % 2 = 1 /\ (q \div 2) % 2 = 1
           F == IF q >= 2 * O THEN (q \div 2) + (IF up THEN 1 ELSE 0) ELSE q
           m == n \div (x * g)
           over == 2 * (n % (x * g))
           one == IF over > x * g \/ (over = x * g /\ m % 2 = 1) THEN 1 ELSE 0
<1>16. n = N * g
  <2> DEFINE i == FRAC + h
             w == Two[i]
  <2>1. i \in Nat /\ E0 = i + K  BY <1>1, <1>11, <1>15
  <2>2. N = y * w
    <3>1. CASE y >= x
      <4>1. FRAC + 0 = FRAC  BY <1>1
      <4> QED  BY <1>1, <3>1, <4>1
    <3>2. CASE ~(y >= x)  BY <1>2, <3>2
    <3> QED  BY <3>1, <3>2
  <2>3. Two[i + K] = w * g /\ w \in Nat
    <3> HIDE DEF i, K
    <3> QED  BY <1>14, <2>1, TwoSum, TwoIs
  <2> HIDE DEF i, w, N, g
  <2>4. y * (w * g) = (y * w) * g  BY <1>6, <1>15, <2>3, SMTT(20)
  <2> QED  BY <2>1, <2>2, <2>3, <2>4 DEF n
<1>17. /\ q >= 2 * O <=> y >= x
       /\ n < 2 * (O * x * g) /\ n >= O * x * g
       /\ F \in O .. 2 * O - 1 /\ m \in Nat /\ m >= O
       /\ m + one \in {F, F + 1}
  <2>1. x \in Float!One .. 2 * Float!One - 1 /\ y \in Float!One .. 2 * Float!One - 1
    BY <1>4, <1>10 DEF O
  <2> HIDE DEF g, n
  <2>2. g \in Nat \ {0}  BY <1>15
  <2>3. n = N * g  BY <1>16
  <2> QED  BY <2>1, <2>2, <2>3, QuotientRounded DEF O
<1>18. E0 = Float!Exp(b) - Float!Exp(a) + Float!Bias - 1 + FRAC
  <2>1. Float!Place(b) = Float!Exp(b) - 1 /\ Float!Place(a) = Float!Exp(a) - 1
    BY <1>4, <1>9 DEF Float!Place
  <2> QED  BY <1>1, <1>4, <1>5, <2>1 DEF E0, Float!UnitPlace
<1> DEFINE p == K * O + m + one
<1>19. /\ p \in Nat /\ p >= K * O + m /\ K * O \in Nat
       /\ p <= Float!Largest /\ ratio = top + p
  <2>1. K \in 0 .. 2 * Float!ExpMod  BY <1>1, <1>4, <1>5, <1>14, <1>15, <1>18 DEF E
  <2>2. n < 2 * (Float!One * x * Two[K]) /\ n >= Float!One * x * Two[K]
    BY <1>17 DEF O
  <2>3. Float!Number(Float!Nearest(sign, n, x))  BY <1>12 DEF ratio
  <2> HIDE DEF n, K
  <2>4. /\ p \in Nat /\ p >= K * O + m /\ K * O \in Nat /\ p <= Float!Largest
        /\ Float!Nearest(sign, n, x) = top + p
    BY <1>3, <1>6, <1>13, <2>1, <2>2, <2>3, NearestAt DEF O
  <2> QED  BY <1>12, <2>4
<1> HIDE DEF n, m, one, up, F, q, N, g, p, top
<1>20. K + 1 <= E - 2
  <2> DEFINE c == E - 1
             I == Float!Infinity(FALSE)
  <2>1. I = 0 + O * c + 0 /\ Float!Largest = I - 1
    BY DEF Float!Infinity, Float!Pack, Float!Largest, O, E
  <2> DEFINE j == K + 1
             k == K
  <2>2. c \in Nat /\ k \in Nat /\ j \in Nat /\ j = k + 1  BY <1>1, <1>14
  <2> HIDE DEF k, c, I, j
  <2>3. c * O = O * c /\ c * O \in Nat /\ j * O = k * O + O  BY <1>1, <2>2, SMTT(20)
  <2>4. c <= j => c * O <= j * O  BY <1>1, <2>2, Products
  <2> DEFINE X == c * O
             Z == k * O
  <2>5. I = X /\ X \in Nat /\ Z \in Nat /\ (c <= j => X <= Z + O)
        /\ p >= Z + m /\ p <= X - 1 /\ p \in Nat
    BY <1>19, <2>1, <2>3, <2>4 DEF k
  <2> HIDE DEF X, Z
  <2>6. ~(c <= j)  BY <1>1, <1>17, <2>5
  <2> QED  BY <1>1, <1>14, <2>2, <2>6 DEF c, j, k
<1>21. Float!Divide(a, b) = Float!Pack(sign, K + 1, F - O)
  <2> DEFINE e == (Float!Exp(b) - Float!Exp(a) + Float!Bias) % (2 * E)
             c == Float!Exp(b) - Float!Exp(a) + Float!Bias
             r == Float!Divide(a, b)
  <2>1. Float!Magnitude(a) # 0 /\ Float!Magnitude(b) # 0
    <3>1. /\ Float!Magnitude(a) = O * Float!Exp(a) + Float!Frac(a) /\ Float!Frac(a) \in 0 .. O - 1
          /\ Float!Magnitude(b) = O * Float!Exp(b) + Float!Frac(b) /\ Float!Frac(b) \in 0 .. O - 1
      BY FloatFields DEF O
    <3>2. Float!Exp(a) \in Nat \ {0} /\ Float!Exp(b) \in Nat \ {0}  BY <1>1, <1>4, <1>5, <1>9
    <3>3. O * Float!Exp(a) \in Nat \ {0} /\ O * Float!Exp(b) \in Nat \ {0}
      BY <1>1, <3>2, SMTT(20)
    <3> DEFINE A == O * Float!Exp(a)
               B == O * Float!Exp(b)
    <3>4. A \in Nat \ {0} /\ B \in Nat \ {0} /\ Float!Magnitude(a) = A + Float!Frac(a)
          /\ Float!Magnitude(b) = B + Float!Frac(b)
          /\ Float!Frac(a) \in Nat /\ Float!Frac(b) \in Nat
      BY <1>1, <3>1, <3>3
    <3> HIDE DEF A, B
    <3> QED  BY <3>4
  <2>2. x = O + Float!Frac(a) /\ y = O + Float!Frac(b)
    BY <1>4, <1>9 DEF x, y, O, Float!Significand
  <2>3. e = K + 1 + h
    <3>1. c = K + 1 + h /\ c \in 0 .. 2 * E - 1  BY <1>1, <1>4, <1>5, <1>14, <1>15, <1>18, <1>20
    <3> DEFINE M == 2 * E
    <3>2. M \in Nat \ {0} /\ c \in 0 .. M - 1 /\ M * 0 + c = c  BY <1>1, <3>1
    <3>3. e = c % M  OBVIOUS
    <3> HIDE DEF c, M, e
    <3>4. (M * 0 + c) % M = c  BY <3>2, DivideOnce
    <3> QED  BY <3>1, <3>2, <3>3, <3>4
  <2>4. F % O = F - O
    <3> DEFINE f == F - O
    <3>1. f \in 0 .. O - 1 /\ O * 1 + f = F  BY <1>1, <1>17
    <3> HIDE DEF f
    <3>2. (O * 1 + f) % O = f  BY <1>1, <3>1, DivideOnce
    <3> QED  BY <3>1, <3>2 DEF f
  <2>5. ASSUME NEW f
        PROVE  Float!Limited(sign, K + 1, f) = Float!Pack(sign, K + 1, f)
    <3> DEFINE j == K + 1
    <3>1. j \in 1 .. E - 2  BY <1>1, <1>14, <1>20
    <3> HIDE DEF j
    <3>2. ~(j = 0 \/ j >= Float!ExpMod) /\ j # Float!ExpMod - 1  BY <1>1, <3>1 DEF E
    <3> QED  BY <3>2 DEF Float!Limited, j
  <2>6. r = IF q >= 2 * O THEN Float!Limited(sign, e, ((q \div 2) + (IF up THEN 1 ELSE 0)) % O)
            ELSE Float!Limited(sign, IF e > 0 THEN e - 1 ELSE e, q % O)
    BY <2>1, <2>2 DEF Float!Divide, q, up, O, E, sign
  <2> HIDE DEF r, e
  <2>7. CASE y >= x
    <3>1. q >= 2 * O /\ e = K + 1 /\ F = (q \div 2) + (IF up THEN 1 ELSE 0)
      <4>1. e = K + 1  BY <1>14, <1>15, <2>3, <2>7
      <4>2. q >= 2 * O  BY <1>17, <2>7
      <4> QED  BY <4>1, <4>2 DEF F
    <3> HIDE DEF K
    <3>2. r = Float!Limited(sign, K + 1, F % O)  BY <2>6, <3>1
    <3> QED  BY <2>4, <2>5, <3>2 DEF r
  <2>8. CASE ~(y >= x)
    <3>1. ~(q >= 2 * O) /\ (IF e > 0 THEN e - 1 ELSE e) = K + 1 /\ F = q
      <4>1. e = K + 2  BY <1>14, <1>15, <2>3, <2>8
      <4>2. ~(q >= 2 * O)  BY <1>17, <2>8
      <4>3. (IF e > 0 THEN e - 1 ELSE e) = K + 1  BY <1>14, <4>1
      <4> QED  BY <4>2, <4>3 DEF F
    <3> HIDE DEF K
    <3>2. r = Float!Limited(sign, K + 1, F % O)  BY <2>6, <3>1
    <3> QED  BY <2>4, <2>5, <3>2 DEF r
  <2> QED  BY <2>7, <2>8
<1>22. Float!Divide(a, b) = top + (K * O + F)
  <2> DEFINE j == K + 1
             k == K
  <2>1. Float!Divide(a, b) = top + O * j + (F - O)  BY <1>21 DEF Float!Pack, O, top
  <2>2. k \in Nat /\ j = k + 1  BY <1>14
  <2> HIDE DEF j, k
  <2>3. O * (k + 1) = k * O + O /\ k * O \in Nat
    <3>1. k * O \in Nat  BY <1>1, <2>2, Products
    <3>2. O * (k + 1) = k * O + O  BY <1>1, <2>2, SMTT(30)
    <3> QED  BY <3>1, <3>2
  <2>4. top \in Nat /\ F \in Nat  BY <1>1, <1>17 DEF top
  <2> DEFINE Z == k * O
             J == O * j
  <2>5. Z \in Nat /\ J = Z + O /\ Float!Divide(a, b) = top + J + (F - O)  BY <2>1, <2>2, <2>3
  <2> HIDE DEF Z, J
  <2>6. Float!Divide(a, b) = top + (Z + F)  BY <1>1, <2>4, <2>5
  <2> QED  BY <2>6 DEF Z, k
<1>23. ratio - 1 = Float!Divide(a, b) \/ ratio = Float!Divide(a, b)
  <2> DEFINE Z == K * O
             r == Float!Divide(a, b)
  <2>1. one \in {0, 1}  BY DEF one
  <2>2. Z \in Nat /\ top \in Nat /\ F \in Nat /\ m \in Nat /\ r = top + (Z + F)
        /\ ratio = top + (Z + m + one) /\ m + one \in {F, F + 1}
    BY <1>1, <1>17, <1>19, <1>22 DEF p, top
  <2> HIDE DEF Z, r
  <2>3. ratio - 1 = r \/ ratio = r  BY <2>1, <2>2
  <2> QED  BY <2>3 DEF r
<1>24. ratio \in Nat
  <2>1. top \in Nat  BY <1>1 DEF top
  <2> QED  BY <1>19, <2>1
<1> QED  BY <1>23, <1>24 DEF ratio

\* The value of a float, by its sign and its units.
LEMMA ValueIs ==
  ASSUME NEW a \in Nat, Float!Ordinary(a)
  PROVE  /\ Float!Sign(a) \in BOOLEAN /\ Float!Units(a) \in Nat
         /\ Float!Value(a) = Signum(Float!Sign(a), Float!Units(a))
         /\ Float!Value(a) \in Int /\ Abs(Float!Value(a)) = Float!Units(a)
         /\ Float!Value(a) # 0 => Float!Exp(a) # 0
<1> DEFINE u == Float!Units(a)
           s == Float!Sign(a)
<1>1. s \in BOOLEAN  BY DEF Float!Sign
<1>2. u \in Nat  BY FALSE \in BOOLEAN, SumSigned
<1>3. Float!Value(a) = Signum(s, u)  BY DEF Float!Value, Signum
<1>4. Float!Exp(a) = 0 => u = 0
  <2> SUFFICES ASSUME Float!Exp(a) = 0
               PROVE  u = 0
    OBVIOUS
  <2>1. Float!Significand(a) = 0 /\ Float!Place(a) = 0  BY OrdinaryFields DEF Float!Place
  <2>2. u = 0 * Two[0]  BY <2>1, FloatTwo DEF Float!Units
  <2>3. Two[0] = 1  BY TwoIs
  <2> QED  BY <2>2, <2>3
<1> HIDE DEF u, s
<1>5. Signum(s, u) \in Int /\ Abs(Signum(s, u)) = u  BY <1>1, <1>2, AbsSignum
<1>6. u = 0 => Signum(s, u) = 0  BY <1>1, <1>2, SignumZero
<1>7. Float!Value(a) # 0 => Float!Exp(a) # 0  BY <1>3, <1>4, <1>6
<1> QED  BY <1>1, <1>2, <1>3, <1>5, <1>7 DEF s, u

\* The value of the opposite float.
LEMMA OppositeValue ==
  ASSUME NEW a \in Register
  PROVE  Float!Value(Float!Opposite(a)) = Signum(Float!Sign(a) # TRUE, Float!Units(a))
<1> DEFINE c == Float!Opposite(a)
           e == Float!Exp(a)
           f == Float!Frac(a)
<1>1. a \in Nat /\ c = Float!Pack(~Float!Sign(a), e, f)  BY Unpacked DEF Float!Opposite
<1>2. /\ e \in 0 .. Float!ExpMod - 1 /\ f \in 0 .. Float!One - 1 /\ Float!Sign(a) \in BOOLEAN
      /\ (~Float!Sign(a)) \in BOOLEAN
  BY <1>1, FloatFields
<1> HIDE DEF c, e, f
<1>3. Float!Exp(c) = e /\ Float!Frac(c) = f /\ Float!Sign(c) = ~Float!Sign(a)
  BY <1>1, <1>2, PackFields, PackWord
<1>4. Float!Significand(c) = Float!Significand(a)  BY <1>3 DEF Float!Significand, e, f
<1>5. Float!Place(c) = Float!Place(a)  BY <1>3 DEF Float!Place, e
<1>6. Float!Units(c) = Float!Units(a)  BY <1>4, <1>5 DEF Float!Units
<1>7. (Float!Sign(a) # TRUE) = ~Float!Sign(a)  BY <1>2
<1> QED  BY <1>3, <1>6, <1>7 DEF Float!Value, Signum, c

\* A sum of two floats is less than the power of two of the exponents.
LEMMA SumBound ==
  ASSUME NEW a \in Nat, NEW b \in Nat, Float!Ordinary(a), Float!Ordinary(b), NEW sub \in BOOLEAN
  PROVE  LET v == Signum(Float!Sign(b), Float!Units(b))
                    + Signum(Float!Sign(a) # sub, Float!Units(a))
         IN  v \in Int /\ Abs(v) \in Nat /\ Abs(v) < 2 * (Float!One * Two[Float!ExpMod])
<1>1. PICK S, T, e, k, sign : SumIs(a, b, sub, S, T, e, k, sign)  BY SumParts
<1> DEFINE O == Float!One
           E == Float!ExpMod
           P == Two[PlaceOf(e)]
           us == S * P
           ut == T * Two[PlaceOf(k)]
           differ == (Float!Sign(a) # sub) # Float!Sign(b)
           m == IF differ THEN us - ut ELSE us + ut
           v == Signum(Float!Sign(b), Float!Units(b))
                  + Signum(Float!Sign(a) # sub, Float!Units(a))
<1>2. O \in Nat \ {0, 1} /\ E \in Nat /\ E >= 4  BY FloatSizes
<1>3. /\ S \in 0 .. 2 * O - 1 /\ e \in 0 .. E - 2 /\ sign \in BOOLEAN
      /\ us \in Nat /\ ut \in Nat /\ ut <= us /\ v = Signum(sign, m)
  BY <1>1 DEF SumIs
<1> HIDE DEF O, E, v
<1>4. PlaceOf(e) \in Nat /\ E \in Nat /\ PlaceOf(e) + 1 <= E  BY <1>2, <1>3 DEF PlaceOf
<1>5. P \in Nat \ {0} /\ Two[PlaceOf(e) + 1] = 2 * P /\ Two[PlaceOf(e) + 1] <= Two[E]
      /\ Two[E] \in Nat
  <2> DEFINE j == PlaceOf(e)
  <2>1. j \in Nat /\ j + 1 \in Nat /\ j + 1 <= E  BY <1>4
  <2> HIDE DEF j
  <2>2. Two[j] \in Nat \ {0} /\ Two[j + 1] = 2 * Two[j] /\ Two[j + 1] <= Two[E] /\ Two[E] \in Nat
    BY <1>2, <2>1, TwoIs, TwoGrows
  <2> QED  BY <2>2 DEF j
<1> DEFINE w == Two[E]
           z == 2 * O
           Q == 2 * P
<1>6. S \in Nat /\ z \in Nat /\ S < z /\ w \in Nat /\ Q \in Nat /\ Q <= w
  BY <1>2, <1>3, <1>5
<1> HIDE DEF P, w, z, Q
<1>7. S * P + P <= z * P /\ Q * O <= w * O
  <2>1. S * P + P <= z * P  BY <1>5, <1>6, Products
  <2>2. Q * O <= w * O  BY <1>2, <1>6, Products
  <2> QED  BY <2>1, <2>2
<1>8. z * P = Q * O /\ w * O = O * w /\ O * w \in Nat /\ z * P \in Nat
  BY <1>2, <1>5, <1>6, SMTT(20) DEF z, Q
<1> DEFINE X == z * P
           Y == O * w
<1>9. X \in Nat /\ Y \in Nat /\ us + P <= X /\ X <= Y  BY <1>7, <1>8
<1> HIDE DEF X, Y, us, ut, differ
<1>10. m \in Nat /\ m <= 2 * us  BY <1>3
<1>11. m < 2 * Y  BY <1>3, <1>5, <1>9, <1>10
<1> HIDE DEF m
<1>12. v \in Int /\ Abs(v) = m  BY <1>3, <1>10, AbsSignum
<1> QED  BY <1>10, <1>11, <1>12 DEF v, Y, w, O, E

\* A sum or difference whose nearest float is finite.
LEMMA SumNear ==
  ASSUME NEW a \in Register, NEW b \in Register, Float!Ordinary(a), Float!Ordinary(b),
         NEW sub \in BOOLEAN,
         Float!Number(Float!Sum(IF sub THEN Float!Opposite(a) ELSE a, b))
  PROVE  LET x == Float!Value(a)
             y == Float!Value(b)
             v == IF sub THEN y - x ELSE y + x
             larger == IF Abs(x) > Abs(y) THEN a ELSE b
         IN  Abs(v) >= Float!LeastNormal =>
               Abs(Float!Value(Float!AddSub(a, b, sub)) - v) < 2 * Two[Float!Place(larger)]
<1> DEFINE x == Float!Value(a)
           y == Float!Value(b)
           t == Signum(Float!Sign(a) # sub, Float!Units(a))
           v == Signum(Float!Sign(b), Float!Units(b)) + t
           c == IF sub THEN Float!Opposite(a) ELSE a
           larger == IF Abs(x) > Abs(y) THEN a ELSE b
<1>1. a \in Nat /\ b \in Nat  BY DEF Register
<1>2. /\ Float!Sign(a) \in BOOLEAN /\ Float!Units(a) \in Nat /\ x \in Int
      /\ x = Signum(Float!Sign(a), Float!Units(a)) /\ Abs(x) = Float!Units(a)
  BY <1>1, ValueIs
<1>3. /\ y \in Int /\ y = Signum(Float!Sign(b), Float!Units(b)) /\ Abs(y) = Float!Units(b)
  BY <1>1, ValueIs
<1>4. t \in Int /\ x + Signum(Float!Sign(a) # TRUE, Float!Units(a)) = 0
      /\ Signum(Float!Sign(a) # TRUE, Float!Units(a)) \in Int
      /\ (~sub => t = x) /\ (sub => t = Signum(Float!Sign(a) # TRUE, Float!Units(a)))
  <2>1. x + Signum(Float!Sign(a) # TRUE, Float!Units(a)) = 0
        /\ Signum(Float!Sign(a) # TRUE, Float!Units(a)) \in Int
    BY <1>2, SignumOpposite
  <2>2. sub => t = Signum(Float!Sign(a) # TRUE, Float!Units(a))  OBVIOUS
  <2>3. ~sub => t = x
    <3>1. ~sub => (Float!Sign(a) # sub) = Float!Sign(a)  BY <1>2
    <3> QED  BY <1>2, <3>1
  <2>4. sub = TRUE \/ sub = FALSE  OBVIOUS
  <2> QED  BY <1>2, <2>1, <2>2, <2>3, <2>4
<1>5. Float!Value(c) = t
  <2>1. CASE sub
    <3>1. c = Float!Opposite(a)  BY <2>1
    <3> QED  BY <1>4, <2>1, <3>1, OppositeValue
  <2>2. CASE ~sub
    BY <1>4, <2>2
  <2> QED  BY <2>1, <2>2
<1> HIDE DEF c, t
<1>6. v = y + t /\ v = (IF sub THEN y - x ELSE y + x)
  <2>1. v = y + t  BY <1>3
  <2> HIDE DEF v, x, y
  <2>2. CASE sub
    <3>1. x + t = 0  BY <1>4, <2>2
    <3>2. v = y - x  BY <1>2, <1>3, <1>4, <2>1, <3>1
    <3> QED  BY <2>1, <2>2, <3>2
  <2>3. CASE ~sub
    <3>1. v = y + x  BY <1>4, <2>1, <2>3
    <3> QED  BY <2>1, <2>3, <3>1
  <2> QED  BY <2>2, <2>3
<1>7. v \in Int /\ Abs(v) \in Nat /\ Abs(v) < 2 * (Float!One * Two[Float!ExpMod])
  BY <1>1, SumBound DEF t
<1>8. Abs(v) < 2 * (Float!One * Two[Float!ExpMod - 3])
  <2> DEFINE neg == y + t < 0 \/ (y + t = 0 /\ Float!Sign(c) /\ Float!Sign(b))
             n == Float!Absolute(y + t)
  <2>1. Float!Sum(c, b) = Float!Nearest(neg, n, 1)  BY <1>5 DEF Float!Sum
  <2>2. n = Abs(v)  BY <1>6 DEF Float!Absolute, Abs
  <2>3. neg \in BOOLEAN  OBVIOUS
  <2>4. Float!Number(Float!Nearest(neg, n, 1))  BY <2>1 DEF c
  <2> HIDE DEF neg, n, v
  <2>5. n < 2 * (Float!One * Two[Float!ExpMod - 3])  BY <1>7, <2>2, <2>3, <2>4, NearestBound
  <2> QED  BY <2>2, <2>5
<1>9. larger = IF Float!Units(a) > Float!Units(b) THEN a ELSE b  BY <1>2, <1>3
<1>10. Float!One <= Abs(v) =>
         Abs(Float!Value(Float!AddSub(a, b, sub)) - v) < 2 * Two[Float!Place(larger)]
  BY <1>1, <1>8, <1>9, SumClose DEF t
<1>11. Abs(v) >= Float!LeastNormal => Float!One <= Abs(v)
  BY <1>7, FloatSizes DEF Float!LeastNormal
<1> HIDE DEF v, larger, x, y
<1>12. Abs(v) >= Float!LeastNormal =>
         Abs(Float!Value(Float!AddSub(a, b, sub)) - v) < 2 * Two[Float!Place(larger)]
  BY <1>10, <1>11
<1> QED  BY <1>6, <1>12 DEF larger, x, y

\* Sums and quotients that are not the nearest float are close to it: ADDF and SUBF leave less
\* than two places of the larger operand between their result and the true sum, however far
\* the smaller operand is shifted out in aligning and wherever the sum is normalized to, and
\* DIVF, which rounds by its last bit alone, leaves the nearest float or the one before it.
THEOREM CloseHolds == Spec => []Close
<1> DEFINE a == inst.src
           b == before.reg
           x == Float!Value(a)
           y == Float!Value(b)
           larger == IF Abs(x) > Abs(y) THEN a ELSE b
           Near(v) == Abs(v) >= Float!LeastNormal =>
                        Abs(Float!Value(reg) - v) < 2 * Two[Float!Place(larger)]
           nearest == Float!Ratio(a, b)
<1>1. ASSUME FloatDone
      PROVE  Close
  <2>1. ASSUME inst.op \in {"FP_ADDF", "FP_SUBF", "FP_DIVF"}
        PROVE  /\ a \in Register /\ b \in Register /\ a \in Nat /\ b \in Nat
               /\ reg = Float!FpuOutcome(inst.op, a, b, 0).result
    <3>1. inst.op \in FpOps /\ inst.op # "FP_CMPF"  BY <2>1 DEF FpOps
    <3> QED  BY <1>1, <3>1 DEF FloatDone, Register
  <2> HIDE DEF a, b
  <2>2. ASSUME inst.op = "FP_ADDF", Float!Ordinary(a), Float!Ordinary(b),
               Float!Number(Float!Sum(a, b))
        PROVE  Near(y + x)
    <3>1. a \in Register /\ b \in Register /\ reg = Float!AddSub(a, b, FALSE)
      BY <2>1, <2>2, Results
    <3> QED  BY <2>2, <3>1, FALSE \in BOOLEAN, SumNear
  <2>3. ASSUME inst.op = "FP_SUBF", Float!Ordinary(a), Float!Ordinary(b),
               Float!Number(Float!Sum(Float!Opposite(a), b))
        PROVE  Near(y - x)
    <3>1. a \in Register /\ b \in Register /\ reg = Float!AddSub(a, b, TRUE)
      BY <2>1, <2>3, Results
    <3> QED  BY <2>3, <3>1, TRUE \in BOOLEAN, SumNear
  <2>4. ASSUME inst.op = "FP_DIVF", Float!Ordinary(a), Float!Ordinary(b), x # 0,
               Float!Number(nearest), Float!Magnitude(nearest) > Float!LeastNormal
        PROVE  reg \in {nearest - 1, nearest}
    <3>1. a \in Nat /\ b \in Nat /\ reg = Float!Divide(a, b)
      BY <2>1, <2>4, Results
    <3>2. Float!Exp(a) # 0  BY <2>4, <3>1, ValueIs
    <3> QED  BY <2>4, <3>1, <3>2, DivideClose
  <2> HIDE DEF x, y, nearest, larger
  <2> QED  BY <2>2, <2>3, <2>4 DEF Close, a, b, x, y, nearest, larger
<1>2. FloatDone => Close  BY <1>1
<1> QED  BY <1>2, FloatInvariant, PTL
=============================================================================
