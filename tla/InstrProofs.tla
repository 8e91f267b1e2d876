---------------------------- MODULE InstrProofs ----------------------------
(***************************************************************************)
(* Proofs about the arithmetic of the instructions: TLC tries every pair   *)
(* of words of eight bits, the theorems are about words of any length that *)
(* is a power of two: the 32 bits that the CMake files build, and 64.      *)
(***************************************************************************)
EXTENDS Instr, WellFoundedInduction, TLAPS

-----------------------------------------------------------------------------
\* The powers of two, without arithmetic on exponents: Pow2 and Number are recursive
\* functions, and what they compute is proved by induction, stated on sets.

\* A set of numbers has a least one.
LEMMA LeastNumber ==
  ASSUME NEW T \in SUBSET Nat, T # {}
  PROVE  \E x \in T : \A y \in T : x <= y
<1>1. \E x \in T : \A y \in T : <<y, x>> \notin OpToRel(<, Nat)
  BY NatLessThanWellFounded, WFMin, Zenon
<1>2. \A x, y \in T : <<y, x>> \notin OpToRel(<, Nat) => x <= y
  <2>. SUFFICES ASSUME NEW x \in T, NEW y \in T, ~(x <= y) PROVE <<y, x>> \in OpToRel(<, Nat)
    OBVIOUS
  <2>1. x \in Nat /\ y \in Nat /\ y < x
    OBVIOUS
  <2>. QED
    BY <2>1 DEF OpToRel
<1>. QED
  BY <1>1, <1>2

\* Induction, on sets: what holds of 0 and of the successors up to N holds up to N.
LEMMA UpTo ==
  ASSUME NEW N \in Nat, NEW T, 0 \in T, \A k \in 1 .. N : k - 1 \in T => k \in T
  PROVE  \A k \in 0 .. N : k \in T
<1>. DEFINE Bad == {k \in 0 .. N : k \notin T}
<1>. SUFFICES ASSUME Bad # {} PROVE FALSE
  OBVIOUS
<1>1. Bad \in SUBSET Nat
  OBVIOUS
<1>2. PICK n \in Bad : \A y \in Bad : n <= y
  BY <1>1, LeastNumber
<1>3. n \in 1 .. N /\ n - 1 \in 0 .. N /\ ~(n <= n - 1)
  OBVIOUS
<1>4. n - 1 \in T
  BY <1>2, <1>3
<1>. QED
  BY <1>3, <1>4

\* f is given at 0 and doubled, with something added, from each number to the next.
Doubles(f, N, c, h) ==
  /\ f \in [0 .. N -> Nat] /\ f[0] = c
  /\ \A k \in 1 .. N : f[k] = 2 * f[k - 1] + h[k]

\* There is such a function.
LEMMA Doubling ==
  ASSUME NEW N \in Nat, NEW c \in Nat, NEW h \in [1 .. N -> Nat]
  PROVE  \E f : Doubles(f, N, c, h)
<1>. DEFINE Good(n) == \E f : Doubles(f, n, c, h)
<1>1. Good(0)
  <2>. DEFINE f == [k \in 0 .. 0 |-> c]
  <2>1. Doubles(f, 0, c, h)
    BY DEF Doubles
  <2>. HIDE DEF f
  <2>. QED
    BY <2>1
<1>2. ASSUME NEW n \in 0 .. N, n # 0, Good(n - 1) PROVE Good(n)
  <2>1. PICK f : Doubles(f, n - 1, c, h)
    BY <1>2
  <2>2. f \in [0 .. n - 1 -> Nat] /\ f[0] = c /\ \A k \in 1 .. n - 1 : f[k] = 2 * f[k - 1] + h[k]
    BY <2>1 DEF Doubles
  <2>3. n - 1 \in 0 .. n - 1 /\ n \in 1 .. N
    BY <1>2
  <2>4. f[n - 1] \in Nat /\ h[n] \in Nat
    BY <2>2, <2>3
  <2>. DEFINE g == [k \in 0 .. n |-> IF k = n THEN 2 * f[n - 1] + h[n] ELSE f[k]]
  <2>5. \A k \in 0 .. n - 1 : g[k] = f[k] /\ f[k] \in Nat
    BY <1>2, <2>2, SMTT(30)
  <2>6. g[n] = 2 * f[n - 1] + h[n] /\ g[n] \in Nat
    BY <1>2, <2>4, SMTT(30)
  <2>7. g \in [0 .. n -> Nat]
    BY <1>2, <2>2, <2>4, SMTT(30)
  <2>. HIDE DEF g
  <2>8. ASSUME NEW k \in 1 .. n PROVE g[k] = 2 * g[k - 1] + h[k]
    <3>1. k - 1 \in 0 .. n - 1 /\ (k = n \/ (k \in 1 .. n - 1 /\ k \in 0 .. n - 1))
      BY <1>2
    <3>2. g[k - 1] = f[k - 1]
      BY <2>5, <3>1
    <3>. QED
      BY <2>2, <2>5, <2>6, <3>1, <3>2
  <2>9. g[0] = c
    BY <2>2, <2>3, <2>5, 0 \in 0 .. n - 1
  <2>10. Doubles(g, n, c, h)
    BY <2>7, <2>8, <2>9 DEF Doubles
  <2>. QED
    BY <2>10
<1>. HIDE DEF Good
<1>3. \A n \in 0 .. N : n \in {k \in 0 .. N : Good(k)}
  <2>. DEFINE T == {k \in 0 .. N : Good(k)}
  <2>1. 0 \in T
    BY <1>1
  <2>2. ASSUME NEW k \in 1 .. N, k - 1 \in T PROVE k \in T
    BY <1>2, <2>2
  <2>. HIDE DEF T
  <2>3. \A n \in 0 .. N : n \in T
    BY <2>1, <2>2, UpTo
  <2>. QED
    BY <2>3 DEF T
<1>4. Good(N)
  BY <1>3
<1>. QED
  BY <1>4 DEF Good

\* The recursive function that Pow2 chooses exists, so it is Pow2.
LEMMA PowerDef ==
  ASSUME XLEN \in Nat
  PROVE  /\ Pow2 \in [0 .. 2 * XLEN -> Nat]
         /\ Pow2[0] = 1
         /\ \A k \in 1 .. 2 * XLEN : Pow2[k] = 2 * Pow2[k - 1]
<1>. DEFINE N == 2 * XLEN
            Is(f) == f = [k \in 0 .. N |-> IF k = 0 THEN 1 ELSE 2 * f[k - 1]]
            power == CHOOSE f : Is(f)
<1>1. N \in Nat
  OBVIOUS
<1>. HIDE DEF N
<1>2. PICK f \in [0 .. N -> Nat] : f[0] = 1 /\ \A k \in 1 .. N : f[k] = 2 * f[k - 1]
  <2>. DEFINE h == [k \in 1 .. N |-> 0]
  <2>1. h \in [1 .. N -> Nat] /\ 1 \in Nat /\ \A k \in 1 .. N : h[k] = 0
    OBVIOUS
  <2>. HIDE DEF h
  <2>2. PICK f : Doubles(f, N, 1, h)
    BY <1>1, <2>1, Doubling
  <2>3. f \in [0 .. N -> Nat] /\ f[0] = 1 /\ \A k \in 1 .. N : f[k] = 2 * f[k - 1] + h[k]
    BY <2>2 DEF Doubles
  <2>4. ASSUME NEW k \in 1 .. N PROVE f[k] = 2 * f[k - 1]
    <3>1. k - 1 \in 0 .. N
      BY <1>1
    <3>2. f[k - 1] \in Nat /\ h[k] = 0 /\ f[k] = 2 * f[k - 1] + h[k]
      BY <2>1, <2>3, <3>1
    <3>. QED
      BY <3>2
  <2>. QED
    BY <2>3, <2>4
<1>3. Is(f)
  BY <1>2
<1>4. Is(power)
  <2>. HIDE DEF Is
  <2>. QED
    BY <1>3
<1>5. power[0] = 1 /\ \A k \in 1 .. N : power[k] = 2 * power[k - 1]
  <2>. HIDE DEF power
  <2>. QED
    BY <1>1, <1>4
<1>6. Pow2 = [k \in 0 .. N |-> power[k]]
  BY DEF Pow2, N, power, Is
<1>. HIDE DEF Is, power
<1>7. \A k \in 0 .. N : power[k] \in Nat
  <2>. DEFINE T == {k \in 0 .. N : power[k] \in Nat}
  <2>1. 0 \in T
    BY <1>1, <1>5
  <2>2. ASSUME NEW k \in 1 .. N, k - 1 \in T PROVE k \in T
    BY <1>5, <2>2
  <2>. HIDE DEF T
  <2>3. \A k \in 0 .. N : k \in T
    BY <1>1, <2>1, <2>2, UpTo
  <2>. QED
    BY <2>3 DEF T
<1>8. Pow2 \in [0 .. N -> Nat]
  BY <1>6, <1>7
<1>9. \A k \in 1 .. N : k \in 0 .. N /\ k - 1 \in 0 .. N
  BY <1>1
<1>10. Pow2[0] = 1 /\ \A k \in 1 .. N : Pow2[k] = 2 * Pow2[k - 1]
  BY <1>1, <1>5, <1>6, <1>9
<1>. QED
  BY <1>8, <1>10 DEF N

\* Each is twice the one before, and larger than its exponent.
LEMMA Power ==
  /\ Pow2[0] = 1
  /\ \A k \in 1 .. 2 * XLEN : Pow2[k] = 2 * Pow2[k - 1]
  /\ \A k \in 0 .. 2 * XLEN : Pow2[k] \in Nat \ {0} /\ Pow2[k] > k
<1>. DEFINE N == 2 * XLEN
<1>1. N \in Nat /\ XLEN \in Nat
  BY XLENAssumption
<1>2. Pow2 \in [0 .. N -> Nat] /\ Pow2[0] = 1 /\ \A k \in 1 .. N : Pow2[k] = 2 * Pow2[k - 1]
  BY <1>1, PowerDef
<1>. HIDE DEF N
<1>3. \A k \in 0 .. N : Pow2[k] > k
  <2>. DEFINE T == {k \in 0 .. N : Pow2[k] > k}
  <2>1. 0 \in T
    BY <1>1, <1>2
  <2>2. ASSUME NEW k \in 1 .. N, k - 1 \in T PROVE k \in T
    <3>1. k - 1 \in 0 .. N /\ Pow2[k - 1] > k - 1
      BY <2>2
    <3>2. Pow2[k - 1] \in Nat /\ Pow2[k] = 2 * Pow2[k - 1]
      BY <1>2, <3>1
    <3>3. Pow2[k] > k /\ k \in 0 .. N
      BY <3>1, <3>2, <1>1
    <3>. QED
      BY <3>3
  <2>. HIDE DEF T
  <2>3. \A k \in 0 .. N : k \in T
    BY <1>1, <2>1, <2>2, UpTo
  <2>. QED
    BY <2>3 DEF T
<1>4. \A k \in 0 .. N : Pow2[k] \in Nat \ {0}
  BY <1>1, <1>2, <1>3
<1>. QED
  BY <1>2, <1>3, <1>4 DEF N

\* The power of a sum
LEMMA PowerSum ==
  ASSUME NEW i \in Nat, NEW j \in Nat, i + j <= 2 * XLEN
  PROVE  Pow2[i + j] = Pow2[i] * Pow2[j]
<1>. DEFINE N == 2 * XLEN
            T == {k \in 0 .. j : Pow2[i + k] = Pow2[i] * Pow2[k]}
<1>1. N \in Nat /\ i + j <= N /\ i \in 0 .. N
  BY XLENAssumption
<1>2. /\ Pow2[0] = 1
      /\ \A k \in 1 .. N : Pow2[k] = 2 * Pow2[k - 1]
      /\ \A k \in 0 .. N : Pow2[k] \in Nat
  BY Power
<1>. HIDE DEF N
<1>3. 0 \in T
  <2>1. i + 0 = i /\ Pow2[i] \in Nat
    BY <1>1, <1>2
  <2>. QED
    BY <1>2, <2>1
<1>4. ASSUME NEW k \in 1 .. j, k - 1 \in T PROVE k \in T
  <2>1. k \in 1 .. N /\ i + k \in 1 .. N /\ k - 1 \in 0 .. N /\ i + (k - 1) = (i + k) - 1
    BY <1>1
  <2>. DEFINE a == Pow2[i]
              b == Pow2[k - 1]
  <2>2. Pow2[i + k] = 2 * Pow2[(i + k) - 1] /\ Pow2[k] = 2 * b /\ a \in Nat /\ b \in Nat
    BY <1>1, <1>2, <2>1
  <2>3. Pow2[(i + k) - 1] = a * b
    BY <1>4, <2>1
  <2>. HIDE DEF a, b
  <2>4. 2 * (a * b) = a * (2 * b)
    BY <2>2
  <2>5. Pow2[i + k] = a * Pow2[k]
    BY <2>2, <2>3, <2>4
  <2>. QED
    BY <2>5, <2>1 DEF a
<1>. HIDE DEF T
<1>5. \A k \in 0 .. j : k \in T
  BY <1>3, <1>4, UpTo
<1>. QED
  BY <1>5 DEF T

\* The length of a word, and its half
LEMMA Lengths ==
  /\ XLEN \in Nat /\ HALF \in Nat /\ HALF >= 2 /\ XLEN = 2 * HALF
  /\ \E k \in 1 .. HALF : HALF = Pow2[k] /\ XLEN = Pow2[k + 1]
<1>1. PICK k \in 2 .. XLEN : XLEN = Pow2[k]
  BY XLENAssumption
<1>2. /\ XLEN \in Nat /\ k \in 1 .. 2 * XLEN /\ k - 1 \in 1 .. 2 * XLEN
      /\ k - 1 \in 0 .. 2 * XLEN /\ k - 2 \in 0 .. 2 * XLEN /\ (k - 1) - 1 = k - 2
  BY XLENAssumption
<1>3. /\ Pow2[k] = 2 * Pow2[k - 1] /\ Pow2[k - 1] = 2 * Pow2[k - 2]
      /\ Pow2[k - 2] \in Nat \ {0} /\ Pow2[k - 1] \in Nat /\ Pow2[k - 1] > k - 1
  BY <1>2, Power
<1>4. HALF = Pow2[k - 1]
  BY <1>1, <1>3 DEF HALF
<1>5. XLEN = 2 * HALF /\ HALF \in Nat /\ HALF >= 2
  BY <1>1, <1>2, <1>3, <1>4
<1>6. k - 1 \in 1 .. HALF /\ XLEN = Pow2[(k - 1) + 1]
  BY <1>1, <1>2, <1>3, <1>4, <1>5
<1>. QED
  BY <1>2, <1>4, <1>5, <1>6

-----------------------------------------------------------------------------
\* Quotients and remainders

\* A number is put together from a quotient and a remainder in one way only.
LEMMA Quotient ==
  ASSUME NEW d \in Nat \ {0}, NEW q \in Int, NEW o \in 0 .. d - 1
  PROVE  (q * d + o) \div d = q /\ (q * d + o) % d = o
OBVIOUS

\* Quotient and remainder make up the number.
LEMMA DivMod ==
  ASSUME NEW d \in Nat \ {0}, NEW x \in Int
  PROVE  /\ x \div d \in Int /\ x % d \in 0 .. d - 1
         /\ x = (x \div d) * d + (x % d)
OBVIOUS

\* The product of two numbers is one.
LEMMA Times == ASSUME NEW x \in Int, NEW y \in Int PROVE x * y \in Int
OBVIOUS

\* So it is with numbers that are not negative.
LEMMA NatTimes == ASSUME NEW x \in Nat, NEW y \in Nat PROVE x * y \in Nat
OBVIOUS

\* A smaller quotient times the divisor, and the laws of the ring that the
\* provers do not find by themselves
LEMMA TimesLess ==
  ASSUME NEW x \in Nat, NEW y \in Nat, NEW d \in Nat, x < y
  PROVE  x * d + d <= y * d
<1>1. PICK z \in Nat : y = x + 1 + z
  BY y - x - 1 \in Nat, y = x + 1 + (y - x - 1)
<1>2. (x + 1 + z) * d = x * d + d + z * d
  OBVIOUS
<1>3. z * d \in Nat /\ x * d \in Nat
  BY NatTimes
<1>. QED
  BY <1>1, <1>2, <1>3

\* Adding a multiple of the divisor
LEMMA AddMultiple ==
  ASSUME NEW d \in Nat \ {0}, NEW x \in Int, NEW k \in Int
  PROVE  (x + k * d) % d = x % d /\ (x + k * d) \div d = x \div d + k
<1>. DEFINE q == x \div d
            o == x % d
<1>1. q \in Int /\ o \in 0 .. d - 1 /\ x = q * d + o
  BY DivMod
<1>. HIDE DEF q, o
<1>2. x + k * d = (q + k) * d + o /\ q + k \in Int
  BY <1>1
<1>3. (x + k * d) % d = o /\ (x + k * d) \div d = q + k
  BY <1>1, <1>2, Quotient
<1>. QED
  BY <1>3 DEF q, o

\* Nothing is taken off a small number.
LEMMA SmallMod == ASSUME NEW d \in Nat \ {0}, NEW x \in 0 .. d - 1 PROVE x % d = x /\ x \div d = 0
OBVIOUS

\* The remainder of a sum or a product is that of the remainders'.
LEMMA ModAdd ==
  ASSUME NEW d \in Nat \ {0}, NEW x \in Int, NEW y \in Int
  PROVE  ((x % d) + y) % d = (x + y) % d
<1>. DEFINE q == x \div d
            o == x % d
<1>1. q \in Int /\ o \in Int /\ x = q * d + o
  BY DivMod
<1>. HIDE DEF q, o
<1>2. x + y = (o + y) + q * d /\ o + y \in Int
  BY <1>1
<1>3. ((o + y) + q * d) % d = (o + y) % d
  BY <1>1, <1>2, AddMultiple
<1>. QED
  BY <1>2, <1>3 DEF o

\* The same for a product
LEMMA ModTimes ==
  ASSUME NEW d \in Nat \ {0}, NEW x \in Int, NEW y \in Int
  PROVE  ((x % d) * y) % d = (x * y) % d
<1>. DEFINE q == x \div d
            o == x % d
<1>1. q \in Int /\ o \in Int /\ x = q * d + o
  BY DivMod
<1>. HIDE DEF q, o
<1>2. x * y = o * y + (q * y) * d /\ o * y \in Int /\ q * y \in Int
  BY <1>1
<1>3. (o * y + (q * y) * d) % d = (o * y) % d
  BY <1>2, AddMultiple
<1>. QED
  BY <1>2, <1>3 DEF o

\* The high word of what is left of a number after cutting it to two words.
LEMMA HighOfTwo ==
  ASSUME NEW d \in Nat \ {0}, NEW z \in Int
  PROVE  (z % (d * d)) \div d = (z \div d) % d
<1>. DEFINE q == z \div d
            o == z % d
            u == q \div d
            v == q % d
<1>1. q \in Int /\ o \in 0 .. d - 1 /\ z = q * d + o
  BY DivMod
<1>. HIDE DEF q, o
<1>2. u \in Int /\ v \in 0 .. d - 1 /\ q = u * d + v
  BY <1>1, DivMod
<1>. HIDE DEF u, v
<1>3. z = u * (d * d) + (v * d + o)
  BY <1>1, <1>2
<1>4. v * d + o \in 0 .. d * d - 1 /\ d * d \in Nat \ {0}
  <2>1. v * d + d <= d * d /\ v * d \in Nat /\ d * d \in Nat
    BY <1>2, TimesLess, NatTimes
  <2>2. d * d # 0
    OBVIOUS
  <2>. DEFINE w == v * d
              e == d * d
  <2>. HIDE DEF w, e
  <2>3. w + o \in 0 .. e - 1
    BY <1>1, <2>1 DEF w, e
  <2>. QED
    BY <2>1, <2>2, <2>3 DEF w, e
<1>5. z % (d * d) = v * d + o
  BY <1>2, <1>3, <1>4, Quotient
<1>6. (v * d + o) \div d = v
  BY <1>1, <1>2, Quotient
<1>. QED
  BY <1>5, <1>6 DEF v, q

-----------------------------------------------------------------------------
\* Products from halves

\* The school's multiplication of two digits by two, with digits below H: what
\* Product computes makes up the product.
Schoolbook(H, a0, a1, b0, b1) ==
  LET p0 == a0 * b0
      p1 == a0 * b1
      p2 == a1 * b0
      p3 == a1 * b1
      mid == (p0 \div H) + (p1 % H) + (p2 % H)
      z == (a1 * H + a0) * (b1 * H + b0)
  IN /\ (p0 % H) + ((mid * H) % (H * H)) = z % (H * H)
     /\ p3 + (p1 \div H) + (p2 \div H) + (mid \div H) = z \div (H * H)

\* So it is for every base H: the carries out of the middle products are all there.
LEMMA SchoolbookRight ==
  ASSUME NEW H \in Nat \ {0},
         NEW a0 \in 0 .. H - 1, NEW a1 \in 0 .. H - 1, NEW b0 \in 0 .. H - 1, NEW b1 \in 0 .. H - 1
  PROVE  Schoolbook(H, a0, a1, b0, b1)
<1>. DEFINE p0 == a0 * b0
            p1 == a0 * b1
            p2 == a1 * b0
            p3 == a1 * b1
            mid == (p0 \div H) + (p1 % H) + (p2 % H)
            z == (a1 * H + a0) * (b1 * H + b0)
            B == H * H
            q0 == p0 \div H
            r0 == p0 % H
            q1 == p1 \div H
            r1 == p1 % H
            q2 == p2 \div H
            r2 == p2 % H
            qm == mid \div H
            rm == mid % H
<1>1. p0 \in Nat /\ p1 \in Nat /\ p2 \in Nat /\ p3 \in Nat
  BY NatTimes
<1>5. z = p3 * B + (p1 + p2) * H + p0
  OBVIOUS
<1>. HIDE DEF p0, p1, p2, p3, z
<1>2. /\ q0 \in Int /\ r0 \in 0 .. H - 1 /\ p0 = q0 * H + r0
      /\ q1 \in Int /\ r1 \in 0 .. H - 1 /\ p1 = q1 * H + r1
      /\ q2 \in Int /\ r2 \in 0 .. H - 1 /\ p2 = q2 * H + r2
  <2>1. /\ p0 \div H \in Int /\ p0 % H \in 0 .. H - 1 /\ p0 = (p0 \div H) * H + (p0 % H)
        /\ p1 \div H \in Int /\ p1 % H \in 0 .. H - 1 /\ p1 = (p1 \div H) * H + (p1 % H)
        /\ p2 \div H \in Int /\ p2 % H \in 0 .. H - 1 /\ p2 = (p2 \div H) * H + (p2 % H)
    <3>1. \A x \in Nat : x \div H \in Int /\ x % H \in 0 .. H - 1 /\ x = (x \div H) * H + (x % H)
      BY DivMod
    <3>. QED
      BY <1>1, <3>1, Zenon
  <2>. QED
    BY <2>1
<1>3. mid \in Int /\ mid = q0 + r1 + r2
  BY <1>2
<1>4. qm \in Int /\ rm \in 0 .. H - 1 /\ mid = qm * H + rm
  BY <1>3, DivMod
<1>. HIDE DEF q0, r0, q1, r1, q2, r2, qm, rm, mid
<1>6. z = (p3 + q1 + q2) * B + mid * H + r0
  <2>1. (p1 + p2) * H = (q1 + q2) * B + (r1 + r2) * H
    <3>1. (q1 * H + r1 + (q2 * H + r2)) * H = (q1 + q2) * (H * H) + (r1 + r2) * H
      BY <1>2
    <3>. QED
      BY <1>2, <3>1 DEF B
  <2>2. mid * H = q0 * H + (r1 + r2) * H
    BY <1>2, <1>3
  <2>. DEFINE x == q0 * H
              y == (r1 + r2) * H
              w == (q1 + q2) * B
              v == p3 * B
  <2>3. x \in Int /\ y \in Int /\ B \in Int
    BY <1>2, Times DEF B
  <2>4. w \in Int /\ v \in Int /\ (p3 + q1 + q2) * B = v + w
    <3>. HIDE DEF B
    <3>. QED
      BY <1>1, <1>2, <2>3
  <2>5. z = v + (w + y) + (x + r0)
    BY <1>2, <1>5, <2>1
  <2>6. mid * H = x + y
    BY <2>2
  <2>. HIDE DEF x, y, w, v
  <2>. QED
    BY <1>2, <2>3, <2>4, <2>5, <2>6
<1>7. mid * H = qm * B + rm * H
  <2>1. (qm * H + rm) * H = qm * (H * H) + rm * H
    BY <1>4
  <2>. QED
    BY <1>4, <2>1 DEF B
<1>8. rm * H \in 0 .. B - 1 /\ rm * H + r0 \in 0 .. B - 1 /\ B \in Nat \ {0}
  <2>1. rm * H + H <= B /\ rm * H \in Nat /\ B \in Nat
    BY <1>4, TimesLess, NatTimes DEF B
  <2>. DEFINE w == rm * H
  <2>. HIDE DEF w, B
  <2>2. w + r0 \in 0 .. B - 1 /\ w \in 0 .. B - 1
    BY <1>2, <2>1 DEF w
  <2>. QED
    BY <2>1, <2>2 DEF w
<1>. DEFINE k == p3 + q1 + q2 + qm
            w == rm * H + r0
<1>9. k \in Int
  BY <1>1, <1>2, <1>4
<1>10. z = k * B + w
  <2>. DEFINE c == p3 + q1 + q2
              x == rm * H
  <2>1. c \in Int /\ B \in Int /\ x \in Int
    BY <1>1, <1>2, <1>8
  <2>. HIDE DEF B, c, x
  <2>2. (c + qm) * B = c * B + qm * B
    BY <1>4, <2>1
  <2>3. z = c * B + (qm * B + x) + r0
    BY <1>6, <1>7 DEF c, x
  <2>4. c * B \in Int /\ qm * B \in Int
    BY <1>4, <2>1, Times
  <2>. DEFINE u == c * B
              v == qm * B
  <2>. HIDE DEF u, v
  <2>5. u + (v + x) + r0 = (u + v) + (x + r0)
    BY <1>2, <2>1, <2>4 DEF u, v
  <2>. QED
    BY <2>2, <2>3, <2>5 DEF c, x, u, v
<1>11. z % B = w /\ z \div B = k
  <2>. HIDE DEF k, w, B
  <2>. QED
    BY <1>8, <1>9, <1>10, Quotient, ZenonT(30) DEF w
<1>12. (mid * H) % B = rm * H
  <2>. DEFINE x == rm * H
              y == mid * H
  <2>1. y = qm * B + x /\ x \in 0 .. B - 1 /\ B \in Nat \ {0} /\ qm \in Int
    BY <1>4, <1>7, <1>8
  <2>. HIDE DEF x, y, B
  <2>2. y % B = x
    BY <2>1, Quotient
  <2>. QED
    BY <2>2 DEF x, y
<1>13. r0 + rm * H = w
  BY <1>2, <1>8
<1>. QED
  BY <1>11, <1>12, <1>13 DEF Schoolbook, q1, q2, qm, r0, p0, p1, p2, p3, mid, z, B

-----------------------------------------------------------------------------
\* What OP and OP32 select, words and halves

\* What OP selects
LEMMA OPSelects ==
  ASSUME NEW a, NEW b
  PROVE  /\ OP(0, 1, a, b) = {W(a * b)}
         /\ OP(1, 1, a, b) = {MULH(a, b)}
         /\ OP(2, 1, a, b) = {MULHSU(a, b)}
         /\ OP(3, 1, a, b) = {MULHU(a, b)}
         /\ OP(4, 1, a, b) = {DIV(a, b)}
         /\ OP(5, 1, a, b) = {DIVU(a, b)}
         /\ OP(6, 1, a, b) = {REM(a, b)}
         /\ OP(7, 1, a, b) = {REMU(a, b)}
         /\ OP(2, 0, a, b) = {Bool(Signed(a) < Signed(b))}
         /\ OP(3, 0, a, b) = {Bool(a < b)}
         /\ OP(1, 0, a, b) = {Shl(a, And(b, CPU_SHIFT_MASK), XLEN)}
         /\ OP(5, 0, a, b) = {Shr(a, And(b, CPU_SHIFT_MASK))}
         /\ OP(5, 32, a, b) = {Sra(a, And(b, CPU_SHIFT_MASK), XLEN)}
         /\ OPIMM(5, 16, a, b) = {Sra(a, And(b, CPU_SHIFT_MASK), XLEN)}
BY DEF OP, OPIMM

\* What OP32 selects
LEMMA OP32Selects ==
  ASSUME NEW ra, NEW rb
  PROVE  LET a == Lo(ra)
             b == Lo(rb)
             sa == SignedOf(a, HALF)
             sb == SignedOf(b, HALF)
             ext(x) == {SignExtend(Lo(x), HALF)}
             overflows == a = Pow2[HALF - 1] /\ b = Pow2[HALF] - 1
             sll == And(b, CPU_SHIFT_MASK)
         IN /\ OP32(0, 1, ra, rb) = ext(a * b)
            /\ sll < HALF => OP32(1, 0, ra, rb) = ext(Shl(a, sll, HALF))
            /\ OP32(5, 0, ra, rb) = ext(Shr(a, Shift32(b)))
            /\ OP32(5, 32, ra, rb) = ext(Sra(a, Shift32(b), HALF))
            /\ OP32(4, 1, ra, rb) = IF b = 0 THEN {CPU_UINT_MAX}
                                    ELSE IF overflows THEN {W(-Pow2[HALF - 1])} ELSE ext(CDiv(sa, sb))
            /\ OP32(5, 1, ra, rb) = IF b = 0 THEN {CPU_UINT_MAX} ELSE ext(a \div b)
            /\ OP32(6, 1, ra, rb) = IF b = 0 THEN ext(a) ELSE IF overflows THEN {0} ELSE ext(CRem(sa, sb))
            /\ OP32(7, 1, ra, rb) = IF b = 0 THEN ext(a) ELSE ext(a % b)
BY DEF OP32

\* The numbers of words and half words, and where their sign bit is
LEMMA Widths ==
  /\ Pow2[XLEN] \in Nat \ {0} /\ Pow2[HALF] \in Nat \ {0}
  /\ Pow2[XLEN - 1] \in Nat \ {0} /\ Pow2[HALF - 1] \in Nat \ {0}
  /\ Pow2[HALF] >= 4 /\ Pow2[HALF - 1] >= 2
  /\ Pow2[XLEN] = Pow2[HALF] * Pow2[HALF] /\ Pow2[2 * XLEN] = Pow2[XLEN] * Pow2[XLEN]
  /\ Pow2[XLEN] = 2 * Pow2[XLEN - 1] /\ Pow2[HALF] = 2 * Pow2[HALF - 1]
  /\ Pow2[HALF] <= Pow2[XLEN - 1]
<1>1. XLEN \in Nat /\ HALF \in Nat /\ HALF >= 2 /\ XLEN = HALF + HALF /\ 2 * XLEN = XLEN + XLEN
  BY Lengths
<1>2. /\ XLEN \in 0 .. 2 * XLEN /\ HALF \in 0 .. 2 * XLEN
      /\ XLEN - 1 \in 0 .. 2 * XLEN /\ HALF - 1 \in 0 .. 2 * XLEN
      /\ XLEN \in 1 .. 2 * XLEN /\ HALF \in 1 .. 2 * XLEN
      /\ HALF - 1 \in 1 .. 2 * XLEN /\ HALF - 2 \in 0 .. 2 * XLEN
      /\ (HALF - 1) - 1 = HALF - 2
  BY <1>1
<1>3. /\ Pow2[XLEN] \in Nat \ {0} /\ Pow2[HALF] \in Nat \ {0} /\ Pow2[XLEN - 1] \in Nat \ {0}
      /\ Pow2[HALF - 1] \in Nat \ {0} /\ Pow2[HALF - 2] \in Nat \ {0}
  BY <1>2, Power
<1>4. Pow2[XLEN] = 2 * Pow2[XLEN - 1] /\ Pow2[HALF] = 2 * Pow2[HALF - 1] /\ Pow2[HALF - 1] = 2 * Pow2[HALF - 2]
  BY <1>2, Power
<1>5. Pow2[HALF + HALF] = Pow2[HALF] * Pow2[HALF]
  BY <1>1, PowerSum, HALF + HALF <= 2 * XLEN
<1>6. Pow2[XLEN + XLEN] = Pow2[XLEN] * Pow2[XLEN]
  BY <1>1, PowerSum, XLEN + XLEN <= 2 * XLEN
<1>7. Pow2[HALF - 1] >= 2 /\ Pow2[HALF] >= 4
  BY <1>3, <1>4
<1>8. Pow2[HALF] <= Pow2[XLEN - 1]
  <2>. DEFINE H == Pow2[HALF]
              h == Pow2[HALF - 1]
              S == Pow2[XLEN - 1]
  <2>1. H \in Nat /\ h \in Nat /\ S \in Nat /\ H = 2 * h /\ 2 * S = H * H /\ h >= 2
    BY <1>1, <1>3, <1>4, <1>5, <1>7
  <2>. HIDE DEF H, h, S
  <2>2. S = H * h
    BY <2>1
  <2>3. 1 * H + H <= h * H \/ h = 2
    BY <2>1, TimesLess
  <2>4. H <= S
    BY <2>1, <2>2, <2>3
  <2>. QED
    BY <2>4 DEF H, S
<1>. QED
  BY <1>1, <1>3, <1>4, <1>5, <1>6, <1>7, <1>8

\* A number below c times d has a quotient below c.
LEMMA QuotientBound ==
  ASSUME NEW d \in Nat \ {0}, NEW c \in Nat, NEW x \in Nat, x < c * d
  PROVE  x \div d \in 0 .. c - 1
<1>. DEFINE q == x \div d
            o == x % d
<1>1. q \in Int /\ o \in 0 .. d - 1 /\ x = q * d + o
  BY DivMod
<1>. HIDE DEF q, o
<1>2. q >= 0
  BY <1>1
<1>3. q \in Nat /\ q * d \in Nat /\ c * d \in Nat
  BY <1>1, <1>2, NatTimes
<1>4. c < q => c * d + d <= q * d
  BY <1>3, TimesLess
<1>5. c = q => c * d = q * d
  OBVIOUS
<1>6. q \in 0 .. c - 1
  BY <1>1, <1>3, <1>4, <1>5
<1>. QED
  BY <1>6 DEF q

\* A word as its two halves
LEMMA Halves ==
  ASSUME NEW a \in Word
  PROVE  /\ Lo(a) \in 0 .. Pow2[HALF] - 1 /\ Shr(a, HALF) \in 0 .. Pow2[HALF] - 1
         /\ a = Shr(a, HALF) * Pow2[HALF] + Lo(a)
<1>. DEFINE H == Pow2[HALF]
            q == a \div H
            o == a % H
<1>1. H \in Nat \ {0} /\ a \in Nat /\ a < H * H
  BY Widths DEF Word
<1>2. q \in Int /\ o \in 0 .. H - 1 /\ a = q * H + o
  <2>. HIDE DEF H
  <2>. QED
    BY <1>1, DivMod
<1>3. q \in 0 .. H - 1
  <2>. HIDE DEF H
  <2>. QED
    BY <1>1, QuotientBound
<1>. QED
  BY <1>1, <1>2, <1>3 DEF Lo, Shr

\* The product of two words has two, and Product computes them.
LEMMA ProductWords ==
  ASSUME NEW a \in Word, NEW b \in Word
  PROVE  /\ Product(a, b).lo = (a * b) % Pow2[XLEN]
         /\ Product(a, b).hi = (a * b) \div Pow2[XLEN]
         /\ (a * b) \div Pow2[XLEN] \in Word
         /\ a * b \in Nat
<1>. DEFINE H == Pow2[HALF]
            B == Pow2[XLEN]
            a0 == Lo(a)
            a1 == Shr(a, HALF)
            b0 == Lo(b)
            b1 == Shr(b, HALF)
            p0 == a0 * b0
            p1 == a0 * b1
            p2 == a1 * b0
            p3 == a1 * b1
            mid == (p0 \div H) + (p1 % H) + (p2 % H)
            z == (a1 * H + a0) * (b1 * H + b0)
<1>1. H \in Nat \ {0} /\ B \in Nat \ {0} /\ B = H * H
  BY Widths
<1>2. a0 \in 0 .. H - 1 /\ a1 \in 0 .. H - 1 /\ b0 \in 0 .. H - 1 /\ b1 \in 0 .. H - 1
  BY Halves
<1>3. a = a1 * H + a0 /\ b = b1 * H + b0
  BY Halves
<1>4. z = a * b
  <2>. HIDE DEF a0, a1, b0, b1
  <2>. QED
    BY <1>3
<1>5. /\ (p0 % H) + ((mid * H) % (H * H)) = z % (H * H)
      /\ p3 + (p1 \div H) + (p2 \div H) + (mid \div H) = z \div (H * H)
  <2>. HIDE DEF H, a0, a1, b0, b1
  <2>1. Schoolbook(H, a0, a1, b0, b1)
    BY <1>1, <1>2, SchoolbookRight
  <2>. QED
    BY <2>1 DEF Schoolbook
<1>6. /\ Product(a, b).lo = (p0 % H) + ((mid * H) % B)
      /\ Product(a, b).hi = (p3 + (p1 \div H) + (p2 \div H) + (mid \div H)) % B
  BY DEF Product, Lo, Shr, Shl, W
<1>7. a \in Nat /\ b \in Nat /\ a < B /\ b < B /\ a * b \in Nat
  BY <1>1, NatTimes DEF Word
<1>8. (a * b) \div B \in 0 .. B - 1
  <2>. HIDE DEF B
  <2>1. a * b < B * B
    <3>1. a * b + b <= B * b \/ b = 0
      BY <1>1, <1>7, TimesLess
    <3>2. b * B + B <= B * B
      BY <1>1, <1>7, TimesLess
    <3>3. B * b \in Nat /\ B * B \in Nat /\ b * B = B * b
      BY <1>1, <1>7, NatTimes
    <3>. QED
      BY <1>1, <1>7, <3>1, <3>2, <3>3
  <2>. DEFINE y == a * b
  <2>2. y \in Nat /\ y < B * B
    BY <1>7, <2>1
  <2>. HIDE DEF y
  <2>3. y \div B \in 0 .. B - 1
    BY <1>1, <2>2, QuotientBound
  <2>. QED
    BY <2>3 DEF y
<1>9. Product(a, b).lo = (a * b) % B
  BY <1>1, <1>4, <1>5, <1>6
<1>10. Product(a, b).hi = ((a * b) \div B) % B
  BY <1>1, <1>4, <1>5, <1>6
<1>11. ((a * b) \div B) % B = (a * b) \div B
  <2>. DEFINE q == (a * b) \div B
  <2>. HIDE DEF q, B
  <2>. QED
    BY <1>1, <1>8, SmallMod DEF q
<1>. QED
  BY <1>7, <1>8, <1>9, <1>10, <1>11 DEF Word

-----------------------------------------------------------------------------
\* The products

\* A word as a signed number
LEMMA SignedWord ==
  ASSUME NEW a \in Word
  PROVE  /\ Signed(a) \in Int /\ Signed(a) \in -Pow2[XLEN - 1] .. Pow2[XLEN - 1] - 1
         /\ \/ Signed(a) = a /\ a < Pow2[XLEN - 1] /\ ~(Signed(a) < 0)
            \/ Signed(a) = a - Pow2[XLEN] /\ a >= Pow2[XLEN - 1] /\ Signed(a) < 0
BY Widths DEF Word, Signed, SignedOf

\* Taken modulo the number of words it is the word again.
LEMMA SignedSame ==
  ASSUME NEW a \in Word
  PROVE  Signed(a) % Pow2[XLEN] = a % Pow2[XLEN] /\ a % Pow2[XLEN] = a
<1>1. a \in Int /\ Pow2[XLEN] \in Nat \ {0} /\ a \in 0 .. Pow2[XLEN] - 1
  BY Widths DEF Word
<1>2. (a + (-1) * Pow2[XLEN]) % Pow2[XLEN] = a % Pow2[XLEN]
  BY <1>1, AddMultiple
<1>3. a - Pow2[XLEN] = a + (-1) * Pow2[XLEN]
  BY <1>1
<1>4. Signed(a) = a \/ Signed(a) = a - Pow2[XLEN]
  BY SignedWord
<1>. QED
  BY <1>1, <1>2, <1>3, <1>4, SmallMod

\* Magnitude is the absolute value, and a word.
LEMMA MagnitudeWord ==
  ASSUME NEW a \in Word
  PROVE  Magnitude(a) \in Word /\ Magnitude(a) = IF Signed(a) < 0 THEN -Signed(a) ELSE Signed(a)
<1>1. /\ a \in Nat /\ a < Pow2[XLEN] /\ Pow2[XLEN] \in Nat \ {0}
      /\ Pow2[XLEN] = 2 * Pow2[XLEN - 1] /\ Pow2[XLEN - 1] \in Nat \ {0}
  BY Widths DEF Word
<1>2. CASE Signed(a) < 0
  <2>1. Signed(a) = a - Pow2[XLEN] /\ a >= Pow2[XLEN - 1]
    BY <1>2, SignedWord
  <2>. DEFINE x == Pow2[XLEN] - a
  <2>2. x \in 0 .. Pow2[XLEN] - 1 /\ 0 - a = (-1) * Pow2[XLEN] + x
    BY <1>1, <2>1
  <2>. HIDE DEF x
  <2>3. (0 - a) % Pow2[XLEN] = x
    <3>. DEFINE B == Pow2[XLEN]
    <3>1. B \in Nat \ {0} /\ x \in 0 .. B - 1 /\ -1 \in Int
      BY <1>1, <2>2
    <3>. HIDE DEF B
    <3>2. ((-1) * B + x) % B = x
      BY <3>1, Quotient
    <3>. QED
      BY <2>2, <3>2 DEF B
  <2>. QED
    BY <1>1, <1>2, <2>1, <2>2, <2>3 DEF Magnitude, W, Word, x
<1>3. CASE ~(Signed(a) < 0)
  BY <1>1, <1>3, SignedWord DEF Magnitude
<1>. QED
  BY <1>2, <1>3

\* Negating a number of two words, high word.
LEMMA NegatedQuotient ==
  ASSUME NEW d \in Nat \ {0}, NEW z \in Nat
  PROVE  (-z) \div d = (IF z % d = 0 THEN 0 ELSE -1) - (z \div d)
<1>. DEFINE q == z \div d
            o == z % d
<1>1. q \in Int /\ o \in 0 .. d - 1 /\ z = q * d + o
  BY DivMod
<1>. HIDE DEF q, o
<1>2. CASE o = 0
  <2>1. -z = (-q) * d + 0 /\ -q \in Int /\ 0 \in 0 .. d - 1
    BY <1>1, <1>2
  <2>2. (-z) \div d = -q
    BY <2>1, Quotient
  <2>. QED
    BY <1>1, <1>2, <2>2 DEF q, o
<1>3. CASE o # 0
  <2>1. -z = (-q - 1) * d + (d - o) /\ -q - 1 \in Int /\ d - o \in 0 .. d - 1
    BY <1>1, <1>3
  <2>2. (-z) \div d = -q - 1
    BY <2>1, Quotient
  <2>. QED
    BY <1>1, <1>3, <2>2 DEF q, o
<1>. QED
  BY <1>2, <1>3

\* NegatedHigh is the high word of the negated product.
LEMMA NegatedHighWord ==
  ASSUME NEW a \in Word, NEW b \in Word
  PROVE  NegatedHigh(Product(a, b)) = W((-(a * b)) \div Pow2[XLEN])
<1>. DEFINE B == Pow2[XLEN]
            z == a * b
            hi == z \div B
<1>1. B \in Nat \ {0}
  BY Widths
<1>2. Product(a, b).lo = z % B /\ Product(a, b).hi = hi /\ hi \in 0 .. B - 1 /\ z \in Nat
  BY ProductWords DEF Word
<1>3. (-z) \div B = (IF z % B = 0 THEN 0 ELSE -1) - hi
  <2>. HIDE DEF B, z
  <2>. QED
    BY <1>1, <1>2, NegatedQuotient DEF hi
<1>4. NegatedHigh(Product(a, b)) = (B - 1 - hi + Bool(z % B = 0)) % B
  BY <1>2 DEF NegatedHigh, W
<1>. DEFINE y == (IF z % B = 0 THEN 0 ELSE -1) - hi
<1>5. y \in Int /\ B - 1 - hi + Bool(z % B = 0) = y + 1 * B
  <2>. HIDE DEF hi, B, z
  <2>. QED
    BY <1>1, <1>2 DEF Bool
<1>6. (y + 1 * B) % B = y % B
  <2>1. y \in Int /\ 1 \in Int
    BY <1>5
  <2>. HIDE DEF y, B
  <2>. QED
    BY <1>1, <2>1, AddMultiple
<1>. QED
  BY <1>3, <1>4, <1>5, <1>6 DEF W

\* The high words of the three products
LEMMA HighWords ==
  ASSUME NEW a \in Word, NEW b \in Word
  PROVE  /\ MULH(a, b) = W((Signed(a) * Signed(b)) \div Pow2[XLEN])
         /\ MULHSU(a, b) = W((Signed(a) * b) \div Pow2[XLEN])
         /\ MULHU(a, b) = W((a * b) \div Pow2[XLEN])
<1>. DEFINE B == Pow2[XLEN]
            x == Signed(a)
            y == Signed(b)
            ma == Magnitude(a)
            mb == Magnitude(b)
<1>1. B \in Nat \ {0} /\ x \in Int /\ y \in Int /\ b \in Nat
  BY Widths, SignedWord DEF Word
<1>2. ma \in Word /\ mb \in Word /\ ma = (IF x < 0 THEN -x ELSE x) /\ mb = (IF y < 0 THEN -y ELSE y)
  BY MagnitudeWord
<1>3. ASSUME NEW c \in Word, NEW d \in Word
      PROVE  Product(c, d).hi = W((c * d) \div B)
  <2>1. Product(c, d).hi = (c * d) \div B /\ (c * d) \div B \in 0 .. B - 1
    BY ProductWords DEF Word
  <2>. DEFINE q == (c * d) \div B
  <2>. HIDE DEF q, B
  <2>2. q % B = q
    BY <1>1, <2>1, SmallMod DEF q
  <2>. QED
    BY <2>1, <2>2 DEF W, q, B
<1>4. MULHU(a, b) = W((a * b) \div B)
  BY <1>3 DEF MULHU
<1>5. MULH(a, b) = IF (x < 0) # (y < 0) THEN W((-(ma * mb)) \div B) ELSE W((ma * mb) \div B)
  <2>1. NegatedHigh(Product(ma, mb)) = W((-(ma * mb)) \div B)
    BY <1>2, NegatedHighWord
  <2>2. Product(ma, mb).hi = W((ma * mb) \div B)
    BY <1>2, <1>3
  <2>. QED
    BY <2>1, <2>2 DEF MULH
<1>6. MULHSU(a, b) = IF x < 0 THEN W((-(ma * b)) \div B) ELSE W((ma * b) \div B)
  <2>1. NegatedHigh(Product(ma, b)) = W((-(ma * b)) \div B)
    BY <1>2, NegatedHighWord
  <2>2. Product(ma, b).hi = W((ma * b) \div B)
    BY <1>2, <1>3
  <2>. QED
    BY <2>1, <2>2 DEF MULHSU
<1>7. /\ (x < 0) # (y < 0) => -(ma * mb) = x * y
      /\ (x < 0) = (y < 0) => ma * mb = x * y
      /\ x < 0 => -(ma * b) = x * b
      /\ ~(x < 0) => ma * b = x * b
  <2>. HIDE DEF x, y, ma, mb
  <2>. QED
    BY <1>1, <1>2
<1>. QED
  BY <1>4, <1>5, <1>6, <1>7

\* The low word of every product
LEMMA LowWord ==
  ASSUME NEW a \in Word, NEW b \in Word
  PROVE  /\ (Signed(a) * Signed(b)) % Pow2[XLEN] = W(a * b)
         /\ (Signed(a) * b) % Pow2[XLEN] = W(a * b)
         /\ (a * b) % Pow2[XLEN] = W(a * b)
<1>. DEFINE B == Pow2[XLEN]
            x == Signed(a)
            y == Signed(b)
<1>1. B \in Nat \ {0} /\ x \in Int /\ y \in Int /\ a \in Int /\ b \in Int
  BY Widths, SignedWord DEF Word
<1>2. x % B = a % B /\ y % B = b % B
  BY SignedSame
<1>. HIDE DEF B, x, y
<1>3. ASSUME NEW v \in Int PROVE (x * v) % B = (a * v) % B /\ (y * v) % B = (b * v) % B
  <2>1. ((x % B) * v) % B = (x * v) % B /\ ((a % B) * v) % B = (a * v) % B
    BY <1>1, ModTimes
  <2>2. ((y % B) * v) % B = (y * v) % B /\ ((b % B) * v) % B = (b * v) % B
    BY <1>1, ModTimes
  <2>. QED
    BY <1>2, <2>1, <2>2
<1>4. (x * y) % B = (a * y) % B /\ (x * b) % B = (a * b) % B /\ (y * a) % B = (b * a) % B
  BY <1>1, <1>3
<1>5. a * y = y * a /\ b * a = a * b
  BY <1>1
<1>. QED
  BY <1>4, <1>5 DEF W, B, x, y

\* As the RV32 build computes them
LEMMA HighWordsRV32 ==
  ASSUME NEW z \in Int
  PROVE  Shr(z % Pow2[2 * XLEN], XLEN) = W(z \div Pow2[XLEN])
BY Widths, HighOfTwo DEF Shr, W

\* MULW
LEMMA ProductHalf ==
  ASSUME NEW a \in Word, NEW b \in Word
  PROVE  OP32(0, 1, a, b) = {SignExtend((a * b) % Pow2[HALF], HALF)}
<1>1. OP32(0, 1, a, b) = {SignExtend(Lo(Lo(a) * Lo(b)), HALF)}
  BY OP32Selects
<1>. DEFINE H == Pow2[HALF]
            u == a % H
            v == b % H
<1>2. H \in Nat \ {0} /\ a \in Int /\ b \in Int
  BY Widths DEF Word
<1>3. u \in Int /\ v \in Int
  <2>. HIDE DEF H
  <2>1. a % H \in 0 .. H - 1 /\ b % H \in 0 .. H - 1
    BY <1>2, DivMod
  <2>. QED
    BY <1>2, <2>1
<1>4. (u * v) % H = (a * v) % H /\ (v * a) % H = (b * a) % H
  <2>1. v \in Int
    BY <1>3
  <2>. HIDE DEF H
  <2>2. ((a % H) * v) % H = (a * v) % H
    BY <1>2, <2>1, ModTimes
  <2>3. ((b % H) * a) % H = (b * a) % H
    BY <1>2, ModTimes
  <2>. QED
    BY <2>2, <2>3
<1>5. v * a = a * v /\ b * a = a * b
  BY <1>2, <1>3
<1>6. (u * v) % H = (a * b) % H
  BY <1>4, <1>5
<1>. QED
  BY <1>1, <1>6 DEF Lo

\* The products of any two words are right.
LEMMA ProductsOfWords ==
  ASSUME rs1Val \in Word, rs2Val \in Word PROVE ProductsRight
<1>. DEFINE a == rs1Val
            b == rs2Val
            x == Signed(a)
            y == Signed(b)
            B == Pow2[XLEN]
<1>1. x \in Int /\ y \in Int /\ a \in Int /\ b \in Int
  BY SignedWord DEF Word
<1>2. /\ OP(1, 1, a, b) = {W((x * y) \div B)}
      /\ OP(2, 1, a, b) = {W((x * b) \div B)}
      /\ OP(3, 1, a, b) = {W((a * b) \div B)}
  BY OPSelects, HighWords
<1>3. OP(0, 1, a, b) = {(x * y) % B} /\ OP(0, 1, a, b) = {(x * b) % B} /\ OP(0, 1, a, b) = {(a * b) % B}
  BY OPSelects, LowWord
<1>4. /\ MULH_RV32(a, b) = W((x * y) \div B)
      /\ MULHSU_RV32(a, b) = W((x * b) \div B)
      /\ MULHU_RV32(a, b) = W((a * b) \div B)
  <2>1. x * y \in Int /\ x * b \in Int /\ a * b \in Int
    BY <1>1, Times
  <2>. QED
    BY <2>1, HighWordsRV32 DEF MULH_RV32, MULHSU_RV32, MULHU_RV32, HighRV32
<1>5. OP32(0, 1, a, b) = {SignExtend((a * b) % Pow2[HALF], HALF)}
  BY ProductHalf
<1>6. ASSUME NEW t \in {<<1, x, y>>, <<2, x, b>>, <<3, a, b>>}
      PROVE  /\ OP(t[1], 1, a, b) = {W((t[2] * t[3]) \div B)}
             /\ OP(0, 1, a, b) = {(t[2] * t[3]) % B}
             /\ {<<MULH_RV32(a, b), MULHSU_RV32(a, b), MULHU_RV32(a, b)>>[t[1]]} = OP(t[1], 1, a, b)
  <2>1. CASE t = <<1, x, y>>
    BY <1>2, <1>3, <1>4, <2>1
  <2>2. CASE t = <<2, x, b>>
    BY <1>2, <1>3, <1>4, <2>2
  <2>3. CASE t = <<3, a, b>>
    BY <1>2, <1>3, <1>4, <2>3
  <2>. QED
    BY <2>1, <2>2, <2>3
<1>. QED
  BY <1>5, <1>6 DEF ProductsRight

-----------------------------------------------------------------------------
\* C's division

\* C's quotient and remainder of a number: they make it up, and the remainder is
\* smaller than the divisor and has the sign of the number.
CDivision(n, d) ==
  /\ CDiv(n, d) \in Int /\ CRem(n, d) \in Int
  /\ n = CDiv(n, d) * d + CRem(n, d)
  /\ IF n < 0 THEN CRem(n, d) <= 0 ELSE CRem(n, d) >= 0
  /\ IF d < 0 THEN CRem(n, d) \in d + 1 .. -d - 1 ELSE CRem(n, d) \in -d + 1 .. d - 1

\* So it is for every divisor but zero.
LEMMA CDivisionRight ==
  ASSUME NEW n \in Int, NEW d \in Int \ {0}
  PROVE  CDivision(n, d)
<1>. DEFINE m == IF n < 0 THEN -n ELSE n
            e == IF d < 0 THEN -d ELSE d
            q == m \div e
            o == m % e
<1>1. m \in Nat /\ e \in Nat \ {0}
  OBVIOUS
<1>2. q \in Int /\ o \in 0 .. e - 1 /\ m = q * e + o
  <2>. HIDE DEF m, e
  <2>. QED
    BY <1>1, DivMod
<1>3. CDiv(n, d) = IF (n < 0) = (d < 0) THEN q ELSE -q
  BY DEF CDiv
<1>. DEFINE c == CDiv(n, d)
<1>4. CRem(n, d) = n - c * d
  BY DEF CRem
<1>5. c \in Int
  BY <1>2, <1>3
<1>6. n - c * d = IF n < 0 THEN -o ELSE o
  <2>1. /\ n < 0 => m = -n
        /\ ~(n < 0) => m = n
        /\ d < 0 => e = -d
        /\ ~(d < 0) => e = d
        /\ (n < 0) = (d < 0) => c = q
        /\ (n < 0) # (d < 0) => c = -q
    BY <1>3
  <2>. HIDE DEF m, e, q, o, c
  <2>2. CASE n < 0 /\ d < 0
    BY <1>1, <1>2, <2>1, <2>2
  <2>3. CASE n < 0 /\ ~(d < 0)
    BY <1>1, <1>2, <2>1, <2>3
  <2>4. CASE ~(n < 0) /\ d < 0
    BY <1>1, <1>2, <2>1, <2>4
  <2>5. CASE ~(n < 0) /\ ~(d < 0)
    BY <1>1, <1>2, <2>1, <2>5
  <2>. QED
    BY <2>2, <2>3, <2>4, <2>5
<1>. DEFINE z == CRem(n, d)
<1>7. z = IF n < 0 THEN -o ELSE o
  BY <1>4, <1>6
<1>8. c * d \in Int
  BY <1>5, Times
<1>9. n = c * d + z
  <2>. DEFINE p == c * d
  <2>1. p \in Int /\ z = n - p
    BY <1>4, <1>8
  <2>. HIDE DEF p, z
  <2>. QED
    BY <2>1 DEF p
<1>10. o \in 0 .. e - 1 /\ e = (IF d < 0 THEN -d ELSE d) /\ o \in Int
  BY <1>1, <1>2
<1>. HIDE DEF o, z, c, e
<1>11. /\ z \in Int
       /\ IF n < 0 THEN z <= 0 ELSE z >= 0
       /\ IF d < 0 THEN z \in d + 1 .. -d - 1 ELSE z \in -d + 1 .. d - 1
  BY <1>7, <1>10
<1>. QED
  BY <1>5, <1>9, <1>11 DEF CDivision, c, z

\* Magnitudes: the quotient is no larger than the number, and as large only
\* when the divisor is 1 or -1.
LEMMA CDivSize ==
  ASSUME NEW S \in Nat, NEW n \in -S .. S - 1, NEW d \in -S .. S - 1, d # 0, ~(n = -S /\ d = -1)
  PROVE  CDiv(n, d) \in -S .. S - 1 /\ CRem(n, d) \in -S .. S - 1
<1>. DEFINE c == CDiv(n, d)
            z == CRem(n, d)
<1>1. /\ c \in Int /\ z \in Int /\ n = c * d + z
      /\ IF n < 0 THEN z <= 0 ELSE z >= 0
      /\ IF d < 0 THEN z \in d + 1 .. -d - 1 ELSE z \in -d + 1 .. d - 1
  BY CDivisionRight DEF CDivision
<1>. HIDE DEF c, z
<1>2. z \in -S .. S - 1
  BY <1>1
<1>. DEFINE m == IF c < 0 THEN -c ELSE c
            e == IF d < 0 THEN -d ELSE d
            p == c * d
<1>3. m \in Nat /\ e \in Nat /\ e > 0 /\ p \in Int
  BY <1>1, Times
<1>4. p = m * e \/ p = -(m * e)
  BY <1>1
<1>5. e = 1 \/ 1 * m + m <= e * m
  BY <1>3, TimesLess
<1>6. m * e = e * m /\ m * e \in Nat
  BY <1>3
<1>7. CASE e = 1
  <2>1. z = 0 /\ (d = 1 \/ d = -1)
    BY <1>1, <1>7
  <2>2. c = n \/ (c = -n /\ d = -1)
    BY <1>1, <2>1
  <2>3. n = -S => d # -1
    OBVIOUS
  <2>. QED
    BY <1>1, <1>2, <2>2, <2>3 DEF c, z
<1>8. CASE e # 1
  <2>. DEFINE f == m * e
  <2>1. f \in Nat /\ 2 * m <= f /\ (p = f \/ p = -f)
    BY <1>3, <1>4, <1>5, <1>6, <1>8
  <2>2. n = p + z /\ p \in -S .. S
    <3>. HIDE DEF m, e
    <3>1. n < 0 => p <= 0
      BY <1>1, <1>3
    <3>. QED
      BY <1>1, <1>2, <1>3
  <2>. HIDE DEF f, p, e
  <2>3. 2 * m <= S
    BY <1>3, <2>1, <2>2
  <2>. QED
    BY <1>1, <1>2, <2>3 DEF c, z
<1>. QED
  BY <1>7, <1>8

-----------------------------------------------------------------------------
\* Signed numbers, words and halves

\* The two widths
LEMMA Width ==
  ASSUME NEW w \in {HALF, XLEN}
  PROVE  /\ Pow2[w] \in Nat \ {0} /\ Pow2[w - 1] \in Nat \ {0} /\ Pow2[w] = 2 * Pow2[w - 1]
         /\ Pow2[w] <= Pow2[XLEN] /\ Pow2[w - 1] <= Pow2[XLEN - 1]
         /\ \E k \in Nat : Pow2[XLEN] = k * Pow2[w]
<1>1. Pow2[XLEN] = 1 * Pow2[XLEN]
  BY Widths
<1>2. CASE w = XLEN
  BY <1>1, <1>2, Widths
<1>3. CASE w = HALF
  <2>1. Pow2[HALF - 1] <= Pow2[XLEN - 1] /\ Pow2[HALF] <= Pow2[XLEN]
    BY Widths
  <2>2. \E k \in Nat : Pow2[XLEN] = k * Pow2[HALF]
    BY Widths
  <2>. QED
    BY <1>3, <2>1, <2>2, Widths
<1>. QED
  BY <1>2, <1>3

\* A number that fits, as a number of that width read back
LEMMA RoundTrip ==
  ASSUME NEW w \in {HALF, XLEN}, NEW x \in -Pow2[w - 1] .. Pow2[w - 1] - 1
  PROVE  SignedOf(x % Pow2[w], w) = x /\ x % Pow2[w] \in 0 .. Pow2[w] - 1
<1>. DEFINE P == Pow2[w]
            S == Pow2[w - 1]
<1>1. P \in Nat \ {0} /\ S \in Nat \ {0} /\ P = 2 * S /\ x \in -S .. S - 1
  BY Width
<1>2. SignedOf(x % P, w) = IF x % P >= S THEN (x % P) - P ELSE x % P
  BY DEF SignedOf
<1>. HIDE DEF P, S
<1>3. x % P = IF x < 0 THEN x + P ELSE x
  <2>1. CASE x < 0
    <3>1. x + P \in 0 .. P - 1 /\ x = (-1) * P + (x + P) /\ -1 \in Int
      BY <1>1, <2>1
    <3>. DEFINE y == x + P
    <3>2. y \in 0 .. P - 1
      BY <3>1
    <3>. HIDE DEF y
    <3>3. ((-1) * P + y) % P = y
      BY <1>1, <3>1, <3>2, Quotient
    <3>. QED
      BY <2>1, <3>1, <3>3 DEF y
  <2>2. CASE ~(x < 0)
    BY <1>1, <2>2, SmallMod, x \in 0 .. P - 1
  <2>. QED
    BY <2>1, <2>2
<1>4. x % P \in 0 .. P - 1
  BY <1>1, <1>3
<1>5. SignedOf(x % P, w) = x
  BY <1>1, <1>2, <1>3
<1>. QED
  BY <1>4, <1>5 DEF P

\* The number that width bits hold
LEMMA SignedRange ==
  ASSUME NEW w \in {HALF, XLEN}, NEW v \in 0 .. Pow2[w] - 1
  PROVE  /\ SignedOf(v, w) \in -Pow2[w - 1] .. Pow2[w - 1] - 1
         /\ SignedOf(v, w) = IF v >= Pow2[w - 1] THEN v - Pow2[w] ELSE v
         /\ SignedOf(v, w) = -1 <=> v = Pow2[w] - 1
         /\ SignedOf(v, w) = -Pow2[w - 1] <=> v = Pow2[w - 1]
         /\ SignedOf(v, w) = 0 <=> v = 0
<1>. DEFINE P == Pow2[w]
            S == Pow2[w - 1]
<1>1. P \in Nat \ {0} /\ S \in Nat \ {0} /\ P = 2 * S /\ v \in 0 .. P - 1
  BY Width
<1>2. SignedOf(v, w) = IF v >= S THEN v - P ELSE v
  BY DEF SignedOf
<1>. DEFINE x == SignedOf(v, w)
<1>. HIDE DEF P, S, x
<1>3. x = IF v >= S THEN v - P ELSE v
  BY <1>2 DEF x
<1>4. x \in -S .. S - 1 /\ (x = -1 <=> v = P - 1) /\ (x = -S <=> v = S) /\ (x = 0 <=> v = 0)
  BY <1>1, <1>3
<1>. QED
  BY <1>3, <1>4 DEF x, P, S

\* What is sign-extended is read back whole or in part.
LEMMA Extended ==
  ASSUME NEW w \in {HALF, XLEN}, NEW v \in 0 .. Pow2[w] - 1
  PROVE  /\ SignExtend(v, w) \in Word /\ Signed(SignExtend(v, w)) = SignedOf(v, w)
         /\ SignExtend(v, w) % Pow2[w] = v
<1>. DEFINE P == Pow2[w]
            S == Pow2[w - 1]
            B == Pow2[XLEN]
            x == SignedOf(v, w)
            y == x % B
<1>1. /\ P \in Nat \ {0} /\ S \in Nat \ {0} /\ P = 2 * S /\ v \in 0 .. P - 1
      /\ S <= Pow2[XLEN - 1] /\ B \in Nat \ {0} /\ Pow2[XLEN - 1] \in Nat
  BY Width, Widths
<1>2. x \in -S .. S - 1 /\ x = IF v >= S THEN v - P ELSE v
  BY SignedRange
<1>3. x \in -Pow2[XLEN - 1] .. Pow2[XLEN - 1] - 1
  BY <1>1, <1>2
<1>4. SignedOf(y, XLEN) = x /\ y \in 0 .. B - 1
  BY <1>3, RoundTrip
<1>5. y = SignExtend(v, w)
  BY DEF SignExtend, W
<1>6. y % P = v
  <2>1. PICK k \in Nat : B = k * P
    BY Width
  <2>. DEFINE c == x \div B
  <2>. HIDE DEF x, B, P, S
  <2>2. c \in Int /\ x = c * B + y /\ x \in Int /\ y \in Int
    BY <1>1, <1>2, <1>4, DivMod
  <2>. HIDE DEF c, y
  <2>. DEFINE f == IF v >= S THEN -1 ELSE 0
  <2>3. f \in Int /\ x = v + f * P
    BY <1>1, <1>2
  <2>. HIDE DEF f
  <2>4. y = v + (f - c * k) * P /\ f - c * k \in Int /\ v \in Int
    BY <1>1, <2>1, <2>2, <2>3
  <2>. DEFINE g == f - c * k
  <2>5. g \in Int /\ y = v + g * P
    BY <2>4
  <2>. HIDE DEF g
  <2>6. (v + g * P) % P = v % P
    BY <1>1, <2>4, <2>5, AddMultiple
  <2>. QED
    BY <1>1, <2>5, <2>6, SmallMod
<1>. QED
  BY <1>4, <1>5, <1>6 DEF Signed, Word

\* For instance, a half word
LEMMA ExtendedHalf ==
  ASSUME NEW x \in Int
  PROVE  /\ Lo(x) \in 0 .. Pow2[HALF] - 1
         /\ SignExtend(Lo(x), HALF) \in Word
         /\ Signed(SignExtend(Lo(x), HALF)) = SignedOf(Lo(x), HALF)
         /\ Lo(SignExtend(Lo(x), HALF)) = Lo(x)
<1>. DEFINE H == Pow2[HALF]
            v == x % H
<1>1. H \in Nat \ {0}
  BY Widths
<1>2. v \in 0 .. H - 1
  <2>. HIDE DEF H
  <2>. QED
    BY <1>1, DivMod
<1>. HIDE DEF v
<1>3. /\ SignExtend(v, HALF) \in Word /\ Signed(SignExtend(v, HALF)) = SignedOf(v, HALF)
      /\ SignExtend(v, HALF) % H = v
  BY <1>2, Extended
<1>. QED
  BY <1>2, <1>3 DEF Lo, v

-----------------------------------------------------------------------------
\* The divisions

\* What DivisionsRight asks of a quotient and a remainder
Divides(n, d, q, r) ==
  CASE d = 0 -> q = -1 /\ r = n
    [] OTHER -> /\ n = q * d + r
                /\ (IF r < 0 THEN -r ELSE r) < (IF d < 0 THEN -d ELSE d)
                /\ r = 0 \/ (r < 0) = (n < 0)

\* C's quotient and remainder are such a pair.
LEMMA CDivides ==
  ASSUME NEW n \in Int, NEW d \in Int \ {0}
  PROVE  Divides(n, d, CDiv(n, d), CRem(n, d))
<1>. DEFINE q == CDiv(n, d)
            r == CRem(n, d)
<1>1. /\ q \in Int /\ r \in Int /\ n = q * d + r
      /\ IF n < 0 THEN r <= 0 ELSE r >= 0
      /\ IF d < 0 THEN r \in d + 1 .. -d - 1 ELSE r \in -d + 1 .. d - 1
  BY CDivisionRight DEF CDivision
<1>. HIDE DEF q, r
<1>2. /\ (IF r < 0 THEN -r ELSE r) < (IF d < 0 THEN -d ELSE d)
      /\ r = 0 \/ (r < 0) = (n < 0)
  BY <1>1
<1>. QED
  BY <1>1, <1>2 DEF Divides, q, r

\* The quotient and the remainder of unsigned numbers are one too, and no larger
\* than the number.
LEMMA UnsignedDivides ==
  ASSUME NEW n \in Nat, NEW d \in Nat \ {0}
  PROVE  Divides(n, d, n \div d, n % d) /\ n \div d \in 0 .. n /\ n % d \in 0 .. n
<1>. DEFINE q == n \div d
            r == n % d
<1>1. q \in Int /\ r \in 0 .. d - 1 /\ n = q * d + r
  BY DivMod
<1>2. q \in 0 .. (n + 1) - 1
  <2>1. n < (n + 1) * d
    <3>1. n * d \in Nat /\ (n + 1) * d = n * d + d
      BY NatTimes
    <3>2. n * 1 <= n * d
      <4>1. d = 1 \/ 1 * n + n <= d * n
        BY TimesLess
      <4>. QED
        BY <4>1
    <3>. QED
      BY <3>1, <3>2
  <2>. QED
    BY <2>1, QuotientBound
<1>. HIDE DEF q, r
<1>3. Divides(n, d, q, r)
  BY <1>1 DEF Divides
<1>4. q * d \in Nat
  BY <1>1, <1>2, NatTimes
<1>5. r \in 0 .. n
  <2>. DEFINE p == q * d
  <2>1. p \in Nat /\ n = p + r
    BY <1>1, <1>4
  <2>. HIDE DEF p
  <2>. QED
    BY <1>1, <2>1
<1>. QED
  BY <1>2, <1>3, <1>5 DEF q, r

\* DIV and REM
LEMMA SignedDivision ==
  ASSUME NEW a \in Word, NEW b \in Word
  PROVE  IF Signed(a) = -Pow2[XLEN - 1] /\ Signed(b) = -1
         THEN DIV(a, b) = a /\ REM(a, b) = 0
         ELSE Divides(Signed(a), Signed(b), Signed(DIV(a, b)), Signed(REM(a, b)))
<1>. DEFINE S == Pow2[XLEN - 1]
            n == Signed(a)
            d == Signed(b)
            ma == Pow2[XLEN] - 1
<1>1. /\ n \in -S .. S - 1 /\ (n = -1 <=> a = ma) /\ (n = -S <=> a = S) /\ (n = 0 <=> a = 0)
      /\ d \in -S .. S - 1 /\ (d = -1 <=> b = ma) /\ (d = -S <=> b = S) /\ (d = 0 <=> b = 0)
  BY SignedRange DEF Word, Signed
<1>2. S \in Nat \ {0} /\ ma \in 0 .. Pow2[XLEN] - 1
  BY Widths
<1>3. CASE n = -S /\ d = -1
  <2>1. a = S /\ b = ma /\ b # 0
    BY <1>1, <1>3
  <2>. QED
    BY <1>3, <2>1 DEF DIV, REM, CPU_SIGN_BIT, CPU_UINT_MAX
<1>4. CASE d = 0
  <2>1. b = 0 /\ d # -1
    BY <1>1, <1>4
  <2>2. DIV(a, b) = ma /\ REM(a, b) = a
    BY <2>1 DEF DIV, REM, CPU_UINT_MAX
  <2>3. Signed(ma) = -1
    BY <1>2, SignedRange DEF Signed
  <2>4. Divides(n, d, Signed(DIV(a, b)), Signed(REM(a, b)))
    BY <1>4, <2>2, <2>3 DEF Divides
  <2>. QED
    BY <2>1, <2>4
<1>5. CASE d # 0 /\ ~(n = -S /\ d = -1)
  <2>1. ~(a = S /\ b = ma) /\ b # 0
    BY <1>1, <1>5
  <2>2. DIV(a, b) = W(CDiv(n, d)) /\ REM(a, b) = W(CRem(n, d))
    BY <2>1 DEF DIV, REM, CPU_SIGN_BIT, CPU_UINT_MAX
  <2>. DEFINE q == CDiv(n, d)
              r == CRem(n, d)
  <2>3. q \in -S .. S - 1 /\ r \in -S .. S - 1
    <3>. HIDE DEF S, n, d
    <3>. QED
      BY <1>1, <1>2, <1>5, CDivSize
  <2>4. Divides(n, d, q, r)
    <3>1. n \in Int /\ d \in Int \ {0}
      BY <1>1, <1>2, <1>5
    <3>. HIDE DEF n, d
    <3>. QED
      BY <3>1, CDivides
  <2>. HIDE DEF q, r
  <2>5. Signed(W(q)) = q /\ Signed(W(r)) = r
    BY <2>3, RoundTrip DEF W, Signed
  <2>6. DIV(a, b) = W(q) /\ REM(a, b) = W(r)
    BY <2>2 DEF q, r
  <2>. QED
    BY <1>5, <2>4, <2>5, <2>6
<1>. QED
  BY <1>3, <1>4, <1>5

\* DIVW and REMW
LEMMA SignedHalfDivision ==
  ASSUME NEW ra \in Word, NEW rb \in Word
  PROVE  LET a32 == SignedOf(Lo(ra), HALF)
             b32 == SignedOf(Lo(rb), HALF)
         IN IF a32 = -Pow2[HALF - 1] /\ b32 = -1
            THEN OP32(4, 1, ra, rb) = {W(a32)} /\ OP32(6, 1, ra, rb) = {0}
            ELSE \E q, r : /\ OP32(4, 1, ra, rb) = {q} /\ OP32(6, 1, ra, rb) = {r}
                           /\ Divides(a32, b32, Signed(q), Signed(r))
<1>. DEFINE S == Pow2[HALF - 1]
            a == Lo(ra)
            b == Lo(rb)
            n == SignedOf(a, HALF)
            d == SignedOf(b, HALF)
            H == Pow2[HALF]
<1>1. a \in 0 .. H - 1 /\ b \in 0 .. H - 1 /\ a \in Int /\ S \in Nat \ {0} /\ H \in Nat
  BY Halves, Widths
<1>2. /\ n \in -S .. S - 1 /\ (n = -1 <=> a = H - 1) /\ (n = -S <=> a = S) /\ (n = 0 <=> a = 0)
      /\ d \in -S .. S - 1 /\ (d = -1 <=> b = H - 1) /\ (d = -S <=> b = S) /\ (d = 0 <=> b = 0)
  BY <1>1, SignedRange
<1>3. /\ OP32(4, 1, ra, rb) = IF b = 0 THEN {CPU_UINT_MAX}
                              ELSE IF a = S /\ b = H - 1 THEN {W(-S)} ELSE {SignExtend(Lo(CDiv(n, d)), HALF)}
      /\ OP32(6, 1, ra, rb) = IF b = 0 THEN {SignExtend(Lo(a), HALF)}
                              ELSE IF a = S /\ b = H - 1 THEN {0} ELSE {SignExtend(Lo(CRem(n, d)), HALF)}
  BY OP32Selects
<1>. HIDE DEF a, b, n, d, S, H
<1>4. CASE n = -S /\ d = -1
  BY <1>2, <1>3, <1>4 DEF a, b, n, d, S, H
<1>5. CASE d = 0
  <2>1. b = 0 /\ d # -1
    BY <1>2, <1>5
  <2>. DEFINE q == CPU_UINT_MAX
              r == SignExtend(Lo(a), HALF)
  <2>2. Signed(q) = -1
    BY Widths, SignedRange DEF Signed, CPU_UINT_MAX
  <2>3. Lo(a) = a
    BY <1>1, Widths, SmallMod DEF Lo, H
  <2>4. Signed(r) = n
    BY <1>1, <2>3, ExtendedHalf DEF n
  <2>5. Divides(n, d, Signed(q), Signed(r))
    BY <1>5, <2>2, <2>4 DEF Divides
  <2>6. OP32(4, 1, ra, rb) = {q} /\ OP32(6, 1, ra, rb) = {r}
    BY <1>3, <2>1
  <2>. HIDE DEF q, r
  <2>. QED
    BY <2>1, <2>5, <2>6 DEF a, b, n, d
<1>6. CASE d # 0 /\ ~(n = -S /\ d = -1)
  <2>1. ~(a = S /\ b = H - 1) /\ b # 0
    BY <1>2, <1>6
  <2>. DEFINE u == CDiv(n, d)
              v == CRem(n, d)
              q == SignExtend(Lo(u), HALF)
              r == SignExtend(Lo(v), HALF)
  <2>2. u \in -S .. S - 1 /\ v \in -S .. S - 1
    BY <1>1, <1>2, <1>6, CDivSize
  <2>3. Divides(n, d, u, v)
    <3>1. n \in Int /\ d \in Int \ {0}
      BY <1>1, <1>2, <1>6
    <3>. QED
      BY <3>1, CDivides
  <2>4. OP32(4, 1, ra, rb) = {q} /\ OP32(6, 1, ra, rb) = {r}
    BY <1>3, <2>1
  <2>. HIDE DEF u, v
  <2>5. u \in Int /\ v \in Int
    BY <1>1, <2>2
  <2>6. SignedOf(Lo(u), HALF) = u /\ SignedOf(Lo(v), HALF) = v
    BY <2>2, RoundTrip DEF Lo, S
  <2>7. Signed(q) = u /\ Signed(r) = v
    BY <2>5, <2>6, ExtendedHalf
  <2>8. Divides(n, d, Signed(q), Signed(r))
    BY <2>3, <2>7
  <2>. HIDE DEF q, r
  <2>. QED
    BY <1>6, <2>4, <2>8 DEF a, b, n, d, S
<1>. QED
  BY <1>4, <1>5, <1>6

\* DIVUW and REMUW
LEMMA UnsignedHalfDivision ==
  ASSUME NEW ra \in Word, NEW rb \in Word
  PROVE  IF Lo(rb) = 0
         THEN OP32(5, 1, ra, rb) = {CPU_UINT_MAX} /\ OP32(7, 1, ra, rb) = {W(SignedOf(Lo(ra), HALF))}
         ELSE \E q, r : /\ OP32(5, 1, ra, rb) = {q} /\ OP32(7, 1, ra, rb) = {r}
                        /\ Divides(Lo(ra), Lo(rb), Lo(q), Lo(r))
<1>. DEFINE a == Lo(ra)
            b == Lo(rb)
            H == Pow2[HALF]
<1>1. a \in 0 .. H - 1 /\ b \in 0 .. H - 1 /\ H \in Nat \ {0}
  BY Halves, Widths
<1>2. /\ OP32(5, 1, ra, rb) = IF b = 0 THEN {CPU_UINT_MAX} ELSE {SignExtend(Lo(a \div b), HALF)}
      /\ OP32(7, 1, ra, rb) = IF b = 0 THEN {SignExtend(Lo(a), HALF)} ELSE {SignExtend(Lo(a % b), HALF)}
  BY OP32Selects
<1>3. ASSUME NEW x \in 0 .. H - 1 PROVE Lo(x) = x /\ x \in Int
  <2>1. x % H = x
    <3>. HIDE DEF H
    <3>. QED
      BY <1>1, SmallMod
  <2>. QED
    BY <1>1, <2>1 DEF Lo
<1>. HIDE DEF a, b, H
<1>4. CASE b = 0
  <2>1. Lo(a) = a
    BY <1>1, <1>3
  <2>. QED
    BY <1>2, <1>4, <2>1 DEF SignExtend, a, b
<1>5. CASE b # 0
  <2>. DEFINE u == a \div b
              v == a % b
              q == SignExtend(Lo(u), HALF)
              r == SignExtend(Lo(v), HALF)
  <2>1. Divides(a, b, u, v) /\ u \in 0 .. a /\ v \in 0 .. a
    <3>1. a \in Nat /\ b \in Nat \ {0}
      BY <1>1, <1>5
    <3>. QED
      BY <3>1, UnsignedDivides
  <2>2. OP32(5, 1, ra, rb) = {q} /\ OP32(7, 1, ra, rb) = {r}
    BY <1>2, <1>5
  <2>. HIDE DEF u, v
  <2>3. Lo(u) = u /\ Lo(v) = v /\ u \in Int /\ v \in Int
    BY <1>1, <1>3, <2>1
  <2>4. Lo(q) = u /\ Lo(r) = v
    BY <2>3, ExtendedHalf
  <2>5. Divides(a, b, Lo(q), Lo(r))
    BY <2>1, <2>4
  <2>. HIDE DEF q, r
  <2>. QED
    BY <1>5, <2>2, <2>5 DEF a, b
<1>. QED
  BY <1>4, <1>5

\* The divisions of any two words are right.
LEMMA DivisionsOfWords ==
  ASSUME rs1Val \in Word, rs2Val \in Word PROVE DivisionsRight
<1>. DEFINE a == rs1Val
            b == rs2Val
            D(f3) == OP(f3, 1, a, b)
            D32(f3) == OP32(f3, 1, a, b)
            a32 == SignedOf(Lo(a), HALF)
            b32 == SignedOf(Lo(b), HALF)
<1>1. D(4) = {DIV(a, b)} /\ D(5) = {DIVU(a, b)} /\ D(6) = {REM(a, b)} /\ D(7) = {REMU(a, b)}
  BY OPSelects
<1>2. IF Signed(a) = -Pow2[XLEN - 1] /\ Signed(b) = -1
      THEN D(4) = {a} /\ D(6) = {0}
      ELSE \A q \in D(4), r \in D(6) : Divides(Signed(a), Signed(b), Signed(q), Signed(r))
  <2>1. \A q \in D(4), r \in D(6) : q = DIV(a, b) /\ r = REM(a, b)
    BY <1>1
  <2>. HIDE DEF D
  <2>. QED
    BY <1>1, <2>1, SignedDivision
<1>3. IF b = 0 THEN D(5) = {Pow2[XLEN] - 1} /\ D(7) = {a}
      ELSE \A q \in D(5), r \in D(7) : Divides(a, b, q, r)
  <2>1. CASE b = 0
    BY <1>1, <2>1 DEF DIVU, REMU, CPU_UINT_MAX
  <2>2. CASE b # 0
    <3>1. a \in Nat /\ b \in Nat \ {0}
      BY <2>2, Widths DEF Word
    <3>2. Divides(a, b, a \div b, a % b)
      BY <3>1, UnsignedDivides
    <3>3. D(5) = {a \div b} /\ D(7) = {a % b}
      BY <1>1, <2>2 DEF DIVU, REMU
    <3>4. \A q \in D(5), r \in D(7) : q = a \div b /\ r = a % b
      BY <3>3
    <3>. HIDE DEF D
    <3>. QED
      BY <2>2, <3>2, <3>4
  <2>. QED
    BY <2>1, <2>2
<1>4. IF a32 = -Pow2[HALF - 1] /\ b32 = -1
      THEN D32(4) = {W(a32)} /\ D32(6) = {0}
      ELSE \A q \in D32(4), r \in D32(6) : Divides(a32, b32, Signed(q), Signed(r))
  <2>1. CASE a32 = -Pow2[HALF - 1] /\ b32 = -1
    BY <2>1, SignedHalfDivision
  <2>2. CASE ~(a32 = -Pow2[HALF - 1] /\ b32 = -1)
    <3>1. PICK q, r : D32(4) = {q} /\ D32(6) = {r} /\ Divides(a32, b32, Signed(q), Signed(r))
      BY <2>2, SignedHalfDivision
    <3>. HIDE DEF D32, a32, b32
    <3>2. \A q1 \in D32(4), r1 \in D32(6) : q1 = q /\ r1 = r
      BY <3>1
    <3>. QED
      BY <2>2, <3>1, <3>2
  <2>. QED
    BY <2>1, <2>2
<1>5. IF Lo(b) = 0 THEN D32(5) = {Pow2[XLEN] - 1} /\ D32(7) = {W(a32)}
      ELSE \A q \in D32(5), r \in D32(7) : Divides(Lo(a), Lo(b), Lo(q), Lo(r))
  <2>1. CASE Lo(b) = 0
    BY <2>1, UnsignedHalfDivision DEF CPU_UINT_MAX
  <2>2. CASE Lo(b) # 0
    <3>1. PICK q, r : D32(5) = {q} /\ D32(7) = {r} /\ Divides(Lo(a), Lo(b), Lo(q), Lo(r))
      BY <2>2, UnsignedHalfDivision
    <3>. HIDE DEF D32
    <3>2. \A q1 \in D32(5), r1 \in D32(7) : q1 = q /\ r1 = r
      BY <3>1
    <3>. QED
      BY <2>2, <3>1, <3>2
  <2>. QED
    BY <2>1, <2>2
<1>6. Lo(a) = a % Pow2[HALF] /\ Lo(b) = b % Pow2[HALF]
  BY DEF Lo
<1>. QED
  BY <1>2, <1>3, <1>4, <1>5, <1>6 DEF DivisionsRight, Divides

-----------------------------------------------------------------------------
\* The bits of a number

\* Number puts a number together bit by bit.
LEMMA NumberDef ==
  ASSUME NEW S
  PROVE  \E f : /\ Number(S) = f[XLEN] /\ f[0] = 0
                /\ \A k \in 1 .. XLEN : f[k] = 2 * f[k - 1] + Bool(XLEN - k \in S)
<1>. DEFINE Is(f) == f = [k \in 0 .. XLEN |-> IF k = 0 THEN 0 ELSE 2 * f[k - 1] + Bool(XLEN - k \in S)]
            top == CHOOSE f : Is(f)
            h == [k \in 1 .. XLEN |-> Bool(XLEN - k \in S)]
<1>1. XLEN \in Nat
  BY Lengths
<1>2. h \in [1 .. XLEN -> Nat] /\ 0 \in Nat /\ \A k \in 1 .. XLEN : h[k] = Bool(XLEN - k \in S)
  BY DEF Bool
<1>. HIDE DEF h
<1>3. PICK f : Doubles(f, XLEN, 0, h)
  BY <1>1, <1>2, Doubling
<1>4. f \in [0 .. XLEN -> Nat] /\ f[0] = 0 /\ \A k \in 1 .. XLEN : f[k] = 2 * f[k - 1] + Bool(XLEN - k \in S)
  BY <1>2, <1>3 DEF Doubles
<1>5. Is(f)
  BY <1>1, <1>4
<1>6. Is(top)
  <2>. HIDE DEF Is
  <2>. QED
    BY <1>5
<1>7. Number(S) = top[XLEN]
  BY DEF Number, top, Is
<1>8. top[0] = 0 /\ \A k \in 1 .. XLEN : top[k] = 2 * top[k - 1] + Bool(XLEN - k \in S)
  <2>. HIDE DEF top
  <2>. QED
    BY <1>1, <1>6
<1>. HIDE DEF top
<1>. QED
  BY <1>7, <1>8

\* Dividing twice
LEMMA DivDiv ==
  ASSUME NEW a \in Int, NEW d \in Nat \ {0}, NEW e \in Nat \ {0}
  PROVE  (a \div d) \div e = a \div (d * e)
<1>. DEFINE q == a \div d
            o == a % d
            u == q \div e
            v == q % e
<1>1. q \in Int /\ o \in 0 .. d - 1 /\ a = q * d + o
  BY DivMod
<1>. HIDE DEF q, o
<1>2. u \in Int /\ v \in 0 .. e - 1 /\ q = u * e + v
  BY <1>1, DivMod
<1>. HIDE DEF u, v
<1>3. a = u * (d * e) + (v * d + o)
  BY <1>1, <1>2
<1>4. v * d + o \in 0 .. d * e - 1 /\ d * e \in Nat \ {0}
  <2>1. v * d + d <= e * d /\ v * d \in Nat /\ d * e \in Nat /\ e * d = d * e
    BY <1>2, TimesLess, NatTimes
  <2>2. d * e # 0
    OBVIOUS
  <2>. DEFINE w == v * d
              m == d * e
  <2>. HIDE DEF w, m
  <2>3. w + o \in 0 .. m - 1
    BY <1>1, <2>1 DEF w, m
  <2>. QED
    BY <2>1, <2>2, <2>3 DEF w, m
<1>. DEFINE y == v * d + o
            m == d * e
<1>5. y \in 0 .. m - 1 /\ m \in Nat \ {0} /\ a = u * m + y
  BY <1>3, <1>4
<1>. HIDE DEF y, m
<1>6. a \div m = u
  BY <1>2, <1>5, Quotient
<1>. QED
  BY <1>6 DEF u, q, m

\* The power of the exponents of a word
LEMMA WordPower ==
  ASSUME NEW i \in 0 .. XLEN
  PROVE  Pow2[i] \in Nat \ {0} /\ (i < XLEN => Pow2[i + 1] = 2 * Pow2[i])
<1>1. XLEN \in Nat /\ i \in 0 .. 2 * XLEN /\ (i < XLEN => i + 1 \in 1 .. 2 * XLEN /\ (i + 1) - 1 = i)
  BY Lengths
<1>. QED
  BY <1>1, Power

\* A word has the bits it has.
LEMMA NumberOfBits == ASSUME NEW a \in Word PROVE Number(Bits(a)) = a
<1>. DEFINE S == Bits(a)
<1>0. XLEN \in Nat \ {0} /\ a \in Nat /\ a \in 0 .. Pow2[XLEN] - 1 /\ Pow2[XLEN] \in Nat \ {0}
  BY Lengths, Widths DEF Word
<1>1. PICK f : /\ Number(S) = f[XLEN] /\ f[0] = 0
               /\ \A k \in 1 .. XLEN : f[k] = 2 * f[k - 1] + Bool(XLEN - k \in S)
  BY NumberDef
<1>. DEFINE T == {k \in 0 .. XLEN : f[k] = a \div Pow2[XLEN - k]}
<1>2. 0 \in T
  <2>1. a \div Pow2[XLEN] = 0
    BY <1>0, SmallMod
  <2>. QED
    BY <1>0, <1>1, <2>1, XLEN - 0 = XLEN
<1>3. ASSUME NEW k \in 1 .. XLEN, k - 1 \in T PROVE k \in T
  <2>. DEFINE i == XLEN - k
              d == Pow2[i]
              q == a \div d
  <2>1. i \in 0 .. XLEN /\ i \in 0 .. XLEN - 1 /\ i < XLEN /\ XLEN - (k - 1) = i + 1
    BY <1>0
  <2>2. d \in Nat \ {0} /\ Pow2[i + 1] = 2 * d
    <3>. HIDE DEF i
    <3>. QED
      BY <2>1, WordPower
  <2>3. f[k - 1] = a \div (2 * d)
    BY <1>3, <2>1, <2>2
  <2>4. f[k] = 2 * f[k - 1] + Bool(i \in S)
    BY <1>1
  <2>5. Bool(i \in S) = IF q % 2 = 1 THEN 1 ELSE 0
    BY <2>1 DEF Bits, Bool
  <2>. HIDE DEF d, i
  <2>6. a \div (2 * d) = q \div 2
    <3>1. a \in Int /\ 2 \in Nat \ {0} /\ d * 2 = 2 * d
      BY <1>0, <2>2
    <3>2. (a \div d) \div 2 = a \div (d * 2)
      BY <2>2, <3>1, DivDiv, Zenon
    <3>. QED
      BY <3>1, <3>2
  <2>7. q \in Int
    BY <1>0, <2>2, DivMod
  <2>. HIDE DEF q
  <2>8. q = 2 * (q \div 2) + (IF q % 2 = 1 THEN 1 ELSE 0)
    BY <2>7
  <2>9. f[k] = q
    BY <2>3, <2>4, <2>5, <2>6, <2>8
  <2>. QED
    BY <2>9 DEF q, d, i
<1>. HIDE DEF T
<1>4. \A k \in 0 .. XLEN : k \in T
  BY <1>0, <1>2, <1>3, UpTo
<1>5. f[XLEN] = a \div Pow2[XLEN - XLEN]
  BY <1>0, <1>4 DEF T
<1>6. a \div Pow2[XLEN - XLEN] = a
  BY <1>0, Power, XLEN - XLEN = 0
<1>. QED
  BY <1>1, <1>5, <1>6

\* The bits of a number whose low p bits are those of r and whose others are u
Joined(u, p, r) ==
  \A i \in 0 .. XLEN - 1 :
    /\ i < p => ((u * Pow2[p] + r) \div Pow2[i]) % 2 = (r \div Pow2[i]) % 2
    /\ i >= p => (u * Pow2[p] + r) \div Pow2[i] = u \div Pow2[i - p]

\* So it is, if r is below the p-th power.
LEMMA JoinedRight ==
  ASSUME NEW u \in Nat, NEW p \in 0 .. XLEN, NEW r \in 0 .. Pow2[p] - 1
  PROVE  Joined(u, p, r)
<1>. SUFFICES ASSUME NEW i \in 0 .. XLEN - 1
              PROVE  /\ i < p => ((u * Pow2[p] + r) \div Pow2[i]) % 2 = (r \div Pow2[i]) % 2
                     /\ i >= p => (u * Pow2[p] + r) \div Pow2[i] = u \div Pow2[i - p]
  BY DEF Joined
<1>. DEFINE d == Pow2[i]
            P == Pow2[p]
<1>0. XLEN \in Nat /\ i \in 0 .. XLEN /\ p \in Nat /\ i \in Nat
  BY Lengths
<1>1. d \in Nat \ {0} /\ P \in Nat \ {0} /\ r \in Nat
  BY <1>0, WordPower
<1>2. CASE i < p
  <2>. DEFINE j == p - (i + 1)
              e == Pow2[j]
  <2>1. j \in Nat /\ j \in 0 .. XLEN /\ p = (i + 1) + j /\ i + 1 \in Nat /\ (i + 1) + j <= 2 * XLEN /\ i < XLEN
    BY <1>0, <1>2
  <2>2. P = Pow2[i + 1] * e
    <3>. HIDE DEF j
    <3>. QED
      BY <2>1, PowerSum
  <2>3. Pow2[i + 1] = 2 * d /\ e \in Nat
    <3>. HIDE DEF j
    <3>. QED
      BY <1>0, <2>1, WordPower
  <2>. HIDE DEF d, P, e
  <2>. DEFINE k == u * e
  <2>4. u * P + r = r + (2 * k) * d /\ k \in Nat
    BY <1>1, <2>2, <2>3
  <2>. HIDE DEF k
  <2>. DEFINE k2 == 2 * k
  <2>5. k2 \in Int /\ u * P + r = r + k2 * d
    BY <2>4
  <2>. HIDE DEF k2
  <2>6. (r + k2 * d) \div d = (r \div d) + k2
    BY <1>1, <2>5, AddMultiple
  <2>7. r \div d \in Int
    BY <1>1, DivMod
  <2>. DEFINE q == r \div d
  <2>. HIDE DEF q
  <2>8. (q + k * 2) % 2 = q % 2
    BY <2>4, <2>7, AddMultiple DEF q
  <2>9. ((u * P + r) \div d) % 2 = q % 2
    BY <2>4, <2>5, <2>6, <2>8 DEF q, k2
  <2>. QED
    BY <1>2, <2>9 DEF q, d, P
<1>3. CASE i >= p
  <2>. DEFINE j == i - p
              e == Pow2[j]
  <2>1. j \in Nat /\ j \in 0 .. XLEN /\ i = p + j /\ p + j <= 2 * XLEN
    BY <1>0, <1>3
  <2>2. d = P * e /\ e \in Nat \ {0}
    <3>. HIDE DEF j
    <3>. QED
      BY <1>0, <2>1, PowerSum, WordPower
  <2>. DEFINE n == u * P + r
  <2>. HIDE DEF d, P, e
  <2>3. n \in Int
    BY <1>1
  <2>4. n \div P = u
    BY <1>1, Quotient, r \in 0 .. P - 1 DEF P
  <2>. HIDE DEF n
  <2>5. (n \div P) \div e = n \div (P * e)
    BY <1>1, <2>2, <2>3, DivDiv, Zenon
  <2>6. n \div d = u \div e
    BY <2>2, <2>4, <2>5
  <2>. QED
    BY <1>3, <2>6 DEF n, d, P, e
<1>. QED
  BY <1>0, <1>2, <1>3

-----------------------------------------------------------------------------
\* The bits of the masks

\* Words without bits, with one, with the low ones, with those from one to another
LEMMA BitsOfZero == Bits(0) = {}
<1>. SUFFICES ASSUME NEW i \in 0 .. XLEN - 1 PROVE 0 \div Pow2[i] = 0
  BY DEF Bits
<1>1. i \in 0 .. XLEN
  BY Lengths
<1>2. Pow2[i] \in Nat \ {0}
  BY <1>1, WordPower
<1>. QED
  BY <1>2, SmallMod

\* The low bits
LEMMA BitsOfOnes ==
  ASSUME NEW j \in 0 .. XLEN
  PROVE  Bits(Pow2[j] - 1) = 0 .. j - 1 /\ Pow2[j] - 1 \in Nat
<1>0. XLEN \in Nat /\ j \in Nat /\ Pow2[j] \in Nat \ {0}
  BY Lengths, WordPower
<1>1. ASSUME NEW i \in 0 .. XLEN - 1 PROVE ((Pow2[j] - 1) \div Pow2[i]) % 2 = 1 <=> i < j
  <2>. DEFINE d == Pow2[i]
  <2>1. d \in Nat \ {0} /\ i \in Nat
    BY <1>0, WordPower
  <2>2. CASE i < j
    <3>. DEFINE k == j - (i + 1)
                e == Pow2[k]
    <3>1. /\ k \in Nat /\ k \in 0 .. XLEN /\ i + 1 \in Nat /\ j = (i + 1) + k
          /\ (i + 1) + k <= 2 * XLEN /\ i \in 0 .. XLEN /\ i < XLEN
      BY <1>0, <2>2
    <3>2. Pow2[j] = Pow2[i + 1] * e /\ Pow2[i + 1] = 2 * d /\ e \in Nat \ {0}
      <4>. HIDE DEF k
      <4>. QED
        BY <3>1, PowerSum, WordPower
    <3>. HIDE DEF e, d
    <3>. DEFINE u == 2 * e - 1
                o == d - 1
    <3>3. Pow2[j] - 1 = u * d + o /\ u \in Int /\ o \in 0 .. d - 1 /\ u % 2 = 1
      BY <2>1, <3>2
    <3>. HIDE DEF u, o
    <3>4. (u * d + o) \div d = u
      BY <2>1, <3>3, Quotient
    <3>. QED
      BY <2>2, <3>3, <3>4 DEF d
  <2>3. CASE ~(i < j)
    <3>. DEFINE k == i - j
    <3>1. k \in Nat /\ k \in 0 .. XLEN /\ i = j + k /\ j + k <= 2 * XLEN
      BY <1>0, <2>1, <2>3
    <3>2. d = Pow2[j] * Pow2[k] /\ Pow2[k] \in Nat \ {0}
      <4>. HIDE DEF k
      <4>. QED
        BY <1>0, <3>1, PowerSum, WordPower
    <3>. DEFINE P == Pow2[j]
                e == Pow2[k]
    <3>. HIDE DEF d, P, e
    <3>3. P <= d
      <4>1. P \in Nat \ {0} /\ e \in Nat \ {0} /\ d = P * e
        BY <1>0, <3>2 DEF P, e
      <4>2. e = 1 \/ 1 * P + P <= e * P
        BY <4>1, TimesLess
      <4>. QED
        BY <4>1, <4>2
    <3>4. P - 1 \in 0 .. d - 1
      BY <1>0, <2>1, <3>3 DEF P
    <3>. DEFINE n == P - 1
    <3>. HIDE DEF n
    <3>5. n \div d = 0
      BY <2>1, <3>4, SmallMod DEF n
    <3>. QED
      BY <2>3, <3>5 DEF n, P, d
  <2>. QED
    BY <2>2, <2>3
<1>. QED
  BY <1>0, <1>1 DEF Bits

\* The bits from one to another
LEMMA BitsOfMask ==
  ASSUME NEW w \in 0 .. XLEN, NEW p \in 0 .. w
  PROVE  Bits(Pow2[w] - Pow2[p]) = p .. w - 1 /\ Pow2[w] - Pow2[p] \in 0 .. Pow2[w] - 1
<1>. DEFINE k == w - p
            P == Pow2[p]
            e == Pow2[k]
            u == e - 1
<1>0. /\ XLEN \in Nat /\ w \in Nat /\ p \in Nat /\ p \in 0 .. XLEN /\ k \in Nat /\ k \in 0 .. XLEN
      /\ w = p + k /\ p + k <= 2 * XLEN
  BY Lengths
<1>1. Pow2[w] = P * e /\ P \in Nat \ {0} /\ e \in Nat \ {0} /\ u \in Nat /\ Bits(u) = 0 .. k - 1
  <2>. HIDE DEF k
  <2>. QED
    BY <1>0, PowerSum, WordPower, BitsOfOnes
<1>2. Pow2[w] - P = u * P + 0 /\ u * P \in Nat
  <2>. HIDE DEF P, e
  <2>. QED
    BY <1>1, NatTimes
<1>. HIDE DEF u
<1>3. 0 \in 0 .. P - 1
  BY <1>1
<1>4. Joined(u, p, 0)
  BY <1>0, <1>1, <1>3, JoinedRight
<1>5. ASSUME NEW i \in 0 .. XLEN - 1 PROVE ((u * P + 0) \div Pow2[i]) % 2 = 1 <=> i \in p .. w - 1
  <2>1. Pow2[i] \in Nat \ {0} /\ i \in Nat
    BY <1>0, WordPower
  <2>2. CASE i < p
    <3>1. ((u * P + 0) \div Pow2[i]) % 2 = (0 \div Pow2[i]) % 2
      BY <1>4, <2>2 DEF Joined
    <3>2. 0 \div Pow2[i] = 0
      BY <2>1, SmallMod
    <3>. QED
      BY <1>0, <2>2, <3>1, <3>2
  <2>3. CASE ~(i < p)
    <3>1. (u * P + 0) \div Pow2[i] = u \div Pow2[i - p]
      BY <1>0, <1>4, <2>1, <2>3 DEF Joined
    <3>2. i - p \in 0 .. XLEN - 1
      BY <1>0, <2>1, <2>3
    <3>3. (u \div Pow2[i - p]) % 2 = 1 <=> i - p \in 0 .. k - 1
      BY <1>1, <3>2 DEF Bits
    <3>. QED
      BY <1>0, <2>1, <2>3, <3>1, <3>3
  <2>. QED
    BY <2>2, <2>3
<1>6. Bits(u * P + 0) = p .. w - 1
  BY <1>0, <1>5 DEF Bits
<1>7. Pow2[w] \in Nat /\ Pow2[w] - P \in 0 .. Pow2[w] - 1
  BY <1>0, <1>1, <1>2, WordPower, SMTT(30)
<1>. QED
  BY <1>2, <1>6, <1>7

\* The low bits of a number are those of its remainder, which has no others.
LEMMA BitsOfLow ==
  ASSUME NEW a \in Nat, NEW j \in 0 .. XLEN
  PROVE  Bits(a % Pow2[j]) = Bits(a) \cap (0 .. j - 1)
<1>. DEFINE P == Pow2[j]
            q == a \div P
            o == a % P
<1>0. XLEN \in Nat /\ j \in Nat /\ P \in Nat \ {0}
  BY Lengths, WordPower
<1>1. q \in Int /\ o \in 0 .. P - 1 /\ a = q * P + o
  <2>. HIDE DEF P
  <2>. QED
    BY <1>0, DivMod
<1>. HIDE DEF q, o
<1>2. q \in Nat
  BY <1>0, <1>1
<1>3. Joined(q, j, o) /\ Joined(0, j, o)
  BY <1>1, <1>2, JoinedRight
<1>4. 0 * P + o = o
  BY <1>0, <1>1
<1>5. ASSUME NEW i \in 0 .. XLEN - 1 PROVE (o \div Pow2[i]) % 2 = 1 <=> (a \div Pow2[i]) % 2 = 1 /\ i < j
  <2>1. CASE i < j
    BY <1>1, <1>3, <2>1 DEF Joined
  <2>2. CASE ~(i < j)
    <3>1. i - j \in 0 .. XLEN /\ i >= j
      BY <1>0, <2>2
    <3>2. o \div Pow2[i] = 0 \div Pow2[i - j]
      BY <1>3, <1>4, <3>1 DEF Joined
    <3>3. Pow2[i - j] \in Nat \ {0}
      BY <3>1, WordPower
    <3>4. 0 \div Pow2[i - j] = 0
      BY <3>3, SmallMod
    <3>. QED
      BY <2>2, <3>2, <3>4
  <2>. QED
    BY <2>1, <2>2
<1>6. Bits(o) = Bits(a) \cap (0 .. j - 1)
  BY <1>0, <1>5 DEF Bits
<1>. QED
  BY <1>6 DEF o

\* Numbers of a width have bits below it only.
LEMMA BitsBelow ==
  ASSUME NEW j \in 0 .. XLEN, NEW a \in 0 .. Pow2[j] - 1
  PROVE  Bits(a) \subseteq 0 .. j - 1 /\ a \in Word
<1>1. Pow2[j] \in Nat \ {0} /\ a \in Nat
  BY WordPower
<1>2. a % Pow2[j] = a
  BY <1>1, SmallMod
<1>3. Bits(a) = Bits(a) \cap (0 .. j - 1)
  BY <1>1, <1>2, BitsOfLow
<1>4. Pow2[j] <= Pow2[XLEN]
  <2>1. XLEN \in 0 .. XLEN /\ Pow2[XLEN] \in Nat
    BY Lengths, Widths
  <2>2. Pow2[XLEN] - Pow2[j] \in 0 .. Pow2[XLEN] - 1
    BY <2>1, BitsOfMask
  <2>. QED
    BY <1>1, <2>1, <2>2
<1>. QED
  BY <1>1, <1>3, <1>4, Widths DEF Word

-----------------------------------------------------------------------------
\* What the masks leave

\* A mask of the low bits takes the remainder.
LEMMA MaskLow ==
  ASSUME NEW a \in Word, NEW j \in 0 .. XLEN
  PROVE  And(a, Pow2[j] - 1) = a % Pow2[j]
<1>1. a \in Nat /\ Pow2[j] \in Nat \ {0}
  BY Widths, WordPower DEF Word
<1>2. Bits(a) \cap Bits(Pow2[j] - 1) = Bits(a % Pow2[j])
  BY <1>1, BitsOfOnes, BitsOfLow
<1>. DEFINE o == a % Pow2[j]
<1>3. o \in 0 .. Pow2[j] - 1
  <2>. DEFINE P == Pow2[j]
  <2>1. P \in Nat \ {0} /\ a \in Int
    BY <1>1
  <2>. HIDE DEF P
  <2>2. a % P \in 0 .. P - 1
    BY <2>1, DivMod
  <2>. QED
    BY <2>2 DEF P
<1>. HIDE DEF o
<1>4. o \in Word
  BY <1>3, BitsBelow
<1>5. Number(Bits(o)) = o
  BY <1>4, NumberOfBits
<1>. QED
  BY <1>2, <1>5 DEF And, o

\* A mask of the high bits takes it off.
LEMMA MaskHigh ==
  ASSUME NEW a \in Word, NEW j \in 0 .. XLEN
  PROVE  And(a, Pow2[XLEN] - Pow2[j]) = (a \div Pow2[j]) * Pow2[j]
<1>. DEFINE P == Pow2[j]
            q == a \div P
            o == a % P
            n == q * P + 0
<1>0. XLEN \in Nat /\ j \in Nat /\ XLEN \in 0 .. XLEN /\ a \in Nat /\ P \in Nat \ {0}
  BY Lengths, Widths, WordPower DEF Word
<1>1. q \in Int /\ o \in 0 .. P - 1 /\ a = q * P + o
  <2>. HIDE DEF P
  <2>. QED
    BY <1>0, DivMod
<1>2. 0 \in 0 .. P - 1
  BY <1>0
<1>. HIDE DEF q, o
<1>3. q \in Nat /\ n \in Nat /\ n <= a /\ n = q * P
  <2>1. q \in Nat
    BY <1>0, <1>1
  <2>2. q * P \in Nat
    BY <1>0, <2>1, NatTimes
  <2>. QED
    BY <1>0, <1>1, <2>1, <2>2
<1>4. Joined(q, j, o) /\ Joined(q, j, 0)
  BY <1>1, <1>2, <1>3, JoinedRight
<1>5. ASSUME NEW i \in 0 .. XLEN - 1 PROVE (n \div Pow2[i]) % 2 = 1 <=> (a \div Pow2[i]) % 2 = 1 /\ i >= j
  <2>1. CASE i < j
    <3>1. (n \div Pow2[i]) % 2 = (0 \div Pow2[i]) % 2
      BY <1>4, <2>1 DEF Joined
    <3>2. i \in 0 .. XLEN
      BY <1>0
    <3>3. Pow2[i] \in Nat \ {0}
      BY <3>2, WordPower
    <3>4. 0 \div Pow2[i] = 0
      BY <3>3, SmallMod
    <3>. QED
      BY <1>0, <2>1, <3>1, <3>4
  <2>2. CASE i >= j
    BY <1>1, <1>4, <2>2 DEF Joined
  <2>. QED
    BY <1>0, <2>1, <2>2
<1>6. Bits(Pow2[XLEN] - P) = j .. XLEN - 1
  BY <1>0, BitsOfMask
<1>. HIDE DEF n
<1>7. Bits(a) \cap (j .. XLEN - 1) = Bits(n)
  BY <1>0, <1>5 DEF Bits
<1>8. n \in Word
  BY <1>3, Widths DEF Word
<1>9. And(a, Pow2[XLEN] - P) = n
  BY <1>6, <1>7, <1>8, NumberOfBits DEF And
<1>. QED
  BY <1>3, <1>9 DEF q

\* The sign bit
LEMMA MaskSign ==
  ASSUME NEW w \in {HALF, XLEN}, NEW a \in 0 .. Pow2[w] - 1
  PROVE  And(a, Pow2[w - 1]) = IF a >= Pow2[w - 1] THEN Pow2[w - 1] ELSE 0
<1>. DEFINE j == w - 1
            P == Pow2[j]
            q == a \div P
<1>0. XLEN \in Nat /\ w \in 0 .. XLEN /\ w \in Nat /\ j \in 0 .. XLEN /\ j \in 0 .. XLEN - 1 /\ j \in 0 .. w
  BY Lengths
<1>1. P \in Nat \ {0} /\ Pow2[w] = 2 * P /\ Pow2[w] - P = P /\ a \in Nat /\ P \in 0 .. Pow2[w] - 1
  <2>1. P \in Nat \ {0} /\ Pow2[w] = 2 * P
    BY Width
  <2>. HIDE DEF P
  <2>. QED
    BY <2>1
<1>2. Bits(P) = {j} /\ P \in Word
  <2>1. Bits(Pow2[w] - P) = j .. w - 1
    BY <1>0, BitsOfMask
  <2>2. j .. w - 1 = {j}
    BY <1>0
  <2>. QED
    BY <1>0, <1>1, <2>1, <2>2, BitsBelow
<1>3. q = IF a >= P THEN 1 ELSE 0
  <2>. HIDE DEF P
  <2>1. CASE a >= P
    <3>1. a = 1 * P + (a - P) /\ a - P \in 0 .. P - 1 /\ 1 \in Int
      BY <1>1, <2>1
    <3>. DEFINE o == a - P
    <3>2. o \in 0 .. P - 1 /\ a = 1 * P + o
      BY <3>1
    <3>. HIDE DEF o
    <3>3. (1 * P + o) \div P = 1
      BY <1>1, <3>1, <3>2, Quotient
    <3>. QED
      BY <2>1, <3>2, <3>3
  <2>2. CASE ~(a >= P)
    BY <1>1, <2>2, SmallMod, a \in 0 .. P - 1
  <2>. QED
    BY <2>1, <2>2
<1>4. j \in Bits(a) <=> a >= P
  BY <1>0, <1>3 DEF Bits
<1>. HIDE DEF P, j
<1>5. CASE a >= P
  <2>1. Bits(a) \cap Bits(P) = Bits(P)
    BY <1>2, <1>4, <1>5
  <2>. QED
    BY <1>2, <1>5, <2>1, NumberOfBits DEF And, P, j
<1>6. CASE ~(a >= P)
  <2>1. Bits(a) \cap Bits(P) = Bits(0)
    BY <1>2, <1>4, <1>6, BitsOfZero
  <2>2. 0 \in Word
    BY Widths DEF Word
  <2>. QED
    BY <1>6, <2>1, <2>2, NumberOfBits DEF And, P, j
<1>. QED
  BY <1>5, <1>6

\* Setting the bits from p on of a number of width w
LEMMA OrHigh ==
  ASSUME NEW w \in 0 .. XLEN, NEW p \in 0 .. w, NEW x \in 0 .. Pow2[w] - 1
  PROVE  Or(x, Pow2[w] - Pow2[p]) = (x % Pow2[p]) + (Pow2[w] - Pow2[p])
<1>. DEFINE k == w - p
            P == Pow2[p]
            e == Pow2[k]
            u == e - 1
            o == x % P
            n == u * P + o
<1>0. /\ XLEN \in Nat /\ w \in Nat /\ p \in Nat /\ p \in 0 .. XLEN /\ k \in Nat /\ k \in 0 .. XLEN
      /\ w = p + k /\ p + k <= 2 * XLEN /\ Pow2[w] \in Nat \ {0} /\ x \in Nat
  BY Lengths, WordPower
<1>1. Pow2[w] = P * e /\ P \in Nat \ {0} /\ e \in Nat \ {0} /\ u \in Nat /\ Bits(u) = 0 .. k - 1
  <2>. HIDE DEF k
  <2>. QED
    BY <1>0, PowerSum, WordPower, BitsOfOnes
<1>2. o \in 0 .. P - 1
  <2>. HIDE DEF P
  <2>. QED
    BY <1>0, <1>1, DivMod
<1>3. Bits(o) = Bits(x) \cap (0 .. p - 1)
  BY <1>0, BitsOfLow
<1>. HIDE DEF o
<1>4. u * P = Pow2[w] - P
  <2>. HIDE DEF P, e
  <2>. QED
    BY <1>1
<1>. HIDE DEF u
<1>5. Joined(u, p, o)
  BY <1>0, <1>1, <1>2, JoinedRight
<1>6. ASSUME NEW i \in 0 .. XLEN - 1 PROVE (n \div Pow2[i]) % 2 = 1 <=> i \in Bits(o) \/ i \in p .. w - 1
  <2>1. CASE i < p
    <3>1. (n \div Pow2[i]) % 2 = (o \div Pow2[i]) % 2
      BY <1>5, <2>1 DEF Joined
    <3>. QED
      BY <1>0, <2>1, <3>1 DEF Bits
  <2>2. CASE ~(i < p)
    <3>1. i >= p /\ i - p \in 0 .. XLEN - 1 /\ i \notin 0 .. p - 1
      BY <1>0, <2>2
    <3>2. n \div Pow2[i] = u \div Pow2[i - p]
      BY <1>5, <3>1 DEF Joined
    <3>3. (u \div Pow2[i - p]) % 2 = 1 <=> i - p \in 0 .. k - 1
      BY <1>1, <3>1 DEF Bits
    <3>. QED
      BY <1>0, <1>3, <3>1, <3>2, <3>3
  <2>. QED
    BY <2>1, <2>2
<1>7. n \in 0 .. Pow2[w] - 1
  <2>. DEFINE Z == Pow2[w]
  <2>1. n = (Z - P) + o /\ Z \in Nat /\ Z - P \in 0 .. Z - 1
    BY <1>0, <1>4, BitsOfMask
  <2>2. P \in Nat
    BY <1>1
  <2>. HIDE DEF Z, P, n
  <2>3. n \in 0 .. Z - 1
    BY <1>2, <2>1, <2>2
  <2>. QED
    BY <2>3 DEF Z
<1>8. n \in Word
  BY <1>7, BitsBelow
<1>9. Bits(Pow2[w] - P) = p .. w - 1
  BY BitsOfMask
<1>10. Bits(x) \subseteq 0 .. w - 1
  BY BitsBelow
<1>. HIDE DEF n
<1>11. Bits(n) = Bits(o) \cup (p .. w - 1)
  <2>1. Bits(o) \subseteq 0 .. XLEN - 1 /\ p .. w - 1 \subseteq 0 .. XLEN - 1
    BY <1>0 DEF Bits
  <2>. QED
    BY <1>6, <2>1 DEF Bits
<1>12. Bits(x) \cup (p .. w - 1) = Bits(n)
  BY <1>0, <1>3, <1>10, <1>11
<1>13. Or(x, Pow2[w] - P) = n
  BY <1>8, <1>9, <1>12, NumberOfBits DEF Or
<1>14. n = (Pow2[w] - P) + o
  BY <1>4 DEF n
<1>15. (Pow2[w] - P) + o = o + (Pow2[w] - P)
  BY <1>0, <1>1, <1>2
<1>. QED
  BY <1>13, <1>14, <1>15 DEF o

-----------------------------------------------------------------------------
\* Shifts

\* The arithmetic shift rounds down.
LEMMA SraRight ==
  ASSUME NEW w \in {HALF, XLEN}, NEW a \in 0 .. Pow2[w] - 1, NEW s \in 0 .. w - 1
  PROVE  Sra(a, s, w) = (SignedOf(a, w) \div Pow2[s]) % Pow2[w]
<1>. DEFINE Z == Pow2[w]
            S == Pow2[w - 1]
            d == Pow2[s]
            p == w - 1 - s
            P == Pow2[p]
            x == a \div d
<1>0. /\ XLEN \in Nat /\ w \in Nat /\ w \in 0 .. XLEN /\ w <= XLEN /\ s \in Nat /\ s \in 0 .. XLEN /\ a \in Int
      /\ p \in Nat /\ p \in 0 .. w /\ p \in 0 .. XLEN /\ w - 1 = p + s /\ p + s <= 2 * XLEN
  BY Lengths, Width
<1>1. Z \in Nat \ {0} /\ S \in Nat \ {0} /\ Z = 2 * S /\ d \in Nat \ {0} /\ P \in Nat \ {0} /\ a \in 0 .. Z - 1
  <2>. HIDE DEF p
  <2>. QED
    BY <1>0, Width, WordPower
<1>2. S = P * d
  <2>. HIDE DEF p
  <2>. QED
    BY <1>0, PowerSum
<1>3. Sra(a, s, w) = Or(x, Z - 1 - ((And(a, S) \div d - 1) % Z))
  BY DEF Sra, Shr
<1>4. SignedOf(a, w) = IF a >= S THEN a - Z ELSE a
  BY DEF SignedOf
<1>. HIDE DEF p, P
<1>5. x \in 0 .. 2 * P - 1 /\ x \in 0 .. Z - 1 /\ P <= S
  <2>. HIDE DEF Z, S, d
  <2>1. a < (2 * P) * d /\ a \in Nat /\ 2 * P \in Nat
    BY <1>1, <1>2
  <2>2. a \div d \in 0 .. (2 * P) - 1
    BY <1>1, <2>1, QuotientBound
  <2>3. d = 1 \/ 1 * P + P <= d * P
    BY <1>1, TimesLess
  <2>4. P <= S
    BY <1>1, <1>2, <2>3
  <2>. QED
    BY <1>1, <2>2, <2>4
<1>6. CASE a < S
  <2>1. And(a, S) = 0
    BY <1>1, <1>6, MaskSign
  <2>2. Z - 1 - ((And(a, S) \div d - 1) % Z) = 0
    <3>1. 0 \div d = 0
      <4>. HIDE DEF d
      <4>. QED
        BY <1>1, SmallMod
    <3>2. (0 - 1) % Z = Z - 1
      <4>. DEFINE o == Z - 1
      <4>1. o \in 0 .. Z - 1 /\ 0 - 1 = (-1) * Z + o /\ -1 \in Int
        BY <1>1
      <4>. HIDE DEF o, Z
      <4>2. ((-1) * Z + o) % Z = o
        BY <1>1, <4>1, Quotient
      <4>. QED
        BY <4>1, <4>2 DEF o
    <3>. HIDE DEF Z, d, S
    <3>. QED
      BY <1>1, <2>1, <3>1, <3>2
  <2>3. x \in Word
    BY <1>0, <1>5, BitsBelow
  <2>4. Bits(x) \cup Bits(0) = Bits(x)
    BY BitsOfZero
  <2>5. Or(x, 0) = x
    BY <2>3, <2>4, NumberOfBits DEF Or
  <2>6. x % Z = x
    <3>. HIDE DEF x, Z
    <3>. QED
      BY <1>1, <1>5, SmallMod
  <2>7. SignedOf(a, w) = a
    BY <1>1, <1>4, <1>6
  <2>. QED
    BY <1>3, <2>2, <2>5, <2>6, <2>7
<1>7. CASE ~(a < S)
  <2>1. And(a, S) = S
    BY <1>1, <1>7, MaskSign
  <2>2. S \div d = P
    <3>. HIDE DEF S, d
    <3>1. S = P * d + 0 /\ 0 \in 0 .. d - 1 /\ P \in Int
      BY <1>1, <1>2
    <3>2. (P * d + 0) \div d = P
      BY <1>1, <3>1, Quotient
    <3>. QED
      BY <3>1, <3>2
  <2>3. (P - 1) % Z = P - 1
    <3>. DEFINE o == P - 1
    <3>1. o \in 0 .. Z - 1
      BY <1>1, <1>5
    <3>. HIDE DEF o, Z
    <3>2. o % Z = o
      BY <1>1, <3>1, SmallMod
    <3>. QED
      BY <3>2 DEF o
  <2>4. Z - 1 - ((And(a, S) \div d - 1) % Z) = Z - P
    <3>. HIDE DEF S, d, Z
    <3>. QED
      BY <1>1, <2>1, <2>2, <2>3
  <2>5. Or(x, Z - P) = (x % P) + (Z - P)
    <3>. HIDE DEF x
    <3>. QED
      BY <1>0, <1>5, OrHigh DEF P
  <2>6. x >= P /\ x % P = x - P
    <3>1. x >= P
      <4>. DEFINE o == a % d
      <4>1. x \in Int /\ o \in 0 .. d - 1 /\ a = x * d + o
        <5>. HIDE DEF d
        <5>. QED
          BY <1>0, <1>1, DivMod
      <4>2. x < P => x * d + d <= P * d
        <5>1. x \in Nat
          BY <1>1, <1>5
        <5>. HIDE DEF x, d
        <5>. QED
          BY <1>1, <5>1, TimesLess
      <4>. HIDE DEF x, o, d, S
      <4>. DEFINE y == x * d
      <4>3. y \in Int /\ a = y + o /\ (x < P => y + d <= S) /\ a >= S
        BY <1>1, <1>2, <1>7, <4>1, <4>2, Times
      <4>. HIDE DEF y
      <4>. QED
        BY <1>1, <4>1, <4>3
    <3>. DEFINE o == x - P
    <3>2. o \in 0 .. P - 1 /\ x = 1 * P + o /\ 1 \in Int
      <4>. HIDE DEF x, Z
      <4>. QED
        BY <1>1, <1>5, <3>1
    <3>. HIDE DEF o, x
    <3>3. (1 * P + o) % P = o
      BY <1>1, <3>2, Quotient
    <3>. QED
      BY <3>1, <3>2, <3>3 DEF o
  <2>7. (a - Z) \div d = x - 2 * P
    <3>. DEFINE c == -(2 * P)
    <3>. HIDE DEF Z, S, d
    <3>1. a - Z = a + c * d /\ c \in Int
      BY <1>0, <1>1, <1>2
    <3>. HIDE DEF c
    <3>2. (a + c * d) \div d = a \div d + c
      BY <1>0, <1>1, <3>1, AddMultiple
    <3>3. (a - Z) \div d = x + c
      BY <3>1, <3>2
    <3>4. x \in Int
      BY <1>0, <1>1, DivMod
    <3>. HIDE DEF x
    <3>. QED
      BY <1>1, <3>3, <3>4 DEF c
  <2>8. (x - 2 * P) % Z = x - 2 * P + Z
    <3>. DEFINE o == x - 2 * P + Z
    <3>. HIDE DEF x
    <3>1. o \in 0 .. Z - 1 /\ x - 2 * P = (-1) * Z + o /\ -1 \in Int
      <4>. HIDE DEF Z, S
      <4>. QED
        BY <1>1, <1>5
    <3>. HIDE DEF o, Z
    <3>2. ((-1) * Z + o) % Z = o
      BY <1>1, <3>1, Quotient
    <3>. QED
      BY <3>1, <3>2 DEF o
  <2>9. (x - P) + (Z - P) = x - 2 * P + Z
    <3>. HIDE DEF x, Z
    <3>. QED
      BY <1>1, <1>5
  <2>. QED
    BY <1>1, <1>3, <1>4, <1>7, <2>4, <2>5, <2>6, <2>7, <2>8, <2>9
<1>. QED
  BY <1>6, <1>7

\* The remainder by a divisor of the divisor
LEMMA ModMod ==
  ASSUME NEW x \in Int, NEW d \in Nat \ {0}, NEW e \in Nat \ {0}
  PROVE  (x % (e * d)) % d = x % d
<1>. DEFINE m == e * d
            q == x \div m
            o == x % m
<1>1. m \in Nat \ {0}
  BY NatTimes
<1>2. q \in Int /\ o \in Int /\ x = q * m + o
  <2>. HIDE DEF m
  <2>1. q \in Int /\ o \in 0 .. m - 1 /\ x = q * m + o
    BY <1>1, DivMod
  <2>. QED
    BY <1>1, <2>1
<1>. HIDE DEF q, o
<1>. DEFINE k == q * e
<1>3. x = o + k * d /\ k \in Int
  BY <1>2
<1>. HIDE DEF k
<1>4. (o + k * d) % d = o % d
  BY <1>2, <1>3, AddMultiple
<1>. QED
  BY <1>3, <1>4 DEF o

\* What the masks leave of a shift amount
LEMMA ShiftAmounts ==
  ASSUME NEW b \in Word
  PROVE  /\ And(b, CPU_SHIFT_MASK) = b % XLEN /\ b % XLEN \in 0 .. XLEN - 1
         /\ And(Lo(b), CPU_SHIFT_MASK) = Lo(b) % XLEN
         /\ Shift32(b) = b % HALF /\ Shift32(Lo(b)) = b % HALF /\ b % HALF \in 0 .. HALF - 1
         /\ Lo(b) % XLEN < HALF => Lo(b) % XLEN = b % HALF
<1>1. PICK k \in 1 .. HALF : HALF = Pow2[k] /\ XLEN = Pow2[k + 1]
  BY Lengths
<1>2. /\ XLEN \in Nat \ {0} /\ HALF \in Nat \ {0} /\ XLEN = 2 * HALF /\ k \in 0 .. XLEN /\ k + 1 \in 0 .. XLEN
      /\ k \in Nat /\ HALF - k \in Nat /\ (HALF - k) + k = HALF
      /\ (HALF - k) + k <= 2 * XLEN /\ HALF - k \in 0 .. XLEN
      /\ HALF \in 0 .. XLEN
  BY Lengths
<1>3. b \in Int /\ Lo(b) \in 0 .. Pow2[HALF] - 1
  BY Halves, Widths DEF Word
<1>4. Lo(b) \in Word /\ Lo(b) \in Int
  BY <1>2, <1>3, BitsBelow, Widths
<1>5. ASSUME NEW x \in Word PROVE And(x, CPU_SHIFT_MASK) = x % XLEN /\ Shift32(x) = x % HALF
  BY <1>1, <1>2, MaskLow DEF CPU_SHIFT_MASK, Shift32
<1>6. b % XLEN \in 0 .. XLEN - 1 /\ b % HALF \in 0 .. HALF - 1 /\ Lo(b) % XLEN \in 0 .. XLEN - 1
  BY <1>2, <1>3, <1>4, DivMod
<1>7. Lo(b) % HALF = b % HALF
  <2>. DEFINE e == Pow2[HALF - k]
  <2>1. Pow2[HALF] = e * HALF /\ e \in Nat \ {0}
    <3>1. Pow2[(HALF - k) + k] = Pow2[HALF - k] * Pow2[k]
      BY <1>2, PowerSum
    <3>. QED
      BY <1>1, <1>2, <3>1, WordPower
  <2>. HIDE DEF e
  <2>2. (b % (e * HALF)) % HALF = b % HALF
    BY <1>2, <1>3, <2>1, ModMod
  <2>. QED
    BY <2>1, <2>2 DEF Lo
<1>8. (Lo(b) % XLEN) % HALF = Lo(b) % HALF
  <2>1. 2 \in Nat \ {0}
    OBVIOUS
  <2>2. (Lo(b) % (2 * HALF)) % HALF = Lo(b) % HALF
    BY <1>2, <1>4, <2>1, ModMod, Zenon
  <2>. QED
    BY <1>2, <2>2
<1>9. ASSUME Lo(b) % XLEN < HALF PROVE Lo(b) % XLEN = b % HALF
  <2>. DEFINE y == Lo(b) % XLEN
  <2>1. y \in 0 .. HALF - 1
    BY <1>2, <1>6, <1>9
  <2>. HIDE DEF y
  <2>2. y % HALF = y
    BY <1>2, <2>1, SmallMod
  <2>. QED
    BY <1>7, <1>8, <2>2 DEF y
<1>. QED
  BY <1>4, <1>5, <1>6, <1>7, <1>9

-----------------------------------------------------------------------------
\* The shifts of the instructions

\* OPIMM32's selections
LEMMA OPIMM32Selects ==
  ASSUME NEW ra, NEW imm
  PROVE  /\ OPIMM32(1, 0, ra, imm) = {SignExtend(Shl(Lo(ra), Shift32(imm), HALF), HALF)}
         /\ OPIMM32(5, 32, ra, imm) = {SignExtend(Sra(Lo(ra), Shift32(imm), HALF), HALF)}
BY DEF OPIMM32

\* Cutting to a half twice is cutting once.
LEMMA LoTwice == ASSUME NEW x \in Int PROVE Lo(x % Pow2[HALF]) = x % Pow2[HALF]
<1>. DEFINE H == Pow2[HALF]
            o == x % H
<1>1. H \in Nat \ {0}
  BY Widths
<1>2. o \in 0 .. H - 1
  <2>. HIDE DEF H
  <2>. QED
    BY <1>1, DivMod
<1>. HIDE DEF o, H
<1>3. o % H = o
  BY <1>1, <1>2, SmallMod
<1>. QED
  BY <1>3 DEF Lo, o, H

\* The shifts of any word by any amount are right.
LEMMA ShiftsOfWords ==
  ASSUME rs1Val \in Word, rs2Val \in Word PROVE ShiftsRight
<1>. DEFINE a == rs1Val
            b == rs2Val
            s == b % XLEN
            h == b % HALF
            lo == Lo(a)
            slo == SignedOf(lo, HALF)
            ext(x) == {SignExtend(x % Pow2[HALF], HALF)}
<1>1. /\ And(b, CPU_SHIFT_MASK) = s /\ s \in 0 .. XLEN - 1
      /\ And(Lo(b), CPU_SHIFT_MASK) = Lo(b) % XLEN
      /\ Shift32(b) = h /\ Shift32(Lo(b)) = h /\ h \in 0 .. HALF - 1
      /\ Lo(b) % XLEN < HALF => Lo(b) % XLEN = h
  BY ShiftAmounts
<1>2. a \in 0 .. Pow2[XLEN] - 1 /\ a \in Int /\ lo \in 0 .. Pow2[HALF] - 1 /\ lo \in Int
  BY Halves, Widths DEF Word
<1>3. s \in 0 .. XLEN /\ h \in 0 .. XLEN
  BY <1>1, Lengths
<1>. HIDE DEF s, h
<1>4. Pow2[s] \in Nat \ {0} /\ Pow2[h] \in Nat \ {0}
  BY <1>3, WordPower
<1>5. slo \in Int
  <2>1. slo \in -Pow2[HALF - 1] .. Pow2[HALF - 1] - 1
    BY <1>2, SignedRange
  <2>. QED
    BY <2>1, Widths
<1>. HIDE DEF lo, slo
<1>6. OP(1, 0, a, b) = {W(a * Pow2[s])} /\ OP(5, 0, a, b) = {a \div Pow2[s]}
  BY <1>1, OPSelects DEF Shl, Shr, W
<1>7. OP(5, 32, a, b) = {W(Signed(a) \div Pow2[s])} /\ OPIMM(5, 16, a, b) = OP(5, 32, a, b)
  <2>1. Sra(a, s, XLEN) = W(Signed(a) \div Pow2[s])
    BY <1>1, <1>2, SraRight DEF W, Signed
  <2>2. /\ OP(5, 32, a, b) = {Sra(a, And(b, CPU_SHIFT_MASK), XLEN)}
        /\ OPIMM(5, 16, a, b) = {Sra(a, And(b, CPU_SHIFT_MASK), XLEN)}
    BY OPSelects
  <2>. QED
    BY <1>1, <2>1, <2>2
<1>8. OP32(5, 0, a, b) = ext(lo \div Pow2[h])
  <2>1. OP32(5, 0, a, b) = {SignExtend(Lo(Shr(Lo(a), Shift32(Lo(b)))), HALF)}
    BY OP32Selects
  <2>. QED
    BY <1>1, <2>1 DEF Lo, Shr, lo
<1>9. Sra(lo, h, HALF) = (slo \div Pow2[h]) % Pow2[HALF]
  BY <1>1, <1>2, SraRight DEF slo
<1>10. slo \div Pow2[h] \in Int /\ lo * Pow2[h] \in Int
  <2>. DEFINE d == Pow2[h]
  <2>1. d \in Nat \ {0} /\ d \in Int
    BY <1>4
  <2>. HIDE DEF d
  <2>2. slo \div d \in Int
    BY <1>5, <2>1, DivMod
  <2>3. lo * d \in Int
    BY <1>2, <2>1, Times
  <2>. QED
    BY <2>2, <2>3 DEF d
<1>11. OP32(5, 32, a, b) = ext(slo \div Pow2[h])
  <2>1. OP32(5, 32, a, b) = {SignExtend(Lo(Sra(Lo(a), Shift32(Lo(b)), HALF)), HALF)}
    BY OP32Selects
  <2>. QED
    BY <1>1, <1>9, <1>10, <2>1, LoTwice DEF lo
<1>12. OPIMM32(5, 32, a, b) = ext(slo \div Pow2[h])
  BY <1>1, <1>9, OPIMM32Selects DEF lo
<1>13. OPIMM32(1, 0, a, b) = ext(lo * Pow2[h])
  BY <1>1, OPIMM32Selects DEF lo, Shl
<1>14. ASSUME Lo(b) % XLEN < HALF PROVE OP32(1, 0, a, b) = ext(lo * Pow2[h])
  <2>1. And(Lo(b), CPU_SHIFT_MASK) = h /\ h < HALF
    BY <1>1, <1>14
  <2>2. And(Lo(b), CPU_SHIFT_MASK) < HALF
          => OP32(1, 0, a, b) = {SignExtend(Lo(Shl(Lo(a), And(Lo(b), CPU_SHIFT_MASK), HALF)), HALF)}
    BY OP32Selects
  <2>3. OP32(1, 0, a, b) = {SignExtend(Lo(Shl(lo, h, HALF)), HALF)}
    BY <2>1, <2>2 DEF lo
  <2>. QED
    BY <1>10, <2>3, LoTwice DEF Shl
<1>. QED
  BY <1>6, <1>7, <1>8, <1>11, <1>12, <1>13, <1>14 DEF ShiftsRight, s, h, lo, slo

-----------------------------------------------------------------------------
\* Jumps, branches and atomic operations

\* A size taken off before and added afterwards
LEMMA WBack ==
  ASSUME NEW x \in Int, NEW size \in Int
  PROVE  /\ W(x) \in Word /\ W(x) \in Int
         /\ W(W(x - size) + size) = W(x)
         /\ W(W(W(x) - size) + size) = W(x)
<1>. DEFINE B == Pow2[XLEN]
<1>1. B \in Nat \ {0}
  BY Widths
<1>. HIDE DEF B
<1>2. ASSUME NEW y \in Int
      PROVE  y % B \in 0 .. B - 1 /\ y % B \in Int /\ (((y - size) % B) + size) % B = y % B
  <2>. DEFINE z == y - size
  <2>1. z \in Int /\ z + size = y
    OBVIOUS
  <2>. HIDE DEF z
  <2>2. ((z % B) + size) % B = (z + size) % B
    BY <1>1, <2>1, ModAdd
  <2>3. y % B \in 0 .. B - 1
    BY <1>1, DivMod
  <2>. QED
    BY <1>1, <2>1, <2>2, <2>3 DEF z
<1>. DEFINE u == x % B
<1>3. u \in Int /\ u \in 0 .. B - 1 /\ (((x - size) % B) + size) % B = u
  BY <1>2
<1>. HIDE DEF u
<1>4. (((u - size) % B) + size) % B = u % B
  BY <1>2, <1>3
<1>5. u % B = u
  BY <1>1, <1>3, SmallMod
<1>. QED
  BY <1>3, <1>4, <1>5 DEF W, Word, u, B

\* JAL, JALR and AUIPC
LEMMA Jumps ==
  ASSUME NEW a \in Word, NEW b \in Word, NEW size \in {2, 4}
  PROVE  /\ JalTarget(a, b, size) = (a + b) % Pow2[XLEN]
         /\ JalrTarget(a, b, size) = 2 * (((a + b) % Pow2[XLEN]) \div 2)
         /\ AUIPC(a, b) = JalTarget(a, LUI(b), size)
         /\ Signed(LUI(b)) = SignedOf(b % Pow2[HALF], HALF)
<1>0. a \in Int /\ b \in Int /\ size \in Int /\ a + b \in Int
  BY Widths DEF Word
<1>1. ASSUME NEW imm \in Int PROVE JalTarget(a, imm, size) = W(a + imm)
  <2>. DEFINE x == a + imm
  <2>1. x \in Int
    BY <1>0
  <2>. HIDE DEF x
  <2>2. W(W(W(x) - size) + size) = W(x)
    BY <1>0, <2>1, WBack
  <2>. QED
    BY <2>2 DEF JalTarget, x
<1>2. JalTarget(a, b, size) = (a + b) % Pow2[XLEN]
  BY <1>0, <1>1 DEF W
<1>3. LUI(b) \in Word /\ LUI(b) \in Int /\ Signed(LUI(b)) = SignedOf(b % Pow2[HALF], HALF)
  <2>1. SignExtend(Lo(b), HALF) \in Word /\ Signed(SignExtend(Lo(b), HALF)) = SignedOf(Lo(b), HALF)
    BY <1>0, ExtendedHalf
  <2>. QED
    BY <2>1, Widths DEF LUI, Lo, Word
<1>4. AUIPC(a, b) = JalTarget(a, LUI(b), size)
  BY <1>1, <1>3 DEF AUIPC, LUI
<1>5. JalrTarget(a, b, size) = 2 * (((a + b) % Pow2[XLEN]) \div 2)
  <2>. DEFINE x == W(a + b)
              y == (x \div 2) * 2
  <2>1. x \in Word /\ x \in Int
    BY <1>0, WBack
  <2>2. Pow2[1] = 2 /\ 1 \in 0 .. XLEN
    <3>1. 1 \in 1 .. 2 * XLEN /\ 1 \in 0 .. XLEN /\ 1 - 1 = 0
      BY Lengths
    <3>. QED
      BY <3>1, Power
  <2>. HIDE DEF x
  <2>3. And(x, Pow2[XLEN] - 2) = y
    BY <2>1, <2>2, MaskHigh
  <2>4. y \in Int /\ y \in 0 .. Pow2[XLEN] - 1 /\ y = 2 * (x \div 2)
    BY <2>1, Widths DEF Word
  <2>. HIDE DEF y
  <2>5. W(W(y - size) + size) = W(y)
    BY <1>0, <2>4, WBack
  <2>6. W(y) = y
    BY <2>4, Widths, SmallMod DEF W
  <2>. QED
    BY <2>3, <2>4, <2>5, <2>6 DEF JalrTarget, x, W
<1>. QED
  BY <1>2, <1>3, <1>4, <1>5

\* Where a branch goes on
Lands(f3, a, b) ==
  \A size \in {2, 4} : \A pc \in {0, Pow2[XLEN] - 2} :
    /\ Taken(f3, a, b) => BranchTarget(f3, a, b, pc, b, size) = (pc + b) % Pow2[XLEN]
    /\ ~Taken(f3, a, b) => BranchTarget(f3, a, b, pc, b, size) = (pc + size) % Pow2[XLEN]

\* Every branch does.
LEMMA LandsRight == ASSUME NEW a \in Word, NEW b \in Word, NEW f3 PROVE Lands(f3, a, b)
<1>. SUFFICES ASSUME NEW size \in {2, 4}, NEW pc \in {0, Pow2[XLEN] - 2}
              PROVE  /\ Taken(f3, a, b) => BranchTarget(f3, a, b, pc, b, size) = (pc + b) % Pow2[XLEN]
                     /\ ~Taken(f3, a, b) => BranchTarget(f3, a, b, pc, b, size) = (pc + size) % Pow2[XLEN]
  BY DEF Lands
<1>0. b \in Int /\ size \in Int /\ pc \in Int
  BY Widths DEF Word
<1>. DEFINE x == pc + b
<1>1. x \in Int
  BY <1>0
<1>2. /\ Taken(f3, a, b) => BranchTarget(f3, a, b, pc, b, size) = W(W(x - size) + size)
      /\ ~Taken(f3, a, b) => BranchTarget(f3, a, b, pc, b, size) = W(pc + size)
  <2>1. /\ Taken(f3, a, b) => BranchTarget(f3, a, b, pc, b, size) = W(W(pc + b - size) + size)
        /\ ~Taken(f3, a, b) => BranchTarget(f3, a, b, pc, b, size) = W(pc + size)
    BY Zenon DEF BranchTarget
  <2>2. pc + b - size = x - size
    BY <1>0
  <2>. QED
    BY <2>1, <2>2, Zenon
<1>. HIDE DEF x
<1>3. W(W(x - size) + size) = W(x)
  BY <1>0, <1>1, WBack
<1>. QED
  BY <1>2, <1>3 DEF W, x

\* The conditions
LEMMA Conditions ==
  ASSUME NEW a \in Word, NEW b \in Word
  PROVE  LET less == Signed(a) < Signed(b)
             below == a < b
         IN /\ (Taken(0, a, b) <=> a = b) /\ (Taken(1, a, b) <=> a # b)
            /\ (Taken(4, a, b) <=> less) /\ (Taken(5, a, b) <=> ~less)
            /\ (Taken(6, a, b) <=> below) /\ (Taken(7, a, b) <=> ~below)
<1>1. Signed(a) \in Int /\ Signed(b) \in Int /\ a \in Int /\ b \in Int
  BY SignedWord, Widths DEF Word
<1>2. (Signed(a) >= Signed(b) <=> ~(Signed(a) < Signed(b))) /\ (a >= b <=> ~(a < b))
  BY <1>1
<1>. QED
  BY <1>2 DEF Taken

\* Sign extension keeps both orders.
LEMMA ExtendedOrder ==
  ASSUME NEW w \in {HALF, XLEN}, NEW u \in 0 .. Pow2[w] - 1, NEW v \in 0 .. Pow2[w] - 1
  PROVE  /\ SignExtend(u, w) < SignExtend(v, w) <=> u < v
         /\ SignExtend(u, w) > SignExtend(v, w) <=> u > v
         /\ Signed(SignExtend(u, w)) < Signed(SignExtend(v, w)) <=> SignedOf(u, w) < SignedOf(v, w)
         /\ Signed(SignExtend(u, w)) > Signed(SignExtend(v, w)) <=> SignedOf(u, w) > SignedOf(v, w)
         /\ SignedOf(u, w) \in Int /\ (SignedOf(u, w) = SignedOf(v, w) => u = v)
<1>. DEFINE P == Pow2[w]
            S == Pow2[w - 1]
            B == Pow2[XLEN]
<1>1. P \in Nat \ {0} /\ S \in Nat \ {0} /\ P = 2 * S /\ P <= B /\ B \in Nat
  BY Width, Widths
<1>2. ASSUME NEW x \in 0 .. P - 1
      PROVE  /\ SignExtend(x, w) = IF x >= S THEN x + (B - P) ELSE x
             /\ SignedOf(x, w) = IF x >= S THEN x - P ELSE x
             /\ Signed(SignExtend(x, w)) = SignedOf(x, w)
  <2>. DEFINE y == SignExtend(x, w)
              n == SignedOf(x, w)
  <2>1. y \in Word /\ Signed(y) = n
    BY Extended
  <2>2. n = IF x >= S THEN x - P ELSE x
    BY SignedRange
  <2>. HIDE DEF y
  <2>3. y \in Int /\ ((Signed(y) = y /\ ~(Signed(y) < 0)) \/ (Signed(y) = y - B /\ Signed(y) < 0))
    BY <2>1, SignedWord, Widths DEF Word
  <2>. HIDE DEF n, P, S, B
  <2>4. y = IF x >= S THEN x + (B - P) ELSE x
    BY <1>1, <2>1, <2>2, <2>3
  <2>. QED
    BY <2>1, <2>2, <2>4 DEF y, n, P, S, B
<1>. DEFINE eu == SignExtend(u, w)
            ev == SignExtend(v, w)
            su == SignedOf(u, w)
            sv == SignedOf(v, w)
<1>3. /\ eu = IF u >= S THEN u + (B - P) ELSE u
      /\ ev = IF v >= S THEN v + (B - P) ELSE v
      /\ su = IF u >= S THEN u - P ELSE u
      /\ sv = IF v >= S THEN v - P ELSE v
      /\ Signed(eu) = su /\ Signed(ev) = sv
  BY <1>2
<1>4. u \in 0 .. P - 1 /\ v \in 0 .. P - 1
  OBVIOUS
<1>. HIDE DEF eu, ev, su, sv, P, S, B
<1>5. (eu < ev <=> u < v) /\ (eu > ev <=> u > v) /\ su \in Int /\ (su = sv => u = v)
  BY <1>1, <1>3, <1>4
<1>. QED
  BY <1>3, <1>5 DEF eu, ev, su, sv

\* The minima and maxima of the atomic operations
LEMMA Extremes ==
  ASSUME NEW w \in {HALF, XLEN}, NEW a \in Word, NEW mem \in 0 .. Pow2[w] - 1
  PROVE  LET reg == a % Pow2[w]
             less == SignedOf(reg, w) < SignedOf(mem, w)
         IN /\ AMO(16, a, mem, w) = (IF less THEN reg ELSE mem)
            /\ AMO(20, a, mem, w) = (IF less THEN mem ELSE reg)
            /\ AMO(24, a, mem, w) = (IF reg < mem THEN reg ELSE mem)
            /\ AMO(28, a, mem, w) = (IF reg < mem THEN mem ELSE reg)
            /\ reg \in 0 .. Pow2[w] - 1
<1>. DEFINE P == Pow2[w]
            reg == a % P
            x == SignExtend(reg, w)
            y == SignExtend(mem, w)
            sr == SignedOf(reg, w)
            sm == SignedOf(mem, w)
<1>1. P \in Nat \ {0} /\ a \in Int
  BY Width, Widths DEF Word
<1>2. reg \in 0 .. P - 1
  <2>. HIDE DEF P
  <2>. QED
    BY <1>1, DivMod
<1>3. /\ AMO(16, a, mem, w) = (IF Signed(x) < Signed(y) THEN x ELSE y) % P
      /\ AMO(20, a, mem, w) = (IF Signed(x) > Signed(y) THEN x ELSE y) % P
      /\ AMO(24, a, mem, w) = (IF x < y THEN x ELSE y) % P
      /\ AMO(28, a, mem, w) = (IF x > y THEN x ELSE y) % P
  BY DEF AMO, AmoOperands
<1>. HIDE DEF reg
<1>4. x % P = reg /\ y % P = mem
  BY <1>2, Extended
<1>5. /\ x < y <=> reg < mem
      /\ x > y <=> reg > mem
      /\ Signed(x) < Signed(y) <=> sr < sm
      /\ Signed(x) > Signed(y) <=> sr > sm
      /\ sr \in Int /\ sm \in Int /\ (sr = sm => reg = mem)
  BY <1>2, ExtendedOrder
<1>6. mem \in Int /\ reg \in Int
  BY <1>1, <1>2
<1>. HIDE DEF x, y, sr, sm
<1>7. /\ AMO(16, a, mem, w) = (IF sr < sm THEN reg ELSE mem)
      /\ AMO(20, a, mem, w) = (IF sr > sm THEN reg ELSE mem)
      /\ AMO(24, a, mem, w) = (IF reg < mem THEN reg ELSE mem)
      /\ AMO(28, a, mem, w) = (IF reg > mem THEN reg ELSE mem)
  BY <1>3, <1>4, <1>5
<1>8. /\ (IF sr > sm THEN reg ELSE mem) = (IF sr < sm THEN mem ELSE reg)
      /\ (IF reg > mem THEN reg ELSE mem) = (IF reg < mem THEN mem ELSE reg)
  BY <1>5, <1>6
<1>. QED
  BY <1>2, <1>7, <1>8 DEF reg, sr, sm, P

-----------------------------------------------------------------------------
\* The orders

\* What is loaded compares as in memory.
LEMMA Loads ==
  ASSUME NEW w \in {HALF, XLEN}, NEW u \in 0 .. Pow2[w] - 1, NEW v \in 0 .. Pow2[w] - 1
  PROVE  /\ OP(2, 0, LOAD(TRUE, u, w), LOAD(TRUE, v, w)) = {Bool(SignedOf(u, w) < SignedOf(v, w))}
         /\ OP(2, 0, LOAD(FALSE, u, HALF), LOAD(FALSE, v, HALF)) = {Bool(u < v)} \/ w = XLEN
<1>1. OP(2, 0, LOAD(TRUE, u, w), LOAD(TRUE, v, w)) = {Bool(SignedOf(u, w) < SignedOf(v, w))}
  <2>1. OP(2, 0, SignExtend(u, w), SignExtend(v, w))
          = {Bool(Signed(SignExtend(u, w)) < Signed(SignExtend(v, w)))}
    BY OPSelects
  <2>2. Signed(SignExtend(u, w)) = SignedOf(u, w) /\ Signed(SignExtend(v, w)) = SignedOf(v, w)
    BY Extended
  <2>. QED
    BY <2>1, <2>2 DEF LOAD
<1>2. ASSUME w = HALF PROVE OP(2, 0, LOAD(FALSE, u, HALF), LOAD(FALSE, v, HALF)) = {Bool(u < v)}
  <2>1. OP(2, 0, u, v) = {Bool(Signed(u) < Signed(v))}
    BY OPSelects
  <2>2. Signed(u) = u /\ Signed(v) = v
    BY <1>2, Widths, SMTT(30) DEF Signed, SignedOf
  <2>. QED
    BY <2>1, <2>2 DEF LOAD
<1>. QED
  BY <1>1, <1>2

\* All that compares any two words is right.
LEMMA OrderOfWords ==
  ASSUME rs1Val \in Word, rs2Val \in Word PROVE OrderRight
<1>. DEFINE a == rs1Val
            b == rs2Val
            less == Signed(a) < Signed(b)
            below == a < b
            lands(f3, taken) ==
              \A size \in {2, 4} : \A pc \in {0, Pow2[XLEN] - 2} :
                BranchTarget(f3, a, b, pc, b, size) = (IF taken THEN pc + b ELSE pc + size) % Pow2[XLEN]
<1>1. OP(2, 0, a, b) = {Bool(less)} /\ OP(3, 0, a, b) = {Bool(below)}
  BY OPSelects
<1>2. \A size \in {2, 4} :
          /\ JalTarget(a, b, size) = (a + b) % Pow2[XLEN]
          /\ JalrTarget(a, b, size) = 2 * (((a + b) % Pow2[XLEN]) \div 2)
          /\ AUIPC(a, b) = JalTarget(a, LUI(b), size)
          /\ Signed(LUI(b)) = SignedOf(b % Pow2[HALF], HALF)
  BY Jumps
<1>3. /\ (Taken(0, a, b) <=> a = b) /\ (Taken(1, a, b) <=> a # b)
      /\ (Taken(4, a, b) <=> less) /\ (Taken(5, a, b) <=> ~less)
      /\ (Taken(6, a, b) <=> below) /\ (Taken(7, a, b) <=> ~below)
  BY Conditions
<1>4. Lands(0, a, b) /\ Lands(1, a, b) /\ Lands(4, a, b) /\ Lands(5, a, b) /\ Lands(6, a, b) /\ Lands(7, a, b)
  BY LandsRight
<1>5. lands(0, a = b) /\ lands(1, a # b)
  BY <1>3, <1>4 DEF Lands
<1>6. lands(4, less) /\ lands(5, ~less)
  BY <1>3, <1>4 DEF Lands
<1>7. lands(6, below) /\ lands(7, ~below)
  BY <1>3, <1>4 DEF Lands
<1>8. ASSUME NEW width \in {HALF, XLEN}
      PROVE  LET mem == b % Pow2[width]
                 reg == a % Pow2[width]
                 signedLess == SignedOf(reg, width) < SignedOf(mem, width)
                 ordered(isLess, x, y) == IF isLess THEN <<x, y>> ELSE <<y, x>>
             IN /\ OP(2, 0, LOAD(TRUE, reg, width), LOAD(TRUE, mem, width)) = {Bool(signedLess)}
                /\ OP(2, 0, LOAD(FALSE, reg, HALF), LOAD(FALSE, mem, HALF)) = {Bool(reg < mem)} \/ width = XLEN
                /\ <<AMO(16, a, mem, width), AMO(20, a, mem, width)>> = ordered(signedLess, reg, mem)
                /\ <<AMO(24, a, mem, width), AMO(28, a, mem, width)>> = ordered(reg < mem, reg, mem)
  <2>. DEFINE P == Pow2[width]
              mem == b % P
              reg == a % P
  <2>1. P \in Nat \ {0} /\ b \in Int
    BY Width, Widths DEF Word
  <2>2. mem \in 0 .. P - 1
    <3>. HIDE DEF P
    <3>. QED
      BY <2>1, DivMod
  <2>. HIDE DEF mem
  <2>. DEFINE signedLess == SignedOf(reg, width) < SignedOf(mem, width)
  <2>3. /\ AMO(16, a, mem, width) = (IF signedLess THEN reg ELSE mem)
        /\ AMO(20, a, mem, width) = (IF signedLess THEN mem ELSE reg)
        /\ AMO(24, a, mem, width) = (IF reg < mem THEN reg ELSE mem)
        /\ AMO(28, a, mem, width) = (IF reg < mem THEN mem ELSE reg)
        /\ reg \in 0 .. P - 1
    BY <2>2, Extremes
  <2>. HIDE DEF reg
  <2>4. /\ OP(2, 0, LOAD(TRUE, reg, width), LOAD(TRUE, mem, width)) = {Bool(signedLess)}
        /\ OP(2, 0, LOAD(FALSE, reg, HALF), LOAD(FALSE, mem, HALF)) = {Bool(reg < mem)} \/ width = XLEN
    <3>1. mem \in 0 .. Pow2[width] - 1 /\ reg \in 0 .. Pow2[width] - 1
      BY <2>2, <2>3
    <3>. QED
      BY <3>1, Loads, ZenonT(60)
  <2>. QED
    BY <2>3, <2>4 DEF mem, reg, P
<1>. QED
  BY <1>1, <1>2, <1>5, <1>6, <1>7, <1>8 DEF OrderRight

\* The operands are words: the inductive invariant, as the properties hold of all words.
Operands == rs1Val \in Word /\ rs2Val \in Word

\* They always are: registers hold words, and Retire's zeros are words too.
LEMMA OperandsAlways == InstrSpec => []Operands
<1>0. 0 \in Word
  BY Widths DEF Word
<1>1. InstrInit => Operands
  BY <1>0 DEF InstrInit, Operands
<1>2. ASSUME Operands, [InstrNext]_instrVars PROVE Operands'
  <2>1. CASE FetchTwoBytes
    BY <1>2, <2>1 DEF FetchTwoBytes, Operands
  <2>2. CASE FetchFourBytes
    BY <1>2, <2>2 DEF FetchFourBytes, Operands
  <2>3. CASE ReadRs1
    BY <1>2, <2>3 DEF ReadRs1, Operands
  <2>4. CASE ReadRs2
    BY <1>2, <2>4 DEF ReadRs2, Operands
  <2>5. CASE Retire
    BY <1>0, <2>5 DEF Retire, Operands
  <2>6. CASE UNCHANGED instrVars
    BY <1>2, <2>6 DEF instrVars, Operands
  <2>. QED
    BY <1>2, <2>1, <2>2, <2>3, <2>4, <2>5, <2>6 DEF InstrNext
<1>. QED
  BY <1>1, <1>2, PTL DEF InstrSpec

\* MUL, MULH, MULHSU, MULHU (_doOP), put together from products of halves, and MULW
\* (_doOP32) are exact for every length of a word, and so are the high words of RV32.
THEOREM InstrProducts == InstrSpec => []ProductsRight
<1>1. Operands => ProductsRight
  BY ProductsOfWords DEF Operands
<1>. QED
  BY <1>1, OperandsAlways, PTL

\* DIV, DIVU, REM, REMU (_doOP) and their 32-bit forms (_doOP32) are right for every
\* length of a word, the zero divisor and the quotient that overflows included.
THEOREM InstrDivisions == InstrSpec => []DivisionsRight
<1>1. Operands => DivisionsRight
  BY DivisionsOfWords DEF Operands
<1>. QED
  BY <1>1, OperandsAlways, PTL

\* The shifts of _doOP, _doOPIMM, _doOP32 and _doOPIMM32 are right for every length of a
\* word and every amount: the masks of C take remainders, and the sign that SRA puts
\* in front bit by bit rounds down.
THEOREM InstrShifts == InstrSpec => []ShiftsRight
<1>1. Operands => ShiftsRight
  BY ShiftsOfWords DEF Operands
<1>. QED
  BY <1>1, OperandsAlways, PTL

\* Comparisons (_doOP), branches (_doBRANCH), jumps (_doJAL, _doJALR), _doAUIPC, the
\* minima and maxima of _doAMO and what _doLOAD loads agree on the two orders for
\* every length of a word.
THEOREM InstrOrder == InstrSpec => []OrderRight
<1>1. Operands => OrderRight
  BY OrderOfWords DEF Operands
<1>. QED
  BY <1>1, OperandsAlways, PTL
=============================================================================
