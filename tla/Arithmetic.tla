------------------------------ MODULE Arithmetic ------------------------------
(* Facts about whole numbers that the proofs share: induction, congruences,   *)
(* quotients and recursively defined functions. Nothing here is about a       *)
(* component.                                                                 *)
EXTENDS Integers, Powers, TLAPS, WellFoundedInduction

-------------------------------------------------------------------------------
(* Induction, over a set instead of a predicate: the least number outside.    *)

LEMMA SetInduction ==
  ASSUME NEW S, 0 \in S, \A n \in Nat : n \in S => n + 1 \in S
  PROVE  Nat \subseteq S
<1> DEFINE T == Nat \ S
<1>1. SUFFICES ASSUME T # {} PROVE FALSE
  OBVIOUS
<1>2. PICK x \in T : \A y \in T : <<y, x>> \notin OpToRel(<, Nat)
  <2>1. T \subseteq Nat
    OBVIOUS
  <2> HIDE DEF T
  <2> QED BY <2>1, <1>1, NatLessThanWellFounded, WFMin
<1>3. x \in Nat /\ x - 1 \in Nat /\ x - 1 < x
  OBVIOUS
<1>4. <<x - 1, x>> \in OpToRel(<, Nat)
  BY <1>3 DEF OpToRel
<1>5. x - 1 \notin T
  BY <1>2, <1>4
<1>6. x - 1 \in S /\ x \notin S
  BY <1>3, <1>5
<1> HIDE DEF T
<1> QED
  BY <1>3, <1>6

LEMMA LeastNumber ==
  ASSUME NEW T, T \subseteq Nat, T # {}
  PROVE  \E a \in T : \A b \in T : a <= b
<1>1. SUFFICES ASSUME \A a \in T : \E b \in T : b < a
               PROVE  FALSE
  OBVIOUS
<1> DEFINE S == {n \in Nat : \A b \in T : n <= b}
<1>2. 0 \in S
  OBVIOUS
<1>3. ASSUME NEW n \in Nat, n \in S
      PROVE  n + 1 \in S
  <2>1. n \notin T
    BY <1>1, <1>3
  <2>2. \A b \in T : n <= b /\ n # b
    BY <1>3, <2>1
  <2> QED BY <2>2
<1>4. Nat \subseteq S
  <2> HIDE DEF S
  <2> QED BY <1>2, <1>3, SetInduction
<1>5. PICK t \in T : TRUE
  OBVIOUS
<1>6. t \in Nat /\ t + 1 \in Nat
  OBVIOUS
<1>7. t + 1 \in S
  <2> HIDE DEF S
  <2> QED BY <1>4, <1>6
<1>8. t + 1 <= t
  BY <1>7
<1> QED
  BY <1>6, <1>8

-------------------------------------------------------------------------------
(* Quotients and remainders.                                                  *)

LEMMA DivMod ==
  ASSUME NEW n \in Nat \ {0}, NEW a \in Int
  PROVE  /\ a \div n \in Int /\ a % n \in 0 .. n - 1 /\ a % n \in Int
         /\ a = n * (a \div n) + (a % n)
  OBVIOUS

LEMMA DivUnique ==
  ASSUME NEW n \in Nat \ {0}, NEW a \in Int, NEW q \in Int, NEW r \in 0 .. n - 1,
         a = n * q + r
  PROVE  a \div n = q /\ a % n = r
<1>1. a = n * (a \div n) + (a % n) /\ a \div n \in Int /\ a % n \in 0 .. n - 1
  BY DivMod
<1> DEFINE d == (a \div n) - q
<1>2. n * d = r - (a % n) /\ d \in Int
  BY <1>1
<1>3. -n < n * d /\ n * d < n
  BY <1>1, <1>2
<1>4. d = 0
  <2>1. ASSUME d >= 1 PROVE FALSE
    <3>1. n * d >= n
      BY <2>1, <1>2
    <3> QED BY <3>1, <1>3
  <2>2. ASSUME d <= -1 PROVE FALSE
    <3>1. n * d <= -n
      BY <2>2, <1>2
    <3> QED BY <3>1, <1>3
  <2> QED BY <2>1, <2>2, <1>2
<1> QED
  BY <1>1, <1>2, <1>4

LEMMA SmallMod ==
  ASSUME NEW n \in Nat \ {0}, NEW a \in 0 .. n - 1
  PROVE  a % n = a /\ a \div n = 0
  BY DivUnique

(* Congruence, as a witness and as an equation.                               *)
LEMMA CongruentIf ==
  ASSUME NEW n \in Nat \ {0}, NEW a \in Int, NEW b \in Int, NEW q \in Int,
         a = b + n * q
  PROVE  a % n = b % n
<1>1. b = n * (b \div n) + (b % n) /\ b \div n \in Int /\ b % n \in 0 .. n - 1
  BY DivMod
<1>2. a = n * ((b \div n) + q) + (b % n)
  BY <1>1
<1>3. (b \div n) + q \in Int
  BY <1>1
<1> QED
  BY <1>1, <1>2, <1>3, DivUnique

LEMMA CongruentOnlyIf ==
  ASSUME NEW n \in Nat \ {0}, NEW a \in Int, NEW b \in Int, a % n = b % n
  PROVE  \E q \in Int : a = b + n * q
<1>1. a = n * (a \div n) + (a % n) /\ b = n * (b \div n) + (b % n)
  BY DivMod
<1>2. a \div n \in Int /\ b \div n \in Int /\ a % n \in Int
  BY DivMod
<1> DEFINE q == (a \div n) - (b \div n)
<1>3. a = b + n * q /\ q \in Int
  BY <1>1, <1>2
<1> HIDE DEF q
<1> QED
  BY <1>3

LEMMA ModAdd ==
  ASSUME NEW n \in Nat \ {0}, NEW a \in Int, NEW b \in Int
  PROVE  /\ ((a % n) + b) % n = (a + b) % n
         /\ (a + (b % n)) % n = (a + b) % n
         /\ ((a % n) + (b % n)) % n = (a + b) % n
<1>1. a = n * (a \div n) + (a % n) /\ b = n * (b \div n) + (b % n)
  BY DivMod
<1>2. a \div n \in Int /\ b \div n \in Int /\ a % n \in Int /\ b % n \in Int
  BY DivMod
<1>3. ((a % n) + b) % n = (a + b) % n
  <2> DEFINE x == a + b
             y == (a % n) + b
             q == a \div n
  <2>1. x = y + n * q /\ x \in Int /\ y \in Int /\ q \in Int
    BY <1>1, <1>2
  <2> HIDE DEF x, y, q
  <2>2. x % n = y % n
    BY <2>1, CongruentIf
  <2> QED BY <2>2 DEF x, y
<1>4. (a + (b % n)) % n = (a + b) % n
  <2> DEFINE x == a + b
             y == a + (b % n)
             q == b \div n
  <2>1. x = y + n * q /\ x \in Int /\ y \in Int /\ q \in Int
    BY <1>1, <1>2
  <2> HIDE DEF x, y, q
  <2>2. x % n = y % n
    BY <2>1, CongruentIf
  <2> QED BY <2>2 DEF x, y
<1>5. ((a % n) + (b % n)) % n = (a + b) % n
  <2> DEFINE x == a + b
             y == (a % n) + (b % n)
             q == (a \div n) + (b \div n)
  <2>1. x = y + n * q /\ x \in Int /\ y \in Int /\ q \in Int
    BY <1>1, <1>2
  <2> HIDE DEF x, y, q
  <2>2. x % n = y % n
    BY <2>1, CongruentIf
  <2> QED BY <2>2 DEF x, y
<1> QED
  BY <1>3, <1>4, <1>5

LEMMA ModMul ==
  ASSUME NEW n \in Nat \ {0}, NEW a \in Int, NEW b \in Int
  PROVE  /\ ((a % n) * b) % n = (a * b) % n
         /\ (a * (b % n)) % n = (a * b) % n
<1>1. a = n * (a \div n) + (a % n) /\ b = n * (b \div n) + (b % n)
  BY DivMod
<1>2. a \div n \in Int /\ b \div n \in Int /\ a % n \in Int /\ b % n \in Int
  BY DivMod
<1>3. a * b = (a % n) * b + n * ((a \div n) * b)
  <2>1. a * b = (n * (a \div n) + (a % n)) * b
    BY <1>1
  <2>2. (n * (a \div n) + (a % n)) * b = (a % n) * b + n * ((a \div n) * b)
    BY <1>2, SMT
  <2> QED BY <2>1, <2>2
<1>4. a * b = a * (b % n) + n * ((b \div n) * a)
  <2>1. a * b = a * (n * (b \div n) + (b % n))
    BY <1>1
  <2>2. a * (n * (b \div n) + (b % n)) = a * (b % n) + n * ((b \div n) * a)
    BY <1>2, SMT
  <2> QED BY <2>1, <2>2
<1>5. /\ a * b \in Int /\ (a % n) * b \in Int /\ a * (b % n) \in Int
      /\ (a \div n) * b \in Int /\ (b \div n) * a \in Int
  BY <1>2
<1>6. ((a % n) * b) % n = (a * b) % n
  BY <1>3, <1>5, CongruentIf
<1>7. (a * (b % n)) % n = (a * b) % n
  BY <1>4, <1>5, CongruentIf
<1> QED
  BY <1>6, <1>7

LEMMA ProductType ==
  ASSUME NEW a \in Int, NEW b \in Int
  PROVE  a * b \in Int
  OBVIOUS

LEMMA MulAssoc ==
  ASSUME NEW a \in Int, NEW b \in Int, NEW c \in Int
  PROVE  a * (b * c) = (a * b) * c /\ a * b = b * a
  OBVIOUS

(* Equal residues stay equal when multiplied.                                 *)
LEMMA ModScale ==
  ASSUME NEW n \in Nat \ {0}, NEW a \in Int, NEW b \in Int, NEW c \in Int, a % n = b % n
  PROVE  (c * a) % n = (c * b) % n
<1>1. (c * a) % n = (c * (a % n)) % n
  BY ModMul
<1>2. (c * b) % n = (c * (b % n)) % n
  BY ModMul
<1> QED
  BY <1>1, <1>2

LEMMA ModUnit ==
  ASSUME NEW n \in Nat \ {0}, NEW u \in Int, NEW v \in Int, v % n = 1
  PROVE  (u * v) % n = u % n /\ (v * u) % n = u % n
<1>1. (u * v) % n = (u * (v % n)) % n
  BY ModMul
<1>2. u * 1 = u /\ v * u = u * v
  OBVIOUS
<1> QED
  BY <1>1, <1>2

LEMMA ModNegate ==
  ASSUME NEW n \in Nat \ {0}, NEW a \in Int, NEW b \in Int, a % n = b % n
  PROVE  (-a) % n = (-b) % n
<1>1. PICK q \in Int : a = b + n * q
  BY CongruentOnlyIf
<1> DEFINE x == -a
           y == -b
           p == -q
<1>2. x = y + n * p /\ x \in Int /\ y \in Int /\ p \in Int
  BY <1>1
<1> HIDE DEF x, y, p
<1>3. x % n = y % n
  BY <1>2, CongruentIf
<1> QED
  BY <1>3 DEF x, y

(* What is added to a residue other than 0 to make n is its opposite.         *)
LEMMA ModOpposite ==
  ASSUME NEW n \in Nat \ {0}, NEW a \in Int
  PROVE  /\ (-a) % n = (n - (a % n)) % n
         /\ (-a) % n = IF a % n = 0 THEN 0 ELSE n - (a % n)
<1>1. a = n * (a \div n) + (a % n) /\ a \div n \in Int /\ a % n \in 0 .. n - 1
  BY DivMod
<1> DEFINE x == -a
           y == n - (a % n)
           q == -(a \div n) - 1
           p == -(a \div n)
           z == 0
<1>2. x = y + n * q /\ x \in Int /\ y \in Int /\ q \in Int /\ p \in Int
  BY <1>1
<1>3. z \in 0 .. n - 1 /\ (a % n = 0 => x = n * p + z)
  BY <1>1
<1>4. a % n # 0 => x = n * q + y /\ y \in 0 .. n - 1
  BY <1>1, <1>2
<1> HIDE DEF x, y, q, p, z
<1>5. x % n = y % n
  BY <1>2, CongruentIf
<1>6. a % n = 0 => x % n = z
  BY <1>2, <1>3, DivUnique
<1>7. a % n # 0 => x % n = y
  BY <1>2, <1>4, DivUnique
<1> QED
  BY <1>5, <1>6, <1>7 DEF x, y, z

(* In a group of prime order nothing but 0 divides 0.                         *)
LEMMA NoZeroDivisors ==
  ASSUME NEW n \in Nat \ {0}, NEW a \in Int, NEW b \in 0 .. n - 1, NEW i \in Int,
         (i * a) % n = 1, (a * b) % n = 0
  PROVE  b = 0
<1> DEFINE v == i * a
           w == a * b
<1>1. v \in Int /\ w \in Int /\ b \in Int /\ i * w = v * b
  BY SMT
<1>2. (v * b) % n = b
  <2> HIDE DEF v
  <2>1. (v * b) % n = b % n
    BY <1>1, ModUnit DEF v
  <2> QED BY <2>1, SmallMod
<1>3. (i * w) % n = 0
  <2>1. w % n = 0
    OBVIOUS
  <2> HIDE DEF w
  <2>2. (i * w) % n = (i * (w % n)) % n
    BY <1>1, ModMul
  <2>3. i * 0 = 0 /\ 0 % n = 0
    BY SmallMod
  <2> QED BY <2>1, <2>2, <2>3
<1> HIDE DEF v, w
<1> QED
  BY <1>1, <1>2, <1>3

-------------------------------------------------------------------------------
(* The equation of a signature: k is the nonce, i its inverse, e the hash     *)
(* plus r times the key, s = i * e, and j the inverse of s.                   *)

LEMMA NonceRecovered ==
  ASSUME NEW n \in Nat \ {0}, NEW k \in 0 .. n - 1, NEW i \in Int, NEW j \in Int,
         NEW e \in Int,
         (i * k) % n = 1, (j * ((i * e) % n)) % n = 1
  PROVE  (j * e) % n = k
<1> DEFINE t == i * e
           p == j * t
           u == j * e
           v == i * k
<1>1. t \in Int /\ p \in Int /\ u \in Int /\ v \in Int /\ k \in Int
  BY ProductType
<1>2. k * p = u * v
  BY SMT
<1>3. p % n = 1
  <2>1. (j * (t % n)) % n = 1
    OBVIOUS
  <2> HIDE DEF t
  <2>2. (j * (t % n)) % n = (j * t) % n
    BY <1>1, ModMul
  <2> QED BY <2>1, <2>2
<1>4. v % n = 1
  OBVIOUS
<1> HIDE DEF t, p, u, v
<1>5. (k * p) % n = k % n
  BY <1>1, <1>3, ModUnit
<1>6. (u * v) % n = u % n
  BY <1>1, <1>4, ModUnit
<1> QED
  BY <1>2, <1>5, <1>6, SmallMod DEF u

IsInverse(n, j, s) == (j * s) % n = 1

LEMMA NegatedInverse ==
  ASSUME NEW n \in Nat \ {0}, NEW s \in Int, NEW t \in Int, t = n - s,
         NEW j \in Int, NEW jj \in Int, IsInverse(n, j, s), IsInverse(n, jj, t)
  PROVE  (-j) % n = jj % n
<1> DEFINE b == jj * t
           d == j * s
           m == jj * d
           q == jj * j
<1>1. /\ b \in Int /\ d \in Int /\ m \in Int /\ q \in Int
      /\ j * b \in Int /\ -m \in Int
  BY ProductType
<1>2. j * b = -m + n * q
  <2>1. j * (jj * (n - s)) = -(jj * (j * s)) + n * (jj * j)
    BY SMT
  <2> QED BY <2>1
<1>3. b % n = 1 /\ d % n = 1
  BY DEF IsInverse
<1>4. m = jj * d
  OBVIOUS
<1> HIDE DEF b, d, m, q
<1>5. m % n = jj % n
  BY <1>1, <1>3, <1>4, ModUnit
<1>6. (j * b) % n = j % n
  BY <1>1, <1>3, ModUnit
<1> DEFINE x == j * b
           y == -m
<1>7. x = y + n * q /\ x \in Int /\ y \in Int /\ q \in Int /\ x % n = j % n
  BY <1>1, <1>2, <1>6
<1> HIDE DEF x, y
<1>8. x % n = y % n
  BY <1>7, CongruentIf
<1>9. (-j) % n = (-y) % n
  BY <1>7, <1>8, ModNegate
<1>10. -y = m
  BY <1>1 DEF y
<1> QED
  BY <1>5, <1>9, <1>10

-------------------------------------------------------------------------------
(* Functions whose values are made one from another, and the powers of 2.     *)

(* A value of V for every number from 1 and value before it.                  *)
Makes(g, V) == g \in [(Nat \ {0}) \X V -> V]

(* What f is when its values are made one from another.                       *)
Builds(f, n, base, g) == f[0] = base /\ \A i \in 1 .. n : f[i] = g[<<i, f[i - 1]>>]

LEMMA Built ==
  ASSUME NEW n \in Nat, NEW V, NEW base \in V, NEW g, Makes(g, V)
  PROVE  \E f \in [0 .. n -> V] : Builds(f, n, base, g)
<1> DEFINE S == {m \in Nat : \E f \in [0 .. m -> V] : Builds(f, m, base, g)}
<1>1. 0 \in S
  <2> DEFINE f == [i \in 0 .. 0 |-> base]
  <2>1. f \in [0 .. 0 -> V] /\ Builds(f, 0, base, g)
    BY DEF Builds
  <2> HIDE DEF f
  <2> QED BY <2>1
<1>2. ASSUME NEW m \in Nat, m \in S
      PROVE  m + 1 \in S
  <2>1. PICK f \in [0 .. m -> V] : Builds(f, m, base, g)
    BY <1>2
  <2> DEFINE v == g[<<m + 1, f[m]>>]
             h == [i \in 0 .. m + 1 |-> IF i = m + 1 THEN v ELSE f[i]]
  <2>2. v \in V
    <3>1. f[m] \in V /\ m + 1 \in Nat \ {0}
      OBVIOUS
    <3> QED BY <3>1 DEF Makes
  <2>3. f[0] = base /\ \A i \in 1 .. m : f[i] = g[<<i, f[i - 1]>>]
    BY <2>1 DEF Builds
  <2>4. h \in [0 .. m + 1 -> V] /\ h[0] = base
    BY <2>2, <2>3
  <2>5. ASSUME NEW i \in 1 .. m + 1
        PROVE  h[i] = g[<<i, h[i - 1]>>]
    <3>1. CASE i = m + 1
      <4>1. h[i - 1] = f[m] /\ h[i] = v
        BY <3>1
      <4> QED BY <3>1, <4>1
    <3>2. CASE i \in 1 .. m
      <4>1. h[i - 1] = f[i - 1] /\ h[i] = f[i]
        BY <3>2
      <4> QED BY <3>2, <4>1, <2>3
    <3> QED BY <3>1, <3>2
  <2> HIDE DEF h
  <2>6. Builds(h, m + 1, base, g)
    BY <2>4, <2>5 DEF Builds
  <2> QED BY <2>4, <2>6
<1> HIDE DEF S
<1>3. n \in S
  BY <1>1, <1>2, SetInduction
<1> QED
  BY <1>3 DEF S

LEMMA BuiltOnce ==
  ASSUME NEW n \in Nat, NEW m \in 0 .. n, NEW base, NEW g, NEW f, NEW h,
         Builds(f, n, base, g), Builds(h, m, base, g)
  PROVE  f[m] = h[m]
<1> DEFINE S == {i \in Nat : i <= m => f[i] = h[i]}
<1>1. 0 \in S
  BY DEF Builds
<1>2. ASSUME NEW i \in Nat, i \in S
      PROVE  i + 1 \in S
  <2>1. CASE i + 1 <= m
    <3>1. i + 1 \in 1 .. m /\ i + 1 \in 1 .. n /\ (i + 1) - 1 = i /\ f[i] = h[i]
      BY <1>2, <2>1
    <3>2. f[i + 1] = g[<<i + 1, f[i]>>] /\ h[i + 1] = g[<<i + 1, h[i]>>]
      BY <3>1 DEF Builds
    <3> QED BY <3>1, <3>2
  <2>2. CASE ~(i + 1 <= m)
    BY <2>2
  <2> QED BY <2>1, <2>2
<1> HIDE DEF S
<1>3. m \in S
  BY <1>1, <1>2, SetInduction
<1> QED
  BY <1>3 DEF S

LEMMA BuiltForever ==
  ASSUME NEW V, NEW base \in V, NEW g, Makes(g, V)
  PROVE  \E f \in [Nat -> V] : f[0] = base /\ \A i \in Nat : f[i + 1] = g[<<i + 1, f[i]>>]
<1> DEFINE upto(n) == CHOOSE f \in [0 .. n -> V] : Builds(f, n, base, g)
           F == [n \in Nat |-> upto(n)[n]]
<1>1. \A n \in Nat : upto(n) \in [0 .. n -> V] /\ Builds(upto(n), n, base, g)
  BY Built
<1> HIDE DEF upto
<1>2. ASSUME NEW n \in Nat
      PROVE  upto(n + 1)[n] = upto(n)[n]
  <2>1. n + 1 \in Nat /\ n \in 0 .. n + 1
    OBVIOUS
  <2> QED BY <1>1, <2>1, BuiltOnce
<1>3. ASSUME NEW n \in Nat
      PROVE  F[n + 1] = g[<<n + 1, F[n]>>]
  <2>1. n + 1 \in Nat /\ n + 1 \in 1 .. n + 1 /\ (n + 1) - 1 = n
    OBVIOUS
  <2>2. upto(n + 1)[n + 1] = g[<<n + 1, upto(n + 1)[n]>>]
    BY <1>1, <2>1 DEF Builds
  <2> QED BY <2>1, <2>2, <1>2
<1>4. F \in [Nat -> V]
  <2>1. ASSUME NEW n \in Nat PROVE upto(n)[n] \in V
    BY <1>1
  <2> QED BY <2>1
<1>5. F[0] = base
  BY <1>1 DEF Builds
<1> HIDE DEF F
<1> QED
  BY <1>3, <1>4, <1>5

(* The powers of 2.                                                           *)
LEMMA Pow2Def ==
  /\ Pow2 \in [Nat -> Nat \ {0}]
  /\ Pow2[0] = 1
  /\ \A n \in Nat : Pow2[n + 1] = 2 * Pow2[n]
<1> DEFINE V == Nat \ {0}
           g == [p \in (Nat \ {0}) \X V |-> 2 * p[2]]
           Body(f) == [n \in Nat |-> IF n = 0 THEN 1 ELSE 2 * f[n - 1]]
<1>1. g \in [(Nat \ {0}) \X V -> V] /\ \A i \in Nat \ {0}, v \in V : g[<<i, v>>] = 2 * v
  OBVIOUS
<1>2. 1 \in V
  OBVIOUS
<1>0. V \subseteq Nat \ {0}
  OBVIOUS
<1> HIDE DEF g, V
<1>3. \E f \in [Nat -> V] : f[0] = 1 /\ \A i \in Nat : f[i + 1] = g[<<i + 1, f[i]>>]
  <2>1. Makes(g, V)
    BY <1>1 DEF Makes
  <2> DEFINE one == 1
  <2>2. one \in V
    BY <1>2
  <2> HIDE DEF one
  <2>3. \E f \in [Nat -> V] : f[0] = one /\ \A i \in Nat : f[i + 1] = g[<<i + 1, f[i]>>]
    BY <2>1, <2>2, BuiltForever
  <2> QED BY <2>3 DEF one
<1> PICK w \in [Nat -> V] : w[0] = 1 /\ \A i \in Nat : w[i + 1] = g[<<i + 1, w[i]>>]
  BY <1>3
<1>4. ASSUME NEW i \in Nat PROVE w[i + 1] = 2 * w[i]
  <2>1. i + 1 \in Nat \ {0} /\ w[i] \in V
    OBVIOUS
  <2> QED BY <2>1, <1>1
<1>5. w = Body(w)
  <2>0. w[0] = 1
    OBVIOUS
  <2>1. ASSUME NEW n \in Nat PROVE w[n] = IF n = 0 THEN 1 ELSE 2 * w[n - 1]
    <3>1. CASE n # 0
      <4>1. n - 1 \in Nat /\ (n - 1) + 1 = n
        BY <3>1
      <4> QED BY <3>1, <4>1, <1>4
    <3> QED BY <3>1, <2>0
  <2> QED BY <2>1
<1>6. Pow2 = CHOOSE f : f = Body(f)
  BY DEF Pow2
<1>7. Pow2 = Body(Pow2)
  <2> HIDE DEF Body
  <2> QED BY <1>5, <1>6
<1>8. \A n \in Nat : Pow2[n] = IF n = 0 THEN 1 ELSE 2 * Pow2[n - 1]
  BY <1>7
<1>9. Pow2[0] = 1 /\ \A n \in Nat : Pow2[n + 1] = 2 * Pow2[n]
  <2>1. \A n \in Nat : n + 1 \in Nat /\ n + 1 # 0 /\ (n + 1) - 1 = n
    OBVIOUS
  <2> QED BY <2>1, <1>8
<1>10. \A n \in Nat : Pow2[n] \in Nat \ {0}
  <2> DEFINE S == {n \in Nat : Pow2[n] \in Nat \ {0}}
  <2>1. 0 \in S
    BY <1>9
  <2>2. \A n \in Nat : n \in S => n + 1 \in S
    BY <1>9
  <2> HIDE DEF S
  <2>3. Nat \subseteq S
    BY <2>1, <2>2, SetInduction
  <2> QED BY <2>3 DEF S
<1>11. Pow2 \in [Nat -> Nat \ {0}]
  <2>1. Pow2 = [n \in Nat |-> Pow2[n]]
    BY <1>7
  <2> QED BY <2>1, <1>10
<1> QED
  BY <1>9, <1>11

LEMMA Pow2Type ==
  ASSUME NEW n \in Nat
  PROVE  Pow2[n] \in Nat /\ Pow2[n] \in Int /\ Pow2[n] >= 1 /\ Pow2[n] \in Nat \ {0}
  BY Pow2Def

LEMMA Pow2Add ==
  ASSUME NEW a \in Nat, NEW b \in Nat
  PROVE  Pow2[a + b] = Pow2[a] * Pow2[b]
<1> DEFINE S == {n \in Nat : Pow2[a + n] = Pow2[a] * Pow2[n]}
<1>1. 0 \in S
  <2>1. a + 0 = a /\ Pow2[a] * 1 = Pow2[a]
    BY Pow2Type
  <2> QED BY <2>1, Pow2Def
<1>2. ASSUME NEW n \in Nat, n \in S
      PROVE  n + 1 \in S
  <2> DEFINE x == Pow2[a]
             y == Pow2[n]
  <2>1. x \in Int /\ y \in Int
    BY Pow2Type
  <2>2. a + n \in Nat /\ a + (n + 1) = (a + n) + 1
    OBVIOUS
  <2>3. Pow2[a + (n + 1)] = 2 * Pow2[a + n] /\ Pow2[n + 1] = 2 * y
    BY <2>2, Pow2Def
  <2>4. Pow2[a + n] = x * y
    BY <1>2
  <2> HIDE DEF x, y
  <2>5. 2 * (x * y) = x * (2 * y)
    BY <2>1
  <2>6. Pow2[a + (n + 1)] = x * Pow2[n + 1]
    BY <2>3, <2>4, <2>5
  <2> QED BY <2>6 DEF x
<1> HIDE DEF S
<1>3. b \in S
  BY <1>1, <1>2, SetInduction
<1> QED
  BY <1>3 DEF S

LEMMA Pow2Grows ==
  ASSUME NEW a \in Nat, NEW b \in Nat, a < b
  PROVE  2 * Pow2[a] <= Pow2[b]
<1> DEFINE c == b - (a + 1)
           x == Pow2[a]
           y == Pow2[c]
<1>1. c \in Nat /\ a + 1 \in Nat /\ (a + 1) + c = b
  OBVIOUS
<1>2. Pow2[(a + 1) + c] = Pow2[a + 1] * y
  <2> HIDE DEF c
  <2> QED BY <1>1, Pow2Add
<1>3. Pow2[a + 1] = 2 * x /\ Pow2[b] = Pow2[a + 1] * y
  BY <1>1, <1>2, Pow2Def
<1>4. x \in Nat /\ y \in Nat /\ y >= 1
  <2> HIDE DEF c
  <2> QED BY <1>1, Pow2Type
<1>5. Pow2[b] = (2 * x) * y
  BY <1>3
<1> HIDE DEF x, y
<1>6. (2 * x) * y >= 2 * x
  <2>1. y = 1 + (y - 1) /\ y - 1 \in Nat
    BY <1>4
  <2>2. (2 * x) * y = 2 * x + (2 * x) * (y - 1)
    BY <1>4, <2>1
  <2>3. (2 * x) * (y - 1) >= 0
    BY <1>4, <2>1
  <2>4. (2 * x) * (y - 1) \in Int /\ (2 * x) * y \in Int
    BY <1>4
  <2> QED BY <2>2, <2>3, <2>4, <1>4
<1> QED
  BY <1>5, <1>6 DEF x

LEMMA Pow2Above ==
  ASSUME NEW n \in Nat
  PROVE  n < Pow2[n]
<1> DEFINE S == {m \in Nat : m < Pow2[m]}
<1>1. 0 \in S
  BY Pow2Def
<1>2. ASSUME NEW m \in Nat, m \in S
      PROVE  m + 1 \in S
  <2>1. Pow2[m + 1] = 2 * Pow2[m] /\ Pow2[m] \in Nat /\ m < Pow2[m]
    BY <1>2, Pow2Def
  <2> QED BY <2>1
<1> HIDE DEF S
<1>3. n \in S
  BY <1>1, <1>2, SetInduction
<1> QED
  BY <1>3 DEF S

(* The number of bits of a number.                                            *)
HasBits(n, b) == n < Pow2[b] /\ (b = 0 \/ Pow2[b - 1] <= n)

LEMMA BitsExist ==
  ASSUME NEW n \in Nat
  PROVE  \E b \in 0 .. n : HasBits(n, b)
<1> DEFINE S == {m \in Nat : ~(n < Pow2[m])}
<1>1. SUFFICES ASSUME \A b \in 0 .. n : ~HasBits(n, b)
               PROVE  FALSE
  OBVIOUS
<1>2. ASSUME NEW m \in Nat, m <= n => m \in S
      PROVE  m + 1 <= n => m + 1 \in S
  <2>1. SUFFICES ASSUME m + 1 <= n, n < Pow2[m + 1] PROVE FALSE
    OBVIOUS
  <2>2. m + 1 \in 0 .. n /\ m + 1 # 0 /\ (m + 1) - 1 = m /\ m \in S
    BY <1>2, <2>1
  <2>3. ~(n < Pow2[m]) /\ Pow2[m] \in Int
    BY <2>2, Pow2Type
  <2>4. HasBits(n, m + 1)
    BY <2>1, <2>2, <2>3 DEF HasBits
  <2> QED BY <1>1, <2>2, <2>4
<1>3. 0 <= n => 0 \in S
  BY <1>1 DEF HasBits
<1> DEFINE T == {m \in Nat : m <= n => m \in S}
<1>4. 0 \in T /\ \A m \in Nat : m \in T => m + 1 \in T
  BY <1>2, <1>3
<1> HIDE DEF T
<1>5. n \in T
  BY <1>4, SetInduction
<1>6. ~(n < Pow2[n])
  BY <1>5 DEF T
<1> QED
  BY <1>6, Pow2Above

LEMMA BitsOnce ==
  ASSUME NEW n \in Nat, NEW a \in Nat, NEW b \in Nat, HasBits(n, a), HasBits(n, b)
  PROVE  a = b
<1>1. ASSUME NEW c \in Nat, NEW d \in Nat, HasBits(n, c), HasBits(n, d), c < d
      PROVE  FALSE
  <2>1. d - 1 \in Nat /\ d # 0
    BY <1>1
  <2>2. Pow2[d - 1] <= n /\ n < Pow2[c]
    BY <1>1, <2>1 DEF HasBits
  <2>3. Pow2[c] <= Pow2[d - 1]
    <3>1. CASE c = d - 1
      BY <3>1, Pow2Type
    <3>2. CASE c < d - 1
      <4> DEFINE e == d - 1
      <4>1. e \in Nat /\ c < e
        BY <3>2, <2>1
      <4> HIDE DEF e
      <4>2. 2 * Pow2[c] <= Pow2[e] /\ Pow2[c] \in Nat /\ Pow2[e] \in Nat
        BY <4>1, Pow2Grows, Pow2Type
      <4>3. Pow2[c] <= Pow2[e]
        BY <4>2
      <4> QED BY <4>3 DEF e
    <3> QED BY <3>1, <3>2, <1>1
  <2>4. Pow2[c] \in Int /\ Pow2[d - 1] \in Int
    BY <2>1, Pow2Type
  <2> QED BY <2>2, <2>3, <2>4
<1>2. a < b \/ b < a \/ a = b
  OBVIOUS
<1> QED
  BY <1>1, <1>2

(* One quotient of another is a quotient.                                     *)
LEMMA DivDiv ==
  ASSUME NEW n \in Nat \ {0}, NEW m \in Nat \ {0}, NEW a \in Int
  PROVE  (a \div n) \div m = a \div (n * m)
<1> DEFINE q == a \div n
           r == a % n
           p == q \div m
           t == q % m
           k == n * m
           u == n * t + r
<1>1. a = n * q + r /\ q \in Int /\ r \in 0 .. n - 1
  BY DivMod
<1> HIDE DEF q, r
<1>2. q = m * p + t /\ p \in Int /\ t \in 0 .. m - 1
  BY <1>1, DivMod
<1> HIDE DEF p, t
<1>3. k \in Nat \ {0}
  BY SMT
<1>4. a = k * p + u
  <2>1. n * (m * p + t) + r = (n * m) * p + (n * t + r)
    BY <1>1, <1>2, SMT
  <2> QED BY <2>1, <1>1, <1>2
<1>5. u \in 0 .. k - 1
  <2>1. t >= 0 /\ t <= m - 1 /\ r >= 0 /\ r <= n - 1 /\ t \in Int /\ r \in Int
    BY <1>1, <1>2
  <2>2. n * t >= 0 /\ n * t <= n * (m - 1) /\ n * t \in Int
    <3>1. n * (m - 1) - n * t = n * ((m - 1) - t) /\ n * ((m - 1) - t) >= 0
      BY <2>1, SMT
    <3> QED BY <2>1, <3>1, SMT
  <2>3. n * (m - 1) + (n - 1) = n * m - 1
    BY SMT
  <2> QED BY <2>1, <2>2, <2>3, SMT
<1> HIDE DEF k, u
<1>6. a \div k = p
  BY <1>2, <1>3, <1>4, <1>5, DivUnique
<1> QED
  BY <1>6 DEF k, p, q
===============================================================================
