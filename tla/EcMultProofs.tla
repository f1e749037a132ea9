----------------------------- MODULE EcMultProofs ------------------------------
(* Proofs about EcMult, for every order of the group, every set of calls and  *)
(* every choice of windows and blocks.                                        *)
EXTENDS EcMultProps, Arithmetic, FiniteSetTheorems

-------------------------------------------------------------------------------
(* Bits and windows.                                                          *)

Abs(s) == IF s < 0 THEN -s ELSE s

LEMMA NumBits ==
  ASSUME NEW s \in Int
  PROVE  BN_num_bits(s) \in Nat /\ HasBits(Abs(s), BN_num_bits(s))
<1>1. Abs(s) \in Nat
  BY DEF Abs
<1>2. BN_num_bits(s) = CHOOSE b \in 0 .. Abs(s) : HasBits(Abs(s), b)
  BY DEF BN_num_bits, HasBits, Abs
<1>3. \E b \in 0 .. Abs(s) : HasBits(Abs(s), b)
  BY <1>1, BitsExist
<1>4. BN_num_bits(s) \in 0 .. Abs(s) /\ HasBits(Abs(s), BN_num_bits(s))
  BY <1>2, <1>3
<1> QED
  BY <1>1, <1>4

LEMMA WindowType ==
  ASSUME NEW b \in Nat
  PROVE  EC_window_bits(b) \in Nat \ {0}
<1> DEFINE T == {t \in Thresholds : b >= t}
<1>1. T \subseteq 0 .. b
  <2>1. Thresholds \subseteq Nat
    BY ParametersAssumption
  <2>2. \A t \in Nat : b >= t => t \in 0 .. b
    OBVIOUS
  <2> QED BY <2>1, <2>2
<1> HIDE DEF T
<1>2. IsFiniteSet(T)
  <2>1. 0 \in Int /\ b \in Int
    OBVIOUS
  <2>2. IsFiniteSet(0 .. b)
    BY <2>1, FS_Interval
  <2> QED BY <1>1, <2>2, FS_Subset
<1>3. Cardinality(T) \in Nat
  BY <1>2, FS_CardinalityType
<1> QED
  BY <1>3 DEF EC_window_bits, T

(* The digit taken from a window is odd or zero, and what it leaves is even    *)
(* and has one bit at most (ec_mult.c:248-287).                               *)
LEMMA DigitTaken ==
  ASSUME NEW w \in Nat \ {0}, NEW j \in Nat, NEW len \in Nat, NEW v \in 0 .. Pow2[w + 1],
         NEW d, d = DigitOf(v, w, j, len)
  PROVE  /\ d \in Int /\ (v - d) % 2 = 0 /\ (d = 0 <=> v % 2 = 0)
         /\ d # 0 => d % 2 = 1 /\ d < Pow2[w] /\ d > -Pow2[w]
         /\ v - d \in 0 .. Pow2[w + 1]
         /\ d # 0 => \/ v - d \in {0, Pow2[w + 1]}
                     \/ v - d = Pow2[w] /\ j + w + 1 >= len
         /\ j + w + 1 >= len => d >= 0
<1> DEFINE p == Pow2[w]
           q == Pow2[w - 1]
<1>1. /\ p \in Nat /\ q \in Nat /\ q >= 1 /\ p = 2 * q /\ Pow2[w + 1] = 2 * p
  <2>1. w - 1 \in Nat /\ (w - 1) + 1 = w
    OBVIOUS
  <2>2. Pow2[(w - 1) + 1] = 2 * Pow2[w - 1] /\ Pow2[w + 1] = 2 * Pow2[w]
    BY <2>1, Pow2Def
  <2> QED BY <2>1, <2>2, Pow2Type
<1> HIDE DEF p, q
<1>2. v \in 0 .. 2 * p
  BY <1>1
<1>3. d = IF v % 2 = 0 THEN 0
          ELSE IF v >= p THEN (IF j + w + 1 >= len THEN v % p ELSE v - 2 * p)
          ELSE v
  BY <1>1 DEF DigitOf, TopDigit, p
<1>4. v >= p /\ v # 2 * p => v % p = v - p
  <2> SUFFICES ASSUME v >= p, v # 2 * p PROVE v % p = v - p
    OBVIOUS
  <2> DEFINE x == v - p
             one == 1
  <2>1. v = p * one + x /\ x \in 0 .. p - 1 /\ p \in Nat \ {0} /\ v \in Int /\ one \in Int
    BY <1>1, <1>2
  <2> HIDE DEF x, one
  <2>2. v % p = x
    BY <2>1, DivUnique
  <2> QED BY <2>2 DEF x
<1>5. CASE v % 2 = 0
  BY <1>1, <1>2, <1>3, <1>5 DEF p
<1>6. CASE v % 2 # 0 /\ v < p
  BY <1>1, <1>2, <1>3, <1>6 DEF p
<1>7. CASE v % 2 # 0 /\ v >= p /\ j + w + 1 >= len
  <2>1. d = v - p
    BY <1>1, <1>2, <1>3, <1>4, <1>7
  <2> QED BY <1>1, <1>2, <1>7, <2>1 DEF p
<1>8. CASE v % 2 # 0 /\ v >= p /\ ~(j + w + 1 >= len)
  <2>1. d = v - 2 * p
    BY <1>1, <1>2, <1>3, <1>8
  <2> QED BY <1>1, <1>2, <1>8, <2>1 DEF p
<1> QED
  BY <1>5, <1>6, <1>7, <1>8, <1>1, <1>2

(* The recursion of the windows.                                              *)
NextWindow(n, w, len, j, val) ==
  (val - DigitOf(val, w, j - 1, len)) \div 2 + Pow2[w] * ((n \div Pow2[j + w]) % 2)

LEMMA NextWindowType ==
  ASSUME NEW n \in Nat, NEW w \in Nat \ {0}, NEW len \in Nat, NEW j \in Nat \ {0}, NEW val \in Int
  PROVE  NextWindow(n, w, len, j, val) \in Int
<1> DEFINE d == DigitOf(val, w, j - 1, len)
           x == (val - d) \div 2
           y == (n \div Pow2[j + w]) % 2
<1>1. Pow2[w] \in Nat \ {0} /\ Pow2[w + 1] \in Nat \ {0} /\ Pow2[j + w] \in Nat \ {0}
  <2>1. w \in Nat /\ w + 1 \in Nat /\ j + w \in Nat
    OBVIOUS
  <2> QED BY <2>1, Pow2Type
<1>2. d \in Int
  <2>1. val % Pow2[w] \in Int
    BY <1>1, DivMod
  <2>2. val - Pow2[w + 1] \in Int
    BY <1>1
  <2> QED BY <2>1, <2>2 DEF DigitOf, TopDigit
<1>3. x \in Int
  BY <1>2
<1>4. y \in Int
  <2> DEFINE m == Pow2[j + w]
             z == n \div m
  <2>1. m \in Nat \ {0} /\ n \in Int
    BY <1>1
  <2>2. z \in Int
    <3> HIDE DEF m
    <3> QED BY <2>1, DivMod
  <2> HIDE DEF z
  <2>3. z % 2 \in Int
    BY <2>2
  <2> QED BY <2>3 DEF z
<1>5. NextWindow(n, w, len, j, val) = x + Pow2[w] * y
  BY DEF NextWindow
<1> HIDE DEF x, y
<1> QED
  BY <1>1, <1>3, <1>4, <1>5

LEMMA WindowsAre ==
  ASSUME NEW n \in Nat, NEW w \in Nat \ {0}, NEW len \in Nat
  PROVE  /\ Windows(n, w, len)[0] = n % Pow2[w + 1]
         /\ \A j \in 1 .. len + 1 :
              Windows(n, w, len)[j] = NextWindow(n, w, len, j, Windows(n, w, len)[j - 1])
<1> DEFINE Body(f) == [j \in 0 .. len + 1 |->
                         IF j = 0 THEN n % Pow2[w + 1]
                         ELSE NextWindow(n, w, len, j, f[j - 1])]
           W == CHOOSE f : f = Body(f)
           g == [p \in (Nat \ {0}) \X Int |-> NextWindow(n, w, len, p[1], p[2])]
           base == n % Pow2[w + 1]
           top == len + 1
<1>1. Windows(n, w, len) = W
  BY DEF Windows, NextWindow
<1>2. Makes(g, Int)
  <2>1. \A p \in (Nat \ {0}) \X Int : NextWindow(n, w, len, p[1], p[2]) \in Int
    BY NextWindowType
  <2> QED BY <2>1 DEF Makes
<1>3. \A j \in Nat \ {0}, val \in Int : g[<<j, val>>] = NextWindow(n, w, len, j, val)
  OBVIOUS
<1>4. base \in Int /\ top \in Nat
  <2>1. w + 1 \in Nat
    OBVIOUS
  <2>2. Pow2[w + 1] \in Nat \ {0}
    BY <2>1, Pow2Type
  <2> DEFINE m == Pow2[w + 1]
  <2>3. m \in Nat \ {0} /\ n \in Int
    BY <2>2
  <2>4. n % m \in Int
    <3> HIDE DEF m
    <3> QED BY <2>3, DivMod
  <2> QED BY <2>4
<1> HIDE DEF g, base
<1>5. PICK f \in [0 .. top -> Int] : Builds(f, top, base, g)
  <2> HIDE DEF top
  <2> QED BY <1>2, <1>4, Built
<1>6. f = Body(f)
  <2>1. ASSUME NEW j \in 0 .. len + 1
        PROVE  f[j] = IF j = 0 THEN n % Pow2[w + 1] ELSE NextWindow(n, w, len, j, f[j - 1])
    <3>1. CASE j = 0
      BY <3>1, <1>5 DEF Builds, base
    <3>2. CASE j # 0
      <4>1. j \in 1 .. top /\ j \in Nat \ {0} /\ f[j - 1] \in Int
        BY <3>2
      <4>2. f[j] = g[<<j, f[j - 1]>>]
        BY <4>1, <1>5 DEF Builds
      <4> QED BY <3>2, <4>1, <4>2, <1>3
    <3> QED BY <3>1, <3>2
  <2> QED BY <2>1
<1>7. W = Body(W)
  <2> HIDE DEF Body
  <2> QED BY <1>6
<1> HIDE DEF W
<1>8. \A j \in 0 .. len + 1 :
        W[j] = IF j = 0 THEN n % Pow2[w + 1] ELSE NextWindow(n, w, len, j, W[j - 1])
  BY <1>7
<1> QED
  BY <1>1, <1>8

(* The bits of n from m on.                                                   *)
LEMMA BitsFrom ==
  ASSUME NEW n \in Nat, NEW m \in Nat
  PROVE  /\ n \div Pow2[m] \in Nat /\ (n \div Pow2[m]) % 2 \in {0, 1}
         /\ n \div Pow2[m] = 2 * (n \div Pow2[m + 1]) + ((n \div Pow2[m]) % 2)
         /\ n < Pow2[m] => n \div Pow2[m] = 0
<1> DEFINE p == Pow2[m]
           h == n \div p
           two == 2
<1>1. p \in Nat \ {0} /\ Pow2[m + 1] = p * two /\ n \in Int /\ two \in Nat \ {0}
  <2>1. Pow2[m + 1] = 2 * p /\ p \in Nat
    BY Pow2Def, Pow2Type
  <2> QED BY <2>1, Pow2Type
<1> HIDE DEF p
<1>2. h \in Int /\ n % p \in 0 .. p - 1 /\ n = p * h + (n % p)
  BY <1>1, DivMod
<1>3. h \in Nat
  <2>1. n % p \in Int /\ n % p < p
    BY <1>1, <1>2
  <2>2. ASSUME h <= -1 PROVE FALSE
    <3>1. p * h <= -p
      <4>1. p * (h + 1) <= 0
        BY <1>1, <1>2, <2>2, SMT
      <4>2. p * (h + 1) = p * h + p
        BY <1>1, <1>2, SMT
      <4>3. p * h \in Int
        BY <1>1, <1>2
      <4> QED BY <1>1, <4>1, <4>2, <4>3
    <3>2. p * h \in Int
      BY <1>1, <1>2
    <3> HIDE DEF h
    <3> QED BY <1>1, <1>2, <2>1, <3>1, <3>2
  <2> QED BY <1>2, <2>2
<1>4. h \div two = n \div Pow2[m + 1]
  <2> HIDE DEF two
  <2>1. (n \div p) \div two = n \div (p * two)
    BY <1>1, DivDiv
  <2> QED BY <1>1, <2>1
<1>5. h = 2 * (h \div 2) + (h % 2) /\ h % 2 \in {0, 1}
  <2> HIDE DEF h
  <2> QED BY <1>3
<1>6. n < p => h = 0
  <2> DEFINE zero == 0
  <2>1. n < p => n = p * zero + n /\ n \in 0 .. p - 1 /\ zero \in Int
    BY <1>1
  <2> HIDE DEF zero, h
  <2>2. n < p => n \div p = zero
    BY <1>1, <2>1, DivUnique
  <2> QED BY <2>2 DEF zero, h
<1> QED
  BY <1>3, <1>4, <1>5, <1>6 DEF p, two, h

(* What a window and the bits above it are worth.                             *)
Rest(n, w, len, j) == Windows(n, w, len)[j] + Pow2[w + 1] * (n \div Pow2[j + w + 1])

Fits(n, w, len, j) ==
  /\ Windows(n, w, len)[j] \in 0 .. Pow2[w + 1]
  /\ j + w + 1 >= len => Windows(n, w, len)[j] < Pow2[len + 1 - j]

DigitAt(n, w, len, j) == DigitOf(Windows(n, w, len)[j], w, j, len)

LEMMA WindowBegins ==
  ASSUME NEW n \in Nat, NEW w \in Nat \ {0}, NEW len \in Nat, HasBits(n, len)
  PROVE  Fits(n, w, len, 0) /\ Rest(n, w, len, 0) = n
<1> DEFINE p == Pow2[w + 1]
           v == n % p
<1>1. p \in Nat \ {0} /\ n \in Int
  <2>1. w + 1 \in Nat
    OBVIOUS
  <2> QED BY <2>1, Pow2Type
<1>2. Windows(n, w, len)[0] = v
  BY WindowsAre
<1>3. v \in 0 .. p - 1 /\ n = p * (n \div p) + v /\ n \div p \in Nat /\ v \in Nat
  <2>1. w + 1 \in Nat
    OBVIOUS
  <2>2. n \div p \in Nat
    BY <2>1, BitsFrom
  <2> HIDE DEF p
  <2> QED BY <1>1, <2>2, DivMod
<1>4. 0 + w + 1 >= len => v < Pow2[len + 1 - 0]
  <2> SUFFICES ASSUME w + 1 >= len PROVE v < Pow2[len + 1]
    OBVIOUS
  <2>1. v <= n
    <3>1. PICK q \in Nat : q = n \div p
      BY <1>3
    <3>2. p \in Nat /\ n = p * q + v /\ v \in Nat
      BY <1>1, <1>3, <3>1
    <3> HIDE DEF v, p
    <3>3. p * q >= 0 /\ p * q \in Int
      BY <3>2
    <3> QED BY <3>2, <3>3
  <2>2. n < Pow2[len] /\ 2 * Pow2[len] = Pow2[len + 1] /\ Pow2[len] \in Nat
    BY Pow2Def, Pow2Type DEF HasBits
  <2> HIDE DEF v, p
  <2> QED BY <1>3, <2>1, <2>2
<1>5. v \in 0 .. p
  <2> HIDE DEF v, p
  <2> QED BY <1>1, <1>3
<1>6. 0 + w + 1 = w + 1
  OBVIOUS
<1>7. p * (n \div p) \in Int
  <2> HIDE DEF p
  <2> QED BY <1>1, <1>3, SMT
<1>8. Rest(n, w, len, 0) = v + p * (n \div p)
  BY <1>2, <1>6 DEF Rest
<1> HIDE DEF v, p
<1>9. Rest(n, w, len, 0) = n
  BY <1>3, <1>7, <1>8
<1> QED
  BY <1>2, <1>4, <1>5, <1>9 DEF Fits, p

(* One turn of the loop: the next bit comes in at the top.                    *)
LEMMA OneTurn ==
  ASSUME NEW n \in Nat, NEW w \in Nat \ {0}, NEW len \in Nat, HasBits(n, len),
         NEW j \in 0 .. len, Fits(n, w, len, j)
  PROVE  /\ \E bit \in {0, 1} :
              /\ 2 * Windows(n, w, len)[j + 1]
                   = Windows(n, w, len)[j] - DigitAt(n, w, len, j) + bit * Pow2[w + 1]
              /\ j + w + 1 >= len => bit = 0
         /\ Fits(n, w, len, j + 1)
         /\ Rest(n, w, len, j) = DigitAt(n, w, len, j) + 2 * Rest(n, w, len, j + 1)
<1> DEFINE v == Windows(n, w, len)[j]
           u == Windows(n, w, len)[j + 1]
           d == DigitAt(n, w, len, j)
           m == j + w + 1
           above == n \div Pow2[m]
           next == n \div Pow2[m + 1]
           bit == above % 2
           p == Pow2[w]
           half == (v - d) \div 2
<1>1. p \in Nat \ {0} /\ Pow2[w + 1] = 2 * p /\ m \in Nat
  <2>1. w \in Nat /\ m \in Nat
    OBVIOUS
  <2> QED BY <2>1, Pow2Def, Pow2Type
<1>2. /\ above \in Nat /\ bit \in {0, 1} /\ above = 2 * next + bit /\ next \in Nat
      /\ n < Pow2[m] => above = 0
  <2>1. m \in Nat /\ m + 1 \in Nat
    OBVIOUS
  <2> HIDE DEF m
  <2> QED BY <2>1, BitsFrom
<1>3. u = half + p * bit
  <2> DEFINE k == j + 1
  <2>1. k \in 1 .. len + 1 /\ k - 1 = j /\ k + w = m
    OBVIOUS
  <2> HIDE DEF m, k
  <2>2. Windows(n, w, len)[k] = NextWindow(n, w, len, k, Windows(n, w, len)[k - 1])
    BY <2>1, WindowsAre
  <2>3. u = NextWindow(n, w, len, k, v)
    BY <2>1, <2>2 DEF k
  <2> HIDE DEF u, v
  <2> QED BY <2>1, <2>3 DEF NextWindow, DigitAt, v
<1>4. v \in 0 .. 2 * p /\ (m >= len => v < Pow2[len + 1 - j])
  BY <1>1 DEF Fits
<1>5. d \in Int /\ (v - d) % 2 = 0 /\ v - d \in 0 .. 2 * p /\ (m >= len => d >= 0)
  <2>1. v \in 0 .. Pow2[w + 1] /\ j \in Nat /\ d = DigitOf(v, w, j, len)
    BY <1>1, <1>4 DEF DigitAt
  <2> HIDE DEF v, d
  <2> QED BY <1>1, <2>1, DigitTaken
<1>6. m >= len => bit = 0
  <2> SUFFICES ASSUME m >= len PROVE bit = 0
    OBVIOUS
  <2>1. n < Pow2[m]
    <3>1. n < Pow2[len]
      BY DEF HasBits
    <3>2. Pow2[len] <= Pow2[m]
      <4>1. CASE len = m
        BY <4>1, <1>1, Pow2Type
      <4>2. CASE len < m
        <5>1. 2 * Pow2[len] <= Pow2[m]
          <6> HIDE DEF m
          <6> QED BY <4>2, <1>1, Pow2Grows
        <5> QED BY <5>1, <1>1, Pow2Type
      <4> QED BY <4>1, <4>2
    <3> QED BY <3>1, <3>2, <1>1, Pow2Type
  <2>2. above = 0
    BY <1>2, <2>1
  <2> QED BY <2>2
<1> HIDE DEF v, u, d, above, next, bit, p
<1>7. 2 * half = v - d /\ half \in 0 .. p
  BY <1>1, <1>4, <1>5
<1> HIDE DEF half
<1>8. p * bit \in {0, p}
  BY <1>1, <1>2
<1>9. u \in 0 .. 2 * p
  BY <1>1, <1>3, <1>7, <1>8
<1>10. 2 * u = v - d + bit * (2 * p)
  <2>1. bit * (2 * p) = 2 * (p * bit)
    BY <1>1, <1>2, SMT
  <2> QED BY <1>1, <1>3, <1>4, <1>5, <1>7, <1>8, <2>1
<1>11. (j + 1) + w + 1 >= len => u < Pow2[len + 1 - (j + 1)]
  <2> SUFFICES ASSUME (j + 1) + w + 1 >= len PROVE u < Pow2[len - j]
    OBVIOUS
  <2>1. len - j \in Nat /\ Pow2[len - j] \in Nat \ {0} /\ Pow2[len + 1 - j] = 2 * Pow2[len - j]
    <3>1. len - j \in Nat /\ (len - j) + 1 = len + 1 - j
      OBVIOUS
    <3> QED BY <3>1, Pow2Def
  <2>2. CASE m >= len
    <3>1. bit * (2 * p) = 0
      BY <2>2, <1>1, <1>6
    <3> QED BY <2>1, <2>2, <3>1, <1>1, <1>4, <1>5, <1>9, <1>10
  <2>3. CASE m < len
    <3>1. len - j = w + 2
      BY <2>3
    <3>2. Pow2[w + 2] = 2 * Pow2[w + 1]
      <4>1. w + 1 \in Nat /\ (w + 1) + 1 = w + 2
        OBVIOUS
      <4> QED BY <4>1, Pow2Def
    <3> QED BY <1>1, <1>9, <3>1, <3>2
  <2> QED BY <2>2, <2>3, <1>1
<1>12. Rest(n, w, len, j) = v + (2 * p) * above
  BY <1>1 DEF Rest, v, above
<1>13. Rest(n, w, len, j + 1) = u + (2 * p) * next
  <2>1. (j + 1) + w + 1 = m + 1
    OBVIOUS
  <2> QED BY <1>1, <2>1 DEF Rest, u, next
<1>14. (2 * p) * above = 2 * ((2 * p) * next) + bit * (2 * p)
  <2>1. (2 * p) * (2 * next + bit) = 2 * ((2 * p) * next) + bit * (2 * p)
    BY <1>1, <1>2, SMT
  <2> QED BY <1>2, <2>1
<1>15. Rest(n, w, len, j) = d + 2 * Rest(n, w, len, j + 1)
  <2> DEFINE a == (2 * p) * above
             b == (2 * p) * next
             c == bit * (2 * p)
  <2>1. a \in Int /\ b \in Int /\ c \in Int
    BY <1>1, <1>2, SMT
  <2>2. a = 2 * b + c /\ 2 * u = v - d + c
    BY <1>10, <1>14
  <2> HIDE DEF a, b, c
  <2>3. v + a = d + 2 * (u + b)
    BY <1>4, <1>1, <1>5, <1>9, <2>1, <2>2
  <2> QED BY <1>12, <1>13, <2>3 DEF a, b
<1> QED
  BY <1>1, <1>2, <1>6, <1>9, <1>10, <1>11, <1>15 DEF Fits, u, v, d

LEMMA AllTurns ==
  ASSUME NEW n \in Nat, NEW w \in Nat \ {0}, NEW len \in Nat, HasBits(n, len)
  PROVE  \A j \in 0 .. len + 1 : Fits(n, w, len, j)
<1> DEFINE S == {j \in Nat : j <= len + 1 => Fits(n, w, len, j)}
<1>1. 0 \in S
  BY WindowBegins
<1>2. ASSUME NEW j \in Nat, j \in S PROVE j + 1 \in S
  <2> SUFFICES ASSUME j + 1 <= len + 1 PROVE Fits(n, w, len, j + 1)
    OBVIOUS
  <2>1. j \in 0 .. len /\ Fits(n, w, len, j)
    BY <1>2
  <2> QED BY <2>1, OneTurn
<1> HIDE DEF S
<1>3. Nat \subseteq S
  BY <1>1, <1>2, SetInduction
<1> QED
  BY <1>3 DEF S

(* Horner: a number from its digits, the least significant first.             *)
LEMMA ValueFalls ==
  ASSUME NEW d \in Seq(Int)
  PROVE  /\ \A k \in Nat : ValueFrom(d, k) \in Int
         /\ \A k \in Nat : k >= Len(d) => ValueFrom(d, k) = 0
         /\ \A k \in Nat : k < Len(d) =>
              ValueFrom(d, k) = 2 * ValueFrom(d, k + 1) + d[k + 1]
<1> DEFINE n == Len(d)
           Body(f) == [t \in 0 .. Len(d) |->
                         IF t = 0 THEN 0 ELSE 2 * f[t - 1] + d[Len(d) - t + 1]]
           g == CHOOSE f : f = Body(f)
           next(t, x) == 2 * x + IF t \in 1 .. n THEN d[n - t + 1] ELSE 0
           h == [p \in (Nat \ {0}) \X Int |-> next(p[1], p[2])]
           zero == 0
<1>1. n \in Nat /\ \A t \in 1 .. n : n - t + 1 \in 1 .. n /\ d[n - t + 1] \in Int
  <2>1. n \in Nat /\ \A i \in 1 .. n : d[i] \in Int
    OBVIOUS
  <2>2. \A t \in 1 .. n : n - t + 1 \in 1 .. n
    BY <2>1
  <2> HIDE DEF n
  <2> QED BY <2>1, <2>2
<1>2. \A t \in Nat \ {0}, x \in Int : next(t, x) \in Int
  <2> HIDE DEF n
  <2> QED BY <1>1
<1> HIDE DEF next
<1>3. Makes(h, Int)
  <2>1. \A p \in (Nat \ {0}) \X Int : next(p[1], p[2]) \in Int
    BY <1>2
  <2> QED BY <2>1 DEF Makes
<1>4. \A t \in Nat \ {0}, x \in Int : h[<<t, x>>] = next(t, x)
  OBVIOUS
<1>5. zero \in Int
  OBVIOUS
<1> HIDE DEF h, zero
<1>6. PICK f \in [0 .. n -> Int] : Builds(f, n, zero, h)
  <2> HIDE DEF n
  <2> QED BY <1>1, <1>3, <1>5, Built
<1>7. f = Body(f)
  <2>1. ASSUME NEW t \in 0 .. n
        PROVE  f[t] = IF t = 0 THEN 0 ELSE 2 * f[t - 1] + d[n - t + 1]
    <3>1. CASE t = 0
      BY <3>1, <1>6 DEF Builds, zero
    <3>2. CASE t # 0
      <4>1. t \in 1 .. n /\ t \in Nat \ {0} /\ f[t - 1] \in Int
        <5> HIDE DEF n
        <5> QED BY <3>2, <1>1, <1>6
      <4>2. f[t] = h[<<t, f[t - 1]>>]
        BY <4>1, <1>6 DEF Builds
      <4>3. f[t] = next(t, f[t - 1])
        BY <4>1, <4>2, <1>4
      <4> QED BY <3>2, <4>1, <4>3 DEF next
    <3> QED BY <3>1, <3>2
  <2> QED BY <2>1
<1>8. g = Body(g)
  <2> HIDE DEF Body
  <2> QED BY <1>7
<1> HIDE DEF g
<1>9. \A t \in 0 .. n : g[t] = IF t = 0 THEN 0 ELSE 2 * g[t - 1] + d[n - t + 1]
  BY <1>8
<1>10. \A k \in Nat : ValueFrom(d, k) = IF k < n THEN g[n - k] ELSE 0
  BY DEF ValueFrom, g
<1> HIDE DEF n
<1> DEFINE S == {t \in Nat : t <= n => g[t] \in Int}
<1>11. 0 \in S
  BY <1>1, <1>9
<1>12. ASSUME NEW t \in Nat, t \in S PROVE t + 1 \in S
  <2> SUFFICES ASSUME t + 1 <= n PROVE g[t + 1] \in Int
    OBVIOUS
  <2>1. t + 1 \in 0 .. n /\ t + 1 \in 1 .. n /\ t + 1 # 0 /\ (t + 1) - 1 = t /\ g[t] \in Int
    BY <1>1, <1>12
  <2>2. g[t + 1] = 2 * g[t] + d[n - (t + 1) + 1] /\ d[n - (t + 1) + 1] \in Int
    BY <1>1, <1>9, <2>1
  <2> QED BY <2>1, <2>2
<1> HIDE DEF S
<1>13. \A t \in 0 .. n : g[t] \in Int
  <2>1. Nat \subseteq S
    BY <1>11, <1>12, SetInduction
  <2> QED BY <1>1, <2>1 DEF S
<1>14. ASSUME NEW k \in Nat PROVE ValueFrom(d, k) \in Int
  <2>1. k < n => n - k \in 0 .. n
    BY <1>1
  <2>2. k < n => g[n - k] \in Int
    BY <2>1, <1>13
  <2> QED BY <2>2, <1>10
<1>15. ASSUME NEW k \in Nat, k < n
       PROVE  ValueFrom(d, k) = 2 * ValueFrom(d, k + 1) + d[k + 1]
  <2> DEFINE t == n - k
  <2>1. t \in 1 .. n /\ t \in 0 .. n /\ t # 0 /\ n - t + 1 = k + 1 /\ t - 1 = n - (k + 1)
    BY <1>1, <1>15
  <2>2. g[t] = 2 * g[t - 1] + d[k + 1]
    <3> HIDE DEF t
    <3> QED BY <1>9, <2>1
  <2>3. ValueFrom(d, k) = g[t]
    BY <1>10, <1>15
  <2>4. ValueFrom(d, k + 1) = g[t - 1]
    <3>1. CASE k + 1 < n
      BY <3>1, <1>10, <2>1
    <3>2. CASE ~(k + 1 < n)
      <4>1. t - 1 = 0 /\ 0 \in 0 .. n
        BY <3>2, <1>1, <1>15
      <4>2. g[t - 1] = 0
        BY <4>1, <1>9
      <4> QED BY <3>2, <4>2, <1>10
    <3> QED BY <3>1, <3>2
  <2> QED BY <2>2, <2>3, <2>4
<1>16. \A k \in Nat : k >= n => ValueFrom(d, k) = 0
  BY <1>1, <1>10
<1> QED
  BY <1>14, <1>15, <1>16 DEF n

(* The loop ends, with len + 1 digits at most (ec_mult.c:234-300).            *)
Over(n, w, len, j) == Windows(n, w, len)[j] = 0 /\ j + w + 1 >= len

EndsAt(n, w, len, end) ==
  /\ end \in 0 .. len + 1 /\ Over(n, w, len, end)
  /\ \A i \in 0 .. end - 1 : ~Over(n, w, len, i)

LEMMA LoopEnds ==
  ASSUME NEW n \in Nat, NEW w \in Nat \ {0}, NEW len \in Nat, HasBits(n, len)
  PROVE  /\ \E end \in 0 .. len + 1 : EndsAt(n, w, len, end)
         /\ \A a, b : EndsAt(n, w, len, a) /\ EndsAt(n, w, len, b) => a = b
<1>1. Over(n, w, len, len + 1)
  <2>1. len + 1 \in 0 .. len + 1
    OBVIOUS
  <2>2. Fits(n, w, len, len + 1)
    BY <2>1, AllTurns
  <2>3. (len + 1) + w + 1 >= len /\ len + 1 - (len + 1) = 0
    OBVIOUS
  <2>4. Windows(n, w, len)[len + 1] < Pow2[0] /\ Windows(n, w, len)[len + 1] \in Nat
    <3>1. w + 1 \in Nat
      OBVIOUS
    <3>2. Pow2[w + 1] \in Nat
      BY <3>1, Pow2Type
    <3> QED BY <2>2, <2>3, <3>2 DEF Fits
  <2> QED BY <2>3, <2>4, Pow2Def DEF Over
<1> DEFINE T == {j \in 0 .. len + 1 : Over(n, w, len, j)}
<1>2. T \subseteq Nat /\ T # {}
  <2>1. len + 1 \in T
    BY <1>1
  <2> QED BY <2>1
<1>3. PICK a \in T : \A b \in T : a <= b
  <2> HIDE DEF T
  <2> QED BY <1>2, LeastNumber
<1>4. EndsAt(n, w, len, a)
  <2>1. \A i \in 0 .. a - 1 : i \in 0 .. len + 1 /\ ~(a <= i)
    BY <1>3
  <2> QED BY <1>3, <2>1 DEF EndsAt
<1>5. ASSUME NEW c, NEW b, EndsAt(n, w, len, c), EndsAt(n, w, len, b) PROVE c = b
  <2>1. c \in Nat /\ b \in Nat
    BY <1>5 DEF EndsAt
  <2>2. ~(c < b) /\ ~(b < c)
    <3>1. c < b => c \in 0 .. b - 1
      BY <2>1
    <3>2. b < c => b \in 0 .. c - 1
      BY <2>1
    <3> QED BY <3>1, <3>2, <1>5 DEF EndsAt
  <2> QED BY <2>1, <2>2
<1> QED
  BY <1>3, <1>4, <1>5

Signed(s, d) == IF s < 0 THEN -d ELSE d

NafEnds(s, w, n, len) ==
  \E end \in 0 .. len + 1 :
    /\ EndsAt(n, w, len, end)
    /\ compute_wNAF(s, w) = [j \in 1 .. end |-> Signed(s, DigitAt(n, w, len, j - 1))]

LEMMA NafIs ==
  ASSUME NEW s \in Int, s # 0, NEW w \in Nat \ {0},
         NEW n, n = Abs(s), NEW len, len = BN_num_bits(s)
  PROVE  /\ n \in Nat /\ len \in Nat /\ HasBits(n, len)
         /\ NafEnds(s, w, n, len)
<1>1. n \in Nat /\ len \in Nat /\ HasBits(n, len)
  BY NumBits DEF Abs
<1> DEFINE end == CHOOSE j \in 0 .. len + 1 : EndsAt(n, w, len, j)
<1>2. end \in 0 .. len + 1 /\ EndsAt(n, w, len, end)
  BY <1>1, LoopEnds
<1>3. end = CHOOSE j \in 0 .. len + 1 :
              Over(n, w, len, j) /\ \A i \in 0 .. j - 1 : ~Over(n, w, len, i)
  <2>1. \A j \in 0 .. len + 1 :
          EndsAt(n, w, len, j)
            <=> (Over(n, w, len, j) /\ \A i \in 0 .. j - 1 : ~Over(n, w, len, i))
    BY DEF EndsAt
  <2> QED BY <2>1
<1> HIDE DEF end
<1> DEFINE digits == [j \in 1 .. end |-> DigitAt(n, w, len, j - 1)]
<1>4. compute_wNAF(s, w) = [j \in 1 .. end |-> IF s < 0 THEN -digits[j] ELSE digits[j]]
  BY <1>3 DEF compute_wNAF, Over, DigitAt, Abs
<1>5. compute_wNAF(s, w) = [j \in 1 .. end |-> Signed(s, DigitAt(n, w, len, j - 1))]
  BY <1>4 DEF Signed
<1> QED
  BY <1>1, <1>2, <1>5 DEF NafEnds

(* After a digit the windows stay even, until it is w places away: the next    *)
(* digit is more than w places away, or w and the last.                       *)
Lone(n, w, len, i, t) ==
  \/ \E c \in Nat : Windows(n, w, len)[i + 1 + t] = c * Pow2[w - t]
  \/ /\ t < w /\ i + t + w + 2 >= len
     /\ Windows(n, w, len)[i + 1 + t] = Pow2[w - 1 - t]

LEMMA Even ==
  ASSUME NEW m \in Nat \ {0}, NEW c \in Nat
  PROVE  (c * Pow2[m]) % 2 = 0 /\ c * Pow2[m] = 2 * (c * Pow2[m - 1])
<1> DEFINE p == Pow2[m - 1]
           h == c * p
<1>1. Pow2[m] = 2 * p /\ p \in Nat
  <2>1. m - 1 \in Nat /\ (m - 1) + 1 = m
    OBVIOUS
  <2> QED BY <2>1, Pow2Def, Pow2Type
<1>2. c * Pow2[m] = 2 * h /\ h \in Nat
  <2> HIDE DEF p
  <2>1. c * (2 * p) = 2 * (c * p) /\ c * p \in Nat
    BY <1>1, SMT
  <2> QED BY <1>1, <2>1
<1> HIDE DEF h
<1>3. (2 * h) % 2 = 0
  BY <1>2
<1> QED
  BY <1>2, <1>3 DEF h

LEMMA LoneBegins ==
  ASSUME NEW n \in Nat, NEW w \in Nat \ {0}, NEW len \in Nat, HasBits(n, len),
         NEW i \in 0 .. len, DigitAt(n, w, len, i) # 0
  PROVE  Lone(n, w, len, i, 0)
<1> DEFINE v == Windows(n, w, len)[i]
           u == Windows(n, w, len)[i + 1]
           d == DigitAt(n, w, len, i)
           p == Pow2[w]
<1>1. p \in Nat /\ Pow2[w + 1] = 2 * p /\ p = 2 * Pow2[w - 1] /\ Pow2[w - 1] \in Nat
  <2>1. w - 1 \in Nat /\ (w - 1) + 1 = w
    OBVIOUS
  <2> QED BY <2>1, Pow2Def, Pow2Type
<1>2. Fits(n, w, len, i) /\ Fits(n, w, len, i + 1)
  BY AllTurns
<1>3. PICK bit \in {0, 1} :
        /\ 2 * u = v - d + bit * Pow2[w + 1]
        /\ i + w + 1 >= len => bit = 0
  BY <1>2, OneTurn
<1>4. /\ v - d \in {0, Pow2[w + 1]} \/ (v - d = Pow2[w] /\ i + w + 1 >= len)
      /\ d \in Int /\ v \in Int /\ u \in Int
  <2>1. v \in 0 .. Pow2[w + 1] /\ u \in 0 .. Pow2[w + 1]
    BY <1>2 DEF Fits
  <2>2. i \in Nat /\ d = DigitOf(v, w, i, len)
    BY DEF DigitAt
  <2>3. d # 0
    OBVIOUS
  <2>4. \A x \in 0 .. Pow2[w + 1] : x \in Int
    OBVIOUS
  <2> HIDE DEF v, d, u
  <2>5. /\ d \in Int
        /\ d # 0 => \/ v - d \in {0, Pow2[w + 1]}
                    \/ v - d = Pow2[w] /\ i + w + 1 >= len
    BY <2>1, <2>2, DigitTaken
  <2> QED BY <2>1, <2>3, <2>4, <2>5
<1> HIDE DEF v, d, u, p
<1>5. CASE v - d \in {0, Pow2[w + 1]}
  <2>0. bit * Pow2[w + 1] \in {0, 2 * p} /\ v - d \in {0, 2 * p}
    BY <1>1, <1>3, <1>5
  <2>1. u = 0 * p \/ u = 1 * p \/ u = 2 * p
    <3> DEFINE x == bit * Pow2[w + 1]
               y == v - d
    <3>1. x \in {0, 2 * p} /\ y \in {0, 2 * p} /\ 2 * u = y + x
      BY <2>0, <1>3
    <3> HIDE DEF x, y
    <3> QED BY <3>1, <1>1, <1>4
  <2>2. \E c \in Nat : u = c * p
    BY <2>1, <1>1
  <2>3. i + 1 + 0 = i + 1 /\ w - 0 = w
    OBVIOUS
  <2> QED BY <2>2, <2>3 DEF Lone, u, p
<1>6. CASE v - d = Pow2[w] /\ i + w + 1 >= len
  <2>1. bit * Pow2[w + 1] = 0
    BY <1>1, <1>3, <1>6
  <2>2. u = Pow2[w - 1]
    BY <2>1, <1>1, <1>3, <1>4, <1>6 DEF p
  <2>3. i + 1 + 0 = i + 1 /\ w - 1 - 0 = w - 1 /\ 0 < w /\ i + 0 + w + 2 >= len
    BY <1>6
  <2> QED BY <2>2, <2>3 DEF Lone, u
<1> QED
  BY <1>4, <1>5, <1>6

LEMMA LoneGoesOn ==
  ASSUME NEW n \in Nat, NEW w \in Nat \ {0}, NEW len \in Nat, HasBits(n, len),
         NEW i \in 0 .. len, NEW t \in Nat, t < w, i + 1 + t <= len, Lone(n, w, len, i, t)
  PROVE  \/ DigitAt(n, w, len, i + 1 + t) = 0 /\ Lone(n, w, len, i, t + 1)
         \/ t + 1 = w /\ Over(n, w, len, i + 1 + t + 1)
<1> DEFINE k == i + 1 + t
           v == Windows(n, w, len)[k]
           u == Windows(n, w, len)[k + 1]
           d == DigitAt(n, w, len, k)
           p == Pow2[w]
<1>1. p \in Nat /\ Pow2[w + 1] = 2 * p /\ p >= 2
  <2>1. w - 1 \in Nat /\ (w - 1) + 1 = w /\ w \in Nat
    OBVIOUS
  <2>2. Pow2[(w - 1) + 1] = 2 * Pow2[w - 1] /\ Pow2[w - 1] \in Nat \ {0} /\ Pow2[w + 1] = 2 * p
    BY <2>1, Pow2Def, Pow2Type
  <2> QED BY <2>1, <2>2
<1>2. Fits(n, w, len, k) /\ Fits(n, w, len, k + 1) /\ k \in 0 .. len
  <2>1. k \in 0 .. len /\ k \in 0 .. len + 1 /\ k + 1 \in 0 .. len + 1
    OBVIOUS
  <2> HIDE DEF k
  <2> QED BY <2>1, AllTurns
<1> HIDE DEF k
<1>3. PICK bit \in {0, 1} :
        /\ 2 * u = v - d + bit * Pow2[w + 1]
        /\ k + w + 1 >= len => bit = 0
  BY <1>2, OneTurn
<1>4. /\ d = 0 <=> v % 2 = 0
      /\ d = DigitOf(v, w, k, len) /\ d \in Int /\ v \in Int /\ u \in Int
  <2>1. v \in 0 .. Pow2[w + 1] /\ u \in 0 .. Pow2[w + 1]
    BY <1>2 DEF Fits
  <2>2. k \in Nat /\ d = DigitOf(v, w, k, len)
    BY <1>2 DEF DigitAt
  <2>3. \A x \in 0 .. Pow2[w + 1] : x \in Int
    OBVIOUS
  <2> HIDE DEF v, d, u
  <2>4. d \in Int /\ (v - d) % 2 = 0 /\ (d # 0 => d % 2 = 1)
    BY <2>1, <2>2, DigitTaken
  <2>5. d = 0 <=> v % 2 = 0
    BY <2>1, <2>3, <2>4
  <2> QED BY <2>1, <2>2, <2>3, <2>4, <2>5
<1>5. k = i + 1 + t /\ i + 1 + (t + 1) = k + 1 /\ k \in Nat
  BY DEF k
<1> HIDE DEF v, d, u, p
<1>6. ASSUME NEW c \in Nat, v = c * Pow2[w - t]
      PROVE  d = 0 /\ Lone(n, w, len, i, t + 1)
  <2> DEFINE m == w - t
             q == Pow2[m - 1]
             a == Pow2[t + 1]
  <2>1. m \in Nat \ {0} /\ q \in Nat /\ a \in Nat /\ p = a * q
    <3>1. m - 1 \in Nat /\ t + 1 \in Nat /\ (t + 1) + (m - 1) = w /\ m \in Nat \ {0}
      OBVIOUS
    <3>2. Pow2[(t + 1) + (m - 1)] = Pow2[t + 1] * Pow2[m - 1]
      <4> HIDE DEF m
      <4> QED BY <3>1, Pow2Add
    <3> QED BY <3>1, <3>2, Pow2Type DEF p
  <2>2. v % 2 = 0 /\ v = 2 * (c * q)
    <3> HIDE DEF m
    <3>1. (c * Pow2[m]) % 2 = 0 /\ c * Pow2[m] = 2 * (c * Pow2[m - 1])
      BY <2>1, Even
    <3> QED BY <3>1, <1>6 DEF m
  <2> HIDE DEF q, a
  <2>3. d = 0
    BY <2>2, <1>4
  <2>4. u = (c + bit * a) * q /\ c + bit * a \in Nat
    <3>1. bit * (2 * p) = 2 * (bit * (a * q)) /\ bit * (a * q) = (bit * a) * q
      BY <2>1, <1>1, SMT
    <3>2. (c + bit * a) * q = c * q + (bit * a) * q /\ bit * a \in Nat
      BY <2>1, SMT
    <3>3. c * q \in Int /\ (bit * a) * q \in Int
      BY <2>1, <3>2, SMT
    <3>4. 2 * u = 2 * (c * q) + 2 * ((bit * a) * q)
      BY <3>1, <2>2, <2>3, <1>1, <1>3
    <3> DEFINE x == c * q
               y == (bit * a) * q
    <3>5. u = x + y
      <4>1. x \in Int /\ y \in Int /\ 2 * u = 2 * x + 2 * y
        BY <3>3, <3>4
      <4> HIDE DEF x, y
      <4> QED BY <4>1, <1>4
    <3> QED BY <3>2, <3>5
  <2>5. w - (t + 1) = m - 1
    OBVIOUS
  <2>6. \E e \in Nat : u = e * q
    BY <2>4
  <2>7. Windows(n, w, len)[i + 1 + (t + 1)] = u
    BY <1>5 DEF u
  <2> QED BY <2>3, <2>5, <2>6, <2>7 DEF Lone, q
<1>7. ASSUME i + t + w + 2 >= len, v = Pow2[w - 1 - t]
      PROVE  \/ d = 0 /\ Lone(n, w, len, i, t + 1)
             \/ t + 1 = w /\ Over(n, w, len, k + 1)
  <2>1. k + w + 1 >= len
    BY <1>5, <1>7
  <2>2. bit * Pow2[w + 1] = 0
    BY <2>1, <1>1, <1>3
  <2>3. 2 * u = v - d
    BY <2>2, <1>3, <1>4
  <2>4. CASE t + 1 = w
    <3>1. w - 1 - t = 0
      BY <2>4
    <3>2. v = 1
      BY <3>1, <1>7, Pow2Def
    <3>3. d = 1
      BY <3>2, <1>1, <1>4 DEF DigitOf, p
    <3>4. u = 0
      BY <3>2, <3>3, <2>3, <1>4
    <3>5. (k + 1) + w + 1 >= len
      BY <2>1, <1>5
    <3> QED BY <2>4, <3>4, <3>5 DEF Over, u
  <2>5. CASE t + 1 # w
    <3> DEFINE m == w - 1 - t
               one == 1
    <3>1. m \in Nat \ {0} /\ one \in Nat
      BY <2>5
    <3>2. Pow2[m] \in Nat /\ Pow2[m - 1] \in Nat
      <4>1. m \in Nat /\ m - 1 \in Nat
        BY <3>1
      <4> QED BY <4>1, Pow2Type
    <3>3. v % 2 = 0 /\ v = 2 * Pow2[m - 1]
      <4> HIDE DEF m, one
      <4>1. (one * Pow2[m]) % 2 = 0 /\ one * Pow2[m] = 2 * (one * Pow2[m - 1])
        BY <3>1, Even
      <4> QED BY <4>1, <3>2, <1>7 DEF m, one
    <3>4. d = 0
      BY <3>3, <1>4
    <3>5. u = Pow2[m - 1]
      <4> DEFINE q == Pow2[m - 1]
      <4>1. q \in Nat /\ v = 2 * q
        BY <3>2, <3>3
      <4> HIDE DEF m, q
      <4>2. u = q
        BY <4>1, <3>4, <2>3, <1>4
      <4> QED BY <4>2 DEF q
    <3>6. m - 1 = w - 1 - (t + 1) /\ t + 1 < w /\ i + (t + 1) + w + 2 >= len
      BY <2>5, <1>7
    <3>7. Windows(n, w, len)[i + 1 + (t + 1)] = Pow2[w - 1 - (t + 1)]
      BY <1>5, <3>5, <3>6 DEF u
    <3> QED BY <3>4, <3>6, <3>7 DEF Lone
  <2> QED BY <2>4, <2>5
<1>8. Windows(n, w, len)[i + 1 + t] = v
  BY <1>5 DEF v
<1>9. \/ d = 0 /\ Lone(n, w, len, i, t + 1)
      \/ t + 1 = w /\ Over(n, w, len, k + 1)
  BY <1>6, <1>7, <1>8 DEF Lone
<1> QED
  BY <1>9 DEF d, k

LEMMA Spacing ==
  ASSUME NEW n \in Nat, NEW w \in Nat \ {0}, NEW len \in Nat, HasBits(n, len),
         NEW i \in 0 .. len, DigitAt(n, w, len, i) # 0,
         NEW j \in 0 .. len, DigitAt(n, w, len, j) # 0, i < j
  PROVE  j - i > w \/ (j - i = w /\ Over(n, w, len, j + 1))
<1> SUFFICES ASSUME j - i <= w
             PROVE  j - i = w /\ Over(n, w, len, j + 1)
  OBVIOUS
<1> DEFINE S == {t \in Nat : i + 1 + t <= j => Lone(n, w, len, i, t)}
<1>1. 0 \in S
  BY LoneBegins
<1>2. ASSUME NEW t \in Nat, t \in S PROVE t + 1 \in S
  <2> SUFFICES ASSUME i + 1 + (t + 1) <= j PROVE Lone(n, w, len, i, t + 1)
    OBVIOUS
  <2>1. t < w /\ i + 1 + t <= len /\ Lone(n, w, len, i, t) /\ t + 1 # w
    BY <1>2
  <2> QED BY <2>1, LoneGoesOn
<1> HIDE DEF S
<1>3. Nat \subseteq S
  BY <1>1, <1>2, SetInduction
<1> DEFINE last == j - (i + 1)
<1>4. last \in Nat /\ i + 1 + last = j /\ last < w /\ i + 1 + last <= len
  OBVIOUS
<1>5. Lone(n, w, len, i, last)
  <2>1. last \in S
    BY <1>3, <1>4
  <2> QED BY <1>4, <2>1 DEF S
<1> HIDE DEF last
<1>6. last + 1 = w /\ Over(n, w, len, i + 1 + last + 1)
  <2>1. DigitAt(n, w, len, i + 1 + last) # 0
    BY <1>4
  <2> QED BY <1>4, <1>5, <2>1, LoneGoesOn
<1> QED
  BY <1>4, <1>6

LEMMA DigitAtType ==
  ASSUME NEW n \in Nat, NEW w \in Nat \ {0}, NEW len \in Nat, HasBits(n, len), NEW j \in 0 .. len
  PROVE  /\ DigitAt(n, w, len, j) \in Int
         /\ DigitAt(n, w, len, j) # 0 =>
              /\ DigitAt(n, w, len, j) % 2 = 1
              /\ DigitAt(n, w, len, j) < Pow2[w] /\ DigitAt(n, w, len, j) > -Pow2[w]
<1> DEFINE v == Windows(n, w, len)[j]
           d == DigitAt(n, w, len, j)
<1>1. v \in 0 .. Pow2[w + 1]
  BY AllTurns DEF Fits
<1>2. j \in Nat /\ d = DigitOf(v, w, j, len)
  BY DEF DigitAt
<1> HIDE DEF v, d
<1>3. d \in Int
  BY <1>1, <1>2, DigitTaken
<1>4. d # 0 => d % 2 = 1
  BY <1>1, <1>2, DigitTaken
<1>5. d # 0 => d < Pow2[w] /\ d > -Pow2[w]
  BY <1>1, <1>2, DigitTaken
<1> QED
  BY <1>3, <1>4, <1>5 DEF d

LEMMA SignedType ==
  ASSUME NEW s \in Int, NEW d \in Int
  PROVE  /\ Signed(s, d) \in Int /\ (Signed(s, d) = 0 <=> d = 0)
         /\ d % 2 = 1 => Signed(s, d) % 2 = 1
  BY DEF Signed

(* The digits have the form that is promised, and are the scalar's            *)
(* (ec_mult.c:180-188), whatever the scalar and the window.                   *)
THEOREM WnafOfScalar ==
  ASSUME NEW s \in Int, NEW w \in Nat \ {0}
  PROVE  compute_wNAF(s, w) \in Seq(Int) /\ IsWnaf(compute_wNAF(s, w), s, w)
<1>1. CASE s = 0
  <2> DEFINE d == <<0>>
  <2>1. compute_wNAF(s, w) = d
    BY <1>1 DEF compute_wNAF
  <2>2. d \in Seq(Int) /\ Len(d) = 1 /\ d[1] = 0 /\ DOMAIN d = 1 .. 1
    OBVIOUS
  <2> HIDE DEF d
  <2>3. ValueFrom(d, 0) = 0
    <3>1. ValueFrom(d, 0) = 2 * ValueFrom(d, 1) + d[1] /\ ValueFrom(d, 1) = 0
      <4>1. 0 \in Nat /\ 1 \in Nat /\ 0 + 1 = 1 /\ 0 < Len(d) /\ 1 >= Len(d)
        BY <2>2
      <4> QED BY <2>2, <4>1, ValueFalls
    <3> QED BY <2>2, <3>1
  <2>4. IsWnaf(d, s, w)
    BY <1>1, <2>2, <2>3 DEF IsWnaf
  <2> QED BY <2>1, <2>2, <2>4
<1>2. CASE s # 0
  <2> DEFINE n == Abs(s)
             len == BN_num_bits(s)
  <2>1. /\ n \in Nat /\ len \in Nat /\ HasBits(n, len)
        /\ NafEnds(s, w, n, len)
    <3> HIDE DEF n, len
    <3>1. n = Abs(s) /\ len = BN_num_bits(s)
      BY DEF n, len
    <3> QED BY <1>2, <3>1, NafIs
  <2> HIDE DEF len
  <2>2. PICK end \in 0 .. len + 1 :
          /\ EndsAt(n, w, len, end)
          /\ compute_wNAF(s, w) = [j \in 1 .. end |-> Signed(s, DigitAt(n, w, len, j - 1))]
    BY <2>1 DEF NafEnds
  <2> DEFINE d == [j \in 1 .. end |-> Signed(s, DigitAt(n, w, len, j - 1))]
             D(j) == DigitAt(n, w, len, j)
  <2>3. \A j \in 1 .. end : j - 1 \in 0 .. len /\ d[j] = Signed(s, D(j - 1))
    BY <2>1
  <2>4. \A j \in 0 .. len : D(j) \in Int /\ (D(j) # 0 => D(j) % 2 = 1 /\ D(j) < Pow2[w] /\ D(j) > -Pow2[w])
    <3> HIDE DEF n
    <3> QED BY <2>1, DigitAtType
  <2>5. /\ d \in Seq(Int) /\ Len(d) = end /\ DOMAIN d = 1 .. end /\ end \in Nat
    <3>1. end \in Nat
      BY <2>1
    <3>2. \A j \in 1 .. end : d[j] \in Int
      <4> HIDE DEF d, D
      <4> TAKE j \in 1 .. end
      <4>1. j - 1 \in 0 .. len /\ d[j] = Signed(s, D(j - 1))
        BY <2>3
      <4>2. D(j - 1) \in Int
        BY <4>1, <2>4
      <4> QED BY <4>1, <4>2, SignedType
    <3> QED BY <3>1, <3>2
  <2> HIDE DEF d, D, n
  <2>6. ASSUME NEW j \in DOMAIN d, d[j] # 0
        PROVE  d[j] % 2 = 1 /\ d[j] < Pow2[w] /\ d[j] > -Pow2[w] /\ D(j - 1) # 0
    <3>1. j - 1 \in 0 .. len /\ d[j] = Signed(s, D(j - 1)) /\ D(j - 1) \in Int
      BY <2>3, <2>4, <2>5
    <3>2. D(j - 1) # 0
      BY <2>6, <3>1, SignedType
    <3>3. Pow2[w] \in Nat
      BY Pow2Type
    <3> DEFINE e == D(j - 1)
               p == Pow2[w]
    <3>4. e \in Int /\ e % 2 = 1 /\ e < p /\ e > -p /\ d[j] = Signed(s, e) /\ p \in Nat
      BY <3>1, <3>2, <3>3, <2>4
    <3> HIDE DEF e, p
    <3>5. d[j] % 2 = 1
      BY <3>4, SignedType
    <3>6. d[j] < p /\ d[j] > -p
      BY <3>4 DEF Signed
    <3> QED BY <3>2, <3>5, <3>6 DEF p
  <2>7. ASSUME NEW i \in DOMAIN d, NEW j \in DOMAIN d, d[i] # 0, d[j] # 0, i < j
        PROVE  j - i > (IF j = Len(d) THEN w - 1 ELSE w)
    <3> DEFINE a == i - 1
               b == j - 1
    <3>1. a \in 0 .. len /\ b \in 0 .. len /\ a < b /\ b - a = j - i /\ b + 1 = j
      <4>1. i \in 1 .. end /\ j \in 1 .. end /\ i < j /\ end \in Nat
        BY <2>5, <2>7
      <4>2. a \in 0 .. len /\ b \in 0 .. len
        BY <2>3, <4>1
      <4>3. i \in Int /\ j \in Int
        BY <4>1
      <4>4. a < b /\ b - a = j - i /\ b + 1 = j
        BY <4>1, <4>3
      <4> QED BY <4>2, <4>4
    <3>2. D(a) # 0 /\ D(b) # 0
      BY <2>6, <2>7
    <3> HIDE DEF a, b
    <3>3. b - a > w \/ (b - a = w /\ Over(n, w, len, b + 1))
      BY <3>1, <3>2, <2>1, Spacing DEF D
    <3>4. CASE b - a > w
      BY <3>1, <3>4, <2>5
    <3>5. CASE b - a = w /\ Over(n, w, len, j)
      <4>1. j = end
        <5>1. ~(j < end)
          <6>1. j < end => j \in 0 .. end - 1
            BY <2>5
          <6> QED BY <3>5, <6>1, <2>2 DEF EndsAt
        <5> QED BY <5>1, <2>5
      <4> QED BY <3>1, <3>5, <4>1, <2>5
    <3> QED BY <3>1, <3>3, <3>4, <3>5
  <2>8. ValueFrom(d, 0) = s
    <3> DEFINE R(j) == Signed(s, Rest(n, w, len, j))
               S == {t \in Nat : t <= end => ValueFrom(d, end - t) = R(end - t)}
    <3>1. ASSUME NEW j \in 0 .. len + 1 PROVE Rest(n, w, len, j) \in Int
      <4>1. j + w + 1 \in Nat /\ w + 1 \in Nat
        OBVIOUS
      <4> DEFINE m == j + w + 1
      <4>2. n \div Pow2[m] \in Nat
        <5> HIDE DEF m
        <5> QED BY <2>1, <4>1, BitsFrom DEF m
      <4>3. Windows(n, w, len)[j] \in Int
        <5>1. Windows(n, w, len)[j] \in 0 .. Pow2[w + 1]
          BY <2>1, AllTurns DEF Fits
        <5> QED BY <5>1
      <4>4. Pow2[w + 1] * (n \div Pow2[m]) \in Int
        BY <4>1, <4>2, Pow2Type, SMT
      <4> QED BY <4>3, <4>4 DEF Rest
    <3>2. 0 \in S
      <4>1. n \div Pow2[end + w + 1] = 0 /\ Windows(n, w, len)[end] = 0
        <5>1. end + w + 1 >= len /\ Windows(n, w, len)[end] = 0
          BY <2>2 DEF EndsAt, Over
        <5> DEFINE m == end + w + 1
        <5>2. m \in Nat /\ n < Pow2[m]
          <6>1. m \in Nat /\ n < Pow2[len] /\ Pow2[len] \in Nat /\ Pow2[m] \in Nat
            BY <2>1, <2>5, Pow2Type DEF HasBits
          <6>2. len < m => 2 * Pow2[len] <= Pow2[m]
            <7> HIDE DEF m
            <7> QED BY <2>1, <6>1, Pow2Grows
          <6>3. len < m \/ len = m
            BY <5>1, <2>1
          <6> HIDE DEF m
          <6> QED BY <6>1, <6>2, <6>3, <2>1
        <5>3. n \div Pow2[m] = 0
          <6> HIDE DEF m
          <6> QED BY <2>1, <5>2, BitsFrom
        <5> QED BY <5>1, <5>3
      <4>2. Rest(n, w, len, end) = 0
        <5>1. w + 1 \in Nat
          OBVIOUS
        <5> QED BY <4>1, <5>1, Pow2Type DEF Rest
      <4>3. ValueFrom(d, end) = 0
        BY <2>5, ValueFalls
      <4>4. end - 0 = end
        BY <2>5
      <4>5. R(end) = 0
        <5>1. R(end) = Signed(s, 0)
          BY <4>2
        <5>2. Signed(s, 0) = 0
          BY SignedType
        <5> QED BY <5>1, <5>2
      <4>6. ValueFrom(d, end - 0) = R(end - 0)
        <5> HIDE DEF R
        <5> QED BY <4>3, <4>4, <4>5
      <4> QED BY <4>6
    <3>3. ASSUME NEW t \in Nat, t \in S PROVE t + 1 \in S
      <4> SUFFICES ASSUME t + 1 <= end PROVE ValueFrom(d, end - (t + 1)) = R(end - (t + 1))
        OBVIOUS
      <4> DEFINE k == end - (t + 1)
      <4>1. k \in Nat /\ k < end /\ k + 1 = end - t /\ k \in 0 .. len /\ k + 1 \in 0 .. len + 1
            /\ k + 1 \in 1 .. end /\ (k + 1) - 1 = k /\ k \in 0 .. len + 1
        BY <2>1, <2>5
      <4>2. ValueFrom(d, k + 1) = R(k + 1)
        BY <3>3, <4>1
      <4> HIDE DEF k, S
      <4>3. ValueFrom(d, k) = 2 * ValueFrom(d, k + 1) + d[k + 1]
        BY <4>1, <2>5, ValueFalls
      <4>4. d[k + 1] = Signed(s, D(k)) /\ D(k) \in Int
        BY <4>1, <2>3, <2>4
      <4>5. Fits(n, w, len, k)
        BY <4>1, <2>1, AllTurns
      <4>6. Rest(n, w, len, k) = D(k) + 2 * Rest(n, w, len, k + 1)
        BY <4>1, <4>5, <2>1, OneTurn DEF D
      <4>7. Rest(n, w, len, k + 1) \in Int /\ Rest(n, w, len, k) \in Int
        BY <4>1, <3>1
      <4>8. R(k) = 2 * R(k + 1) + Signed(s, D(k))
        BY <4>4, <4>6, <4>7 DEF Signed
      <4> QED BY <4>2, <4>3, <4>4, <4>8 DEF k
    <3> HIDE DEF S
    <3>4. end \in S
      <4>1. Nat \subseteq S
        BY <3>2, <3>3, SetInduction
      <4> QED BY <4>1, <2>5
    <3>5. ValueFrom(d, 0) = R(0)
      BY <3>4, <2>5 DEF S
    <3>6. Rest(n, w, len, 0) = n
      BY <2>1, WindowBegins
    <3>7. Signed(s, n) = s
      BY DEF Signed, n, Abs
    <3> QED BY <3>5, <3>6, <3>7
  <2>9. IsWnaf(d, s, w)
    BY <2>6, <2>7, <2>8 DEF IsWnaf
  <2> QED BY <2>2, <2>5, <2>9 DEF d
<1> QED
  BY <1>1, <1>2

-------------------------------------------------------------------------------
(* Sums.                                                                      *)

Adds(f, n) == [p \in (Nat \ {0}) \X Int |-> p[2] + (IF p[1] \in 1 .. n THEN f[p[1] - 1] ELSE 0)]

LEMMA AddsIs ==
  ASSUME NEW f, NEW n \in Nat, \A i \in 0 .. n - 1 : f[i] \in Int
  PROVE  /\ Makes(Adds(f, n), Int)
         /\ \A i \in 0 .. n - 1, x \in Int : Adds(f, n)[<<i + 1, x>>] = x + f[i]
<1> DEFINE next(t, x) == x + (IF t \in 1 .. n THEN f[t - 1] ELSE 0)
<1>1. \A t \in Nat \ {0}, x \in Int : next(t, x) \in Int
  <2>1. \A t \in 1 .. n : t - 1 \in 0 .. n - 1
    OBVIOUS
  <2>2. \A t \in 1 .. n : f[t - 1] \in Int
    BY <2>1
  <2> QED BY <2>2
<1>2. \A i \in 0 .. n - 1, x \in Int : next(i + 1, x) = x + f[i] /\ i + 1 \in Nat \ {0}
  <2> TAKE i \in 0 .. n - 1, x \in Int
  <2>1. i + 1 \in 1 .. n /\ (i + 1) - 1 = i /\ i + 1 \in Nat \ {0}
    OBVIOUS
  <2> QED BY <2>1
<1>3. Adds(f, n) = [p \in (Nat \ {0}) \X Int |-> next(p[1], p[2])]
  BY DEF Adds
<1> HIDE DEF next
<1>4. \A p \in (Nat \ {0}) \X Int : next(p[1], p[2]) \in Int
  BY <1>1
<1>5. Makes(Adds(f, n), Int)
  BY <1>3, <1>4 DEF Makes
<1>6. \A t \in Nat \ {0}, x \in Int : Adds(f, n)[<<t, x>>] = next(t, x)
  BY <1>3
<1> QED
  BY <1>2, <1>5, <1>6

LEMMA SumBuilds ==
  ASSUME NEW f, NEW n \in Nat, \A i \in 0 .. n - 1 : f[i] \in Int, NEW m \in 0 .. n
  PROVE  \E g \in [0 .. m -> Int] : Builds(g, m, 0, Adds(f, n)) /\ SumOf(f, m) = g[m]
<1> DEFINE Body(g) == [t \in 0 .. m |-> IF t = 0 THEN 0 ELSE g[t - 1] + f[t - 1]]
           u == CHOOSE g : g = Body(g)
           h == Adds(f, n)
           zero == 0
<1>1. m \in Nat /\ zero \in Int /\ Makes(h, Int) /\ 0 .. m - 1 \subseteq 0 .. n - 1
  BY AddsIs
<1>2. \A i \in 0 .. n - 1, x \in Int : h[<<i + 1, x>>] = x + f[i]
  BY AddsIs
<1> HIDE DEF h
<1>3. PICK g \in [0 .. m -> Int] : Builds(g, m, zero, h)
  <2> HIDE DEF zero
  <2> QED BY <1>1, Built
<1>4. g = Body(g)
  <2>1. ASSUME NEW t \in 0 .. m
        PROVE  g[t] = IF t = 0 THEN 0 ELSE g[t - 1] + f[t - 1]
    <3>1. CASE t = 0
      BY <3>1, <1>3 DEF Builds
    <3>2. CASE t # 0
      <4>1. t \in 1 .. m /\ t - 1 \in 0 .. n - 1 /\ (t - 1) + 1 = t /\ g[t - 1] \in Int
        BY <3>2, <1>1, <1>3
      <4>2. g[t] = h[<<t, g[t - 1]>>]
        BY <4>1, <1>3 DEF Builds
      <4>3. h[<<(t - 1) + 1, g[t - 1]>>] = g[t - 1] + f[t - 1]
        BY <4>1, <1>2
      <4> QED BY <3>2, <4>1, <4>2, <4>3
    <3> QED BY <3>1, <3>2
  <2> QED BY <2>1
<1>5. u = Body(u)
  <2> HIDE DEF Body
  <2> QED BY <1>4
<1>6. SumOf(f, m) = u[m]
  BY DEF SumOf
<1> HIDE DEF u
<1>7. /\ \A t \in 0 .. m : u[t] = IF t = 0 THEN 0 ELSE u[t - 1] + f[t - 1]
      /\ u = [t \in 0 .. m |-> u[t]]
  <2>1. \A t \in 0 .. m : u[t] = IF t = 0 THEN 0 ELSE u[t - 1] + f[t - 1]
    BY <1>5
  <2>2. u = [t \in 0 .. m |-> u[t]]
    BY <1>5
  <2> QED BY <2>1, <2>2
<1> DEFINE S == {t \in Nat : t <= m => u[t] = g[t]}
<1>8. 0 \in S
  <2>1. u[0] = 0 /\ g[0] = 0
    <3>1. 0 \in 0 .. m
      BY <1>1
    <3>2. g[0] = 0
      BY <1>3 DEF Builds, zero
    <3> QED BY <1>7, <3>1, <3>2
  <2> QED BY <2>1
<1>9. ASSUME NEW t \in Nat, t \in S PROVE t + 1 \in S
  <2> SUFFICES ASSUME t + 1 <= m PROVE u[t + 1] = g[t + 1]
    OBVIOUS
  <2>1. t + 1 \in 0 .. m /\ t + 1 # 0 /\ (t + 1) - 1 = t /\ u[t] = g[t]
    BY <1>9, <1>1
  <2>2. g[t + 1] = g[(t + 1) - 1] + f[(t + 1) - 1]
    BY <2>1, <1>4
  <2> QED BY <2>1, <2>2, <1>7
<1> HIDE DEF S
<1>10. \A t \in 0 .. m : u[t] = g[t]
  <2>1. Nat \subseteq S
    BY <1>8, <1>9, SetInduction
  <2> QED BY <1>1, <2>1 DEF S
<1>11. SumOf(f, m) = g[m]
  BY <1>1, <1>6, <1>10
<1> QED
  BY <1>3, <1>11 DEF h

LEMMA SumGrows ==
  ASSUME NEW f, NEW n \in Nat, \A i \in 0 .. n - 1 : f[i] \in Int
  PROVE  /\ SumOf(f, 0) = 0
         /\ \A m \in 0 .. n : SumOf(f, m) \in Int
         /\ \A m \in 0 .. n - 1 : SumOf(f, m + 1) = SumOf(f, m) + f[m]
<1> DEFINE h == Adds(f, n)
<1>1. \A i \in 0 .. n - 1, x \in Int : h[<<i + 1, x>>] = x + f[i]
  BY AddsIs
<1>2. \A m \in 0 .. n : \E g \in [0 .. m -> Int] : Builds(g, m, 0, h) /\ SumOf(f, m) = g[m]
  BY SumBuilds
<1> HIDE DEF h
<1>3. SumOf(f, 0) = 0
  <2>1. 0 \in 0 .. n
    OBVIOUS
  <2> QED BY <1>2, <2>1 DEF Builds
<1>4. ASSUME NEW m \in 0 .. n PROVE SumOf(f, m) \in Int
  <2>1. m \in 0 .. m
    OBVIOUS
  <2> QED BY <1>2, <2>1
<1>5. ASSUME NEW m \in 0 .. n - 1 PROVE SumOf(f, m + 1) = SumOf(f, m) + f[m]
  <2>1. m + 1 \in 0 .. n /\ m \in 0 .. n /\ m \in 0 .. m + 1 /\ m + 1 \in Nat
    OBVIOUS
  <2>2. PICK g \in [0 .. m + 1 -> Int] : Builds(g, m + 1, 0, h) /\ SumOf(f, m + 1) = g[m + 1]
    BY <1>2, <2>1
  <2>3. PICK e \in [0 .. m -> Int] : Builds(e, m, 0, h) /\ SumOf(f, m) = e[m]
    BY <1>2, <2>1
  <2>4. g[m] = e[m]
    <3> DEFINE zero == 0
               top == m + 1
    <3>1. Builds(g, top, zero, h) /\ Builds(e, m, zero, h) /\ top \in Nat /\ m \in 0 .. top
      BY <2>1, <2>2, <2>3
    <3> HIDE DEF zero, top
    <3> QED BY <3>1, BuiltOnce
  <2>5. g[m + 1] = h[<<m + 1, g[m]>>]
    <3>1. m + 1 \in 1 .. m + 1 /\ (m + 1) - 1 = m
      OBVIOUS
    <3> QED BY <2>2, <3>1 DEF Builds
  <2>6. g[m] \in Int
    BY <2>1
  <2> QED BY <2>2, <2>3, <2>4, <2>5, <2>6, <1>1
<1> QED
  BY <1>3, <1>4, <1>5

-------------------------------------------------------------------------------
(* The inductive invariant: what the locals are at each place, which entries  *)
(* of the arrays are written, and what is allocated.                          *)

Entry == [state : {"junk", "null", "block"}, digits : Seq(Int)]

(* The entries of the array of wNAFs, but for the last.                       *)
Room ==
  num + (IF req.scalar = NULL THEN 0
         ELSE IF loc.pre THEN Min({BN_num_bits(req.scalar) \div BlockSize + 1,
                                   group.pre_comp.numblocks})
         ELSE 1)

GroupKept == group \in [generator : Generators,
                        pre_comp : {NULL} \cup {PreComp(g) : g \in Generators}]

Locals(room, total, vals) ==
  [pre : BOOLEAN, numblocks : Nat, total : 0 .. room, wNAF : [0 .. room -> Entry],
   tmp : Seq(Int), val_sub : [0 .. room - 1 -> Seq(Int)] \cup [0 .. total - 1 -> Seq(Int)],
   max_len : Nat, i : 0 .. room, k : Int, val : vals,
   inverted : BOOLEAN, at_infinity : BOOLEAN]

Vals == {<<>>} \cup {Val(n) : n \in 0 .. num_val}

CallKept ==
  pc # "idle" =>
    /\ req \in Calls
    /\ loc \in Locals(Room, loc.total, Vals)
    /\ loc.pre => req.scalar # NULL /\ Matches(group.pre_comp, group.generator)

Filled(f) == /\ \A j \in 0 .. f - 1 : loc.wNAF[j].state = "block"
             /\ loc.wNAF[f].state = "null"

NafBlocks(f) == {<<"naf", j>> : j \in 0 .. f - 1}

Places == {"idle", "arrays", "nafs", "split", "val", "run", "err", "done"}

Counts ==
  /\ pc \in {"arrays", "nafs", "split"} =>
       /\ loc.total = num + loc.numblocks /\ loc.i <= loc.total
       /\ loc.pre => loc.numblocks >= 1
  /\ pc \in {"arrays", "nafs"} => loc.total = Room
  /\ pc \in {"arrays", "nafs", "split", "val", "run"} => loc.total >= 1
  /\ pc \in {"arrays", "nafs", "split", "val"} => loc.val_sub \in [0 .. Room - 1 -> Seq(Int)]

AtNafs == loc.tmp = <<>> /\ loc.i <= Scalars

(* The blocks but the last are full.                                          *)
AtSplit == /\ loc.pre
           /\ IF loc.tmp = <<>> THEN loc.i = num /\ loc.total = Room
              ELSE /\ loc.i >= num /\ loc.tmp = PreNaf
                   /\ BlockSize * (loc.numblocks - 1) < Len(loc.tmp)

AtRun == loc.i < loc.total /\ loc.k >= -1 /\ (loc.k >= 0 \/ loc.i = 0)

PlaceKept ==
  /\ pc \in Places /\ Counts
  /\ pc = "arrays" => loc.i = 0 /\ loc.tmp = <<>>
  /\ pc = "nafs" => AtNafs
  /\ pc = "split" => AtSplit
  /\ pc \in {"val", "run"} => Scalars <= loc.total
  /\ pc = "run" => AtRun

(* What is left at an error, or at the end.                                   *)
Left(f, n) ==
  /\ heap \subseteq Arrays \cup NafBlocks(f) \cup {<<"val">>, <<"tmp">>} \cup PointBlocks(n)
  /\ IF <<"wNAF">> \in heap THEN Filled(f) ELSE f = 0
  /\ IF <<"val">> \in heap THEN loc.val = Val(n) ELSE n = 0

Held ==
  /\ pc \in {"idle", "arrays"} => heap = {}
  /\ pc \in {"nafs", "split"} =>
       /\ Filled(loc.i)
       /\ heap = Arrays \cup NafBlocks(loc.i)
                 \cup (IF loc.tmp # <<>> THEN {<<"tmp_wNAF">>} ELSE {})
  /\ pc = "val" => Filled(loc.total) /\ heap = Arrays \cup NafBlocks(loc.total)
  /\ pc = "run" =>
       /\ Filled(loc.total) /\ loc.val = Val(num_val)
       /\ heap = Arrays \cup NafBlocks(loc.total) \cup {<<"val">>, <<"tmp">>}
                 \cup PointBlocks(num_val)
  /\ pc \in {"err", "done"} /\ heap # {} => \E f \in 0 .. Room, n \in 0 .. num_val : Left(f, n)

Formed ==
  /\ pc = "nafs" => \A j \in 0 .. loc.i - 1 :
       loc.wNAF[j].digits = compute_wNAF(Scalar(j), Window(j))
  /\ pc \in {"split", "val", "run"} => \A j \in 0 .. Scalars - 1 :
       loc.wNAF[j].digits = compute_wNAF(Scalar(j), Window(j))

Kept == GroupKept /\ CallKept /\ PlaceKept

-------------------------------------------------------------------------------
(* Sizes.                                                                     *)

LEMMA MaxOfTwo ==
  ASSUME NEW a \in Int, NEW b \in Int
  PROVE  Max({a, b}) \in {a, b} /\ Max({a, b}) >= a /\ Max({a, b}) >= b
<1>1. \E x \in {a, b} : \A y \in {a, b} : x >= y
  <2>1. CASE a >= b
    BY <2>1
  <2>2. CASE ~(a >= b)
    BY <2>2
  <2> QED BY <2>1, <2>2
<1> QED
  BY <1>1 DEF Max

LEMMA MinOfTwo ==
  ASSUME NEW a \in Int, NEW b \in Int
  PROVE  Min({a, b}) \in {a, b} /\ Min({a, b}) <= a /\ Min({a, b}) <= b
<1>1. \E x \in {a, b} : \A y \in {a, b} : x <= y
  <2>1. CASE a <= b
    BY <2>1
  <2>2. CASE ~(a <= b)
    BY <2>2
  <2> QED BY <2>1, <2>2
<1> QED
  BY <1>1 DEF Min

(* The blocks that hold so many digits.                                       *)
LEMMA BlocksOf ==
  ASSUME NEW a \in Nat, NEW n \in Nat \ {0}, NEW q, q = (a + n - 1) \div n
  PROVE  /\ q \in Nat /\ (a > 0 => q > 0)
         /\ a <= n * q /\ (a > 0 => n * (q - 1) < a)
         /\ \A m \in Nat : a <= n * m => q <= m
<1> DEFINE b == a + n - 1
           rest == b % n
<1>1. b \in Nat /\ b = n * q + rest /\ q \in Int /\ rest \in 0 .. n - 1
  <2>1. b \in Int
    OBVIOUS
  <2> HIDE DEF b
  <2>2. b = n * (b \div n) + (b % n) /\ b \div n \in Int /\ b % n \in 0 .. n - 1
    BY <2>1, DivMod
  <2> QED BY <2>2 DEF b
<1>2. a = n * q + rest - n + 1
  BY <1>1
<1>3. n * (q - 1) = n * q - n /\ n * q \in Int
  BY <1>1
<1>4. q >= 0
  <2>1. SUFFICES ASSUME q <= -1 PROVE FALSE
    BY <1>1
  <2>2. n * q <= -n
    <3> DEFINE k == -1 - q
    <3>1. k \in Nat /\ q = -1 - k
      BY <1>1, <2>1
    <3> HIDE DEF k
    <3>2. n * (-1 - k) = -n - n * k /\ n * k >= 0 /\ n * k \in Int
      BY <3>1, SMT
    <3> QED BY <3>1, <3>2
  <2> QED BY <1>1, <2>2, <1>3
<1>5. a > 0 => q > 0
  <2>1. q = 0 => n * q = 0
    OBVIOUS
  <2> QED BY <1>1, <1>2, <1>4, <2>1
<1>6. (a <= n * q /\ n * (q - 1) < a) \/ a = 0
  BY <1>1, <1>2, <1>3
<1>7. a <= n * q
  BY <1>1, <1>2, <1>3
<1>8. ASSUME NEW m \in Nat, a <= n * m PROVE q <= m
  <2>1. SUFFICES ASSUME q > m PROVE FALSE
    BY <1>1
  <2> DEFINE k == q - 1 - m
  <2>2. k \in Nat /\ q - 1 = m + k
    BY <1>1, <2>1
  <2> HIDE DEF k
  <2>3. n * (m + k) = n * m + n * k /\ n * k >= 0 /\ n * m \in Int /\ n * k \in Int
    BY <2>2, SMT
  <2>4. n * (q - 1) >= n * m
    BY <2>2, <2>3
  <2>5. n * (q - 1) = a - rest - 1
    BY <1>1, <1>2, <1>3
  <2> QED BY <1>8, <2>4, <2>5, <1>1, <2>3
<1> QED
  BY <1>1, <1>4, <1>5, <1>6, <1>7, <1>8

(* The precomputed multiples: at least one block of them.                     *)
LEMMA OrderBits ==
  BN_num_bits(Order) \in Nat \ {0}
<1>1. Order \in Int /\ Order \in Nat /\ Order > 1 /\ ~(Order < 0)
  BY ParametersAssumption
<1>2. BN_num_bits(Order) \in Nat /\ HasBits(Order, BN_num_bits(Order))
  <2>1. Abs(Order) = Order
    BY <1>1 DEF Abs
  <2> QED BY <1>1, <2>1, NumBits
<1>3. BN_num_bits(Order) # 0
  BY <1>1, <1>2, Pow2Def DEF HasBits
<1> QED
  BY <1>2, <1>3

LEMMA PreCompType ==
  ASSUME NEW g \in Generators, NEW pre, pre = PreComp(g)
  PROVE  /\ pre.w \in Nat \ {0} /\ pre.numblocks \in Nat \ {0}
         /\ pre.points = [b \in 0 .. pre.numblocks - 1 |->
                            OddMultiples((Pow2[BlockSize * b] * g) % Order, pre.w)]
<1> DEFINE a == MinWindow
           b == EC_window_bits(BN_num_bits(Order))
           n == BN_num_bits(Order)
           q == (n + BlockSize - 1) \div BlockSize
<1>1. a \in Nat \ {0} /\ BlockSize \in Nat \ {0}
  BY ParametersAssumption
<1>2. n \in Nat \ {0}
  BY OrderBits
<1>3. b \in Nat \ {0}
  BY <1>2, WindowType
<1>4. Max({a, b}) \in Nat \ {0}
  <2>1. a \in Int /\ b \in Int
    BY <1>1, <1>3
  <2> HIDE DEF a, b
  <2> QED BY <1>1, <1>3, <2>1, MaxOfTwo
<1>5. q \in Nat \ {0}
  <2>1. n \in Nat /\ n > 0
    BY <1>2
  <2> HIDE DEF n
  <2>2. q \in Nat /\ q > 0
    BY <1>1, <2>1, BlocksOf
  <2> QED BY <2>2
<1>6. pre = [w |-> Max({a, b}), numblocks |-> q,
             points |-> [i \in 0 .. q - 1 |->
                           OddMultiples((Pow2[BlockSize * i] * g) % Order, Max({a, b}))]]
  BY DEF PreComp
<1> HIDE DEF a, b, n, q
<1> QED
  BY <1>4, <1>5, <1>6

LEMMA BlocksFromOne ==
  ASSUME NEW s \in Int, NEW g \in Generators, NEW pre, pre = PreComp(g)
  PROVE  LET blocks == Min({BN_num_bits(s) \div BlockSize + 1, pre.numblocks})
         IN blocks \in Nat \ {0} /\ blocks <= pre.numblocks
<1> DEFINE a == BN_num_bits(s) \div BlockSize + 1
           b == pre.numblocks
           bits == BN_num_bits(s)
           q == bits \div BlockSize
<1>1. b \in Nat \ {0}
  BY PreCompType
<1>2. a \in Nat \ {0}
  <2>1. bits \in Nat /\ BlockSize \in Nat \ {0}
    BY NumBits, ParametersAssumption
  <2> HIDE DEF bits
  <2>2. q \in Nat
    <3>1. bits \in Int
      BY <2>1
    <3>2. bits = BlockSize * q + (bits % BlockSize) /\ q \in Int
          /\ bits % BlockSize \in 0 .. BlockSize - 1
      BY <2>1, <3>1, DivMod
    <3> HIDE DEF q
    <3> DEFINE k == -q - 1
    <3>3. q < 0 => k \in Nat /\ q = -1 - k
      BY <3>2
    <3> HIDE DEF k
    <3>4. k \in Nat => BlockSize * (-1 - k) = -BlockSize - BlockSize * k
                       /\ BlockSize * k >= 0 /\ BlockSize * k \in Int
      BY <2>1, SMT
    <3> QED BY <2>1, <3>2, <3>3, <3>4
  <2> QED BY <2>2 DEF bits
<1> HIDE DEF a, b
<1>3. Min({a, b}) \in Nat \ {0} /\ Min({a, b}) <= b
  <2>1. a \in Int /\ b \in Int
    BY <1>1, <1>2
  <2> QED BY <1>1, <1>2, <2>1, MinOfTwo
<1> QED
  BY <1>3 DEF a, b

LEMMA CallShape ==
  ASSUME GroupKept, CallKept, pc # "idle"
  PROVE  /\ num \in Nat /\ Scalars \in Nat /\ Room \in Nat
         /\ req.scalar = NULL \/ req.scalar \in Int
         /\ group.generator \in Generators /\ group.generator \in 0 .. Order - 1
         /\ \A i \in 0 .. num - 1 : req.terms[i + 1].s \in Int /\ req.terms[i + 1].P \in Int
         /\ loc.pre => /\ Scalars = num /\ Room >= num + 1 /\ req.scalar \in Int
                       /\ req.scalar # NULL
                       /\ group.pre_comp # NULL /\ Room <= num + group.pre_comp.numblocks
                       /\ \E g \in Generators : group.pre_comp = PreComp(g)
         /\ ~loc.pre => Scalars = Room
         /\ Scalars = num \/ (Scalars = num + 1 /\ ~loc.pre /\ req.scalar # NULL)
<1>1. req.scalar = NULL \/ req.scalar \in Int
  BY CallsAssumption DEF CallKept, Locals
<1>2. req.terms \in Seq([s : Int, P : Int])
  BY CallsAssumption DEF CallKept, Locals
<1>3. num \in Nat
  BY <1>2 DEF num
<1>4. \A i \in 0 .. num - 1 : req.terms[i + 1].s \in Int /\ req.terms[i + 1].P \in Int
  <2> TAKE i \in 0 .. num - 1
  <2>1. i + 1 \in 1 .. Len(req.terms)
    BY <1>3 DEF num
  <2> DEFINE T == [s : Int, P : Int]
             terms == req.terms
  <2>2. terms[i + 1] \in T
    <3>1. terms \in Seq(T) /\ i + 1 \in 1 .. Len(terms)
      BY <1>2, <2>1
    <3> HIDE DEF T, terms
    <3> QED BY <3>1
  <2> QED BY <2>2
<1>5. loc.pre \in BOOLEAN
  BY DEF CallKept, Locals
<1>6. group.generator \in Generators /\ group.generator \in 0 .. Order - 1
  BY CallsAssumption DEF GroupKept
<1>7. ~loc.pre => Scalars = Room /\ Scalars \in Nat
                  /\ (Scalars = num \/ (Scalars = num + 1 /\ req.scalar # NULL))
  BY <1>3, <1>5 DEF Scalars, Room
<1>8. ASSUME loc.pre
      PROVE  /\ Scalars = num /\ Room \in Nat /\ Room >= num + 1 /\ req.scalar \in Int
             /\ req.scalar # NULL /\ group.pre_comp # NULL
             /\ Room <= num + group.pre_comp.numblocks
             /\ \E g \in Generators : group.pre_comp = PreComp(g)
  <2>1. req.scalar # NULL /\ group.pre_comp # NULL
    BY <1>8 DEF CallKept, Locals, Matches
  <2>2. PICK g \in Generators : group.pre_comp = PreComp(g)
    BY <2>1 DEF GroupKept
  <2> DEFINE blocks == Min({BN_num_bits(req.scalar) \div BlockSize + 1,
                            group.pre_comp.numblocks})
  <2>3. group.pre_comp.numblocks \in Nat
    BY <2>2, PreCompType
  <2>4. req.scalar \in Int
    BY <1>1, <2>1
  <2>5. blocks \in Nat \ {0} /\ blocks <= group.pre_comp.numblocks
    BY <2>2, <2>4, BlocksFromOne
  <2>6. Room = num + blocks
    BY <1>8, <2>1 DEF Room
  <2> HIDE DEF blocks
  <2> QED BY <1>3, <1>8, <2>1, <2>2, <2>3, <2>4, <2>5, <2>6 DEF Scalars
<1> QED
  BY <1>1, <1>3, <1>4, <1>5, <1>6, <1>7, <1>8

LEMMA ScalarShape ==
  ASSUME GroupKept, CallKept, pc # "idle", NEW i \in 0 .. Scalars - 1
  PROVE  Scalar(i) \in Int /\ Point(i) \in Int /\ Window(i) \in Nat \ {0}
<1>1. CASE i < num
  <2>1. i \in 0 .. num - 1
    BY <1>1, CallShape
  <2>2. Scalar(i) \in Int /\ Point(i) \in Int
    BY <1>1, <2>1, CallShape DEF Scalar, Point
  <2> QED BY <2>2, NumBits, WindowType DEF Window
<1>2. CASE ~(i < num)
  <2>1. req.scalar \in Int /\ group.generator \in Int
    <3>1. i \in Int /\ Order \in Nat
      BY CallShape, ParametersAssumption
    <3> QED BY <1>2, <3>1, CallShape
  <2>2. Scalar(i) \in Int /\ Point(i) \in Int
    BY <1>2, <2>1 DEF Scalar, Point
  <2> QED BY <2>2, NumBits, WindowType DEF Window
<1> QED
  BY <1>1, <1>2

LEMMA SumNat ==
  ASSUME NEW f, NEW n \in Nat, \A i \in 0 .. n - 1 : f[i] \in Nat
  PROVE  SumOf(f, n) \in Nat
<1> DEFINE S == {m \in Nat : m <= n => SumOf(f, m) \in Nat}
<1>1. 0 \in S
  BY SumGrows
<1>2. ASSUME NEW m \in Nat, m \in S PROVE m + 1 \in S
  <2> SUFFICES ASSUME m + 1 <= n PROVE SumOf(f, m + 1) \in Nat
    OBVIOUS
  <2>1. m \in 0 .. n - 1 /\ SumOf(f, m) \in Nat
    BY <1>2
  <2>2. SumOf(f, m + 1) = SumOf(f, m) + f[m]
    BY <2>1, SumGrows
  <2> QED BY <2>1, <2>2
<1> HIDE DEF S
<1>3. Nat \subseteq S
  BY <1>1, <1>2, SetInduction
<1> QED
  BY <1>3 DEF S

LEMMA NumValType ==
  ASSUME GroupKept, CallKept, pc # "idle"
  PROVE  num_val \in Nat
<1> DEFINE f == [i \in 0 .. Scalars - 1 |-> Pow2[Window(i) - 1]]
<1>1. Scalars \in Nat
  BY CallShape
<1>2. \A i \in 0 .. Scalars - 1 : f[i] \in Nat
  <2> TAKE i \in 0 .. Scalars - 1
  <2>1. Window(i) \in Nat \ {0}
    BY ScalarShape
  <2>2. Window(i) - 1 \in Nat
    BY <2>1
  <2>3. Pow2[Window(i) - 1] \in Nat
    BY <2>2, Pow2Type
  <2> QED BY <2>3
<1>3. num_val = SumOf(f, Scalars)
  BY DEF num_val
<1> HIDE DEF f
<1> QED
  BY <1>1, <1>2, <1>3, SumNat

(* What a step within a call leaves as it is.                                 *)
LEMMA SameCall ==
  ASSUME UNCHANGED <<group, req>>, loc'.pre = loc.pre
  PROVE  /\ num' = num /\ Room' = Room /\ Scalars' = Scalars /\ PreNaf' = PreNaf
         /\ num_val' = num_val /\ Vals' = Vals /\ GroupKept' = GroupKept
         /\ \A n : Val(n)' = Val(n)
         /\ \A j : Scalar(j)' = Scalar(j) /\ Window(j)' = Window(j) /\ Point(j)' = Point(j)
<1>1. num' = num /\ PreNaf' = PreNaf
  BY DEF num, PreNaf
<1>2. Room' = Room /\ Scalars' = Scalars
  BY <1>1 DEF Room, Scalars
<1>3. \A j : Scalar(j)' = Scalar(j) /\ Point(j)' = Point(j)
  BY <1>1 DEF Scalar, Point
<1>4. \A j : Window(j)' = Window(j)
  BY <1>3 DEF Window
<1>5. num_val' = num_val
  BY <1>2, <1>4 DEF num_val
<1>6. \A n : Val(n)' = Val(n)
  BY <1>5 DEF Val
<1>7. Vals' = Vals
  BY <1>5, <1>6 DEF Vals
<1> QED
  BY <1>1, <1>2, <1>3, <1>4, <1>5, <1>6, <1>7 DEF GroupKept

LEMMA OddMultiplesType ==
  ASSUME NEW P \in Int, NEW w \in Nat \ {0}
  PROVE  /\ OddMultiples(P, w) \in Seq(Int) /\ Len(OddMultiples(P, w)) = Pow2[w - 1]
         /\ \A d \in 1 .. Pow2[w - 1] :
              /\ OddMultiples(P, w)[d] = ((2 * d - 1) * P) % Order
              /\ OddMultiples(P, w)[d] \in 0 .. Order - 1
<1> DEFINE n == Pow2[w - 1]
           m(d) == ((2 * d - 1) * P) % Order
<1>1. n \in Nat
  <2>1. w - 1 \in Nat
    OBVIOUS
  <2> QED BY <2>1, Pow2Type
<1>2. \A d \in 1 .. n : m(d) \in Int /\ m(d) \in 0 .. Order - 1
  <2> TAKE d \in 1 .. n
  <2> DEFINE x == (2 * d - 1) * P
  <2>1. x \in Int /\ Order \in Nat \ {0}
    <3>1. 2 * d - 1 \in Int
      BY <1>1
    <3> QED BY <3>1, ProductType, ParametersAssumption
  <2> HIDE DEF x
  <2>2. x % Order \in 0 .. Order - 1 /\ x % Order \in Int
    BY <2>1, DivMod
  <2> QED BY <2>2 DEF x
<1>3. OddMultiples(P, w) = [d \in 1 .. n |-> m(d)]
  BY DEF OddMultiples
<1> HIDE DEF n, m
<1>4. OddMultiples(P, w) \in Seq(Int) /\ Len(OddMultiples(P, w)) = n
      /\ \A d \in 1 .. n : OddMultiples(P, w)[d] = m(d)
  BY <1>1, <1>2, <1>3
<1> QED
  BY <1>2, <1>4 DEF n, m

LEMMA PreShape ==
  ASSUME GroupKept, CallKept, pc # "idle", loc.pre
  PROVE  /\ PreNaf \in Seq(Int) /\ IsWnaf(PreNaf, req.scalar, group.pre_comp.w)
         /\ group.pre_comp.w \in Nat \ {0} /\ group.pre_comp.numblocks \in Nat \ {0}
         /\ \A b \in 0 .. group.pre_comp.numblocks - 1 : group.pre_comp.points[b] \in Seq(Int)
<1>1. /\ req.scalar \in Int
      /\ \E g \in Generators : group.pre_comp = PreComp(g)
  BY CallShape
<1>2. PICK g \in Generators : group.pre_comp = PreComp(g)
  BY <1>1
<1> DEFINE pre == group.pre_comp
<1>3. /\ pre.w \in Nat \ {0} /\ pre.numblocks \in Nat \ {0}
      /\ pre.points = [b \in 0 .. pre.numblocks - 1 |->
                         OddMultiples((Pow2[BlockSize * b] * g) % Order, pre.w)]
  <2> HIDE DEF pre
  <2>1. pre = PreComp(g)
    BY <1>2 DEF pre
  <2> QED BY <2>1, PreCompType
<1>4. ASSUME NEW b \in 0 .. pre.numblocks - 1 PROVE pre.points[b] \in Seq(Int)
  <2> DEFINE e == BlockSize * b
             x == Pow2[e] * g
             P == x % Order
  <2>1. BlockSize \in Nat /\ Order \in Nat \ {0} /\ g \in Int
    BY ParametersAssumption, CallsAssumption
  <2>2. e \in Nat
    <3>1. b \in Nat
      BY <1>3
    <3> HIDE DEF pre
    <3> QED BY <2>1, <3>1, SMT
  <2> HIDE DEF e
  <2>3. x \in Int
    BY <2>1, <2>2, Pow2Type, ProductType
  <2> HIDE DEF x
  <2>4. P \in Int
    BY <2>1, <2>3, DivMod
  <2>5. pre.points[b] = OddMultiples(P, pre.w)
    BY <1>3 DEF e, x
  <2> HIDE DEF P, pre
  <2> QED BY <1>3, <2>4, <2>5, OddMultiplesType
<1>5. PreNaf \in Seq(Int) /\ IsWnaf(PreNaf, req.scalar, pre.w)
  BY <1>1, <1>3, WnafOfScalar DEF PreNaf
<1> QED
  BY <1>3, <1>4, <1>5

LEMMA NafShape ==
  ASSUME GroupKept, CallKept, pc # "idle", NEW i \in 0 .. Scalars - 1
  PROVE  /\ compute_wNAF(Scalar(i), Window(i)) \in Seq(Int)
         /\ IsWnaf(compute_wNAF(Scalar(i), Window(i)), Scalar(i), Window(i))
  BY ScalarShape, WnafOfScalar

(* The fields of the locals.                                                  *)
LEMMA Fields ==
  ASSUME CallKept, pc # "idle"
  PROVE  /\ loc.pre \in BOOLEAN /\ loc.numblocks \in Nat /\ loc.total \in 0 .. Room
         /\ loc.wNAF \in [0 .. Room -> Entry] /\ loc.tmp \in Seq(Int)
         /\ loc.val_sub \in [0 .. Room - 1 -> Seq(Int)] \cup [0 .. loc.total - 1 -> Seq(Int)]
         /\ loc.max_len \in Nat /\ loc.i \in 0 .. Room /\ loc.k \in Int /\ loc.val \in Vals
         /\ loc.inverted \in BOOLEAN /\ loc.at_infinity \in BOOLEAN
  BY DEF CallKept, Locals

(* A step within a call that leaves the locals well-formed.                   *)
LEMMA StaysKept ==
  ASSUME GroupKept, CallKept, pc # "idle", UNCHANGED <<group, req>>,
         loc'.pre = loc.pre, loc' \in Locals(Room, loc'.total, Vals)
  PROVE  GroupKept' /\ CallKept'
<1>1. Room' = Room /\ Vals' = Vals /\ GroupKept' = GroupKept
  BY SameCall
<1> QED
  BY <1>1 DEF CallKept

-------------------------------------------------------------------------------
(* Types and counts through every step.                                       *)

LEMMA BeginKept ==
  ASSUME Kept, Begin
  PROVE  Kept'
<1>1. PICK c \in Calls, compared \in BOOLEAN :
        LET usable == /\ c.scalar # NULL /\ compared
                      /\ Matches(group.pre_comp, group.generator)
            blocks == Min({BN_num_bits(c.scalar) \div BlockSize + 1,
                           group.pre_comp.numblocks})
            numblocks == IF c.scalar = NULL THEN 0 ELSE IF usable THEN blocks ELSE 1
            total == Len(c.terms) + numblocks
        IN /\ req' = c
           /\ loc' = [pre |-> usable, numblocks |-> numblocks, total |-> total,
                      wNAF |-> [i \in 0 .. total |-> Junk], tmp |-> <<>>,
                      val_sub |-> [i \in 0 .. total - 1 |-> <<>>],
                      max_len |-> 0, i |-> 0, k |-> 0, val |-> <<>>,
                      inverted |-> FALSE, at_infinity |-> TRUE]
           /\ pc' = IF c.scalar = NULL /\ c.terms = <<>> THEN "done" ELSE "arrays"
  BY DEF Begin
<1> DEFINE usable == /\ c.scalar # NULL /\ compared
                     /\ Matches(group.pre_comp, group.generator)
           blocks == Min({BN_num_bits(c.scalar) \div BlockSize + 1,
                          group.pre_comp.numblocks})
           numblocks == IF c.scalar = NULL THEN 0 ELSE IF usable THEN blocks ELSE 1
           total == Len(c.terms) + numblocks
           wNAF == [i \in 0 .. total |-> Junk]
           val_sub == [i \in 0 .. total - 1 |-> <<>>]
<1>2. /\ req' = c
      /\ loc' = [pre |-> usable, numblocks |-> numblocks, total |-> total,
                 wNAF |-> wNAF, tmp |-> <<>>, val_sub |-> val_sub,
                 max_len |-> 0, i |-> 0, k |-> 0, val |-> <<>>,
                 inverted |-> FALSE, at_infinity |-> TRUE]
      /\ pc' = IF c.scalar = NULL /\ c.terms = <<>> THEN "done" ELSE "arrays"
  BY <1>1
<1>3. group' = group /\ GroupKept
  BY DEF Begin, Kept
<1>4. Len(c.terms) \in Nat /\ (c.scalar = NULL \/ c.scalar \in Int) /\ (Len(c.terms) = 0 => c.terms = <<>>)
  BY CallsAssumption
<1>5. ASSUME usable PROVE blocks \in Nat \ {0}
  <2>1. group.pre_comp # NULL /\ c.scalar \in Int
    BY <1>4, <1>5 DEF Matches
  <2>2. PICK g \in Generators : group.pre_comp = PreComp(g)
    BY <1>3, <2>1 DEF GroupKept
  <2> QED BY <2>1, <2>2, BlocksFromOne
<1>6. numblocks \in Nat /\ (usable => numblocks >= 1) /\ usable \in BOOLEAN
      /\ (c.scalar # NULL => numblocks >= 1)
  BY <1>5
<1>7. Room' = total /\ num' = Len(c.terms)
  <2>1. num' = Len(c.terms)
    BY <1>2 DEF num
  <2>2. (req.scalar)' = c.scalar /\ (loc.pre)' = usable
    BY <1>2
  <2> HIDE DEF usable
  <2> QED BY <1>3, <2>1, <2>2 DEF Room
<1> HIDE DEF blocks
<1>8. total \in Nat
  BY <1>4, <1>6
<1>9. wNAF \in [0 .. total -> Entry] /\ val_sub \in [0 .. total - 1 -> Seq(Int)]
  BY <1>8 DEF Entry, Junk
<1>10. pc' # "done" => total >= 1
  <2>1. pc' # "done" => c.scalar # NULL \/ c.terms # <<>>
    BY <1>2
  <2> QED BY <1>4, <1>6, <2>1
<1>11. pc' \in {"done", "arrays"}
  BY <1>2
<1> HIDE DEF usable, numblocks, total, wNAF, val_sub
<1>12. loc' \in Locals(total, total, Vals')
  BY <1>2, <1>6, <1>8, <1>9 DEF Locals, Vals
<1>13. usable => c.scalar # NULL /\ Matches(group.pre_comp, group.generator)
  BY DEF usable
<1>14. CallKept'
  BY <1>2, <1>3, <1>7, <1>12, <1>13 DEF CallKept
<1>15. PlaceKept'
  <2>1. total = Len(c.terms) + numblocks
    BY DEF total
  <2>2. Counts'
    BY <1>2, <1>6, <1>7, <1>8, <1>9, <1>10, <1>11, <2>1 DEF Counts
  <2> QED BY <1>2, <1>11, <2>2 DEF PlaceKept, Places
<1> QED
  BY <1>3, <1>14, <1>15 DEF Kept, GroupKept

LEMMA EntryTypes ==
  /\ Junk \in Entry /\ Null \in Entry
  /\ \A d \in Seq(Int) : Naf(d) \in Entry
  BY DEF Junk, Null, Naf, Entry

LEMMA AllocKept ==
  ASSUME Kept, AllocArrays
  PROVE  Kept'
<1>1. /\ pc = "arrays" /\ pc' \in {"nafs", "err"} /\ UNCHANGED <<group, req>>
      /\ loc' = [loc EXCEPT !.wNAF[0] = Null]
  BY DEF AllocArrays, Step
<1>2. GroupKept /\ CallKept /\ PlaceKept
  BY DEF Kept
<1>3. pc # "idle"
  BY <1>1
<1> DEFINE w == [loc.wNAF EXCEPT ![0] = Null]
<1>4. w \in [0 .. Room -> Entry]
  BY <1>2, <1>3, Fields, EntryTypes
<1>5. loc' = [loc EXCEPT !.wNAF = w]
  BY <1>1
<1> HIDE DEF w
<1>6. /\ loc' \in Locals(Room, loc'.total, Vals) /\ loc'.pre = loc.pre /\ loc'.total = loc.total
      /\ loc'.i = loc.i /\ loc'.tmp = loc.tmp /\ loc'.numblocks = loc.numblocks
      /\ loc'.val_sub = loc.val_sub
  BY <1>2, <1>3, <1>4, <1>5 DEF CallKept, Locals
<1>7. GroupKept' /\ CallKept'
  BY <1>1, <1>2, <1>3, <1>6, StaysKept
<1>8. num' = num /\ Room' = Room /\ Scalars' = Scalars
  BY <1>1, <1>6, SameCall
<1>9. num \in Nat /\ Scalars \in Nat
  BY <1>2, <1>3, CallShape
<1>10. PlaceKept'
  <2>1. Counts'
    BY <1>1, <1>2, <1>6, <1>8 DEF PlaceKept, Counts
  <2>2. AtNafs'
    BY <1>1, <1>2, <1>6, <1>8, <1>9 DEF PlaceKept, AtNafs
  <2> QED BY <1>1, <2>1, <2>2 DEF PlaceKept, Places
<1> QED
  BY <1>7, <1>10 DEF Kept

LEMMA FailsKept ==
  ASSUME Kept, Fails
  PROVE  Kept'
<1>1. pc # "idle" /\ pc' = "err" /\ UNCHANGED <<group, req, loc>>
  BY DEF Fails
<1>2. GroupKept /\ CallKept
  BY DEF Kept
<1>3. loc' \in Locals(Room, loc'.total, Vals) /\ loc'.pre = loc.pre
  BY <1>1, <1>2 DEF CallKept
<1>4. GroupKept' /\ CallKept'
  BY <1>1, <1>2, <1>3, StaysKept
<1>5. PlaceKept'
  BY <1>1 DEF PlaceKept, Counts, Places
<1> QED
  BY <1>4, <1>5 DEF Kept

LEMMA SlotsType ==
  ASSUME CallKept, pc # "idle", NEW d \in Seq(Int)
  PROVE  NafSlots(d) \in [0 .. Room -> Entry]
  BY Fields, EntryTypes DEF NafSlots

LEMMA LongerMax ==
  ASSUME NEW m \in Nat, NEW d \in Seq(Int)
  PROVE  Max({m, Len(d)}) \in Nat /\ Max({m, Len(d)}) >= m /\ Max({m, Len(d)}) >= Len(d)
<1> DEFINE n == Len(d)
<1>1. m \in Int /\ n \in Int /\ n \in Nat
  OBVIOUS
<1> HIDE DEF n
<1>2. Max({m, n}) \in Nat /\ Max({m, n}) >= m /\ Max({m, n}) >= n
  BY <1>1, MaxOfTwo
<1> QED
  BY <1>2 DEF n

LEMMA NextNafKept ==
  ASSUME Kept, NextNaf
  PROVE  Kept'
<1> DEFINE d == compute_wNAF(Scalar(loc.i), Window(loc.i))
           w == NafSlots(d)
           m == Max({loc.max_len, Len(d)})
           n == loc.i + 1
<1>1. /\ pc = "nafs" /\ pc' = "nafs" /\ UNCHANGED <<group, req>> /\ loc.i < Scalars
      /\ loc' = [loc EXCEPT !.wNAF = w, !.i = n, !.max_len = m]
  BY DEF NextNaf, Step
<1>2. GroupKept /\ CallKept /\ PlaceKept /\ pc # "idle"
  BY <1>1 DEF Kept
<1>3. num \in Nat /\ Scalars \in Nat /\ Room \in Nat
  BY <1>2, CallShape
<1>4. Scalars <= Room
  BY <1>2, <1>3, CallShape, Fields
<1>5. loc.i \in 0 .. Scalars - 1 /\ loc.i \in Nat /\ n \in 0 .. Room /\ n <= Scalars
  <2>1. loc.i \in 0 .. Room
    BY <1>2, Fields
  <2>2. loc.i \in Nat
    BY <1>3, <2>1
  <2>3. loc.i < Scalars
    BY <1>1
  <2> QED BY <1>3, <1>4, <2>2, <2>3
<1>6. d \in Seq(Int)
  BY <1>2, <1>5, NafShape
<1>7. m \in Nat
  BY <1>2, <1>6, Fields, LongerMax
<1>8. w \in [0 .. Room -> Entry]
  BY <1>2, <1>6, SlotsType
<1> HIDE DEF d, w, m, n
<1>9. /\ loc' \in Locals(Room, loc'.total, Vals) /\ loc'.pre = loc.pre /\ loc'.total = loc.total
      /\ loc'.i = n /\ loc'.tmp = loc.tmp /\ loc'.numblocks = loc.numblocks
      /\ loc'.val_sub = loc.val_sub
  BY <1>1, <1>2, <1>5, <1>7, <1>8 DEF CallKept, Locals
<1>10. GroupKept' /\ CallKept'
  BY <1>1, <1>2, <1>9, StaysKept
<1>11. num' = num /\ Room' = Room /\ Scalars' = Scalars
  BY <1>1, <1>9, SameCall
<1>12. PlaceKept'
  <2>1. Counts'
    BY <1>1, <1>2, <1>5, <1>9, <1>11 DEF PlaceKept, Counts
  <2>2. AtNafs'
    BY <1>1, <1>2, <1>5, <1>9, <1>11 DEF PlaceKept, AtNafs
  <2> QED BY <1>1, <2>1, <2>2 DEF PlaceKept, Places
<1> QED
  BY <1>10, <1>12 DEF Kept

LEMMA NafsEndKept ==
  ASSUME Kept, NafsEnd
  PROVE  Kept'
<1>1. /\ pc = "nafs" /\ pc' = (IF loc.pre THEN "split" ELSE "val")
      /\ UNCHANGED <<group, req, loc>> /\ loc.i = Scalars
  BY DEF NafsEnd, Step
<1>2. GroupKept /\ CallKept /\ PlaceKept /\ pc # "idle"
  BY <1>1 DEF Kept
<1>3. loc' \in Locals(Room, loc'.total, Vals) /\ loc'.pre = loc.pre
  BY <1>1, <1>2 DEF CallKept
<1>4. GroupKept' /\ CallKept'
  BY <1>1, <1>2, <1>3, StaysKept
<1>5. num' = num /\ Room' = Room /\ Scalars' = Scalars
  BY <1>1, <1>3, SameCall
<1>6. Scalars <= loc.total /\ (loc.pre => Scalars = num)
  BY <1>1, <1>2, CallShape DEF PlaceKept, Counts
<1>7. PlaceKept'
  <2>1. Counts'
    BY <1>1, <1>2, <1>5 DEF PlaceKept, Counts, AtNafs
  <2>2. loc.pre => AtSplit'
    BY <1>1, <1>2, <1>5, <1>6 DEF PlaceKept, Counts, AtNafs, AtSplit
  <2>3. loc.pre \in BOOLEAN
    BY <1>2, Fields
  <2> QED BY <1>1, <1>5, <1>6, <2>1, <2>2, <2>3 DEF PlaceKept, Places
<1> QED
  BY <1>4, <1>7 DEF Kept

LEMMA SplitNotKept ==
  ASSUME Kept, SplitNot
  PROVE  Kept'
<1> DEFINE w == NafSlots(PreNaf)
           v == [loc.val_sub EXCEPT ![num] = group.pre_comp.points[0]]
           n == num + 1
<1>1. /\ pc = "split" /\ pc' = "val" /\ UNCHANGED <<group, req>>
      /\ loc' = [loc EXCEPT !.numblocks = 1, !.total = n, !.wNAF = w, !.val_sub = v]
  BY DEF SplitNot, Step
<1>2. GroupKept /\ CallKept /\ PlaceKept /\ pc # "idle"
  BY <1>1 DEF Kept
<1>3. loc.pre /\ loc.val_sub \in [0 .. Room - 1 -> Seq(Int)]
  BY <1>1, <1>2 DEF PlaceKept, AtSplit, Counts
<1>4. num \in Nat /\ Room \in Nat /\ n \in 0 .. Room /\ n >= 1 /\ Scalars = num
  BY <1>2, <1>3, CallShape
<1>5. w \in [0 .. Room -> Entry] /\ group.pre_comp.points[0] \in Seq(Int)
  <2>1. PreNaf \in Seq(Int)
    BY <1>2, <1>3, PreShape
  <2>2. 0 \in 0 .. group.pre_comp.numblocks - 1
    BY <1>2, <1>3, PreShape
  <2> QED BY <1>2, <1>3, <2>1, <2>2, PreShape, SlotsType
<1>6. v \in [0 .. Room - 1 -> Seq(Int)]
  BY <1>3, <1>5
<1> HIDE DEF w, v, n
<1>7. /\ loc' \in Locals(Room, loc'.total, Vals) /\ loc'.pre = loc.pre
      /\ loc'.total = n /\ loc'.val_sub = v
  BY <1>1, <1>2, <1>4, <1>5, <1>6 DEF CallKept, Locals
<1>8. GroupKept' /\ CallKept'
  BY <1>1, <1>2, <1>7, StaysKept
<1>9. num' = num /\ Room' = Room /\ Scalars' = Scalars
  BY <1>1, <1>7, SameCall
<1>10. PlaceKept'
  <2>1. Counts'
    BY <1>1, <1>4, <1>6, <1>7, <1>9 DEF Counts
  <2>2. Scalars <= n
    BY <1>4 DEF n
  <2> QED BY <1>1, <1>7, <1>9, <2>1, <2>2 DEF PlaceKept, Places
<1> QED
  BY <1>8, <1>10 DEF Kept

(* The blocks of the split: the multiples suffice, and only the last block    *)
(* may be short (ec_mult.c:519-539).                                          *)
LEMMA SplitCount ==
  ASSUME NEW len \in Nat \ {0}, NEW n \in Nat \ {0}, NEW blocks,
         blocks = IF len < n * BlockSize THEN (len + BlockSize - 1) \div BlockSize ELSE n
  PROVE  blocks \in Nat \ {0} /\ blocks <= n /\ BlockSize * (blocks - 1) < len
<1>1. BlockSize \in Nat \ {0} /\ len \in Nat /\ len > 0 /\ n \in Nat
  BY ParametersAssumption
<1>2. n * BlockSize = BlockSize * n /\ BlockSize * n \in Nat
  BY <1>1, SMT
<1>3. CASE len < n * BlockSize
  <2> DEFINE q == (len + BlockSize - 1) \div BlockSize
  <2>1. blocks = q
    BY <1>3
  <2> HIDE DEF q
  <2>2. len <= BlockSize * n
    BY <1>1, <1>2, <1>3
  <2>3. q \in Nat /\ q > 0 /\ BlockSize * (q - 1) < len
    BY <1>1, BlocksOf DEF q
  <2>4. q <= n
    BY <1>1, <2>2, BlocksOf DEF q
  <2> QED BY <2>1, <2>3, <2>4
<1>4. CASE ~(len < n * BlockSize)
  <2>1. blocks = n
    BY <1>4
  <2>2. BlockSize * (n - 1) = BlockSize * n - BlockSize
    BY <1>1, SMT
  <2> QED BY <1>1, <1>2, <1>4, <2>1, <2>2
<1> QED
  BY <1>3, <1>4

LEMMA SplitBeginsKept ==
  ASSUME Kept, SplitBegins
  PROVE  Kept'
<1> DEFINE d == PreNaf
           blocks == IF Len(PreNaf) < loc.numblocks * BlockSize
                     THEN (Len(PreNaf) + BlockSize - 1) \div BlockSize
                     ELSE loc.numblocks
           n == num + blocks
           len == Len(d)
<1>1. /\ pc = "split" /\ pc' = "split" /\ UNCHANGED <<group, req>>
      /\ loc' = [loc EXCEPT !.tmp = d, !.numblocks = blocks, !.total = n]
      /\ loc.tmp = <<>> /\ len > loc.max_len
  BY DEF SplitBegins, Step
<1>2. GroupKept /\ CallKept /\ PlaceKept /\ pc # "idle"
  BY <1>1 DEF Kept
<1>3. /\ loc.pre /\ loc.val_sub \in [0 .. Room - 1 -> Seq(Int)]
      /\ loc.i = num /\ loc.total = Room /\ Room = num + loc.numblocks /\ loc.numblocks >= 1
  BY <1>1, <1>2 DEF PlaceKept, AtSplit, Counts
<1>4. num \in Nat /\ Room \in Nat /\ loc.numblocks \in Nat \ {0} /\ loc.max_len \in Nat
  <2>1. loc.numblocks \in Nat
    BY <1>2, Fields
  <2> QED BY <1>2, <1>3, <2>1, CallShape, Fields
<1>5. d \in Seq(Int)
  BY <1>2, <1>3, PreShape
<1>6. len \in Nat \ {0} /\ d # <<>>
  <2>1. len \in Nat
    BY <1>5
  <2>2. len # 0
    BY <1>1, <1>4, <2>1
  <2>3. d # <<>>
    BY <2>2
  <2> QED BY <2>1, <2>2, <2>3
<1>7. blocks \in Nat \ {0} /\ blocks <= loc.numblocks /\ BlockSize * (blocks - 1) < len
  <2>1. blocks = IF len < loc.numblocks * BlockSize
                 THEN (len + BlockSize - 1) \div BlockSize ELSE loc.numblocks
    OBVIOUS
  <2> HIDE DEF blocks, len
  <2> QED BY <1>4, <1>6, <2>1, SplitCount
<1> HIDE DEF blocks
<1>8. n \in 0 .. Room /\ n >= num /\ n >= 1
  BY <1>3, <1>4, <1>7
<1>9. /\ loc'.pre = loc.pre /\ loc'.numblocks = blocks /\ loc'.tmp = d /\ loc'.total = n
      /\ loc'.i = loc.i /\ loc'.val_sub = loc.val_sub
  <2> HIDE DEF d, n
  <2> QED BY <1>1, <1>2 DEF CallKept, Locals
<1>10. loc' \in Locals(Room, loc'.total, Vals)
  <2>1. n = num + blocks
    OBVIOUS
  <2> HIDE DEF d, n, len
  <2> QED BY <1>1, <1>2, <1>3, <1>5, <1>7, <1>8, <1>9 DEF CallKept, Locals
<1>11. GroupKept' /\ CallKept'
  BY <1>1, <1>2, <1>9, <1>10, StaysKept
<1>12. num' = num /\ Room' = Room /\ Scalars' = Scalars /\ PreNaf' = PreNaf
  BY <1>1, <1>9, SameCall
<1>13. PlaceKept'
  <2>1. Counts'
    BY <1>1, <1>3, <1>4, <1>7, <1>8, <1>9, <1>12 DEF Counts
  <2>2. AtSplit'
    BY <1>1, <1>3, <1>4, <1>6, <1>7, <1>9, <1>12 DEF AtSplit
  <2> QED BY <1>1, <2>1, <2>2 DEF PlaceKept, Places
<1> QED
  BY <1>11, <1>13 DEF Kept

LEMMA PartOf ==
  ASSUME NEW d \in Seq(Int), NEW p \in Nat, NEW q \in Nat, p <= q, q <= Len(d)
  PROVE  /\ SubSeq(d, p + 1, q) \in Seq(Int) /\ Len(SubSeq(d, p + 1, q)) = q - p
         /\ \A j \in 1 .. q - p : SubSeq(d, p + 1, q)[j] = d[p + j]
<1>1. Len(d) \in Nat /\ \A j \in 1 .. Len(d) : d[j] \in Int
  OBVIOUS
<1> DEFINE n == q - p
           e == [j \in 1 .. n |-> d[p + j]]
<1>2. n \in Nat /\ \A j \in 1 .. n : p + j \in 1 .. Len(d)
  BY <1>1
<1>3. SubSeq(d, p + 1, q) = e
  <2>1. SubSeq(d, p + 1, q) = [j \in 1 .. (1 + q - (p + 1)) |-> d[(p + 1) + j - 1]]
    OBVIOUS
  <2>2. 1 + q - (p + 1) = n /\ \A j \in 1 .. n : (p + 1) + j - 1 = p + j
    OBVIOUS
  <2> QED BY <2>1, <2>2
<1>4. \A j \in 1 .. n : d[p + j] \in Int
  BY <1>1, <1>2
<1>5. e \in Seq(Int) /\ Len(e) = n /\ \A j \in 1 .. n : e[j] = d[p + j]
  <2> HIDE DEF n
  <2> QED BY <1>2, <1>4
<1> QED
  BY <1>3, <1>5

(* Where a block of the split NAF begins and ends.                            *)
BlockFrom(b) == BlockSize * b
BlockTo(b) == IF b = loc.numblocks - 1 THEN Len(loc.tmp) ELSE BlockSize * (b + 1)
BlockDigits(b) == SubSeq(loc.tmp, BlockFrom(b) + 1, BlockTo(b))

LEMMA BlockShape ==
  ASSUME loc.tmp \in Seq(Int), loc.numblocks \in Nat \ {0},
         BlockSize * (loc.numblocks - 1) < Len(loc.tmp), NEW b \in 0 .. loc.numblocks - 1
  PROVE  /\ BlockFrom(b) \in Nat /\ BlockTo(b) \in Nat
         /\ BlockFrom(b) <= BlockTo(b) /\ BlockTo(b) <= Len(loc.tmp)
         /\ b < loc.numblocks - 1 => BlockTo(b) = BlockFrom(b + 1) /\ BlockTo(b) = BlockFrom(b) + BlockSize
         /\ BlockDigits(b) \in Seq(Int) /\ Len(BlockDigits(b)) = BlockTo(b) - BlockFrom(b)
<1> DEFINE n == loc.numblocks
           len == Len(loc.tmp)
           c == n - 1 - b
<1>1. BlockSize \in Nat \ {0} /\ len \in Nat /\ b \in Nat /\ c \in Nat /\ n \in Nat \ {0} /\ n - 1 = b + c
  BY ParametersAssumption
<1>2. BlockSize * b \in Nat /\ BlockSize * c \in Nat /\ BlockSize * (b + 1) = BlockSize * b + BlockSize
  <2> HIDE DEF c
  <2> QED BY <1>1, SMT
<1>3. BlockSize * (n - 1) = BlockSize * b + BlockSize * c
  <2> HIDE DEF c, n
  <2>1. BlockSize * (b + c) = BlockSize * b + BlockSize * c
    BY <1>1, SMT
  <2> QED BY <1>1, <2>1
<1>4. c # 0 => BlockSize * c >= BlockSize
  <2>1. c # 0 => c - 1 \in Nat
    BY <1>1
  <2> DEFINE e == c - 1
  <2>2. e \in Nat => BlockSize * (e + 1) = BlockSize * e + BlockSize /\ BlockSize * e >= 0
                     /\ BlockSize * e \in Int
    <3> HIDE DEF e
    <3> QED BY <1>1, SMT
  <2>3. e + 1 = c
    BY <1>1
  <2> HIDE DEF e, c
  <2> QED BY <1>1, <2>1, <2>2, <2>3 DEF e
<1>5. BlockSize * (n - 1) < len
  OBVIOUS
<1>6. BlockFrom(b) = BlockSize * b /\ BlockTo(b) = IF c = 0 THEN len ELSE BlockSize * (b + 1)
  <2>1. c = 0 <=> b = n - 1
    BY <1>1
  <2> QED BY <2>1 DEF BlockFrom, BlockTo
<1>7. b < n - 1 => c # 0
  BY <1>1
<1> HIDE DEF c, len, n
<1>8. /\ BlockFrom(b) \in Nat /\ BlockTo(b) \in Nat
      /\ BlockFrom(b) <= BlockTo(b) /\ BlockTo(b) <= len
  <2> DEFINE x == BlockSize * b
             y == BlockSize * c
             z == BlockSize * (n - 1)
  <2>1. x \in Nat /\ y \in Nat /\ z = x + y /\ z < len /\ (c # 0 => y >= BlockSize)
    BY <1>2, <1>3, <1>4, <1>5
  <2>2. BlockFrom(b) = x /\ BlockTo(b) = IF c = 0 THEN len ELSE x + BlockSize
    BY <1>2, <1>6
  <2> HIDE DEF x, y, z
  <2> QED BY <1>1, <2>1, <2>2
<1>9. b < n - 1 => BlockTo(b) = BlockFrom(b + 1) /\ BlockTo(b) = BlockFrom(b) + BlockSize
  BY <1>2, <1>6, <1>7 DEF BlockFrom
<1> DEFINE p == BlockFrom(b)
           q == BlockTo(b)
           d == loc.tmp
<1>10. SubSeq(d, p + 1, q) \in Seq(Int) /\ Len(SubSeq(d, p + 1, q)) = q - p
  <2>1. p \in Nat /\ q \in Nat /\ p <= q /\ q <= Len(d) /\ d \in Seq(Int)
    BY <1>8 DEF len
  <2> HIDE DEF p, q, d
  <2> QED BY <2>1, PartOf
<1> QED
  BY <1>8, <1>9, <1>10 DEF n, len, BlockDigits

(* The block that is split off next.                                          *)
LEMMA NextBlock ==
  ASSUME Kept, pc = "split", loc.tmp # <<>>, loc.i < loc.total, NEW b, b = loc.i - num
  PROVE  /\ loc.pre /\ b \in 0 .. loc.numblocks - 1 /\ b \in 0 .. group.pre_comp.numblocks - 1
         /\ loc.tmp = PreNaf /\ loc.tmp \in Seq(Int) /\ loc.numblocks \in Nat \ {0}
         /\ BlockSize * (loc.numblocks - 1) < Len(loc.tmp)
         /\ BlockDigits(b) = SubSeq(loc.tmp, b * BlockSize + 1,
                                    IF loc.i = loc.total - 1 THEN Len(loc.tmp) ELSE (b + 1) * BlockSize)
<1>1. GroupKept /\ CallKept /\ PlaceKept /\ pc # "idle"
  BY DEF Kept
<1>2. /\ loc.pre /\ loc.i >= num /\ loc.tmp = PreNaf /\ loc.total = num + loc.numblocks
      /\ BlockSize * (loc.numblocks - 1) < Len(loc.tmp) /\ loc.numblocks >= 1
  BY <1>1 DEF PlaceKept, AtSplit, Counts
<1>3. num \in Nat /\ Room \in Nat /\ Room <= num + group.pre_comp.numblocks
  BY <1>1, <1>2, CallShape
<1>4. loc.i \in Nat /\ loc.numblocks \in Nat /\ loc.total <= Room /\ loc.tmp \in Seq(Int)
  BY <1>1, <1>3, Fields
<1>5. group.pre_comp.numblocks \in Nat
  BY <1>1, <1>2, PreShape
<1>6. /\ b \in 0 .. loc.numblocks - 1 /\ b \in 0 .. group.pre_comp.numblocks - 1
      /\ (b = loc.numblocks - 1 <=> loc.i = loc.total - 1) /\ b \in Nat
  <2> DEFINE i == loc.i
             n == loc.numblocks
             t == loc.total
             m == group.pre_comp.numblocks
             top == Room
  <2>1. /\ i \in Nat /\ n \in Nat /\ m \in Nat /\ top \in Nat /\ num \in Nat /\ i >= num /\ i < t
        /\ t = num + n /\ t <= top /\ top <= num + m /\ b = i - num
    BY <1>2, <1>3, <1>4, <1>5
  <2> HIDE DEF i, n, t, m, top
  <2>2. b \in 0 .. n - 1 /\ b \in 0 .. m - 1 /\ (b = n - 1 <=> i = t - 1) /\ b \in Nat
    BY <2>1
  <2> QED BY <2>2 DEF i, n, t, m
<1>7. b * BlockSize = BlockSize * b /\ (b + 1) * BlockSize = BlockSize * (b + 1)
  BY <1>6, ParametersAssumption, SMT
<1>8. BlockDigits(b) = SubSeq(loc.tmp, b * BlockSize + 1,
                              IF loc.i = loc.total - 1 THEN Len(loc.tmp) ELSE (b + 1) * BlockSize)
  BY <1>6, <1>7 DEF BlockDigits, BlockFrom, BlockTo
<1> QED
  BY <1>2, <1>4, <1>6, <1>8

LEMMA SplitBlockKept ==
  ASSUME Kept, SplitBlock
  PROVE  Kept'
<1> DEFINE b == loc.i - num
           d == BlockDigits(b)
           w == NafSlots(d)
           m == Max({loc.max_len, Len(d)})
           n == loc.i + 1
           v == [loc.val_sub EXCEPT ![loc.i] = group.pre_comp.points[b]]
<1>1. /\ pc = "split" /\ pc' = "split" /\ UNCHANGED <<group, req>>
      /\ loc.tmp # <<>> /\ loc.i < loc.total
  BY DEF SplitBlock, Step
<1>2. GroupKept /\ CallKept /\ PlaceKept /\ pc # "idle"
  BY <1>1 DEF Kept
<1>3. /\ loc.pre /\ b \in 0 .. loc.numblocks - 1 /\ b \in 0 .. group.pre_comp.numblocks - 1
      /\ loc.tmp = PreNaf /\ loc.tmp \in Seq(Int) /\ loc.numblocks \in Nat \ {0}
      /\ BlockSize * (loc.numblocks - 1) < Len(loc.tmp)
      /\ d = SubSeq(loc.tmp, b * BlockSize + 1,
                    IF loc.i = loc.total - 1 THEN Len(loc.tmp) ELSE (b + 1) * BlockSize)
  <2> HIDE DEF b
  <2>1. b = loc.i - num
    BY DEF b
  <2> QED BY <1>1, <2>1, NextBlock
<1>4. loc' = [loc EXCEPT !.wNAF = w, !.i = n, !.max_len = m, !.val_sub = v]
  BY <1>3 DEF SplitBlock
<1>5. d \in Seq(Int)
  <2> HIDE DEF b
  <2> QED BY <1>3, BlockShape
<1>6. group.pre_comp.points[b] \in Seq(Int)
  BY <1>2, <1>3, PreShape
<1>7. loc.val_sub \in [0 .. Room - 1 -> Seq(Int)]
  BY <1>1, <1>2 DEF PlaceKept, Counts
<1>8. v \in [0 .. Room - 1 -> Seq(Int)]
  <2> HIDE DEF b
  <2> QED BY <1>6, <1>7
<1>9. w \in [0 .. Room -> Entry] /\ m \in Nat
  <2> HIDE DEF d
  <2> QED BY <1>2, <1>5, SlotsType, Fields, LongerMax
<1>10. n \in 0 .. Room /\ n <= loc.total /\ n >= num
  <2>1. loc.i >= num
    BY <1>1, <1>2 DEF PlaceKept, AtSplit
  <2>2. Room \in Nat /\ num \in Nat /\ loc.i \in 0 .. Room /\ loc.total \in 0 .. Room
    BY <1>2, CallShape, Fields
  <2> QED BY <1>1, <2>1, <2>2
<1> HIDE DEF b, d, w, m, n, v
<1>11. /\ loc' \in Locals(Room, loc'.total, Vals) /\ loc'.pre = loc.pre /\ loc'.total = loc.total
       /\ loc'.i = n /\ loc'.tmp = loc.tmp /\ loc'.numblocks = loc.numblocks
       /\ loc'.val_sub = v
  BY <1>2, <1>4, <1>8, <1>9, <1>10 DEF CallKept, Locals
<1>12. GroupKept' /\ CallKept'
  BY <1>1, <1>2, <1>11, StaysKept
<1>13. num' = num /\ Room' = Room /\ Scalars' = Scalars /\ PreNaf' = PreNaf
  BY <1>1, <1>11, SameCall
<1>14. PlaceKept'
  <2>1. Counts'
    BY <1>1, <1>2, <1>8, <1>10, <1>11, <1>13 DEF PlaceKept, Counts
  <2>2. AtSplit'
    BY <1>1, <1>3, <1>10, <1>11, <1>13 DEF AtSplit
  <2> QED BY <1>1, <2>1, <2>2 DEF PlaceKept, Places
<1> QED
  BY <1>12, <1>14 DEF Kept

LEMMA SplitFailsKept ==
  ASSUME Kept, SplitFails
  PROVE  Kept'
<1> DEFINE w == [loc.wNAF EXCEPT ![loc.i] = Null, ![loc.i + 1] = Null]
<1>1. /\ pc = "split" /\ pc' = "err" /\ UNCHANGED <<group, req>>
      /\ loc' = [loc EXCEPT !.wNAF[loc.i] = Null, !.wNAF[loc.i + 1] = Null]
  BY DEF SplitFails, Step
<1>2. GroupKept /\ CallKept /\ pc # "idle"
  BY <1>1 DEF Kept
<1>3. w \in [0 .. Room -> Entry]
  BY <1>2, Fields, EntryTypes
<1>4. loc' = [loc EXCEPT !.wNAF = w]
  BY <1>1, <1>2 DEF CallKept, Locals
<1> HIDE DEF w
<1>5. loc' \in Locals(Room, loc'.total, Vals) /\ loc'.pre = loc.pre
  BY <1>2, <1>3, <1>4 DEF CallKept, Locals
<1>6. GroupKept' /\ CallKept'
  BY <1>1, <1>2, <1>5, StaysKept
<1>7. PlaceKept'
  BY <1>1 DEF PlaceKept, Counts, Places
<1> QED
  BY <1>6, <1>7 DEF Kept

LEMMA SplitEndsKept ==
  ASSUME Kept, SplitEnds
  PROVE  Kept'
<1>1. /\ pc = "split" /\ pc' = "val" /\ UNCHANGED <<group, req, loc>>
      /\ loc.tmp # <<>> /\ loc.i = loc.total
  BY DEF SplitEnds, Step
<1>2. GroupKept /\ CallKept /\ PlaceKept /\ pc # "idle"
  BY <1>1 DEF Kept
<1>3. loc' \in Locals(Room, loc'.total, Vals) /\ loc'.pre = loc.pre
  BY <1>1, <1>2 DEF CallKept
<1>4. GroupKept' /\ CallKept'
  BY <1>1, <1>2, <1>3, StaysKept
<1>5. num' = num /\ Room' = Room /\ Scalars' = Scalars
  BY <1>1, <1>3, SameCall
<1>6. loc.pre /\ loc.i >= num
  BY <1>1, <1>2 DEF PlaceKept, AtSplit
<1>7. Scalars <= loc.total
  BY <1>1, <1>2, <1>6, CallShape
<1>8. PlaceKept'
  BY <1>1, <1>2, <1>5, <1>7 DEF PlaceKept, Counts, Places
<1> QED
  BY <1>4, <1>8 DEF Kept

LEMMA TablesFailKept ==
  ASSUME Kept, TablesFail
  PROVE  Kept'
<1>1. PICK n \in 0 .. num_val : loc' = [loc EXCEPT !.val = Val(n)]
  BY DEF TablesFail
<1>2. pc = "val" /\ pc' = "err" /\ UNCHANGED <<group, req>>
  BY DEF TablesFail, Step
<1>3. GroupKept /\ CallKept /\ pc # "idle"
  BY <1>2 DEF Kept
<1>4. Val(n) \in Vals
  BY DEF Vals
<1>5. loc' \in Locals(Room, loc'.total, Vals) /\ loc'.pre = loc.pre
  BY <1>1, <1>3, <1>4 DEF CallKept, Locals
<1>6. GroupKept' /\ CallKept'
  BY <1>2, <1>3, <1>5, StaysKept
<1>7. PlaceKept'
  BY <1>2 DEF PlaceKept, Counts, Places
<1> QED
  BY <1>6, <1>7 DEF Kept

LEMMA TablesKept ==
  ASSUME Kept, Tables
  PROVE  Kept'
<1> DEFINE v == [i \in 0 .. loc.total - 1 |->
                   IF i < Scalars THEN OddMultiples(Point(i), Window(i)) ELSE loc.val_sub[i]]
           k == loc.max_len - 1
           a == Val(num_val)
<1>1. /\ pc = "val" /\ pc' = "run" /\ UNCHANGED <<group, req>>
      /\ loc' = [loc EXCEPT !.val = a, !.val_sub = v, !.k = k, !.i = 0]
  BY DEF Tables, Step
<1>2. GroupKept /\ CallKept /\ PlaceKept /\ pc # "idle"
  BY <1>1 DEF Kept
<1>3. /\ loc.val_sub \in [0 .. Room - 1 -> Seq(Int)] /\ loc.total >= 1 /\ Scalars <= loc.total
      /\ Room \in Nat /\ loc.total \in 0 .. Room /\ Scalars \in Nat /\ loc.max_len \in Nat
  BY <1>1, <1>2, CallShape, Fields DEF PlaceKept, Counts
<1>4. a \in Vals
  <2>1. num_val \in 0 .. num_val
    BY <1>2, NumValType
  <2> QED BY <2>1 DEF Vals
<1>5. k \in Int /\ k >= -1 /\ 0 \in 0 .. Room
  BY <1>3
<1>6. ASSUME NEW i \in 0 .. loc.total - 1
      PROVE  (IF i < Scalars THEN OddMultiples(Point(i), Window(i)) ELSE loc.val_sub[i]) \in Seq(Int)
  <2>1. CASE i < Scalars
    <3>1. i \in 0 .. Scalars - 1
      BY <1>3, <2>1
    <3>2. Point(i) \in Int /\ Window(i) \in Nat \ {0}
      BY <1>2, <3>1, ScalarShape
    <3> QED BY <2>1, <3>2, OddMultiplesType
  <2>2. CASE ~(i < Scalars)
    <3>1. i \in 0 .. Room - 1
      BY <1>3
    <3> QED BY <1>3, <2>2, <3>1
  <2> QED BY <2>1, <2>2
<1>7. v \in [0 .. loc.total - 1 -> Seq(Int)]
  BY <1>6
<1> HIDE DEF v, k, a
<1>8. /\ loc' \in Locals(Room, loc'.total, Vals) /\ loc'.pre = loc.pre /\ loc'.total = loc.total
      /\ loc'.i = 0 /\ loc'.k = k
  BY <1>1, <1>2, <1>4, <1>5, <1>7 DEF CallKept, Locals
<1>9. GroupKept' /\ CallKept'
  BY <1>1, <1>2, <1>8, StaysKept
<1>10. num' = num /\ Room' = Room /\ Scalars' = Scalars
  BY <1>1, <1>8, SameCall
<1>11. PlaceKept'
  BY <1>1, <1>3, <1>5, <1>8, <1>10 DEF PlaceKept, Counts, Places, AtRun
<1> QED
  BY <1>9, <1>11 DEF Kept

(* A turn of the loop, whether it adds or not.                                *)
LEMMA TurnKept ==
  ASSUME Kept, SkipDigit \/ AddDigit
  PROVE  /\ Kept' /\ num' = num /\ Scalars' = Scalars /\ UNCHANGED <<group, req, pc, heap>>
         /\ \A f \in {"pre", "numblocks", "total", "wNAF", "tmp", "val_sub", "max_len", "val"} :
              loc'[f] = loc[f]
         /\ loc'.i = (IF loc.i + 1 = loc.total THEN 0 ELSE loc.i + 1)
         /\ loc'.k = (IF loc.i + 1 = loc.total THEN loc.k - 1 ELSE loc.k)
<1>1. pc = "run" /\ pc' = "run" /\ UNCHANGED <<group, req, heap>> /\ loc.k >= 0
  BY DEF SkipDigit, AddDigit, Step
<1>2. GroupKept /\ CallKept /\ PlaceKept /\ pc # "idle"
  BY <1>1 DEF Kept
<1> DEFINE i == IF loc.i + 1 = loc.total THEN 0 ELSE loc.i + 1
           k == IF loc.i + 1 = loc.total THEN loc.k - 1 ELSE loc.k
<1>3. /\ loc.i \in Nat /\ loc.i < loc.total /\ loc.total \in 0 .. Room /\ Room \in Nat
      /\ loc.k \in Int /\ Scalars <= loc.total
  BY <1>1, <1>2, CallShape, Fields DEF PlaceKept, AtRun
<1>4. i \in 0 .. Room /\ i < loc.total /\ k \in Int /\ k >= -1 /\ (k >= 0 \/ i = 0)
  BY <1>1, <1>3
<1>5. NextPlace = [loc EXCEPT !.i = i, !.k = k]
  BY <1>2 DEF NextPlace, CallKept, Locals
<1>6. \E v, a \in BOOLEAN :
        loc' = [loc EXCEPT !.i = i, !.k = k, !.inverted = v, !.at_infinity = a]
  <2>1. CASE SkipDigit
    <3>1. loc' = [loc EXCEPT !.i = i, !.k = k]
      BY <1>5, <2>1 DEF SkipDigit
    <3> HIDE DEF i, k
    <3>2. loc.inverted \in BOOLEAN /\ loc.at_infinity \in BOOLEAN
      BY <1>2, Fields
    <3>3. loc' = [loc EXCEPT !.i = i, !.k = k, !.inverted = loc.inverted,
                             !.at_infinity = loc.at_infinity]
      BY <1>2, <3>1 DEF CallKept, Locals
    <3> QED BY <3>2, <3>3
  <2>2. CASE AddDigit
    <3> DEFINE v == Digit < 0
    <3>1. loc' = [NextPlace EXCEPT !.inverted = v, !.at_infinity = FALSE]
      BY <2>2 DEF AddDigit
    <3>2. v \in BOOLEAN
      OBVIOUS
    <3> HIDE DEF i, k, v
    <3>3. loc' = [loc EXCEPT !.i = i, !.k = k, !.inverted = v, !.at_infinity = FALSE]
      BY <1>2, <1>5, <3>1 DEF CallKept, Locals
    <3> QED BY <3>2, <3>3
  <2> QED BY <2>1, <2>2
<1>7. PICK v \in BOOLEAN, a \in BOOLEAN :
        loc' = [loc EXCEPT !.i = i, !.k = k, !.inverted = v, !.at_infinity = a]
  BY <1>6
<1> HIDE DEF i, k
<1>8. /\ loc' \in Locals(Room, loc'.total, Vals) /\ loc'.i = i /\ loc'.k = k
      /\ \A f \in {"pre", "numblocks", "total", "wNAF", "tmp", "val_sub", "max_len", "val"} :
           loc'[f] = loc[f]
  BY <1>2, <1>4, <1>7 DEF CallKept, Locals
<1>9. loc'.pre = loc.pre /\ loc'.total = loc.total
  BY <1>8
<1>10. GroupKept' /\ CallKept'
  BY <1>1, <1>2, <1>8, <1>9, StaysKept
<1>11. num' = num /\ Room' = Room /\ Scalars' = Scalars
  BY <1>1, <1>9, SameCall
<1>12. PlaceKept'
  BY <1>1, <1>3, <1>4, <1>8, <1>9, <1>11 DEF PlaceKept, Counts, Places, AtRun
<1> QED
  BY <1>1, <1>8, <1>10, <1>11, <1>12 DEF Kept, i, k

LEMMA KeptHolds ==
  /\ Init => Kept
  /\ Kept /\ [Next]_vars => Kept'
<1>1. Init => Kept
  BY DEF Init, Kept, GroupKept, CallKept, PlaceKept, Counts, Places
<1>2. ASSUME Kept, [Next]_vars PROVE Kept'
  <2>1. CASE SetGenerator
    BY <1>2, <2>1 DEF SetGenerator, Kept, GroupKept, CallKept, PlaceKept, Counts, Places
  <2>2. CASE PrecomputeMult
    <3>1. group.generator \in Generators
      BY <1>2 DEF Kept, GroupKept
    <3> QED BY <1>2, <2>2, <3>1 DEF PrecomputeMult, Kept, GroupKept, CallKept, PlaceKept, Counts, Places
  <2>3. CASE Finish
    <3>1. /\ pc = "run" /\ pc' = "done" /\ UNCHANGED <<group, req, loc>>
      BY <2>3 DEF Finish, Step
    <3>2. GroupKept /\ CallKept /\ pc # "idle"
      BY <1>2, <3>1 DEF Kept
    <3>3. loc' \in Locals(Room, loc'.total, Vals) /\ loc'.pre = loc.pre
      BY <3>1, <3>2 DEF CallKept
    <3>4. GroupKept' /\ CallKept'
      BY <3>1, <3>2, <3>3, StaysKept
    <3>5. PlaceKept'
      BY <3>1 DEF PlaceKept, Counts, Places
    <3> QED BY <3>4, <3>5 DEF Kept
  <2>4. CASE Cleanup
    BY <1>2, <2>4 DEF Cleanup, Kept, GroupKept, CallKept, PlaceKept, Counts, Places
  <2>5. CASE UNCHANGED vars
    <3>1. UNCHANGED <<group, req, loc, pc>>
      BY <2>5 DEF vars
    <3>2. num' = num /\ Room' = Room /\ Scalars' = Scalars /\ Vals' = Vals /\ PreNaf' = PreNaf
      BY <3>1, SameCall
    <3> QED BY <1>2, <3>1, <3>2 DEF Kept, GroupKept, CallKept, PlaceKept, Counts, AtNafs, AtSplit, AtRun
  <2> QED
    BY <1>2, <2>1, <2>2, <2>3, <2>4, <2>5, BeginKept, AllocKept, FailsKept, NextNafKept,
       NafsEndKept, SplitNotKept, SplitBeginsKept, SplitBlockKept, SplitFailsKept,
       SplitEndsKept, TablesFailKept, TablesKept, TurnKept DEF Next
<1> QED
  BY <1>1, <1>2

-------------------------------------------------------------------------------
(* What is allocated, through every step.                                     *)

LEMMA Names ==
  /\ <<"wNAF">> \in Arrays
  /\ <<"val">> \notin Arrays /\ \A f : <<"val">> \notin NafBlocks(f)
  /\ <<"tmp_wNAF">> \notin Arrays /\ \A f : <<"tmp_wNAF">> \notin NafBlocks(f)
  /\ <<"val">> # <<"tmp_wNAF">> /\ <<"wNAF">> # <<"tmp_wNAF">>
<1>1. \A a, b : <<a>> = <<b>> => a = b
  OBVIOUS
<1>2. \A a, b, c : <<a>> # <<b, c>>
  <2> TAKE a, b, c
  <2>1. Len(<<a>>) = 1 /\ Len(<<b, c>>) = 2
    OBVIOUS
  <2> QED BY <2>1
<1> QED
  BY <1>1, <1>2 DEF Arrays, NafBlocks

LEMMA PivotIs ==
  ASSUME NEW m \in Nat, NEW state, DOMAIN state = 0 .. m, NEW f \in 0 .. m,
         \A j \in 0 .. f - 1 : state[j] = "block", state[f] # "block"
  PROVE  Pivot(state) = f
<1>1. ASSUME NEW i \in 0 .. m, state[i] # "block", \A j \in 0 .. i - 1 : state[j] = "block"
      PROVE  i = f
  <2>1. ~(i < f) /\ ~(f < i)
    <3>1. i < f => i \in 0 .. f - 1
      OBVIOUS
    <3>2. f < i => f \in 0 .. i - 1
      OBVIOUS
    <3> QED BY <1>1, <3>1, <3>2
  <2> QED BY <2>1
<1>2. \E i \in DOMAIN state : state[i] # "block" /\ \A j \in 0 .. i - 1 : state[j] = "block"
  OBVIOUS
<1> QED
  BY <1>1, <1>2 DEF Pivot

LEMMA NafPivotIs ==
  ASSUME GroupKept, CallKept, pc # "idle", NEW f \in 0 .. Room, Filled(f)
  PROVE  NafPivot = f /\ loc.wNAF[f].state = "null"
<1> DEFINE state == [i \in DOMAIN loc.wNAF |-> loc.wNAF[i].state]
<1>1. DOMAIN loc.wNAF = 0 .. Room /\ Room \in Nat
  BY CallShape, Fields
<1>2. DOMAIN state = 0 .. Room /\ \A j \in 0 .. Room : state[j] = loc.wNAF[j].state
  BY <1>1
<1>3. (\A j \in 0 .. f - 1 : state[j] = "block") /\ state[f] # "block"
  <2>1. \A j \in 0 .. f - 1 : j \in 0 .. Room
    BY <1>1
  <2> QED BY <1>2, <2>1 DEF Filled
<1>4. NafPivot = Pivot(state)
  BY DEF NafPivot
<1> HIDE DEF state
<1> QED
  BY <1>1, <1>2, <1>3, <1>4, PivotIs DEF Filled

LEMMA ValPivotIs ==
  ASSUME num_val \in Nat, NEW n \in 0 .. num_val
  PROVE  Pivot(Val(n)) = n /\ Val(n)[n] = "null"
<1> DEFINE v == Val(n)
<1>1. /\ DOMAIN v = 0 .. num_val /\ v[n] = "null"
      /\ \A j \in 0 .. n - 1 : j \in 0 .. num_val /\ v[j] = "block"
  BY DEF Val
<1> HIDE DEF v
<1>2. Pivot(v) = n
  BY <1>1, PivotIs
<1> QED
  BY <1>1, <1>2 DEF v

(* Writing the next entry.                                                    *)
LEMMA OneMore ==
  ASSUME CallKept, pc # "idle", Room \in Nat, NEW f \in 0 .. Room, f + 1 <= Room, Filled(f),
         NEW d, loc'.wNAF = [loc.wNAF EXCEPT ![f] = Naf(d), ![f + 1] = Null]
  PROVE  Filled(f + 1)' /\ NafBlocks(f + 1) = NafBlocks(f) \cup {<<"naf", f>>}
<1>1. DOMAIN loc.wNAF = 0 .. Room
  BY Fields
<1>2. f \in 0 .. Room /\ f + 1 \in 0 .. Room /\ f # f + 1
  OBVIOUS
<1>3. loc'.wNAF[f + 1] = Null /\ loc'.wNAF[f] = Naf(d)
  BY <1>1, <1>2
<1>4. \A j \in 0 .. (f + 1) - 1 : j \in 0 .. Room /\ j # f + 1 /\ (j = f \/ j \in 0 .. f - 1)
  OBVIOUS
<1>5. \A j \in 0 .. (f + 1) - 1 : loc'.wNAF[j].state = "block"
  <2> TAKE j \in 0 .. (f + 1) - 1
  <2>1. CASE j = f
    BY <1>3, <2>1 DEF Naf
  <2>2. CASE j # f
    <3>1. j \in 0 .. f - 1 /\ j # f + 1 /\ j \in 0 .. Room
      BY <1>4, <2>2
    <3>2. loc'.wNAF[j] = loc.wNAF[j]
      BY <1>1, <2>2, <3>1
    <3> QED BY <3>1, <3>2 DEF Filled
  <2> QED BY <2>1, <2>2
<1>6. Filled(f + 1)'
  BY <1>3, <1>5 DEF Filled, Null
<1>7. NafBlocks(f + 1) = NafBlocks(f) \cup {<<"naf", f>>}
  <2>1. 0 .. (f + 1) - 1 = (0 .. f - 1) \cup {f}
    OBVIOUS
  <2> QED BY <2>1 DEF NafBlocks
<1> QED
  BY <1>6, <1>7

LEMMA HeldAtPlace ==
  ASSUME Kept, Held, pc \in {"nafs", "split", "val", "run"}
  PROVE  \E f \in 0 .. Room :
           /\ Filled(f) /\ f = (IF pc \in {"nafs", "split"} THEN loc.i ELSE loc.total)
           /\ pc # "run" => heap = Arrays \cup NafBlocks(f)
                                   \cup (IF pc = "split" /\ loc.tmp # <<>> THEN {<<"tmp_wNAF">>} ELSE {})
           /\ pc = "run" => /\ loc.val = Val(num_val)
                            /\ heap = Arrays \cup NafBlocks(f) \cup {<<"val">>, <<"tmp">>}
                                      \cup PointBlocks(num_val)
<1>1. GroupKept /\ CallKept /\ PlaceKept /\ pc # "idle"
  BY DEF Kept
<1>2. loc.i \in 0 .. Room /\ loc.total \in 0 .. Room
  BY <1>1, Fields
<1>3. CASE pc = "nafs"
  <2>1. loc.tmp = <<>>
    BY <1>1, <1>3 DEF PlaceKept, AtNafs
  <2> QED BY <1>2, <1>3, <2>1 DEF Held
<1>4. CASE pc = "split"
  BY <1>2, <1>4 DEF Held
<1>5. CASE pc = "val"
  BY <1>2, <1>5 DEF Held
<1>6. CASE pc = "run"
  BY <1>2, <1>6 DEF Held
<1> QED
  BY <1>3, <1>4, <1>5, <1>6

LEMMA LeftIs ==
  ASSUME Kept, Held, pc \in {"nafs", "split", "val", "run"}, pc = "split" => loc.tmp = <<>>
  PROVE  \E f \in 0 .. Room, n \in 0 .. num_val : Left(f, n)
<1>1. GroupKept /\ CallKept /\ pc # "idle"
  BY DEF Kept
<1>2. num_val \in Nat
  BY <1>1, NumValType
<1>3. PICK f \in 0 .. Room :
        /\ Filled(f)
        /\ pc # "run" => heap = Arrays \cup NafBlocks(f)
        /\ pc = "run" => /\ loc.val = Val(num_val)
                         /\ heap = Arrays \cup NafBlocks(f) \cup {<<"val">>, <<"tmp">>}
                                   \cup PointBlocks(num_val)
  BY HeldAtPlace
<1>4. CASE pc # "run"
  <2>1. <<"wNAF">> \in heap /\ <<"val">> \notin heap
    BY <1>3, <1>4, Names
  <2>2. Left(f, 0)
    BY <1>3, <1>4, <2>1 DEF Left
  <2> QED BY <1>2, <2>2
<1>5. CASE pc = "run"
  <2>1. <<"wNAF">> \in heap /\ <<"val">> \in heap
    BY <1>3, <1>5, Names
  <2>2. Left(f, num_val)
    BY <1>3, <1>5, <2>1 DEF Left
  <2> QED BY <1>2, <2>2
<1> QED
  BY <1>4, <1>5

LEMMA HeldHolds ==
  /\ Init => Held
  /\ Kept /\ Kept' /\ Held /\ [Next]_vars => Held'
<1>1. Init => Held
  BY DEF Init, Held
<1>2. ASSUME Kept, Kept', Held, [Next]_vars PROVE Held'
  <2>1. CASE SetGenerator \/ PrecomputeMult
    BY <1>2, <2>1 DEF SetGenerator, PrecomputeMult, Held
  <2>2. CASE Begin
    <3>1. pc = "idle" /\ pc' \in {"done", "arrays"} /\ heap' = heap
      BY <2>2 DEF Begin
    <3>2. heap' = {}
      BY <1>2, <3>1 DEF Held
    <3> QED BY <3>1, <3>2 DEF Held
  <2>3. CASE AllocArrays
    <3>1. PICK got \in SUBSET Arrays :
            /\ pc = "arrays" /\ pc' = (IF got = Arrays THEN "nafs" ELSE "err")
            /\ heap' = got /\ UNCHANGED <<group, req>>
      BY <2>3 DEF AllocArrays, Step
    <3>2. loc' = [loc EXCEPT !.wNAF[0] = Null]
      BY <2>3 DEF AllocArrays
    <3>3. GroupKept /\ CallKept /\ pc # "idle" /\ loc.i = 0 /\ loc.tmp = <<>>
      BY <1>2, <3>1 DEF Kept, PlaceKept
    <3>4. Room \in Nat /\ num_val \in Nat /\ 0 \in 0 .. Room
      BY <3>3, CallShape, NumValType
    <3>5. loc'.wNAF[0] = Null /\ loc'.i = 0 /\ loc'.tmp = <<>> /\ loc'.pre = loc.pre
      BY <3>2, <3>3, <3>4 DEF CallKept, Locals
    <3>6. Room' = Room /\ num_val' = num_val
      BY <3>1, <3>5, SameCall
    <3>7. Filled(0)' /\ NafBlocks(0) = {}
      BY <3>5 DEF Filled, Null, NafBlocks
    <3>8. <<"val">> \notin heap' /\ Left(0, 0)'
      BY <3>1, <3>7, Names DEF Left
    <3> QED BY <3>1, <3>4, <3>5, <3>6, <3>7, <3>8 DEF Held, Left
  <2>4. CASE Fails
    <3>1. /\ pc \in {"nafs", "split", "val", "run"} /\ (pc = "split" => loc.tmp = <<>>)
          /\ pc' = "err" /\ UNCHANGED <<group, req, loc, heap>>
      BY <2>4 DEF Fails
    <3>2. PICK f \in 0 .. Room, n \in 0 .. num_val : Left(f, n)
      BY <1>2, <3>1, LeftIs
    <3>3. Room' = Room /\ num_val' = num_val /\ Val(n)' = Val(n)
      BY <3>1, SameCall
    <3>4. Left(f, n)'
      BY <3>1, <3>2, <3>3 DEF Left, Filled
    <3> QED BY <3>1, <3>3, <3>4 DEF Held, Left
  <2>5. CASE NextNaf
    <3> DEFINE d == compute_wNAF(Scalar(loc.i), Window(loc.i))
               w == NafSlots(d)
    <3>1. /\ pc = "nafs" /\ pc' = "nafs" /\ UNCHANGED <<group, req>>
          /\ heap' = heap \cup {<<"naf", loc.i>>} /\ loc.i < Scalars
          /\ loc' = [loc EXCEPT !.wNAF = w, !.i = @ + 1, !.max_len = Max({@, Len(d)})]
      BY <2>5 DEF NextNaf, Step
    <3>2. GroupKept /\ CallKept /\ pc # "idle" /\ loc.tmp = <<>>
      BY <1>2, <3>1 DEF Kept, PlaceKept, AtNafs
    <3>3. Filled(loc.i) /\ heap = Arrays \cup NafBlocks(loc.i)
      BY <1>2, <3>1, <3>2 DEF Held
    <3>4. loc.i \in 0 .. Room /\ Room \in Nat /\ loc.i + 1 <= Room
      BY <3>1, <3>2, CallShape, Fields
    <3> PICK f \in 0 .. Room : f = loc.i
      BY <3>4
    <3> HIDE DEF d
    <3>5. /\ loc'.wNAF = [loc.wNAF EXCEPT ![loc.i] = Naf(d), ![loc.i + 1] = Null]
          /\ loc'.i = loc.i + 1 /\ loc'.tmp = <<>>
      BY <3>1, <3>2 DEF CallKept, Locals, NafSlots
    <3>6. Filled(f + 1)' /\ NafBlocks(f + 1) = NafBlocks(f) \cup {<<"naf", f>>}
      BY <3>2, <3>3, <3>4, <3>5, OneMore
    <3>7. Filled(loc.i)' /\ heap' = Arrays \cup NafBlocks(loc'.i)
      BY <3>1, <3>3, <3>5, <3>6 DEF Filled
    <3> QED BY <3>1, <3>5, <3>7 DEF Held
  <2>6. CASE NafsEnd
    <3>1. /\ pc = "nafs" /\ pc' = (IF loc.pre THEN "split" ELSE "val")
          /\ UNCHANGED <<group, req, loc, heap>> /\ loc.i = Scalars
      BY <2>6 DEF NafsEnd, Step
    <3>2. GroupKept /\ CallKept /\ pc # "idle" /\ loc.tmp = <<>> /\ loc.total = Room
          /\ loc.pre \in BOOLEAN
      BY <1>2, <3>1, Fields DEF Kept, PlaceKept, AtNafs, Counts
    <3>3. ~loc.pre => loc.i = loc.total
      BY <3>1, <3>2, CallShape
    <3>4. Filled(loc.i) /\ heap = Arrays \cup NafBlocks(loc.i)
      BY <1>2, <3>1, <3>2 DEF Held
    <3> QED BY <3>1, <3>2, <3>3, <3>4 DEF Held, Filled
  <2>7. CASE SplitNot
    <3> DEFINE d == PreNaf
               w == NafSlots(d)
    <3>1. /\ pc = "split" /\ pc' = "val" /\ UNCHANGED <<group, req>>
          /\ heap' = heap \cup {<<"naf", num>>} /\ loc.tmp = <<>>
          /\ loc' = [loc EXCEPT !.numblocks = 1, !.total = num + 1, !.wNAF = w,
                                !.val_sub[num] = group.pre_comp.points[0]]
      BY <2>7 DEF SplitNot, Step
    <3>2. GroupKept /\ CallKept /\ pc # "idle" /\ loc.pre
      BY <1>2, <3>1 DEF Kept, PlaceKept, AtSplit
    <3>3. loc.i = num
      BY <1>2, <3>1 DEF Kept, PlaceKept, AtSplit
    <3>4. Filled(loc.i) /\ heap = Arrays \cup NafBlocks(loc.i)
      BY <1>2, <3>1 DEF Held
    <3>5. num \in Nat /\ Room \in Nat /\ num + 1 <= Room
      BY <3>2, CallShape
    <3> PICK f \in 0 .. Room : f = num
      BY <3>5
    <3> HIDE DEF d
    <3>6. /\ loc'.wNAF = [loc.wNAF EXCEPT ![f] = Naf(d), ![f + 1] = Null] /\ loc'.total = f + 1
      BY <3>1, <3>2, <3>3 DEF CallKept, Locals, NafSlots
    <3>7. Filled(f + 1)' /\ NafBlocks(f + 1) = NafBlocks(f) \cup {<<"naf", f>>}
      BY <3>2, <3>3, <3>4, <3>5, <3>6, OneMore
    <3>8. Filled(loc.total)' /\ heap' = Arrays \cup NafBlocks(loc'.total)
      BY <3>1, <3>3, <3>4, <3>6, <3>7 DEF Filled
    <3> QED BY <3>1, <3>8 DEF Held
  <2>8. CASE SplitBegins
    <3> DEFINE d == PreNaf
               blocks == IF Len(PreNaf) < loc.numblocks * BlockSize
                         THEN (Len(PreNaf) + BlockSize - 1) \div BlockSize
                         ELSE loc.numblocks
    <3>1. /\ pc = "split" /\ pc' = "split" /\ UNCHANGED <<group, req>>
          /\ heap' = heap \cup {<<"tmp_wNAF">>} /\ loc.tmp = <<>> /\ Len(d) > loc.max_len
          /\ loc' = [loc EXCEPT !.tmp = d, !.numblocks = blocks, !.total = num + blocks]
      BY <2>8 DEF SplitBegins, Step
    <3>2. GroupKept /\ CallKept /\ pc # "idle" /\ loc.pre
      BY <1>2, <3>1 DEF Kept, PlaceKept, AtSplit
    <3>3. Filled(loc.i) /\ heap = Arrays \cup NafBlocks(loc.i)
      BY <1>2, <3>1 DEF Held
    <3>4. d # <<>>
      <4>1. loc.max_len \in Nat
        BY <3>2, Fields
      <4>2. d = <<>> => Len(d) = 0
        OBVIOUS
      <4> QED BY <3>1, <4>1, <4>2
    <3> HIDE DEF d, blocks
    <3>5. loc'.wNAF = loc.wNAF /\ loc'.i = loc.i /\ loc'.tmp = d
      BY <3>1, <3>2 DEF CallKept, Locals
    <3>6. Filled(loc.i)'
      BY <3>3, <3>5 DEF Filled
    <3> QED BY <3>1, <3>3, <3>4, <3>5, <3>6 DEF Held
  <2>9. CASE SplitBlock
    <3> DEFINE b == loc.i - num
               d == SubSeq(loc.tmp, b * BlockSize + 1,
                           IF loc.i = loc.total - 1 THEN Len(loc.tmp) ELSE (b + 1) * BlockSize)
               w == NafSlots(d)
               m == Max({loc.max_len, Len(d)})
    <3>1. /\ pc = "split" /\ pc' = "split" /\ UNCHANGED <<group, req>>
          /\ heap' = heap \cup {<<"naf", loc.i>>} /\ loc.tmp # <<>> /\ loc.i < loc.total
          /\ loc' = [loc EXCEPT !.wNAF = w, !.i = @ + 1, !.max_len = m,
                                !.val_sub[loc.i] = group.pre_comp.points[b]]
      BY <2>9 DEF SplitBlock, Step
    <3>2. GroupKept /\ CallKept /\ pc # "idle"
      BY <1>2, <3>1 DEF Kept
    <3>3. Filled(loc.i) /\ heap = Arrays \cup NafBlocks(loc.i) \cup {<<"tmp_wNAF">>}
      BY <1>2, <3>1 DEF Held
    <3>4. loc.i \in 0 .. Room /\ Room \in Nat /\ loc.i + 1 <= Room
      <4>1. loc.i \in 0 .. Room /\ loc.total \in 0 .. Room /\ Room \in Nat
        BY <3>2, CallShape, Fields
      <4> QED BY <3>1, <4>1
    <3> PICK f \in 0 .. Room : f = loc.i
      BY <3>4
    <3> HIDE DEF d, m, b
    <3>5. /\ loc'.wNAF = [loc.wNAF EXCEPT ![f] = Naf(d), ![f + 1] = Null]
          /\ loc'.i = f + 1 /\ loc'.tmp = loc.tmp
      BY <3>1, <3>2 DEF CallKept, Locals, NafSlots
    <3>6. Filled(f + 1)' /\ NafBlocks(f + 1) = NafBlocks(f) \cup {<<"naf", f>>}
      BY <3>2, <3>3, <3>4, <3>5, OneMore
    <3>7. Filled(loc.i)' /\ heap' = Arrays \cup NafBlocks(loc'.i) \cup {<<"tmp_wNAF">>}
      BY <3>1, <3>3, <3>5, <3>6 DEF Filled
    <3> QED BY <3>1, <3>5, <3>7 DEF Held
  <2>10. CASE SplitFails
    <3>1. /\ pc = "split" /\ pc' = "err" /\ UNCHANGED <<group, req>>
          /\ heap' = heap \ {<<"tmp_wNAF">>} /\ loc.tmp # <<>> /\ loc.i < loc.total
          /\ loc' = [loc EXCEPT !.wNAF[loc.i] = Null, !.wNAF[loc.i + 1] = Null]
      BY <2>10 DEF SplitFails, Step
    <3>2. GroupKept /\ CallKept /\ pc # "idle"
      BY <1>2, <3>1 DEF Kept
    <3>3. Filled(loc.i) /\ heap = Arrays \cup NafBlocks(loc.i) \cup {<<"tmp_wNAF">>}
      BY <1>2, <3>1 DEF Held
    <3>4. Room \in Nat /\ num_val \in Nat /\ loc.i \in 0 .. Room /\ DOMAIN loc.wNAF = 0 .. Room
      BY <3>2, CallShape, NumValType, Fields
    <3> PICK f \in 0 .. Room : f = loc.i
      BY <3>4
    <3>5. loc'.wNAF = [loc.wNAF EXCEPT ![f] = Null, ![f + 1] = Null] /\ loc'.pre = loc.pre
      BY <3>1, <3>2 DEF CallKept, Locals
    <3>6. Room' = Room /\ num_val' = num_val
      BY <3>1, <3>5, SameCall
    <3>7. Filled(f)'
      <4>1. loc'.wNAF[f] = Null
        BY <3>4, <3>5
      <4>2. \A j \in 0 .. f - 1 : loc'.wNAF[j] = loc.wNAF[j]
        BY <3>4, <3>5
      <4> QED BY <3>3, <4>1, <4>2 DEF Filled, Null
    <3>8. Left(f, 0)' /\ 0 \in 0 .. num_val
      BY <3>1, <3>3, <3>4, <3>7, Names DEF Left
    <3> QED BY <3>1, <3>6, <3>8 DEF Held
  <2>11. CASE SplitEnds
    <3>1. /\ pc = "split" /\ pc' = "val" /\ UNCHANGED <<group, req, loc>>
          /\ heap' = heap \ {<<"tmp_wNAF">>} /\ loc.tmp # <<>> /\ loc.i = loc.total
      BY <2>11 DEF SplitEnds, Step
    <3>2. Filled(loc.i) /\ heap = Arrays \cup NafBlocks(loc.i) \cup {<<"tmp_wNAF">>}
      BY <1>2, <3>1 DEF Held
    <3>3. heap' = Arrays \cup NafBlocks(loc.total)
      BY <3>1, <3>2, Names
    <3> QED BY <3>1, <3>2, <3>3 DEF Held, Filled
  <2>12. CASE TablesFail
    <3>1. PICK n \in 0 .. num_val :
            /\ loc' = [loc EXCEPT !.val = Val(n)]
            /\ heap' = heap \cup {<<"val">>} \cup PointBlocks(n)
      BY <2>12 DEF TablesFail
    <3>2. pc = "val" /\ pc' = "err" /\ UNCHANGED <<group, req>>
      BY <2>12 DEF TablesFail, Step
    <3>3. GroupKept /\ CallKept /\ pc # "idle"
      BY <1>2, <3>2 DEF Kept
    <3>4. loc.total \in 0 .. Room
      BY <3>3, Fields
    <3> PICK f \in 0 .. Room : f = loc.total
      BY <3>4
    <3>5. Filled(f) /\ heap = Arrays \cup NafBlocks(f)
      BY <1>2, <3>2 DEF Held
    <3>6. loc'.wNAF = loc.wNAF /\ loc'.val = Val(n) /\ loc'.pre = loc.pre
      BY <3>1, <3>3 DEF CallKept, Locals
    <3>7. Room' = Room /\ num_val' = num_val /\ Val(n)' = Val(n)
      BY <3>2, <3>6, SameCall
    <3>8. Left(f, n)'
      BY <3>1, <3>5, <3>6, <3>7, Names DEF Left, Filled
    <3> QED BY <3>2, <3>7, <3>8 DEF Held
  <2>13. CASE Tables
    <3> DEFINE v == [i \in 0 .. loc.total - 1 |->
                       IF i < Scalars THEN OddMultiples(Point(i), Window(i)) ELSE loc.val_sub[i]]
               a == Val(num_val)
    <3>1. /\ pc = "val" /\ pc' = "run" /\ UNCHANGED <<group, req>>
          /\ loc' = [loc EXCEPT !.val = a, !.val_sub = v, !.k = loc.max_len - 1, !.i = 0]
          /\ heap' = heap \cup {<<"val">>, <<"tmp">>} \cup PointBlocks(num_val)
      BY <2>13 DEF Tables, Step
    <3>2. CallKept /\ pc # "idle"
      BY <1>2, <3>1 DEF Kept
    <3>3. Filled(loc.total) /\ heap = Arrays \cup NafBlocks(loc.total)
      BY <1>2, <3>1 DEF Held
    <3> HIDE DEF v, a
    <3>4. loc'.wNAF = loc.wNAF /\ loc'.total = loc.total /\ loc'.pre = loc.pre /\ loc'.val = a
      BY <3>1, <3>2 DEF CallKept, Locals
    <3>5. num_val' = num_val /\ Val(num_val)' = Val(num_val)
      <4>1. num_val' = num_val /\ \A n : Val(n)' = Val(n)
        BY <3>1, <3>4, SameCall
      <4>2. Val(num_val)' = Val(num_val)
        BY <4>1 DEF Val
      <4> QED BY <4>1, <4>2
    <3>6. Filled(loc.total)'
      BY <3>3, <3>4 DEF Filled
    <3> QED BY <3>1, <3>3, <3>4, <3>5, <3>6 DEF Held, a, PointBlocks
  <2>14. CASE SkipDigit \/ AddDigit
    <3>1. pc = "run" /\ UNCHANGED <<group, req, pc, heap>>
      BY <1>2, <2>14, TurnKept DEF SkipDigit, AddDigit, Step
    <3>2. loc'.wNAF = loc.wNAF /\ loc'.total = loc.total /\ loc'.pre = loc.pre /\ loc'.val = loc.val
      BY <1>2, <2>14, TurnKept
    <3>3. num_val' = num_val /\ \A n : Val(n)' = Val(n)
      BY <3>1, <3>2, SameCall
    <3>4. Val(num_val)' = Val(num_val)
      BY <3>3 DEF Val
    <3>5. /\ Filled(loc.total) /\ loc.val = Val(num_val)
          /\ heap = Arrays \cup NafBlocks(loc.total) \cup {<<"val">>, <<"tmp">>} \cup PointBlocks(num_val)
      BY <1>2, <3>1 DEF Held
    <3>6. Filled(loc.total)'
      BY <3>2, <3>5 DEF Filled
    <3> QED BY <3>1, <3>2, <3>3, <3>4, <3>5, <3>6 DEF Held, PointBlocks
  <2>15. CASE Finish
    <3>1. pc = "run" /\ pc' = "done" /\ UNCHANGED <<group, req, loc, heap>>
      BY <2>15 DEF Finish, Step
    <3>2. PICK f \in 0 .. Room, n \in 0 .. num_val : Left(f, n)
      BY <1>2, <3>1, LeftIs
    <3>3. Room' = Room /\ num_val' = num_val /\ Val(n)' = Val(n)
      BY <3>1, SameCall
    <3>4. Left(f, n)'
      BY <3>1, <3>2, <3>3 DEF Left, Filled
    <3> QED BY <3>1, <3>3, <3>4 DEF Held
  <2>16. CASE Cleanup
    <3>1. /\ pc \in {"err", "done"} /\ pc' = "idle"
          /\ heap' = heap \ (Arrays \cup {<<"val">>, <<"tmp">>}
                              \cup (IF <<"wNAF">> \in heap
                                    THEN {<<"naf", i>> : i \in 0 .. NafPivot - 1} ELSE {})
                              \cup (IF <<"val">> \in heap
                                    THEN PointBlocks(Pivot(loc.val)) ELSE {}))
      BY <2>16 DEF Cleanup
    <3>2. CASE heap = {}
      BY <3>1, <3>2 DEF Held
    <3>3. CASE heap # {}
      <4>1. PICK f \in 0 .. Room, n \in 0 .. num_val : Left(f, n)
        BY <1>2, <3>1, <3>3 DEF Held
      <4>2. GroupKept /\ CallKept /\ pc # "idle"
        BY <1>2, <3>1 DEF Kept
      <4>3. num_val \in Nat
        BY <4>2, NumValType
      <4>4. <<"wNAF">> \in heap => NafPivot = f
        BY <4>1, <4>2, NafPivotIs DEF Left
      <4>5. <<"val">> \in heap => Pivot(loc.val) = n
        BY <4>1, <4>3, ValPivotIs DEF Left
      <4>6. /\ <<"wNAF">> \notin heap => NafBlocks(f) = {}
            /\ <<"val">> \notin heap => PointBlocks(n) = {}
        BY <4>1 DEF Left, NafBlocks, PointBlocks
      <4>7. heap' = {}
        BY <3>1, <4>1, <4>4, <4>5, <4>6 DEF Left, NafBlocks
      <4> QED BY <3>1, <4>7 DEF Held
    <3> QED BY <3>2, <3>3
  <2>17. CASE UNCHANGED vars
    <3>1. UNCHANGED <<group, req, loc, pc, heap>>
      BY <2>17 DEF vars
    <3>2. Room' = Room /\ num_val' = num_val /\ \A n : Val(n)' = Val(n)
      BY <3>1, SameCall
    <3>3. Val(num_val)' = Val(num_val)
      BY <3>2 DEF Val
    <3> QED BY <1>2, <3>1, <3>2, <3>3 DEF Held, Left, Filled, PointBlocks
  <2> QED
    BY <1>2, <2>1, <2>2, <2>3, <2>4, <2>5, <2>6, <2>7, <2>8, <2>9, <2>10, <2>11, <2>12, <2>13,
       <2>14, <2>15, <2>16, <2>17 DEF Next
<1> QED
  BY <1>1, <1>2

-------------------------------------------------------------------------------
(* The digits that are written, through every step.                           *)

(* A step that writes no entry below the first n.                             *)
LEMMA DigitsStay ==
  ASSUME UNCHANGED <<group, req>>, loc'.pre = loc.pre, Scalars \in Nat, NEW n \in 0 .. Scalars,
         \A j \in 0 .. n - 1 : loc.wNAF[j].digits = compute_wNAF(Scalar(j), Window(j)),
         \A j \in 0 .. n - 1 : loc'.wNAF[j] = loc.wNAF[j]
  PROVE  \A j \in 0 .. n - 1 : (loc.wNAF[j].digits = compute_wNAF(Scalar(j), Window(j)))'
<1>1. \A j : Scalar(j)' = Scalar(j) /\ Window(j)' = Window(j)
  BY SameCall
<1>2. ASSUME NEW j \in 0 .. n - 1
      PROVE  (loc.wNAF[j].digits = compute_wNAF(Scalar(j), Window(j)))'
  <2>1. loc'.wNAF[j].digits = compute_wNAF(Scalar(j), Window(j))
    OBVIOUS
  <2>2. Scalar(j)' = Scalar(j) /\ Window(j)' = Window(j)
    BY <1>1
  <2> QED BY <2>1, <2>2
<1> QED
  BY <1>2

LEMMA FormedHolds ==
  /\ Init => Formed
  /\ Kept /\ Kept' /\ Formed /\ [Next]_vars => Formed'
<1>1. Init => Formed
  BY DEF Init, Formed
<1>2. ASSUME Kept, Kept', Formed, [Next]_vars PROVE Formed'
  <2>1. CASE SetGenerator \/ PrecomputeMult \/ Begin \/ Fails \/ SplitFails \/ TablesFail
             \/ Finish \/ Cleanup
    BY <2>1 DEF SetGenerator, PrecomputeMult, Begin, Fails, SplitFails, TablesFail, Finish,
       Cleanup, Step, Formed
  <2>2. CASE AllocArrays
    <3>1. /\ pc = "arrays" /\ pc' \in {"nafs", "err"}
          /\ loc' = [loc EXCEPT !.wNAF[0] = Null]
      BY <2>2 DEF AllocArrays, Step
    <3>2. CallKept /\ pc # "idle" /\ loc.i = 0
      BY <1>2, <3>1 DEF Kept, PlaceKept
    <3>3. loc'.i = 0
      BY <3>1, <3>2 DEF CallKept, Locals
    <3> QED BY <3>1, <3>3 DEF Formed
  <2>3. CASE NextNaf
    <3> DEFINE d == compute_wNAF(Scalar(loc.i), Window(loc.i))
               w == NafSlots(d)
    <3>1. /\ pc = "nafs" /\ pc' = "nafs" /\ UNCHANGED <<group, req>> /\ loc.i < Scalars
          /\ loc' = [loc EXCEPT !.wNAF = w, !.i = @ + 1, !.max_len = Max({@, Len(d)})]
      BY <2>3 DEF NextNaf, Step
    <3>2. GroupKept /\ CallKept /\ pc # "idle"
      BY <1>2, <3>1 DEF Kept
    <3>3. Scalars \in Nat /\ Room \in Nat /\ Scalars <= Room /\ loc.i \in 0 .. Room
          /\ DOMAIN loc.wNAF = 0 .. Room
      BY <3>2, CallShape, Fields
    <3> PICK f \in 0 .. Scalars : f = loc.i
      BY <3>1, <3>3
    <3>4. /\ loc'.wNAF = [loc.wNAF EXCEPT ![f] = Naf(d), ![f + 1] = Null]
          /\ loc'.i = f + 1 /\ loc'.pre = loc.pre
      <4> HIDE DEF d
      <4> QED BY <3>1, <3>2 DEF CallKept, Locals, NafSlots
    <3>5. loc'.wNAF[f] = Naf(d) /\ \A j \in 0 .. f - 1 : loc'.wNAF[j] = loc.wNAF[j]
      <4>1. f \in 0 .. Room /\ f # f + 1 /\ \A j \in 0 .. f - 1 : j # f /\ j # f + 1 /\ j \in 0 .. Room
        BY <3>1, <3>3
      <4> HIDE DEF d
      <4> QED BY <3>3, <3>4, <4>1
    <3>6. \A j \in 0 .. f - 1 : (loc.wNAF[j].digits = compute_wNAF(Scalar(j), Window(j)))'
      <4>1. \A j \in 0 .. f - 1 : loc.wNAF[j].digits = compute_wNAF(Scalar(j), Window(j))
        BY <1>2, <3>1 DEF Formed
      <4> QED BY <3>1, <3>3, <3>4, <3>5, <4>1, DigitsStay
    <3>7. (loc.wNAF[f].digits = compute_wNAF(Scalar(f), Window(f)))'
      <4>1. loc'.wNAF[f].digits = compute_wNAF(Scalar(f), Window(f))
        BY <3>5 DEF Naf
      <4>2. Scalar(f)' = Scalar(f) /\ Window(f)' = Window(f)
        BY <3>1, <3>4, SameCall
      <4> QED BY <4>1, <4>2 DEF compute_wNAF
    <3>8. \A j \in 0 .. (f + 1) - 1 : (loc.wNAF[j].digits = compute_wNAF(Scalar(j), Window(j)))'
      <4> TAKE j \in 0 .. (f + 1) - 1
      <4>1. j = f \/ j \in 0 .. f - 1
        BY <3>3
      <4> QED BY <3>6, <3>7, <4>1
    <3> QED BY <3>1, <3>4, <3>8 DEF Formed
  <2>4. ASSUME SplitNot \/ SplitBlock
        PROVE  Formed'
    <3>1. /\ pc = "split" /\ pc' \in {"split", "val"} /\ UNCHANGED <<group, req>>
      BY <2>4 DEF SplitNot, SplitBlock, Step
    <3>2. GroupKept /\ CallKept /\ pc # "idle" /\ loc.pre /\ loc.i >= num
      <4>1. loc.tmp = <<>> => loc.i >= num
        <5>1. GroupKept /\ CallKept /\ pc # "idle"
          BY <1>2, <3>1 DEF Kept
        <5>2. num \in Nat
          BY <5>1, CallShape
        <5> QED BY <1>2, <3>1, <5>2 DEF Kept, PlaceKept, AtSplit
      <4> QED BY <1>2, <3>1, <4>1 DEF Kept, PlaceKept, AtSplit
    <3>3. num \in Nat /\ Scalars = num /\ Room \in Nat /\ DOMAIN loc.wNAF = 0 .. Room /\ loc.i \in 0 .. Room
          /\ num < Room
      BY <3>2, CallShape, Fields
    <3>4. loc'.pre = loc.pre /\ \E d : loc'.wNAF = [loc.wNAF EXCEPT ![loc.i] = d, ![loc.i + 1] = Null]
      <4>1. CASE SplitNot
        <5> DEFINE w == NafSlots(PreNaf)
        <5>1. loc' = [loc EXCEPT !.numblocks = 1, !.total = num + 1, !.wNAF = w,
                                 !.val_sub[num] = group.pre_comp.points[0]]
          BY <4>1 DEF SplitNot
        <5> HIDE DEF w
        <5>2. loc'.pre = loc.pre /\ loc'.wNAF = w
          BY <3>2, <5>1 DEF CallKept, Locals
        <5> QED BY <5>2 DEF w, NafSlots
      <4>2. CASE SplitBlock
        <5> DEFINE b == loc.i - num
                   d == SubSeq(loc.tmp, b * BlockSize + 1,
                               IF loc.i = loc.total - 1 THEN Len(loc.tmp) ELSE (b + 1) * BlockSize)
                   w == NafSlots(d)
                   m == Max({loc.max_len, Len(d)})
        <5>1. loc' = [loc EXCEPT !.wNAF = w, !.i = @ + 1, !.max_len = m,
                                 !.val_sub[loc.i] = group.pre_comp.points[b]]
          BY <4>2 DEF SplitBlock
        <5> HIDE DEF w, m, b, d
        <5>2. loc'.pre = loc.pre /\ loc'.wNAF = w
          BY <3>2, <5>1 DEF CallKept, Locals
        <5> QED BY <5>2 DEF w, NafSlots
      <4> QED BY <2>4, <4>1, <4>2
    <3>5. \A j \in 0 .. Scalars - 1 : loc'.wNAF[j] = loc.wNAF[j]
      <4> TAKE j \in 0 .. Scalars - 1
      <4>1. j # loc.i /\ j # loc.i + 1 /\ j \in 0 .. Room
        BY <3>2, <3>3
      <4> QED BY <3>3, <3>4, <4>1
    <3>6. Scalars' = Scalars
      BY <3>1, <3>4, SameCall
    <3>7. \A j \in 0 .. Scalars - 1 : (loc.wNAF[j].digits = compute_wNAF(Scalar(j), Window(j)))'
      <4>1. \A j \in 0 .. Scalars - 1 : loc.wNAF[j].digits = compute_wNAF(Scalar(j), Window(j))
        BY <1>2, <3>1 DEF Formed
      <4>2. Scalars \in Nat /\ Scalars \in 0 .. Scalars
        BY <3>3
      <4> QED BY <3>1, <3>4, <3>5, <4>1, <4>2, DigitsStay
    <3> QED BY <3>1, <3>6, <3>7 DEF Formed
  <2>5. ASSUME NafsEnd \/ SplitBegins \/ SplitEnds \/ Tables \/ SkipDigit \/ AddDigit \/ UNCHANGED vars,
               pc \in {"nafs", "split", "val", "run"}
        PROVE  Formed'
    <3>1. GroupKept /\ CallKept /\ pc # "idle"
      BY <1>2, <2>5 DEF Kept
    <3>2. loc'.pre = loc.pre /\ loc'.wNAF = loc.wNAF /\ UNCHANGED <<group, req>>
          /\ (pc = "nafs" => loc'.i = loc.i)
      <4>1. CASE NafsEnd \/ SplitEnds \/ UNCHANGED vars
        BY <4>1 DEF NafsEnd, SplitEnds, Step, vars
      <4>2. CASE SplitBegins
        <5> DEFINE blocks == IF Len(PreNaf) < loc.numblocks * BlockSize
                             THEN (Len(PreNaf) + BlockSize - 1) \div BlockSize
                             ELSE loc.numblocks
        <5>1. /\ loc' = [loc EXCEPT !.tmp = PreNaf, !.numblocks = blocks, !.total = num + blocks]
              /\ pc = "split" /\ UNCHANGED <<group, req>>
          BY <4>2 DEF SplitBegins, Step
        <5> HIDE DEF blocks
        <5> QED BY <3>1, <5>1 DEF CallKept, Locals
      <4>3. CASE Tables
        <5> DEFINE v == [i \in 0 .. loc.total - 1 |->
                           IF i < Scalars THEN OddMultiples(Point(i), Window(i)) ELSE loc.val_sub[i]]
                   a == Val(num_val)
        <5>1. /\ loc' = [loc EXCEPT !.val = a, !.val_sub = v, !.k = loc.max_len - 1, !.i = 0]
              /\ pc = "val" /\ UNCHANGED <<group, req>>
          BY <4>3 DEF Tables, Step
        <5> HIDE DEF v, a
        <5> QED BY <3>1, <5>1 DEF CallKept, Locals
      <4>4. CASE SkipDigit \/ AddDigit
        <5>1. pc = "run"
          BY <4>4 DEF SkipDigit, AddDigit, Step
        <5> QED BY <1>2, <4>4, <5>1, TurnKept
      <4> QED BY <2>5, <4>1, <4>2, <4>3, <4>4
    <3>3. Scalars' = Scalars /\ Scalars \in Nat
      BY <3>1, <3>2, SameCall, CallShape
    <3>4. pc' = "nafs" => pc = "nafs"
      BY <2>5 DEF NafsEnd, SplitBegins, SplitEnds, Tables, SkipDigit, AddDigit, Step, vars
    <3>5. pc = "nafs" /\ pc' # "nafs" => loc.i = Scalars
      BY <2>5 DEF NafsEnd, SplitBegins, SplitEnds, Tables, SkipDigit, AddDigit, Step, vars
    <3>6. CASE pc = "nafs"
      <4>1. loc.i \in 0 .. Scalars
        <5>1. loc.i <= Scalars /\ loc.i \in 0 .. Room /\ Room \in Nat
          BY <1>2, <3>1, <3>6, Fields, CallShape DEF Kept, PlaceKept, AtNafs
        <5> QED BY <3>3, <5>1
      <4> PICK n \in 0 .. Scalars : n = loc.i
        BY <4>1
      <4>2. \A j \in 0 .. n - 1 : loc.wNAF[j].digits = compute_wNAF(Scalar(j), Window(j))
        BY <1>2, <3>6 DEF Formed
      <4>3. \A j \in 0 .. n - 1 : (loc.wNAF[j].digits = compute_wNAF(Scalar(j), Window(j)))'
        BY <3>2, <3>3, <4>2, DigitsStay
      <4>4. pc' = "nafs" => loc'.i = n
        BY <3>2, <3>6
      <4>5. pc' # "nafs" => Scalars' = n
        BY <3>3, <3>5, <3>6
      <4> QED BY <4>3, <4>4, <4>5 DEF Formed
    <3>7. CASE pc # "nafs"
      <4>1. \A j \in 0 .. Scalars - 1 : loc.wNAF[j].digits = compute_wNAF(Scalar(j), Window(j))
        BY <1>2, <2>5, <3>7 DEF Formed
      <4>2. Scalars \in 0 .. Scalars
        BY <3>3
      <4>3. \A j \in 0 .. Scalars - 1 : (loc.wNAF[j].digits = compute_wNAF(Scalar(j), Window(j)))'
        BY <3>2, <3>3, <4>1, <4>2, DigitsStay
      <4> QED BY <3>3, <3>4, <3>7, <4>3 DEF Formed
    <3> QED BY <3>6, <3>7
  <2>6. ASSUME UNCHANGED vars, pc \notin {"nafs", "split", "val", "run"}
        PROVE  Formed'
    BY <2>6 DEF vars, Formed
  <2>7. NafsEnd \/ SplitBegins \/ SplitEnds \/ Tables \/ SkipDigit \/ AddDigit
          => pc \in {"nafs", "split", "val", "run"}
    BY DEF NafsEnd, SplitBegins, SplitEnds, Tables, SkipDigit, AddDigit, Step
  <2> QED
    BY <1>2, <2>1, <2>2, <2>3, <2>4, <2>5, <2>6, <2>7 DEF Next
<1> QED
  BY <1>1, <1>2

-------------------------------------------------------------------------------
(* Every scalar has the form that is promised when the loop begins            *)
(* (ec_mult.c:180-188).                                                       *)
IInv == Kept /\ Held /\ Formed

THEOREM EcMultInvariant == Spec => []IInv
<1>1. Init => IInv
  BY KeptHolds, HeldHolds, FormedHolds DEF IInv
<1>2. IInv /\ [Next]_vars => IInv'
  BY KeptHolds, HeldHolds, FormedHolds DEF IInv
<1> QED
  BY <1>1, <1>2, PTL DEF Spec

THEOREM ScalarsAreWnafs == Spec => []WnafForm
<1>1. IInv => WnafForm
  <2> SUFFICES ASSUME IInv, pc = "val", NEW i \in 0 .. loc.total - 1
               PROVE  IF i < Scalars THEN IsWnaf(loc.wNAF[i].digits, Scalar(i), Window(i))
                      ELSE IsWnaf(PreNaf, req.scalar, group.pre_comp.w)
    BY DEF WnafForm
  <2>1. GroupKept /\ CallKept /\ pc # "idle"
    BY DEF IInv, Kept
  <2>2. Scalars \in Nat /\ Room \in Nat /\ loc.total \in 0 .. Room
    BY <2>1, CallShape, Fields
  <2>3. CASE i < Scalars
    <3>1. i \in 0 .. Scalars - 1
      BY <2>2, <2>3
    <3>2. loc.wNAF[i].digits = compute_wNAF(Scalar(i), Window(i))
      BY <3>1 DEF IInv, Formed
    <3>3. IsWnaf(compute_wNAF(Scalar(i), Window(i)), Scalar(i), Window(i))
      BY <2>1, <3>1, NafShape
    <3>4. IsWnaf(loc.wNAF[i].digits, Scalar(i), Window(i))
      BY <3>2, <3>3
    <3> QED BY <2>3, <3>4
  <2>4. CASE ~(i < Scalars)
    <3>1. loc.pre
      <4>1. ~loc.pre => Scalars = Room
        BY <2>1, CallShape
      <4>2. loc.pre \in BOOLEAN
        BY <2>1, Fields
      <4>3. Scalars # Room
        BY <2>2, <2>4
      <4> QED BY <4>1, <4>2, <4>3
    <3> QED BY <2>1, <2>4, <3>1, PreShape
  <2> QED BY <2>3, <2>4
<1> QED
  BY <1>1, EcMultInvariant, PTL

(* Nothing that a call allocated outlives it, and the loops that free the     *)
(* NAFs and the points end where they should (ec_mult.c:696-720).             *)
THEOREM NothingIsLost == Spec => []NothingLost
<1>1. IInv => NothingLost
  <2> SUFFICES ASSUME IInv
               PROVE  NothingLost
    OBVIOUS
  <2>1. pc = "idle" => heap = {}
    BY DEF IInv, Held
  <2>2. ASSUME pc \in {"err", "done"}, heap # {}
        PROVE  /\ <<"wNAF">> \in heap => loc.wNAF[NafPivot].state = "null"
               /\ <<"val">> \in heap => loc.val[Pivot(loc.val)] = "null"
    <3>1. PICK f \in 0 .. Room, n \in 0 .. num_val : Left(f, n)
      BY <2>2 DEF IInv, Held
    <3>2. GroupKept /\ CallKept /\ pc # "idle"
      BY <2>2 DEF IInv, Kept
    <3>3. num_val \in Nat
      BY <3>2, NumValType
    <3>4. <<"wNAF">> \in heap => loc.wNAF[NafPivot].state = "null"
      BY <3>1, <3>2, NafPivotIs DEF Left
    <3>5. <<"val">> \in heap => loc.val[Pivot(loc.val)] = "null"
      BY <3>1, <3>3, ValPivotIs DEF Left
    <3> QED BY <3>4, <3>5
  <2> QED BY <2>1, <2>2 DEF NothingLost
<1> QED
  BY <1>1, EcMultInvariant, PTL

-------------------------------------------------------------------------------
(* The rows of the sum: what multiples and what digits the loop goes by.      *)

BlockRow(j) == /\ loc.wNAF[j].digits = BlockDigits(j - num)
               /\ loc.val_sub[j] = group.pre_comp.points[j - num]

Longest ==
  /\ pc \in {"nafs", "split"} => \A j \in 0 .. loc.i - 1 : Len(loc.wNAF[j].digits) <= loc.max_len
  /\ pc \in {"val", "run"} => \A j \in 0 .. loc.total - 1 : Len(loc.wNAF[j].digits) <= loc.max_len

Rows ==
  /\ pc = "split" => \A j \in num .. loc.i - 1 : BlockRow(j)
  /\ pc \in {"val", "run"} /\ loc.pre =>
       IF loc.tmp = <<>>
       THEN /\ loc.total = num + 1 /\ loc.wNAF[num].digits = PreNaf
            /\ loc.val_sub[num] = group.pre_comp.points[0]
       ELSE /\ loc.total = num + loc.numblocks /\ loc.numblocks >= 1 /\ loc.tmp = PreNaf
            /\ BlockSize * (loc.numblocks - 1) < Len(loc.tmp)
            /\ \A j \in num .. loc.total - 1 : BlockRow(j)
  /\ pc = "run" => \A j \in 0 .. Scalars - 1 :
       loc.val_sub[j] = OddMultiples(Point(j), Window(j))

Fresh == pc \in {"arrays", "nafs", "split", "val"} => loc.at_infinity

Reduced == pc = "run" /\ ~loc.at_infinity => r \in 0 .. Order - 1

Lined == Longest /\ Rows /\ Fresh

LEMMA BlockRowStays ==
  ASSUME UNCHANGED <<group, req>>, NEW j, loc'.tmp = loc.tmp, loc'.numblocks = loc.numblocks,
         loc'.wNAF[j] = loc.wNAF[j], loc'.val_sub[j] = loc.val_sub[j], BlockRow(j)
  PROVE  BlockRow(j)'
<1>1. num' = num
  BY DEF num
<1>2. BlockDigits(j - num)' = BlockDigits(j - num)
  BY <1>1 DEF BlockDigits, BlockFrom, BlockTo
<1> QED
  BY <1>1, <1>2 DEF BlockRow

LEMMA LinedStays ==
  ASSUME UNCHANGED <<group, req, pc>>, pc = "run", Lined,
         loc'.pre = loc.pre, loc'.numblocks = loc.numblocks, loc'.total = loc.total,
         loc'.wNAF = loc.wNAF, loc'.tmp = loc.tmp, loc'.val_sub = loc.val_sub,
         loc'.max_len = loc.max_len
  PROVE  Lined'
<1>1. /\ num' = num /\ PreNaf' = PreNaf /\ Scalars' = Scalars
      /\ \A j : Point(j)' = Point(j) /\ Window(j)' = Window(j)
  BY SameCall
<1>2. \A j : BlockRow(j) => BlockRow(j)'
  BY BlockRowStays
<1>3. Rows'
  BY <1>1, <1>2 DEF Lined, Rows
<1> QED
  BY <1>3 DEF Lined, Longest, Fresh

LEMMA LinedHolds ==
  /\ Init => Lined
  /\ Kept /\ Kept' /\ Lined /\ [Next]_vars => Lined'
<1>1. Init => Lined
  BY DEF Init, Lined, Longest, Rows, Fresh
<1>2. ASSUME Kept, Kept', Lined, [Next]_vars PROVE Lined'
  <2>1. CASE SetGenerator \/ PrecomputeMult \/ Fails \/ SplitFails \/ TablesFail \/ Finish \/ Cleanup
    BY <2>1 DEF SetGenerator, PrecomputeMult, Fails, SplitFails, TablesFail, Finish,
       Cleanup, Step, Lined, Longest, Rows, Fresh
  <2>2. CASE Begin
    <3>1. pc' \in {"done", "arrays"} /\ loc'.at_infinity
      BY <2>2 DEF Begin
    <3> QED BY <3>1 DEF Lined, Longest, Rows, Fresh
  <2>3. CASE AllocArrays
    <3>1. /\ pc = "arrays" /\ pc' \in {"nafs", "err"}
          /\ loc' = [loc EXCEPT !.wNAF[0] = Null]
      BY <2>3 DEF AllocArrays, Step
    <3>2. CallKept /\ pc # "idle" /\ loc.i = 0 /\ loc.at_infinity
      BY <1>2, <3>1 DEF Kept, PlaceKept, Lined, Fresh
    <3>3. loc'.i = 0 /\ loc'.at_infinity
      BY <3>1, <3>2 DEF CallKept, Locals
    <3> QED BY <3>1, <3>3 DEF Lined, Longest, Rows, Fresh
  <2>4. CASE NextNaf
    <3> DEFINE d == compute_wNAF(Scalar(loc.i), Window(loc.i))
               w == NafSlots(d)
               m == Max({loc.max_len, Len(d)})
    <3>1. /\ pc = "nafs" /\ pc' = "nafs" /\ loc.i < Scalars
          /\ loc' = [loc EXCEPT !.wNAF = w, !.i = @ + 1, !.max_len = m]
      BY <2>4 DEF NextNaf, Step
    <3>2. GroupKept /\ CallKept /\ pc # "idle" /\ loc.at_infinity
      BY <1>2, <3>1 DEF Kept, Lined, Fresh
    <3>3. Scalars \in Nat /\ Room \in Nat /\ Scalars <= Room /\ loc.i \in 0 .. Room
          /\ DOMAIN loc.wNAF = 0 .. Room /\ loc.i \in 0 .. Scalars - 1
      <4>1. Scalars \in Nat /\ Room \in Nat /\ loc.i \in 0 .. Room /\ DOMAIN loc.wNAF = 0 .. Room
        BY <3>2, CallShape, Fields
      <4> QED BY <3>1, <3>2, <4>1, CallShape
    <3>4. d \in Seq(Int)
      BY <3>2, <3>3, NafShape
    <3>5. m \in Nat /\ m >= loc.max_len /\ m >= Len(d) /\ loc.max_len \in Nat
      <4> HIDE DEF d
      <4> QED BY <3>2, <3>4, Fields, LongerMax
    <3> PICK f \in 0 .. Scalars - 1 : f = loc.i
      BY <3>3
    <3> HIDE DEF d, m
    <3>6. /\ loc'.wNAF = [loc.wNAF EXCEPT ![f] = Naf(d), ![f + 1] = Null]
          /\ loc'.i = f + 1 /\ loc'.max_len = m /\ loc'.at_infinity
      BY <3>1, <3>2 DEF CallKept, Locals, NafSlots
    <3>7. ASSUME NEW j \in 0 .. (f + 1) - 1 PROVE Len(loc'.wNAF[j].digits) <= m
      <4>1. f \in 0 .. Room /\ f # f + 1 /\ j \in 0 .. Room /\ j # f + 1 /\ (j = f \/ j \in 0 .. f - 1)
        BY <3>3
      <4>2. CASE j = f
        <5>1. loc'.wNAF[j] = Naf(d)
          BY <3>3, <3>6, <4>1, <4>2
        <5> QED BY <3>5, <5>1 DEF Naf
      <4>3. CASE j # f
        <5>1. loc'.wNAF[j] = loc.wNAF[j]
          BY <3>3, <3>6, <4>1, <4>3
        <5>2. Len(loc.wNAF[j].digits) <= loc.max_len
          BY <1>2, <3>1, <4>1, <4>3 DEF Lined, Longest
        <5>3. Len(loc.wNAF[j].digits) \in Nat
          <6>1. loc.wNAF[j] \in Entry
            BY <3>2, <4>1, Fields
          <6> QED BY <6>1 DEF Entry
        <5> QED BY <3>5, <5>1, <5>2, <5>3
      <4> QED BY <4>2, <4>3
    <3> QED BY <3>1, <3>6, <3>7 DEF Lined, Longest, Rows, Fresh
  <2>5. CASE NafsEnd
    <3>1. /\ pc = "nafs" /\ pc' = (IF loc.pre THEN "split" ELSE "val")
          /\ UNCHANGED <<group, req, loc, heap>> /\ loc.i = Scalars
      BY <2>5 DEF NafsEnd, Step
    <3>2. GroupKept /\ CallKept /\ pc # "idle" /\ loc.total = Room /\ loc.pre \in BOOLEAN
          /\ loc.at_infinity
      BY <1>2, <3>1, Fields DEF Kept, PlaceKept, AtNafs, Counts, Lined, Fresh
    <3>3. /\ num \in Nat
          /\ ~loc.pre => loc.i = loc.total
      BY <3>1, <3>2, CallShape
    <3>4. loc.pre => loc.i = num
      BY <3>1, <3>2, CallShape
    <3>5. num' = num
      BY <3>1 DEF num
    <3>6. loc.pre => num .. loc.i - 1 = {}
      BY <3>3, <3>4
    <3>7. \A j \in 0 .. loc.i - 1 : Len(loc.wNAF[j].digits) <= loc.max_len
      BY <1>2, <3>1 DEF Lined, Longest
    <3>8. Longest'
      BY <3>1, <3>2, <3>3, <3>7 DEF Longest
    <3>9. Rows'
      BY <3>1, <3>2, <3>5, <3>6 DEF Rows
    <3> QED BY <3>1, <3>2, <3>8, <3>9 DEF Lined, Fresh
  <2>6. CASE SplitNot
    <3> DEFINE d == PreNaf
               w == NafSlots(d)
               v == [loc.val_sub EXCEPT ![num] = group.pre_comp.points[0]]
    <3>1. /\ pc = "split" /\ pc' = "val" /\ UNCHANGED <<group, req>>
          /\ loc.tmp = <<>> /\ Len(d) <= loc.max_len
          /\ loc' = [loc EXCEPT !.numblocks = 1, !.total = num + 1, !.wNAF = w, !.val_sub = v]
      BY <2>6 DEF SplitNot, Step
    <3>2. GroupKept /\ CallKept /\ pc # "idle" /\ loc.pre /\ loc.i = num /\ loc.at_infinity
          /\ loc.val_sub \in [0 .. Room - 1 -> Seq(Int)]
      BY <1>2, <3>1 DEF Kept, PlaceKept, AtSplit, Lined, Fresh, Counts
    <3>3. num \in Nat /\ Room \in Nat /\ num + 1 <= Room /\ DOMAIN loc.wNAF = 0 .. Room
      BY <3>2, CallShape, Fields
    <3>4. v[num] = group.pre_comp.points[0]
      BY <3>2, <3>3
    <3> HIDE DEF d, v
    <3>5. /\ loc'.wNAF = [loc.wNAF EXCEPT ![num] = Naf(d), ![num + 1] = Null] /\ loc'.total = num + 1
          /\ loc'.tmp = <<>> /\ loc'.val_sub = v /\ loc'.at_infinity /\ loc'.pre = loc.pre
          /\ loc'.max_len = loc.max_len
      BY <3>1, <3>2 DEF CallKept, Locals, NafSlots
    <3>6. num' = num /\ PreNaf' = PreNaf
      BY <3>1, <3>5, SameCall
    <3>7. loc'.wNAF[num] = Naf(d) /\ \A j \in 0 .. num - 1 : loc'.wNAF[j] = loc.wNAF[j]
      <4>1. num \in 0 .. Room /\ num # num + 1 /\ \A j \in 0 .. num - 1 : j # num /\ j # num + 1
        BY <3>3
      <4> QED BY <3>3, <3>5, <4>1
    <3>8. ASSUME NEW j \in 0 .. (num + 1) - 1 PROVE Len(loc'.wNAF[j].digits) <= loc.max_len
      <4>1. j = num \/ j \in 0 .. num - 1
        BY <3>3
      <4>2. j = num => Len(loc'.wNAF[j].digits) <= loc.max_len
        BY <3>1, <3>7 DEF Naf
      <4>3. j \in 0 .. num - 1 => Len(loc'.wNAF[j].digits) <= loc.max_len
        BY <1>2, <3>1, <3>2, <3>7 DEF Lined, Longest
      <4> QED BY <4>1, <4>2, <4>3
    <3>9. Longest'
      BY <3>1, <3>5, <3>8 DEF Longest
    <3>10. Rows'
      BY <3>1, <3>4, <3>5, <3>6, <3>7 DEF Rows, Naf, d
    <3> QED BY <3>1, <3>5, <3>9, <3>10 DEF Lined, Fresh
  <2>7. CASE SplitBegins
    <3> DEFINE d == PreNaf
               blocks == IF Len(PreNaf) < loc.numblocks * BlockSize
                         THEN (Len(PreNaf) + BlockSize - 1) \div BlockSize
                         ELSE loc.numblocks
    <3>1. /\ pc = "split" /\ pc' = "split" /\ UNCHANGED <<group, req>> /\ loc.tmp = <<>>
          /\ loc' = [loc EXCEPT !.tmp = d, !.numblocks = blocks, !.total = num + blocks]
      BY <2>7 DEF SplitBegins, Step
    <3>2. GroupKept /\ CallKept /\ pc # "idle" /\ loc.i = num /\ loc.at_infinity
      BY <1>2, <3>1 DEF Kept, PlaceKept, AtSplit, Lined, Fresh
    <3> HIDE DEF d, blocks
    <3>3. loc'.wNAF = loc.wNAF /\ loc'.i = loc.i /\ loc'.max_len = loc.max_len /\ loc'.at_infinity
      BY <3>1, <3>2 DEF CallKept, Locals
    <3>4. num' = num /\ num \in Nat
      BY <3>1, <3>2, CallShape DEF num
    <3>5. num .. loc.i - 1 = {}
      BY <3>2, <3>4
    <3> QED BY <1>2, <3>1, <3>2, <3>3, <3>4, <3>5 DEF Lined, Longest, Rows, Fresh
  <2>8. CASE SplitBlock
    <3> DEFINE b == loc.i - num
               d == BlockDigits(b)
               w == NafSlots(d)
               m == Max({loc.max_len, Len(d)})
               v == [loc.val_sub EXCEPT ![loc.i] = group.pre_comp.points[b]]
    <3>1. /\ pc = "split" /\ pc' = "split" /\ UNCHANGED <<group, req>>
          /\ loc.tmp # <<>> /\ loc.i < loc.total
      BY <2>8 DEF SplitBlock, Step
    <3>2. GroupKept /\ CallKept /\ pc # "idle" /\ loc.at_infinity
          /\ loc.val_sub \in [0 .. Room - 1 -> Seq(Int)] /\ loc.i >= num
      BY <1>2, <3>1 DEF Kept, PlaceKept, AtSplit, Lined, Fresh, Counts
    <3>3. /\ b \in 0 .. loc.numblocks - 1
          /\ loc.tmp \in Seq(Int) /\ loc.numblocks \in Nat \ {0}
          /\ BlockSize * (loc.numblocks - 1) < Len(loc.tmp)
          /\ d = SubSeq(loc.tmp, b * BlockSize + 1,
                        IF loc.i = loc.total - 1 THEN Len(loc.tmp) ELSE (b + 1) * BlockSize)
      <4> HIDE DEF b
      <4>1. b = loc.i - num
        BY DEF b
      <4> QED BY <1>2, <3>1, <4>1, NextBlock
    <3>4. loc' = [loc EXCEPT !.wNAF = w, !.i = @ + 1, !.max_len = m, !.val_sub = v]
      BY <2>8, <3>3 DEF SplitBlock
    <3>5. d \in Seq(Int)
      <4> HIDE DEF b
      <4> QED BY <3>3, BlockShape
    <3>6. m \in Nat /\ m >= loc.max_len /\ m >= Len(d) /\ loc.max_len \in Nat
      <4> HIDE DEF d
      <4> QED BY <3>2, <3>5, Fields, LongerMax
    <3>7. /\ num \in Nat /\ Room \in Nat /\ loc.i \in 0 .. Room /\ loc.i + 1 <= Room
          /\ DOMAIN loc.wNAF = 0 .. Room
      <4>1. /\ num \in Nat /\ Room \in Nat /\ loc.i \in 0 .. Room /\ loc.total \in 0 .. Room
            /\ DOMAIN loc.wNAF = 0 .. Room
        BY <3>2, CallShape, Fields
      <4> QED BY <3>1, <4>1
    <3> PICK f \in 0 .. Room : f = loc.i
      BY <3>7
    <3>8. v[f] = group.pre_comp.points[f - num] /\ \A j \in num .. f - 1 : v[j] = loc.val_sub[j]
      <4>1. f \in 0 .. Room - 1 /\ \A j \in num .. f - 1 : j # f /\ j \in 0 .. Room - 1
        BY <3>7
      <4> QED BY <3>2, <4>1
    <3> DEFINE e == BlockDigits(f - num)
    <3>9. d = e
      OBVIOUS
    <3> HIDE DEF d, m, v, b, e
    <3>10. /\ loc'.wNAF = [loc.wNAF EXCEPT ![f] = Naf(d), ![f + 1] = Null]
           /\ loc'.i = f + 1 /\ loc'.max_len = m /\ loc'.at_infinity /\ loc'.val_sub = v
           /\ loc'.tmp = loc.tmp /\ loc'.numblocks = loc.numblocks /\ loc'.pre = loc.pre
      BY <3>2, <3>4 DEF CallKept, Locals, NafSlots
    <3>11. num' = num
      BY <3>1 DEF num
    <3>12. loc'.wNAF[f] = Naf(d) /\ \A j \in 0 .. f - 1 : loc'.wNAF[j] = loc.wNAF[j]
      <4>1. f # f + 1 /\ \A j \in 0 .. f - 1 : j # f /\ j # f + 1 /\ j \in 0 .. Room
        BY <3>7
      <4> QED BY <3>7, <3>10, <4>1
    <3>13. ASSUME NEW j \in 0 .. (f + 1) - 1 PROVE Len(loc'.wNAF[j].digits) <= m
      <4>1. j = f \/ j \in 0 .. f - 1
        BY <3>7
      <4>2. CASE j = f
        BY <3>6, <3>12, <4>2 DEF Naf
      <4>3. CASE j \in 0 .. f - 1
        <5>1. Len(loc.wNAF[j].digits) <= loc.max_len
          BY <1>2, <3>1, <4>3 DEF Lined, Longest
        <5>2. Len(loc.wNAF[j].digits) \in Nat
          <6>1. loc.wNAF[j] \in Entry
            <7>1. loc.wNAF \in [0 .. Room -> Entry]
              BY <3>2, Fields
            <7>2. j \in 0 .. Room
              BY <3>7, <4>3
            <7> QED BY <7>1, <7>2
          <6> QED BY <6>1 DEF Entry
        <5>3. loc'.wNAF[j] = loc.wNAF[j]
          BY <3>12, <4>3
        <5>4. PICK l \in Nat : l = Len(loc.wNAF[j].digits)
          BY <5>2
        <5>5. l <= m
          BY <3>6, <5>1, <5>4
        <5> QED BY <5>3, <5>4, <5>5
      <4> QED BY <4>1, <4>2, <4>3
    <3>14. BlockRow(f)'
      <4>1. BlockDigits(f - num)' = e
        BY <3>10, <3>11 DEF BlockDigits, BlockFrom, BlockTo, e
      <4> QED BY <3>1, <3>8, <3>9, <3>10, <3>11, <3>12, <4>1 DEF BlockRow, Naf
    <3>15. ASSUME NEW j \in num .. (f + 1) - 1 PROVE BlockRow(j)'
      <4>1. j = f \/ j \in num .. f - 1
        BY <3>7
      <4>2. CASE j \in num .. f - 1
        <5>1. BlockRow(j) /\ j \in 0 .. f - 1
          BY <1>2, <3>1, <3>7, <4>2 DEF Lined, Rows
        <5> QED BY <3>1, <3>8, <3>10, <3>12, <4>2, <5>1, BlockRowStays
      <4> QED BY <3>14, <4>1, <4>2
    <3>16. Rows'
      BY <3>1, <3>10, <3>11, <3>15 DEF Rows
    <3> QED BY <3>1, <3>10, <3>13, <3>16 DEF Lined, Longest, Fresh
  <2>9. CASE SplitEnds
    <3>1. /\ pc = "split" /\ pc' = "val" /\ UNCHANGED <<group, req, loc>>
          /\ loc.tmp # <<>> /\ loc.i = loc.total
      BY <2>9 DEF SplitEnds, Step
    <3>2. /\ loc.tmp = PreNaf /\ BlockSize * (loc.numblocks - 1) < Len(loc.tmp) /\ loc.pre
          /\ loc.total = num + loc.numblocks /\ loc.numblocks >= 1
      BY <1>2, <3>1 DEF Kept, PlaceKept, AtSplit, Counts
    <3>3. num' = num /\ PreNaf' = PreNaf
      BY <3>1, SameCall
    <3>4. \A j \in num .. loc.total - 1 : BlockRow(j)'
      BY <1>2, <3>1, <3>3, BlockRowStays DEF Lined, Rows
    <3>5. Rows'
      BY <3>1, <3>2, <3>3, <3>4 DEF Rows
    <3> QED BY <1>2, <3>1, <3>5 DEF Lined, Longest, Fresh
  <2>10. CASE Tables
    <3> DEFINE v == [i \in 0 .. loc.total - 1 |->
                       IF i < Scalars THEN OddMultiples(Point(i), Window(i)) ELSE loc.val_sub[i]]
               a == Val(num_val)
               k == loc.max_len - 1
    <3>1. /\ pc = "val" /\ pc' = "run" /\ UNCHANGED <<group, req>>
          /\ loc' = [loc EXCEPT !.val = a, !.val_sub = v, !.k = k, !.i = 0]
      BY <2>10 DEF Tables, Step
    <3>2. GroupKept /\ CallKept /\ pc # "idle" /\ Scalars <= loc.total
      BY <1>2, <3>1 DEF Kept, PlaceKept
    <3>3. /\ num \in Nat /\ Scalars \in Nat /\ loc.total \in 0 .. Room /\ Room \in Nat
          /\ loc.pre \in BOOLEAN
      BY <3>2, CallShape, Fields
    <3>4. \A j \in 0 .. Scalars - 1 : v[j] = OddMultiples(Point(j), Window(j))
      <4>1. \A j \in 0 .. Scalars - 1 : j \in 0 .. loc.total - 1 /\ j < Scalars
        BY <3>2, <3>3
      <4> QED BY <4>1
    <3>5. loc.pre => \A j \in num .. loc.total - 1 : v[j] = loc.val_sub[j]
      <4>1. loc.pre => Scalars = num
        BY <3>2, CallShape
      <4>2. loc.pre => \A j \in num .. loc.total - 1 : j \in 0 .. loc.total - 1 /\ ~(j < Scalars)
        BY <3>3, <4>1
      <4> QED BY <4>2
    <3> HIDE DEF v, a, k
    <3>6. /\ loc'.val_sub = v /\ loc'.wNAF = loc.wNAF /\ loc'.total = loc.total /\ loc'.pre = loc.pre
          /\ loc'.tmp = loc.tmp /\ loc'.numblocks = loc.numblocks /\ loc'.max_len = loc.max_len
      BY <3>1, <3>2 DEF CallKept, Locals
    <3>7. /\ num' = num /\ PreNaf' = PreNaf /\ Scalars' = Scalars
          /\ \A j : Point(j)' = Point(j) /\ Window(j)' = Window(j)
      BY <3>1, <3>6, SameCall
    <3>8. \A j \in 0 .. Scalars - 1 : (loc.val_sub[j] = OddMultiples(Point(j), Window(j)))'
      BY <3>4, <3>6, <3>7
    <3>9. CASE ~loc.pre
      <4>1. Rows'
        BY <3>1, <3>6, <3>7, <3>8, <3>9 DEF Rows
      <4> QED BY <1>2, <3>1, <3>6, <4>1 DEF Lined, Longest, Fresh
    <3>10. CASE loc.pre /\ loc.tmp = <<>>
      <4>1. loc.total = num + 1 /\ loc.wNAF[num].digits = PreNaf
            /\ loc.val_sub[num] = group.pre_comp.points[0]
        BY <1>2, <3>1, <3>10 DEF Lined, Rows
      <4>2. num \in num .. loc.total - 1
        BY <3>3, <4>1
      <4>3. Rows'
        BY <3>1, <3>5, <3>6, <3>7, <3>8, <3>10, <4>1, <4>2 DEF Rows
      <4> QED BY <1>2, <3>1, <3>6, <4>3 DEF Lined, Longest, Fresh
    <3>11. CASE loc.pre /\ loc.tmp # <<>>
      <4>1. /\ loc.total = num + loc.numblocks /\ loc.numblocks >= 1 /\ loc.tmp = PreNaf
            /\ BlockSize * (loc.numblocks - 1) < Len(loc.tmp)
            /\ \A j \in num .. loc.total - 1 : BlockRow(j)
        BY <1>2, <3>1, <3>11 DEF Lined, Rows
      <4>2. ASSUME NEW j \in num .. loc.total - 1 PROVE BlockRow(j)'
        <5>1. loc'.wNAF[j] = loc.wNAF[j] /\ loc'.val_sub[j] = loc.val_sub[j]
          BY <3>5, <3>6, <3>11
        <5> QED BY <3>1, <3>6, <4>1, <5>1, BlockRowStays
      <4>3. Rows'
        BY <3>1, <3>6, <3>7, <3>8, <3>11, <4>1, <4>2 DEF Rows
      <4> QED BY <1>2, <3>1, <3>6, <4>3 DEF Lined, Longest, Fresh
    <3> QED BY <3>3, <3>9, <3>10, <3>11
  <2>11. CASE SkipDigit \/ AddDigit
    <3>1. pc = "run" /\ UNCHANGED <<group, req, pc>>
      BY <1>2, <2>11, TurnKept DEF SkipDigit, AddDigit, Step
    <3>2. \A f \in {"pre", "numblocks", "total", "wNAF", "tmp", "val_sub", "max_len", "val"} :
            loc'[f] = loc[f]
      BY <1>2, <2>11, TurnKept
    <3>3. /\ loc'.pre = loc.pre /\ loc'.numblocks = loc.numblocks /\ loc'.total = loc.total
          /\ loc'.wNAF = loc.wNAF /\ loc'.tmp = loc.tmp /\ loc'.val_sub = loc.val_sub
          /\ loc'.max_len = loc.max_len
      BY <3>2
    <3> QED BY <1>2, <3>1, <3>3, LinedStays
  <2>12. CASE UNCHANGED vars
    <3>1. UNCHANGED <<group, req, pc, loc>>
      BY <2>12 DEF vars
    <3>2. num' = num /\ PreNaf' = PreNaf /\ Scalars' = Scalars
          /\ \A j : Point(j)' = Point(j) /\ Window(j)' = Window(j)
      BY <3>1, SameCall
    <3>3. \A j : BlockRow(j) => BlockRow(j)'
      BY <3>1, BlockRowStays
    <3> QED BY <1>2, <3>1, <3>2, <3>3 DEF Lined, Longest, Rows, Fresh
  <2> QED
    BY <1>2, <2>1, <2>2, <2>3, <2>4, <2>5, <2>6, <2>7, <2>8, <2>9, <2>10, <2>11, <2>12 DEF Next
<1> QED
  BY <1>1, <1>2

-------------------------------------------------------------------------------
(* Congruent sums, and the digits of a part.                                  *)

(* Equal residues stay equal when added to.                                   *)
LEMMA CongruentAdd ==
  ASSUME NEW n \in Nat \ {0}, NEW a \in Int, NEW b \in Int, NEW c \in Int, NEW d \in Int,
         a % n = b % n, c % n = d % n
  PROVE  (a + c) % n = (b + d) % n
<1>1. (a + c) % n = ((a % n) + (c % n)) % n
  BY ModAdd
<1>2. (b + d) % n = ((b % n) + (d % n)) % n
  BY ModAdd
<1> QED
  BY <1>1, <1>2

LEMMA CongruentPlus ==
  ASSUME NEW n \in Nat \ {0}, NEW a \in Int, NEW b \in Int, NEW c \in Int, a % n = b % n
  PROVE  (a + c) % n = (b + c) % n
<1>1. (a + c) % n = ((a % n) + c) % n
  BY ModAdd
<1>2. (b + c) % n = ((b % n) + c) % n
  BY ModAdd
<1> QED
  BY <1>1, <1>2

Alike(a, b) == a % Order = b % Order

LEMMA AlikePlus ==
  ASSUME NEW a \in Int, NEW b \in Int, NEW c \in Int, Alike(a, b)
  PROVE  Alike(a + c, b + c)
<1>1. Order \in Nat \ {0}
  BY ParametersAssumption
<1> QED
  BY <1>1, CongruentPlus DEF Alike

(* A sum is, modulo the order, whatever grows by its terms.                   *)
LEMMA SumFollows ==
  ASSUME NEW n \in Nat, NEW f, \A i \in 0 .. n - 1 : f[i] \in Int,
         NEW m \in 0 .. n, NEW A, \A i \in m .. n : A[i] \in Int,
         SumOf(f, m) % Order = A[m] % Order,
         \A i \in m .. n - 1 : (A[i] + f[i]) % Order = A[i + 1] % Order
  PROVE  SumOf(f, n) % Order = A[n] % Order
<1> DEFINE S == {t \in Nat : m + t <= n => SumOf(f, m + t) % Order = A[m + t] % Order}
<1>0. Order \in Nat \ {0} /\ n - m \in Nat /\ m \in Nat
  BY ParametersAssumption
<1>1. 0 \in S
  BY <1>0
<1>2. ASSUME NEW t \in Nat, t \in S PROVE t + 1 \in S
  <2> SUFFICES ASSUME m + (t + 1) <= n
               PROVE  SumOf(f, m + (t + 1)) % Order = A[m + (t + 1)] % Order
    OBVIOUS
  <2>1. PICK i \in m .. n - 1 : i = m + t
    BY <1>0
  <2>2. /\ m + (t + 1) = i + 1 /\ i \in 0 .. n - 1 /\ i \in 0 .. n /\ i \in m .. n /\ i + 1 \in m .. n
        /\ SumOf(f, i) % Order = A[i] % Order
    BY <1>0, <1>2, <2>1
  <2>3. SumOf(f, i + 1) = SumOf(f, i) + f[i] /\ SumOf(f, i) \in Int /\ f[i] \in Int
    BY <2>2, SumGrows
  <2>4. A[i] \in Int /\ A[i + 1] \in Int
    BY <2>2
  <2> DEFINE x == SumOf(f, i)
             y == A[i]
             e == f[i]
  <2>5. x \in Int /\ y \in Int /\ e \in Int /\ Alike(x, y)
    BY <2>2, <2>3, <2>4 DEF Alike
  <2> HIDE DEF x, y, e
  <2>6. Alike(x + e, y + e)
    BY <2>5, AlikePlus
  <2>7. SumOf(f, i + 1) % Order = A[i + 1] % Order
    BY <2>1, <2>3, <2>6 DEF x, y, e, Alike
  <2> QED BY <2>2, <2>7
<1> HIDE DEF S
<1>3. n - m \in S
  BY <1>0, <1>1, <1>2, SetInduction
<1>4. m + (n - m) = n
  BY <1>0
<1> QED
  BY <1>0, <1>3, <1>4 DEF S

(* The number a part of some digits stands for.                               *)
IsPart(e, d, p, q) == e = SubSeq(d, p + 1, q)

LEMMA PartValue ==
  ASSUME NEW d \in Seq(Int), NEW p \in Nat, NEW q \in Nat, p <= q, q <= Len(d),
         NEW e, IsPart(e, d, p, q)
  PROVE  /\ ValueFrom(e, 0) \in Int
         /\ ValueFrom(d, p) = ValueFrom(e, 0) + Pow2[q - p] * ValueFrom(d, q)
<1>0. PICK n \in Nat : n = q - p
  OBVIOUS
<1>8. PICK x \in Int : x = ValueFrom(d, q)
  BY ValueFalls
<1> DEFINE S == {t \in Nat : t <= n => ValueFrom(d, q - t) = ValueFrom(e, n - t) + Pow2[t] * x}
<1>1. /\ e \in Seq(Int) /\ Len(e) = n
      /\ \A j \in 1 .. n : e[j] = d[p + j] /\ e[j] \in Int
  <2>2. e \in Seq(Int) /\ Len(e) = n /\ \A j \in 1 .. n : e[j] = d[p + j]
    BY <1>0, PartOf DEF IsPart
  <2>4. \A j \in 1 .. n : e[j] \in Int
    BY <2>2
  <2> QED BY <2>2, <2>4
<1>2. 0 \in S
  <2>0. n >= Len(e)
    BY <1>1
  <2>1. ValueFrom(e, n) = 0
    BY <1>1, <2>0, ValueFalls
  <2>3. Pow2[0] = 1 /\ n - 0 = n /\ q - 0 = q
    BY Pow2Def
  <2>2. 1 * x = x /\ 0 + x = x
    BY <1>1
  <2> QED BY <1>8, <2>1, <2>2, <2>3
<1>3. ASSUME NEW t \in Nat, t \in S PROVE t + 1 \in S
  <2> SUFFICES ASSUME t + 1 <= n
               PROVE  ValueFrom(d, q - (t + 1)) = ValueFrom(e, n - (t + 1)) + Pow2[t + 1] * x
    OBVIOUS
  <2>1. PICK k \in Nat : k = q - (t + 1)
    BY <1>0
  <2>2. PICK j \in Nat : j = n - (t + 1)
    BY <1>1
  <2>3. /\ k + 1 = q - t /\ j + 1 = n - t /\ k < Len(d) /\ j < Len(e) /\ j + 1 \in 1 .. n
        /\ p + (j + 1) = k + 1 /\ k + 1 \in Nat /\ j + 1 \in Nat
    BY <1>0, <1>1, <2>1, <2>2
  <2>4. ValueFrom(d, k) = 2 * ValueFrom(d, k + 1) + d[k + 1] /\ ValueFrom(d, k + 1) \in Int
    BY <2>3, ValueFalls
  <2>5. ValueFrom(e, j) = 2 * ValueFrom(e, j + 1) + e[j + 1] /\ ValueFrom(e, j + 1) \in Int
    BY <1>1, <2>3, ValueFalls
  <2>6. e[j + 1] = d[k + 1] /\ e[j + 1] \in Int
    <3>1. PICK m \in 1 .. n : m = j + 1
      BY <2>3
    <3>2. e[m] = d[p + m] /\ e[m] \in Int /\ p + m = k + 1
      BY <1>1, <2>3, <3>1
    <3> QED BY <3>1, <3>2
  <2>7. ValueFrom(d, k + 1) = ValueFrom(e, j + 1) + Pow2[t] * x
    <3>1. ValueFrom(d, q - t) = ValueFrom(e, n - t) + Pow2[t] * x
      BY <1>3
    <3> QED BY <2>3, <3>1
  <2>8. Pow2[t + 1] = 2 * Pow2[t] /\ Pow2[t] \in Int
    BY Pow2Def, Pow2Type
  <2> DEFINE a == Pow2[t]
             u == ValueFrom(e, j + 1)
             z == e[j + 1]
  <2>9. (2 * a) * x = 2 * (a * x) /\ a * x \in Int
    <3>1. a \in Int
      BY <2>8
    <3> HIDE DEF a
    <3> QED BY <3>1
  <2>10. 2 * (u + a * x) + z = (2 * u + z) + 2 * (a * x)
    <3> DEFINE y == a * x
    <3>1. u \in Int /\ z \in Int /\ y \in Int
      BY <2>5, <2>6, <2>9
    <3> HIDE DEF u, z, y
    <3>2. 2 * (u + y) + z = (2 * u + z) + 2 * y
      BY <3>1
    <3> QED BY <3>2 DEF y
  <2>11. ValueFrom(d, k) = ValueFrom(e, j) + Pow2[t + 1] * x
    BY <2>4, <2>5, <2>6, <2>7, <2>8, <2>9, <2>10
  <2> QED BY <2>1, <2>2, <2>11
<1> HIDE DEF S
<1>4. n \in S
  BY <1>2, <1>3, SetInduction
<1>5. q - n = p /\ n - n = 0
  BY <1>0
<1>6. ValueFrom(d, p) = ValueFrom(e, 0) + Pow2[n] * x
  BY <1>4, <1>5 DEF S
<1>7. ValueFrom(e, 0) \in Int
  BY <1>1, ValueFalls
<1> QED
  BY <1>0, <1>8, <1>6, <1>7

-------------------------------------------------------------------------------
(* The rows while the loop runs.                                              *)

RowIs(P, w, b) ==
  LET d == loc.wNAF[b].digits
  IN /\ loc.val_sub[b] = OddMultiples(P, w) /\ d \in Seq(Int)
     /\ \A j \in DOMAIN d : d[j] # 0 => d[j] % 2 = 1 /\ d[j] < Pow2[w] /\ d[j] > -Pow2[w]

RowsGood ==
  pc = "run" => \A b \in 0 .. loc.total - 1 : \E P \in Int, w \in Nat \ {0} : RowIs(P, w, b)

LEMMA SizedDigits ==
  ASSUME NEW d \in Seq(Int), NEW s \in Int, NEW w \in Nat \ {0}, IsWnaf(d, s, w)
  PROVE  \A j \in DOMAIN d : d[j] # 0 => d[j] % 2 = 1 /\ d[j] < Pow2[w] /\ d[j] > -Pow2[w]
  BY DEF IsWnaf

(* The group's multiples are those of its generator, if they match.           *)
LEMMA PreMultiples ==
  ASSUME GroupKept, CallKept, pc # "idle", loc.pre
  PROVE  /\ group.pre_comp.w \in Nat \ {0} /\ group.pre_comp.numblocks \in Nat \ {0}
         /\ \A b \in 0 .. group.pre_comp.numblocks - 1 :
              /\ Pow2[BlockSize * b] * group.generator \in Int
              /\ (Pow2[BlockSize * b] * group.generator) % Order \in Int
              /\ group.pre_comp.points[b]
                   = OddMultiples((Pow2[BlockSize * b] * group.generator) % Order, group.pre_comp.w)
<1>0. Order \in Nat \ {0} /\ BlockSize \in Nat
  BY ParametersAssumption
<1>1. PICK g \in Generators : group.pre_comp = PreComp(g)
  BY CallShape
<1> DEFINE pre == PreComp(g)
<1>2. /\ pre.w \in Nat \ {0} /\ pre.numblocks \in Nat \ {0}
      /\ pre.points = [b \in 0 .. pre.numblocks - 1 |->
                         OddMultiples((Pow2[BlockSize * b] * g) % Order, pre.w)]
  BY PreCompType
<1> HIDE DEF pre
<1>3. \A b \in 0 .. pre.numblocks - 1 :
        /\ Pow2[BlockSize * b] * g \in Int /\ (Pow2[BlockSize * b] * g) % Order \in Int
        /\ pre.points[b] = OddMultiples((Pow2[BlockSize * b] * g) % Order, pre.w)
  <2> TAKE b \in 0 .. pre.numblocks - 1
  <2>1. b \in Nat
    BY <1>2
  <2>2. BlockSize * b \in Nat
    BY <1>0, <2>1
  <2>3. Pow2[BlockSize * b] \in Int /\ g \in Int
    BY <2>2, Pow2Type, CallsAssumption
  <2> DEFINE y == Pow2[BlockSize * b] * g
  <2>4. y \in Int
    BY <2>3, ProductType
  <2> HIDE DEF y
  <2>5. y % Order \in Int
    BY <1>0, <2>4, DivMod
  <2> QED BY <1>2, <2>4, <2>5 DEF y
<1>4. pre.points[0][1] = g
  <2>0. BlockSize * 0 = 0 /\ Pow2[0] = 1
    BY <1>0, Pow2Def
  <2>1. 0 \in 0 .. pre.numblocks - 1
    BY <1>2
  <2>2. g \in 0 .. Order - 1 /\ 1 * g = g /\ g \in Int
    BY CallsAssumption
  <2>3. g % Order = g
    BY <1>0, <2>2, SmallMod
  <2>4. pre.points[0] = OddMultiples(g, pre.w)
    BY <1>3, <2>0, <2>1, <2>2, <2>3
  <2>5. 1 \in 1 .. Pow2[pre.w - 1]
    <3>1. pre.w - 1 \in Nat
      BY <1>2
    <3> QED BY <3>1, Pow2Type
  <2>6. OddMultiples(g, pre.w)[1] = ((2 * 1 - 1) * g) % Order
    BY <1>2, <2>2, <2>5, OddMultiplesType
  <2>7. (2 * 1 - 1) * g = g
    BY <2>2
  <2> QED BY <2>3, <2>4, <2>6, <2>7
<1>5. group.generator = g
  BY <1>1, <1>4 DEF CallKept, Matches, pre
<1> QED
  BY <1>1, <1>2, <1>3, <1>5 DEF pre

LEMMA RowsAreGood ==
  ASSUME IInv, Lined
  PROVE  RowsGood
<1> SUFFICES ASSUME pc = "run", NEW b \in 0 .. loc.total - 1
             PROVE  \E P \in Int, w \in Nat \ {0} : RowIs(P, w, b)
  BY DEF RowsGood
<1>1. GroupKept /\ CallKept /\ pc # "idle" /\ PlaceKept
  BY DEF IInv, Kept
<1>2. /\ Scalars \in Nat /\ num \in Nat /\ Room \in Nat /\ loc.total \in 0 .. Room
      /\ ~loc.pre => Scalars = Room
      /\ loc.pre => Scalars = num /\ Room <= num + group.pre_comp.numblocks
  BY <1>1, CallShape, Fields
<1>3. CASE b < Scalars
  <2>1. b \in 0 .. Scalars - 1
    BY <1>2, <1>3
  <2>2. loc.wNAF[b].digits = compute_wNAF(Scalar(b), Window(b))
    BY <2>1 DEF IInv, Formed
  <2>3. loc.val_sub[b] = OddMultiples(Point(b), Window(b))
    BY <2>1 DEF Lined, Rows
  <2>4. PICK s \in Int, P \in Int, w \in Nat \ {0} :
          s = Scalar(b) /\ P = Point(b) /\ w = Window(b)
    BY <1>1, <2>1, ScalarShape
  <2>5. PICK d \in Seq(Int) : d = compute_wNAF(s, w) /\ IsWnaf(d, s, w)
    BY WnafOfScalar
  <2>6. \A j \in DOMAIN d : d[j] # 0 => d[j] % 2 = 1 /\ d[j] < Pow2[w] /\ d[j] > -Pow2[w]
    BY <2>5, SizedDigits
  <2>7. RowIs(P, w, b)
    BY <2>2, <2>3, <2>4, <2>5, <2>6 DEF RowIs
  <2> QED BY <2>7
<1>4. CASE ~(b < Scalars)
  <2>0. loc.pre
    BY <1>2, <1>4
  <2>9. group.pre_comp.numblocks \in Nat
    BY <1>1, <2>0, PreMultiples
  <2>1. loc.pre /\ Scalars = num /\ b - num \in 0 .. group.pre_comp.numblocks - 1 /\ b >= num
    BY <1>2, <1>4, <2>0, <2>9
  <2>2. PreNaf \in Seq(Int) /\ IsWnaf(PreNaf, req.scalar, group.pre_comp.w) /\ req.scalar \in Int
    BY <1>1, <2>1, PreShape, CallShape
  <2>3. PICK w \in Nat \ {0} : w = group.pre_comp.w
    BY <1>1, <2>1, PreMultiples
  <2>4. PICK d \in Seq(Int) : d = PreNaf /\ IsWnaf(d, req.scalar, w)
    BY <2>2, <2>3
  <2>5. \A j \in DOMAIN d : d[j] # 0 => d[j] % 2 = 1 /\ d[j] < Pow2[w] /\ d[j] > -Pow2[w]
    BY <2>2, <2>4, SizedDigits
  <2>6. \A c \in 0 .. group.pre_comp.numblocks - 1 :
          \E P \in Int : group.pre_comp.points[c] = OddMultiples(P, w)
    BY <1>1, <2>1, <2>3, PreMultiples
  <2>7. CASE loc.tmp = <<>>
    <3>1. loc.total = num + 1 /\ loc.wNAF[num].digits = d /\ loc.val_sub[num] = group.pre_comp.points[0]
      BY <2>1, <2>4, <2>7 DEF Lined, Rows
    <3>2. b = num /\ 0 \in 0 .. group.pre_comp.numblocks - 1
      BY <1>2, <2>1, <3>1
    <3>3. PICK P \in Int : group.pre_comp.points[0] = OddMultiples(P, w)
      BY <2>6, <3>2
    <3>4. RowIs(P, w, b)
      BY <2>5, <3>1, <3>2, <3>3 DEF RowIs
    <3> QED BY <3>4
  <2>8. CASE loc.tmp # <<>>
    <3>1. /\ loc.total = num + loc.numblocks /\ loc.numblocks >= 1 /\ loc.tmp = d
          /\ BlockSize * (loc.numblocks - 1) < Len(loc.tmp) /\ BlockRow(b)
      BY <2>1, <2>4, <2>8, <1>2 DEF Lined, Rows
    <3>2. PICK c \in 0 .. group.pre_comp.numblocks - 1 : c = b - num
      BY <2>1
    <3>0. loc.numblocks \in Nat
      BY <1>1, Fields
    <3>3. loc.numblocks \in Nat \ {0} /\ c \in 0 .. loc.numblocks - 1 /\ loc.tmp \in Seq(Int)
      BY <1>2, <2>9, <3>0, <3>1, <3>2
    <3>4. PICK P \in Int : group.pre_comp.points[c] = OddMultiples(P, w)
      BY <2>6
    <3>5. loc.wNAF[b].digits = BlockDigits(c) /\ loc.val_sub[b] = OddMultiples(P, w)
      BY <3>1, <3>2, <3>4 DEF BlockRow
    <3>6. PICK p \in Nat, q \in Nat : /\ p = BlockFrom(c) /\ q = BlockTo(c)
                                      /\ p <= q /\ q <= Len(d)
      BY <3>1, <3>3, BlockShape
    <3> DEFINE e == SubSeq(d, p + 1, q)
    <3>7. e \in Seq(Int) /\ Len(e) = q - p /\ \A j \in 1 .. q - p : e[j] = d[p + j]
      BY <3>6, PartOf
    <3>8. BlockDigits(c) = e
      BY <3>1, <3>6 DEF BlockDigits
    <3> HIDE DEF e
    <3>9. \A j \in DOMAIN e : e[j] # 0 => e[j] % 2 = 1 /\ e[j] < Pow2[w] /\ e[j] > -Pow2[w]
      <4> TAKE j \in DOMAIN e
      <4>1. j \in 1 .. q - p /\ p + j \in DOMAIN d
        BY <3>6, <3>7
      <4> QED BY <2>5, <3>7, <4>1
    <3>10. RowIs(P, w, b)
      BY <3>5, <3>7, <3>8, <3>9 DEF RowIs
    <3> QED BY <3>10
  <2> QED BY <2>7, <2>8
<1> QED
  BY <1>3, <1>4

(* What is looked up for a digit is that multiple of the row's base.          *)
LEMMA MultipleIs ==
  ASSUME NEW P \in Int, NEW w \in Nat \ {0}, NEW x \in Nat, x % 2 = 1, x < Pow2[w],
         NEW m, m = OddMultiples(P, w)
  PROVE  /\ m[1] \in 0 .. Order - 1 /\ m[x \div 2 + 1] \in 0 .. Order - 1
         /\ m[x \div 2 + 1] = (x * m[1]) % Order
<1>0. Order \in Nat \ {0} /\ 1 \in Int /\ w - 1 \in Nat
  BY ParametersAssumption
<1>1. PICK y \in Nat : y = x \div 2 + 1 /\ x = 2 * y - 1
  BY DivMod
<1>2. Pow2[w] = 2 * Pow2[w - 1] /\ Pow2[w - 1] \in Nat /\ Pow2[w - 1] >= 1
  <2>1. (w - 1) + 1 = w
    OBVIOUS
  <2> QED BY <1>0, <2>1, Pow2Def, Pow2Type
<1>3. y \in 1 .. Pow2[w - 1] /\ 1 \in 1 .. Pow2[w - 1]
  BY <1>1, <1>2
<1>4. /\ m[y] = ((2 * y - 1) * P) % Order /\ m[y] \in 0 .. Order - 1
      /\ m[1] = ((2 * 1 - 1) * P) % Order /\ m[1] \in 0 .. Order - 1
  BY <1>3, OddMultiplesType
<1>5. m[1] = P % Order
  <2>1. (2 * 1 - 1) * P = P
    OBVIOUS
  <2> QED BY <1>4, <2>1
<1>6. (x * m[1]) % Order = (x * P) % Order
  <2>0. x \in Int /\ Order \in Nat \ {0}
    BY <1>0
  <2>1. (x * (P % Order)) % Order = (x * P) % Order
    BY <2>0, ModMul, Zenon
  <2> QED BY <1>5, <2>1
<1> QED
  BY <1>1, <1>4, <1>6

(* The number r stands for, with the sign it is kept in.                      *)
Sign(negative, x) == IF negative THEN -x ELSE x
SignedSum(at_infinity, inverted, x) == IF at_infinity THEN 0 ELSE Sign(inverted, x)

(* The multiple added for a digit, with the sign of the digit.                *)
MultipleFor(P, w, d) == OddMultiples(P, w)[(IF d < 0 THEN -d ELSE d) \div 2 + 1]

LEMMA DigitAdds ==
  ASSUME NEW P \in Int, NEW w \in Nat \ {0}, NEW d \in Int, d # 0, d % 2 = 1,
         d < Pow2[w], d > -Pow2[w]
  PROVE  /\ MultipleFor(P, w, d) \in 0 .. Order - 1
         /\ Sign(d < 0, MultipleFor(P, w, d)) % Order
              = (d * OddMultiples(P, w)[1]) % Order
<1>0. Order \in Nat \ {0}
  BY ParametersAssumption
<1>10. PICK m : m = OddMultiples(P, w)
  OBVIOUS
<1>11. PICK a : a = m[(IF d < 0 THEN -d ELSE d) \div 2 + 1]
  OBVIOUS
<1>12. a = MultipleFor(P, w, d)
  BY <1>10, <1>11 DEF MultipleFor
<1>1. PICK x \in Nat : x = IF d < 0 THEN -d ELSE d
  OBVIOUS
<1>2. x % 2 = 1
  BY <1>1
<1>3. x < Pow2[w]
  <2>1. Pow2[w] \in Nat
    BY Pow2Type
  <2> QED BY <1>1, <2>1
<1>4. m[1] \in 0 .. Order - 1 /\ a \in 0 .. Order - 1 /\ a = (x * m[1]) % Order
  <2>1. a = m[x \div 2 + 1]
    BY <1>1, <1>11
  <2>2. /\ m[1] \in 0 .. Order - 1 /\ m[x \div 2 + 1] \in 0 .. Order - 1
        /\ m[x \div 2 + 1] = (x * m[1]) % Order
    BY <1>2, <1>3, <1>10, MultipleIs
  <2> QED BY <2>1, <2>2
<1>5. PICK g \in Int : g = m[1]
  BY <1>0, <1>4
<1>6. x * g \in Int /\ d * g \in Int
  BY ProductType
<1>7. a % Order = (x * g) % Order
  BY <1>0, <1>4, <1>5, SmallMod
<1>8. CASE d < 0
  <2>1. (-a) % Order = (-(x * g)) % Order
    <3> DEFINE y == x * g
    <3>1. a \in Int /\ y \in Int /\ a % Order = y % Order
      BY <1>0, <1>4, <1>6, <1>7
    <3> HIDE DEF y
    <3>2. (-a) % Order = (-y) % Order
      BY <1>0, <3>1, ModNegate
    <3> QED BY <3>2 DEF y
  <2>2. -(x * g) = d * g
    <3>1. d = -x /\ (-x) * g = -(x * g)
      BY <1>1, <1>8
    <3> QED BY <3>1
  <2> QED BY <1>4, <1>5, <1>8, <1>10, <1>12, <2>1, <2>2 DEF SignedSum, Sign
<1>9. CASE ~(d < 0)
  BY <1>1, <1>4, <1>5, <1>7, <1>9, <1>10, <1>12 DEF SignedSum, Sign
<1> QED
  BY <1>8, <1>9

(* A turn of the loop: all the sum is doubled if the turn is the first of its *)
(* place, and the multiple of the digit is added.                             *)
Turns(f, h, n, i, c, e) ==
  \A b \in 0 .. n - 1 :
    f[b] \in Int /\ h[b] \in Int /\ h[b] = c * f[b] + (IF b = i THEN e ELSE 0)

LEMMA SumTurns ==
  ASSUME NEW n \in Nat, NEW f, NEW h, NEW i \in 0 .. n - 1, NEW c \in Int, NEW e \in Int,
         Turns(f, h, n, i, c, e)
  PROVE  SumOf(h, n) % Order = (c * SumOf(f, n) + e) % Order
<1>0. \A b \in 0 .. n - 1 :
        f[b] \in Int /\ h[b] \in Int /\ h[b] = c * f[b] + (IF b = i THEN e ELSE 0)
  BY DEF Turns
<1> DEFINE A == [m \in 0 .. n |-> c * SumOf(f, m) + (IF i < m THEN e ELSE 0)]
<1>1. /\ SumOf(f, 0) = 0 /\ SumOf(h, 0) = 0
      /\ \A m \in 0 .. n : SumOf(f, m) \in Int
      /\ \A m \in 0 .. n - 1 : SumOf(f, m + 1) = SumOf(f, m) + f[m]
  BY <1>0, SumGrows
<1>2. \A m \in 0 .. n : c * SumOf(f, m) \in Int
  BY <1>1, ProductType
<1>3. \A m \in 0 .. n : A[m] \in Int
  BY <1>2
<1>4. SumOf(h, 0) % Order = A[0] % Order
  BY <1>1
<1>5. ASSUME NEW m \in 0 .. n - 1 PROVE A[m] + h[m] = A[m + 1]
  <2>1. m \in 0 .. n /\ m + 1 \in 0 .. n
    OBVIOUS
  <2>2. SumOf(f, m + 1) = SumOf(f, m) + f[m] /\ SumOf(f, m) \in Int /\ f[m] \in Int
    BY <1>0, <1>1, <2>1
  <2>3. c * (SumOf(f, m) + f[m]) = c * SumOf(f, m) + c * f[m] /\ c * f[m] \in Int
    <3> DEFINE x == SumOf(f, m)
               y == f[m]
    <3>1. x \in Int /\ y \in Int
      BY <2>2
    <3> HIDE DEF x, y
    <3>2. c * (x + y) = c * x + c * y /\ c * y \in Int
      BY <3>1
    <3> QED BY <3>2 DEF x, y
  <2>4. h[m] = c * f[m] + (IF m = i THEN e ELSE 0)
    BY <1>0
  <2>5. c * SumOf(f, m) \in Int
    BY <1>2, <2>1
  <2>6. A[m + 1] = c * SumOf(f, m) + c * f[m] + (IF i < m + 1 THEN e ELSE 0)
    BY <2>1, <2>2, <2>3
  <2>7. A[m] = c * SumOf(f, m) + (IF i < m THEN e ELSE 0)
    BY <2>1
  <2> DEFINE x == c * SumOf(f, m)
             y == c * f[m]
  <2> HIDE DEF x, y, A
  <2>8. x \in Int /\ y \in Int
    BY <2>3, <2>5 DEF x, y
  <2>9. /\ A[m + 1] = x + y + (IF i < m + 1 THEN e ELSE 0)
        /\ A[m] = x + (IF i < m THEN e ELSE 0) /\ h[m] = y + (IF m = i THEN e ELSE 0)
    BY <2>4, <2>6, <2>7 DEF x, y
  <2> QED BY <2>8, <2>9
<1>6. 0 \in 0 .. n
  OBVIOUS
<1>7. A[n] = c * SumOf(f, n) + e
  OBVIOUS
<1> HIDE DEF A
<1>8. SumOf(h, n) % Order = A[n] % Order
  <2>1. \A j \in 0 .. n - 1 : (A[j] + h[j]) % Order = A[j + 1] % Order
    BY <1>5
  <2> DEFINE zero == 0
  <2>2. /\ zero \in 0 .. n /\ SumOf(h, zero) % Order = A[zero] % Order
        /\ \A j \in zero .. n : A[j] \in Int
        /\ \A j \in zero .. n - 1 : (A[j] + h[j]) % Order = A[j + 1] % Order
    BY <1>3, <1>4, <1>6, <2>1
  <2>3. \A j \in 0 .. n - 1 : h[j] \in Int
    BY <1>0
  <2> HIDE DEF zero
  <2> QED BY <2>2, <2>3, SumFollows
<1> QED
  BY <1>7, <1>8

LEMMA DoubledIs ==
  ASSUME NEW x \in 0 .. Order - 1, NEW inf \in BOOLEAN, NEW inv \in BOOLEAN, NEW c \in {1, 2},
         NEW y, y = IF c = 2 /\ ~inf THEN (2 * x) % Order ELSE x
  PROVE  /\ y \in 0 .. Order - 1
         /\ SignedSum(inf, inv, y) % Order = (c * SignedSum(inf, inv, x)) % Order
<1>0. Order \in Nat \ {0}
  BY ParametersAssumption
<1>1. y \in 0 .. Order - 1
  <2>1. 2 * x \in Int
    OBVIOUS
  <2>2. (2 * x) % Order \in 0 .. Order - 1
    BY <1>0, <2>1, DivMod
  <2> QED BY <2>2
<1>2. CASE inf \/ c = 1
  <2>1. CASE inf
    BY <1>0, <1>1, <2>1 DEF SignedSum, Sign
  <2>2. CASE ~inf /\ c = 1
    <3>1. y = x /\ SignedSum(inf, inv, x) \in Int
      BY <1>0, <2>2 DEF SignedSum, Sign
    <3>2. PICK s \in Int : s = SignedSum(inf, inv, x)
      BY <3>1
    <3>3. c * s = s
      BY <2>2, <3>2
    <3>4. SignedSum(inf, inv, y) = s
      BY <3>1, <3>2
    <3>5. SignedSum(inf, inv, y) % Order = (c * SignedSum(inf, inv, x)) % Order
      BY <3>2, <3>3, <3>4
    <3> QED BY <1>1, <3>5
  <2> QED BY <1>2, <2>1, <2>2
<1>3. CASE ~inf /\ c = 2
  <2> DEFINE z == 2 * x
  <2>1. z \in Int /\ y = z % Order /\ y \in Int
    BY <1>0, <1>1, <1>3
  <2>2. -z = 2 * (-x)
    OBVIOUS
  <2> HIDE DEF z
  <2>3. y % Order = z % Order
    BY <1>0, <1>1, <2>1, SmallMod
  <2>4. (-y) % Order = (-z) % Order
    BY <1>0, <2>1, <2>3, ModNegate
  <2>5. SignedSum(inf, inv, y) % Order = (c * SignedSum(inf, inv, x)) % Order
    BY <1>3, <2>2, <2>3, <2>4 DEF SignedSum, Sign, z
  <2> QED BY <1>1, <2>5
<1> QED
  BY <1>1, <1>2, <1>3

AddedTo(inf, inv, x, neg, y) == IF inf THEN y ELSE ((IF neg # inv THEN -x ELSE x) + y) % Order

LEMMA AddedIs ==
  ASSUME NEW x \in 0 .. Order - 1, NEW y \in 0 .. Order - 1,
         NEW inf \in BOOLEAN, NEW inv \in BOOLEAN, NEW neg \in BOOLEAN,
         NEW e \in Int, Sign(neg, y) % Order = e % Order
  PROVE  /\ AddedTo(inf, inv, x, neg, y) \in 0 .. Order - 1
         /\ Sign(neg, AddedTo(inf, inv, x, neg, y)) % Order
              = (SignedSum(inf, inv, x) + e) % Order
<1>0. Order \in Nat \ {0} /\ x \in Int /\ y \in Int
  BY ParametersAssumption
<1>3. PICK z : z = AddedTo(inf, inv, x, neg, y)
  OBVIOUS
<1>1. CASE inf
  <2>1. z = y /\ SignedSum(inf, inv, x) + e = e
    BY <1>1, <1>3 DEF AddedTo, SignedSum, Sign
  <2> QED BY <1>3, <2>1
<1>2. CASE ~inf
  <2> DEFINE u == (IF neg # inv THEN -x ELSE x) + y
             s == IF inv THEN -x ELSE x
             t == IF neg THEN -y ELSE y
  <2>1. /\ u \in Int /\ s \in Int /\ t \in Int /\ z = u % Order
        /\ (IF neg THEN -u ELSE u) = s + t
    BY <1>0, <1>2, <1>3 DEF AddedTo
  <2> HIDE DEF u
  <2>2. z \in 0 .. Order - 1 /\ z \in Int
    <3>1. u % Order \in 0 .. Order - 1
      BY <1>0, <2>1, DivMod
    <3> QED BY <1>0, <2>1, <3>1
  <2>3. z % Order = u % Order
    BY <1>0, <2>1, <2>2, SmallMod
  <2>4. (-z) % Order = (-u) % Order
    BY <1>0, <2>1, <2>2, <2>3, ModNegate
  <2>5. Sign(neg, z) % Order = (s + t) % Order
    <3>1. CASE neg
      BY <2>1, <2>4, <3>1 DEF SignedSum, Sign
    <3>2. CASE ~neg
      BY <2>1, <2>3, <3>2 DEF SignedSum, Sign
    <3> QED BY <3>1, <3>2
  <2>6. t % Order = e % Order
    BY DEF SignedSum, Sign
  <2>7. s = SignedSum(inf, inv, x)
    BY <1>2 DEF SignedSum, Sign
  <2> HIDE DEF s, t
  <2>8. (s + t) % Order = (s + e) % Order
    <3>1. (s + (t % Order)) % Order = (s + t) % Order
      BY <1>0, <2>1, ModAdd
    <3>2. (s + (e % Order)) % Order = (s + e) % Order
      BY <1>0, <2>1, ModAdd
    <3> QED BY <2>6, <3>1, <3>2
  <2> QED BY <1>3, <2>2, <2>5, <2>7, <2>8
<1> QED
  BY <1>1, <1>2

-------------------------------------------------------------------------------
(* A turn of the loop.                                                        *)

RowSum(b) == loc.val_sub[b][1]
RowDigits(b) == loc.wNAF[b].digits

(* What a row is while the loop runs.                                         *)
LEMMA RowFacts ==
  ASSUME RowsGood, pc = "run", NEW b \in 0 .. loc.total - 1
  PROVE  /\ RowSum(b) \in 0 .. Order - 1 /\ RowSum(b) \in Int /\ RowDigits(b) \in Seq(Int)
         /\ \A k \in Nat : ValueFrom(RowDigits(b), k) \in Int
<1>0. Order \in Nat
  BY ParametersAssumption
<1>1. PICK P \in Int, w \in Nat \ {0} : RowIs(P, w, b)
  BY DEF RowsGood
<1>2. RowDigits(b) \in Seq(Int) /\ loc.val_sub[b] = OddMultiples(P, w)
  BY <1>1 DEF RowIs, RowDigits
<1>3. 1 \in 1 .. Pow2[w - 1]
  <2>1. w - 1 \in Nat
    OBVIOUS
  <2> QED BY <2>1, Pow2Type
<1>4. OddMultiples(P, w)[1] \in 0 .. Order - 1
  BY <1>3, OddMultiplesType
<1>5. \A k \in Nat : ValueFrom(RowDigits(b), k) \in Int
  BY <1>2, ValueFalls
<1> QED
  BY <1>0, <1>2, <1>4, <1>5 DEF RowSum

DigitIn(d, k) == IF k < Len(d) THEN d[k + 1] ELSE 0

LEMMA DigitOfRow ==
  ASSUME NEW d \in Seq(Int), NEW k \in Nat
  PROVE  /\ DigitIn(d, k) \in Int
         /\ ValueFrom(d, k) = 2 * ValueFrom(d, k + 1) + DigitIn(d, k)
<1>1. CASE k < Len(d)
  <2>1. k + 1 \in 1 .. Len(d)
    BY <1>1
  <2>2. d[k + 1] \in Int
    BY <2>1
  <2>3. ValueFrom(d, k) = 2 * ValueFrom(d, k + 1) + d[k + 1]
    BY <1>1, ValueFalls
  <2> QED BY <1>1, <2>2, <2>3 DEF DigitIn
<1>2. CASE ~(k < Len(d))
  <2>1. k >= Len(d) /\ k + 1 >= Len(d) /\ k + 1 \in Nat
    BY <1>2
  <2>2. ValueFrom(d, k) = 0
    BY <2>1, ValueFalls
  <2>3. ValueFrom(d, k + 1) = 0
    BY <2>1, ValueFalls
  <2> QED BY <1>2, <2>2, <2>3 DEF DigitIn
<1> QED
  BY <1>1, <1>2

(* The sum of the rows after a turn.                                          *)
Turn(c, e, f, h) ==
  /\ c = (IF loc.i = 0 THEN 2 ELSE 1) /\ e = Digit * RowSum(loc.i)
  /\ f = [b \in 0 .. loc.total - 1 |-> SoFar(b)]
  /\ h = [b \in 0 .. loc'.total - 1 |-> SoFar(b)']

LEMMA RowsTurn ==
  ASSUME Kept, RowsGood, SkipDigit \/ AddDigit, NEW c, NEW e, NEW f, NEW h, Turn(c, e, f, h)
  PROVE  /\ e \in Int /\ SumOf(f, loc.total) \in Int
         /\ SumOf(h, loc'.total) % Order = (c * SumOf(f, loc.total) + e) % Order
<1>1. /\ pc = "run" /\ loc.k >= 0 /\ loc'.total = loc.total
      /\ loc'.wNAF = loc.wNAF /\ loc'.val_sub = loc.val_sub
      /\ loc'.i = (IF loc.i + 1 = loc.total THEN 0 ELSE loc.i + 1)
      /\ loc'.k = (IF loc.i + 1 = loc.total THEN loc.k - 1 ELSE loc.k)
  <2>1. pc = "run" /\ loc.k >= 0
    BY DEF SkipDigit, AddDigit, Step
  <2>2. \A x \in {"pre", "numblocks", "total", "wNAF", "tmp", "val_sub", "max_len", "val"} :
          loc'[x] = loc[x]
    BY TurnKept
  <2>3. /\ loc'.i = (IF loc.i + 1 = loc.total THEN 0 ELSE loc.i + 1)
        /\ loc'.k = (IF loc.i + 1 = loc.total THEN loc.k - 1 ELSE loc.k)
    BY TurnKept
  <2> QED BY <2>1, <2>2, <2>3
<1>2. /\ GroupKept /\ CallKept /\ pc # "idle" /\ loc.total \in Nat /\ loc.i \in 0 .. loc.total - 1
      /\ loc.k \in Nat
  <2>1. GroupKept /\ CallKept /\ pc # "idle" /\ AtRun
    BY <1>1 DEF Kept, PlaceKept
  <2>2. Room \in Nat /\ loc.total \in 0 .. Room /\ loc.i \in 0 .. Room /\ loc.k \in Int
    BY <2>1, CallShape, Fields
  <2> QED BY <1>1, <2>1, <2>2 DEF AtRun
<1>3. PICK n \in Nat : n = loc.total
  BY <1>2
<1>4. PICK i \in 0 .. n - 1 : i = loc.i
  BY <1>2, <1>3
<1>5. PICK k \in Nat : k = loc.k
  BY <1>2
<1>6. \A b \in 0 .. n - 1 :
        /\ RowSum(b) \in Int /\ RowDigits(b) \in Seq(Int)
        /\ ValueFrom(RowDigits(b), k) \in Int /\ ValueFrom(RowDigits(b), k + 1) \in Int
        /\ DigitIn(RowDigits(b), k) \in Int
        /\ ValueFrom(RowDigits(b), k) = 2 * ValueFrom(RowDigits(b), k + 1) + DigitIn(RowDigits(b), k)
  <2> TAKE b \in 0 .. n - 1
  <2>1. RowSum(b) \in Int /\ RowDigits(b) \in Seq(Int)
    BY <1>1, <1>3, RowFacts
  <2>2. \A m \in Nat : ValueFrom(RowDigits(b), m) \in Int
    BY <1>1, <1>3, RowFacts
  <2>3. k + 1 \in Nat
    OBVIOUS
  <2>4. /\ DigitIn(RowDigits(b), k) \in Int
        /\ ValueFrom(RowDigits(b), k)
             = 2 * ValueFrom(RowDigits(b), k + 1) + DigitIn(RowDigits(b), k)
    BY <2>1, DigitOfRow
  <2> QED BY <2>1, <2>2, <2>3, <2>4
<1>7. Digit = DigitIn(RowDigits(i), k)
  BY <1>4, <1>5 DEF Digit, DigitIn, RowDigits
<1>8. \A b \in 0 .. n - 1 :
        f[b] = RowSum(b) * (IF b < i THEN ValueFrom(RowDigits(b), k)
                            ELSE IF i = 0 THEN ValueFrom(RowDigits(b), k + 1)
                            ELSE 2 * ValueFrom(RowDigits(b), k + 1))
  BY <1>3, <1>4, <1>5 DEF Turn, SoFar, RowSum, RowDigits
<1>9. \A b \in 0 .. n - 1 :
        h[b] = RowSum(b) * (IF b <= i THEN ValueFrom(RowDigits(b), k)
                            ELSE 2 * ValueFrom(RowDigits(b), k + 1))
  <2> TAKE b \in 0 .. n - 1
  <2>1. h[b] = SoFar(b)'
    BY <1>1, <1>3 DEF Turn
  <2>2. RowSum(b)' = RowSum(b) /\ RowDigits(b)' = RowDigits(b)
    BY <1>1 DEF RowSum, RowDigits
  <2>3. SoFar(b)' = RowSum(b) * (IF b < loc'.i THEN ValueFrom(RowDigits(b), loc'.k)
                                 ELSE IF loc'.i = 0 THEN ValueFrom(RowDigits(b), loc'.k + 1)
                                 ELSE 2 * ValueFrom(RowDigits(b), loc'.k + 1))
    BY <1>1 DEF SoFar, RowSum, RowDigits
  <2>4. CASE i + 1 = n
    <3>1. loc'.i = 0 /\ loc'.k + 1 = k /\ b <= i /\ ~(b < loc'.i)
      BY <1>1, <1>3, <1>4, <1>5, <2>4
    <3> QED BY <2>1, <2>3, <3>1
  <2>5. CASE i + 1 # n
    <3>1. loc'.i = i + 1 /\ loc'.k = k /\ loc'.i # 0
      BY <1>1, <1>3, <1>4, <1>5, <2>5
    <3>2. b < i + 1 <=> b <= i
      OBVIOUS
    <3> QED BY <2>1, <2>3, <3>1, <3>2
  <2> QED BY <2>4, <2>5
<1>10. c \in Int /\ e \in Int /\ c = IF i = 0 THEN 2 ELSE 1
  <2>1. Digit \in Int /\ RowSum(i) \in Int
    BY <1>6, <1>7
  <2> QED BY <1>4, <2>1, ProductType DEF Turn
<1>11. \A b \in 0 .. n - 1 :
         f[b] \in Int /\ h[b] \in Int /\ h[b] = c * f[b] + (IF b = i THEN e ELSE 0)
  <2> TAKE b \in 0 .. n - 1
  <2>1. PICK s \in Int, v \in Int, u \in Int, d \in Int :
          /\ s = RowSum(b) /\ v = ValueFrom(RowDigits(b), k)
          /\ u = ValueFrom(RowDigits(b), k + 1) /\ d = DigitIn(RowDigits(b), k)
          /\ v = 2 * u + d
    BY <1>6
  <2>2. f[b] = s * (IF b < i THEN v ELSE IF i = 0 THEN u ELSE 2 * u)
    BY <1>8, <2>1
  <2>3. h[b] = s * (IF b <= i THEN v ELSE 2 * u)
    BY <1>9, <2>1
  <2>4. b = i => e = d * s
    BY <1>4, <1>7, <2>1 DEF Turn
  <2>5. /\ s * v \in Int /\ s * u \in Int /\ s * (2 * u) \in Int /\ d * s \in Int
        /\ s * (2 * u) = 2 * (s * u) /\ s * (2 * u + d) = s * (2 * u) + d * s
    OBVIOUS
  <2>6. CASE b < i
    <3>1. c = 1 /\ f[b] = s * v /\ h[b] = s * v /\ b # i
      BY <1>10, <2>2, <2>3, <2>6
    <3> DEFINE x == s * v
    <3> HIDE DEF x
    <3>2. x \in Int /\ f[b] = x /\ h[b] = x
      BY <2>5, <3>1 DEF x
    <3> QED BY <3>1, <3>2
  <2>7. CASE b = i
    <3> DEFINE x == s * u
               y == s * (2 * u)
               z == d * s
    <3>1. h[b] = y + z /\ e = z /\ f[b] = IF i = 0 THEN x ELSE y
      BY <2>1, <2>2, <2>3, <2>4, <2>5, <2>7
    <3>2. x \in Int /\ y \in Int /\ z \in Int /\ y = 2 * x
      BY <2>5
    <3> HIDE DEF x, y, z
    <3> QED BY <1>10, <2>7, <3>1, <3>2
  <2>8. CASE b > i
    <3> DEFINE x == s * u
               y == s * (2 * u)
    <3>1. h[b] = y /\ f[b] = IF i = 0 THEN x ELSE y
      BY <2>2, <2>3, <2>8
    <3>2. x \in Int /\ y \in Int /\ y = 2 * x
      BY <2>5
    <3> HIDE DEF x, y
    <3> QED BY <1>10, <2>8, <3>1, <3>2
  <2> QED BY <2>6, <2>7, <2>8
<1>12. SumOf(h, n) % Order = (c * SumOf(f, n) + e) % Order
  <2>1. Turns(f, h, n, i, c, e)
    BY <1>11 DEF Turns
  <2>2. c \in Int /\ e \in Int
    BY <1>10
  <2> QED BY <2>1, <2>2, SumTurns
<1>13. SumOf(f, n) \in Int
  <2>1. n \in 0 .. n
    OBVIOUS
  <2> QED BY <1>11, <2>1, SumGrows
<1> QED
  BY <1>1, <1>3, <1>10, <1>12, <1>13

(* What r is after a turn.                                                    *)
LEMMA ResultTurns ==
  ASSUME Kept, RowsGood, Reduced, SkipDigit \/ AddDigit
  PROVE  /\ loc.at_infinity \in BOOLEAN /\ loc.inverted \in BOOLEAN
         /\ ~loc'.at_infinity => r' \in 0 .. Order - 1
         /\ \E x \in 0 .. Order - 1 :
              /\ ~loc.at_infinity => x = r
              /\ SignedSum(loc'.at_infinity, loc'.inverted, r') % Order
                   = ((IF loc.i = 0 THEN 2 ELSE 1) * SignedSum(loc.at_infinity, loc.inverted, x)
                      + Digit * RowSum(loc.i)) % Order
<1>0. Order \in Nat \ {0} /\ 0 \in 0 .. Order - 1
  BY ParametersAssumption
<1>1. pc = "run" /\ loc.k >= 0
  BY DEF SkipDigit, AddDigit, Step
<1>2. /\ GroupKept /\ CallKept /\ pc # "idle" /\ loc.i \in 0 .. loc.total - 1 /\ loc.k \in Nat
      /\ loc.at_infinity \in BOOLEAN /\ loc.inverted \in BOOLEAN
  <2>1. GroupKept /\ CallKept /\ pc # "idle" /\ AtRun
    BY <1>1 DEF Kept, PlaceKept
  <2>2. Room \in Nat /\ loc.total \in 0 .. Room /\ loc.i \in 0 .. Room /\ loc.k \in Int
    BY <2>1, CallShape, Fields
  <2>3. loc.at_infinity \in BOOLEAN /\ loc.inverted \in BOOLEAN
    BY <2>1, Fields
  <2> QED BY <1>1, <2>1, <2>2, <2>3 DEF AtRun
<1>3. PICK x \in 0 .. Order - 1 : ~loc.at_infinity => x = r
  BY <1>0, <1>1 DEF Reduced
<1>4. PICK c \in {1, 2} : c = IF loc.i = 0 THEN 2 ELSE 1
  OBVIOUS
<1>5. PICK inf \in BOOLEAN, inv \in BOOLEAN : inf = loc.at_infinity /\ inv = loc.inverted
  BY <1>2
<1>6. PICK y : y = IF c = 2 /\ ~inf THEN (2 * x) % Order ELSE x
  OBVIOUS
<1>7. /\ y \in 0 .. Order - 1
      /\ SignedSum(inf, inv, y) % Order = (c * SignedSum(inf, inv, x)) % Order
  BY <1>6, DoubledIs
<1>8. ~inf => y = Doubled
  BY <1>3, <1>4, <1>5, <1>6 DEF Doubled
<1>9. c * SignedSum(inf, inv, x) \in Int /\ SignedSum(inf, inv, y) \in Int
  <2>1. SignedSum(inf, inv, x) \in Int /\ SignedSum(inf, inv, y) \in Int
    BY <1>0, <1>7 DEF SignedSum, Sign
  <2> QED BY <2>1, ProductType
<1>10. /\ RowSum(loc.i) \in 0 .. Order - 1 /\ RowSum(loc.i) \in Int
       /\ RowDigits(loc.i) \in Seq(Int)
  BY <1>1, <1>2, RowFacts
<1>11. CASE SkipDigit
  <2>1. Digit = 0 /\ r' = Doubled /\ loc' = NextPlace
    BY <1>11 DEF SkipDigit
  <2>2. loc'.at_infinity = inf /\ loc'.inverted = inv
    BY <1>2, <1>5, <2>1 DEF NextPlace, CallKept, Locals
  <2>3. SignedSum(inf, inv, r') = SignedSum(inf, inv, y)
    BY <1>8, <2>1 DEF SignedSum, Sign
  <2>4. c * SignedSum(inf, inv, x) + Digit * RowSum(loc.i) = c * SignedSum(inf, inv, x)
    <3>1. Digit * RowSum(loc.i) = 0
      BY <1>10, <2>1
    <3> QED BY <1>9, <3>1
  <2>5. SignedSum(inf, inv, r') % Order
          = (c * SignedSum(inf, inv, x) + Digit * RowSum(loc.i)) % Order
    BY <1>7, <2>3, <2>4
  <2> QED BY <1>2, <1>3, <1>4, <1>5, <1>7, <1>8, <2>1, <2>2, <2>5
<1>12. CASE AddDigit
  <2>1. /\ Digit # 0 /\ loc' = [NextPlace EXCEPT !.inverted = Digit < 0, !.at_infinity = FALSE]
        /\ r' = IF loc.at_infinity THEN Multiple
                ELSE ((IF (Digit < 0) # loc.inverted THEN -Doubled ELSE Doubled)
                      + Multiple) % Order
    BY <1>12 DEF AddDigit
  <2>2. PICK neg \in BOOLEAN : neg = (Digit < 0)
    <3> DEFINE negative == Digit < 0
    <3>1. negative \in BOOLEAN
      OBVIOUS
    <3> HIDE DEF negative
    <3>2. \E neg \in BOOLEAN : neg = negative
      BY <3>1, Zenon
    <3> QED BY <3>2 DEF negative
  <2>3. loc'.at_infinity = FALSE /\ loc'.inverted = neg
    BY <1>2, <2>1, <2>2 DEF NextPlace, CallKept, Locals
  <2>4. PICK P \in Int, w \in Nat \ {0} : RowIs(P, w, loc.i)
    BY <1>1, <1>2 DEF RowsGood
  <2>5. /\ Digit \in Int /\ Digit % 2 = 1 /\ Digit < Pow2[w] /\ Digit > -Pow2[w]
    <3>1. loc.k < Len(RowDigits(loc.i)) /\ Digit = RowDigits(loc.i)[loc.k + 1]
      BY <2>1 DEF Digit, RowDigits
    <3>2. loc.k + 1 \in DOMAIN RowDigits(loc.i)
      BY <1>2, <1>10, <3>1
    <3>3. PICK d \in Seq(Int) : d = RowDigits(loc.i)
      BY <1>10
    <3>4. \A j \in DOMAIN d : d[j] # 0 => d[j] % 2 = 1 /\ d[j] < Pow2[w] /\ d[j] > -Pow2[w]
      BY <2>4, <3>3 DEF RowIs, RowDigits
    <3>5. PICK m \in DOMAIN d : m = loc.k + 1
      BY <3>2, <3>3
    <3>6. Digit = d[m] /\ d[m] \in Int
      BY <3>1, <3>3, <3>5
    <3>7. d[m] # 0
      BY <2>1, <3>6
    <3>8. d[m] % 2 = 1 /\ d[m] < Pow2[w] /\ d[m] > -Pow2[w]
      BY <3>4, <3>7
    <3> QED BY <3>6, <3>8
  <2>6. PICK d \in Int : d = Digit
    BY <2>5
  <2>7. loc.val_sub[loc.i] = OddMultiples(P, w)
    BY <2>4 DEF RowIs
  <2>8. /\ MultipleFor(P, w, d) \in 0 .. Order - 1
        /\ Sign(d < 0, MultipleFor(P, w, d)) % Order
             = (d * OddMultiples(P, w)[1]) % Order
    <3>1. d # 0 /\ d % 2 = 1 /\ d < Pow2[w] /\ d > -Pow2[w]
      BY <2>1, <2>5, <2>6
    <3> QED BY <3>1, DigitAdds
  <2>9. PICK a \in 0 .. Order - 1 : a = MultipleFor(P, w, d)
    BY <2>8
  <2>17. a = Multiple
    BY <2>6, <2>7, <2>9 DEF Multiple, MultipleFor
  <2>10. PICK e \in Int : e = d * OddMultiples(P, w)[1] /\ e = Digit * RowSum(loc.i)
    <3>1. OddMultiples(P, w)[1] = RowSum(loc.i)
      BY <2>7 DEF RowSum
    <3> QED BY <1>10, <2>6, <3>1, ProductType
  <2>11. Sign(neg, a) % Order = e % Order
    BY <2>2, <2>6, <2>8, <2>9, <2>10
  <2>13. PICK z : z = AddedTo(inf, inv, y, neg, a)
    OBVIOUS
  <2>12. z = r'
    BY <1>5, <1>8, <2>1, <2>2, <2>13, <2>17 DEF AddedTo
  <2>14. /\ z \in 0 .. Order - 1
         /\ Sign(neg, z) % Order = (SignedSum(inf, inv, y) + e) % Order
    <3>1. y \in 0 .. Order - 1
      BY <1>7
    <3>2. /\ AddedTo(inf, inv, y, neg, a) \in 0 .. Order - 1
          /\ Sign(neg, AddedTo(inf, inv, y, neg, a)) % Order
               = (SignedSum(inf, inv, y) + e) % Order
      BY <2>11, <3>1, AddedIs
    <3> QED BY <2>13, <3>2
  <2>15. (SignedSum(inf, inv, y) + e) % Order = (c * SignedSum(inf, inv, x) + e) % Order
    <3> DEFINE s == SignedSum(inf, inv, y)
               t == c * SignedSum(inf, inv, x)
    <3>1. s \in Int /\ t \in Int /\ Alike(s, t)
      BY <1>7, <1>9 DEF Alike
    <3> HIDE DEF s, t
    <3>2. Alike(s + e, t + e)
      BY <3>1, AlikePlus
    <3> QED BY <3>2 DEF s, t, Alike
  <2>16. SignedSum(loc'.at_infinity, loc'.inverted, r') % Order
           = (c * SignedSum(inf, inv, x) + Digit * RowSum(loc.i)) % Order
    <3>1. SignedSum(loc'.at_infinity, loc'.inverted, r') = Sign(neg, z)
      BY <2>3, <2>12 DEF SignedSum
    <3> QED BY <2>10, <2>14, <2>15, <3>1
  <2> QED BY <1>2, <1>3, <1>4, <1>5, <2>12, <2>14, <2>16
<1> QED
  BY <1>11, <1>12

LEMMA SumsTurn ==
  ASSUME Kept, RowsGood, SumsSoFar, Reduced, SkipDigit \/ AddDigit
  PROVE  SumsSoFar' /\ Reduced'
<1>0. Order \in Nat \ {0}
  BY ParametersAssumption
<1>1. pc = "run" /\ pc' = "run"
  BY DEF SkipDigit, AddDigit, Step
<1>2. PICK c, e, f, h : Turn(c, e, f, h)
  BY DEF Turn
<1>3. /\ e \in Int /\ SumOf(f, loc.total) \in Int
      /\ SumOf(h, loc'.total) % Order = (c * SumOf(f, loc.total) + e) % Order
  BY <1>2, RowsTurn
<1>4. PICK x \in 0 .. Order - 1 :
        /\ ~loc.at_infinity => x = r
        /\ SignedSum(loc'.at_infinity, loc'.inverted, r') % Order
             = ((IF loc.i = 0 THEN 2 ELSE 1) * SignedSum(loc.at_infinity, loc.inverted, x)
                + Digit * RowSum(loc.i)) % Order
  BY ResultTurns
<1>5. PICK s \in Int : s = SignedSum(loc.at_infinity, loc.inverted, x)
  BY <1>0 DEF SignedSum, Sign
<1>6. PICK t \in Int : t = SumOf(f, loc.total)
  BY <1>3
<1>7. s % Order = t % Order
  BY <1>1, <1>2, <1>4, <1>5, <1>6 DEF SumsSoFar, SignedSum, Sign, Turn
<1>8. (c * s + e) % Order = (c * t + e) % Order
  <2>1. c \in Int
    BY <1>2 DEF Turn
  <2>2. (c * s) % Order = (c * t) % Order
    BY <1>0, <1>7, <2>1, ModScale
  <2>3. PICK u \in Int, v \in Int : u = c * s /\ v = c * t
    BY <2>1, ProductType
  <2>4. Alike(u, v) /\ e \in Int
    BY <1>3, <2>2, <2>3 DEF Alike
  <2>5. Alike(u + e, v + e)
    BY <2>4, AlikePlus
  <2> QED BY <2>3, <2>5 DEF Alike
<1>9. SignedSum(loc'.at_infinity, loc'.inverted, r') % Order = (c * s + e) % Order
  BY <1>2, <1>4, <1>5 DEF Turn
<1>10. SignedSum(loc'.at_infinity, loc'.inverted, r') % Order = SumOf(h, loc'.total) % Order
  BY <1>3, <1>6, <1>8, <1>9
<1>11. SumsSoFar'
  BY <1>1, <1>2, <1>10 DEF SumsSoFar, SignedSum, Sign, Turn
<1>12. Reduced'
  BY ResultTurns DEF Reduced
<1> QED
  BY <1>11, <1>12

-------------------------------------------------------------------------------
(* What all the rows come to: the sum that was asked for.                     *)

RowTotal(b) == RowSum(b) * ValueFrom(RowDigits(b), 0)

LEMMA FirstMultiple ==
  ASSUME NEW P \in Int, NEW w \in Nat \ {0}
  PROVE  OddMultiples(P, w)[1] = P % Order
<1>1. 1 \in 1 .. Pow2[w - 1]
  <2>1. w - 1 \in Nat
    OBVIOUS
  <2> QED BY <2>1, Pow2Type
<1>2. OddMultiples(P, w)[1] = ((2 * 1 - 1) * P) % Order
  BY <1>1, OddMultiplesType
<1>3. (2 * 1 - 1) * P = P
  OBVIOUS
<1> QED
  BY <1>2, <1>3

(* A row with a multiple of a base, and the digits of a number.               *)
LEMMA RowOf ==
  ASSUME NEW P \in Int, NEW v \in Int
  PROVE  ((P % Order) * v) % Order = (v * P) % Order
<1>0. Order \in Nat \ {0}
  BY ParametersAssumption
<1>1. ((P % Order) * v) % Order = (P * v) % Order
  BY <1>0, ModMul
<1>2. P * v = v * P
  OBVIOUS
<1> QED
  BY <1>1, <1>2

LEMMA ScalarRow ==
  ASSUME IInv, Lined, pc = "run", NEW b \in 0 .. Scalars - 1
  PROVE  RowTotal(b) % Order = (Scalar(b) * Point(b)) % Order
<1>1. GroupKept /\ CallKept /\ pc # "idle"
  BY DEF IInv, Kept
<1>2. loc.wNAF[b].digits = compute_wNAF(Scalar(b), Window(b))
  BY DEF IInv, Formed
<1>3. loc.val_sub[b] = OddMultiples(Point(b), Window(b))
  BY DEF Lined, Rows
<1>4. PICK s \in Int, P \in Int, w \in Nat \ {0} :
        s = Scalar(b) /\ P = Point(b) /\ w = Window(b)
  BY <1>1, ScalarShape
<1>5. ValueFrom(compute_wNAF(s, w), 0) = s
  BY WnafOfScalar DEF IsWnaf
<1>6. RowTotal(b) = (P % Order) * s
  <2>1. OddMultiples(P, w)[1] = P % Order
    BY FirstMultiple
  <2> QED BY <1>2, <1>3, <1>4, <1>5, <2>1 DEF RowTotal, RowSum, RowDigits
<1>7. ((P % Order) * s) % Order = (s * P) % Order
  BY RowOf
<1> QED
  BY <1>4, <1>6, <1>7

(* Where the digits that block c and those after it stand for begin.          *)
After(c) == IF c = loc.numblocks THEN 0
            ELSE Pow2[BlockSize * c] * ValueFrom(loc.tmp, BlockSize * c)

LEMMA BlockValue ==
  ASSUME loc.tmp \in Seq(Int), loc.numblocks \in Nat \ {0},
         BlockSize * (loc.numblocks - 1) < Len(loc.tmp), NEW c \in 0 .. loc.numblocks - 1
  PROVE  /\ ValueFrom(BlockDigits(c), 0) \in Int /\ After(c) \in Int /\ After(c + 1) \in Int
         /\ Pow2[BlockSize * c] * ValueFrom(BlockDigits(c), 0) + After(c + 1) = After(c)
<1>0. BlockSize \in Nat /\ c \in Nat
  BY ParametersAssumption
<1>1. PICK d \in Seq(Int) : d = loc.tmp
  OBVIOUS
<1>2. PICK p \in Nat, q \in Nat : /\ p = BlockFrom(c) /\ q = BlockTo(c) /\ p <= q /\ q <= Len(d)
                                  /\ c < loc.numblocks - 1 => q = BlockFrom(c + 1)
  BY <1>1, BlockShape
<1>3. p = BlockSize * c
  BY <1>2 DEF BlockFrom
<1>4. BlockDigits(c) = SubSeq(d, p + 1, q)
  BY <1>1, <1>2 DEF BlockDigits
<1>5. PICK e : e = SubSeq(d, p + 1, q)
  OBVIOUS
<1>6. ValueFrom(e, 0) \in Int /\ ValueFrom(d, p) = ValueFrom(e, 0) + Pow2[q - p] * ValueFrom(d, q)
  <2>1. p <= q /\ q <= Len(d)
    BY <1>2
  <2>2. IsPart(e, d, p, q)
    BY <1>5 DEF IsPart
  <2> QED BY <2>1, <2>2, PartValue
<1>7. \A k \in Nat : ValueFrom(d, k) \in Int
  BY ValueFalls
<1>8. PICK a \in Int, b \in Int, u \in Int, v \in Int, x \in Int :
        /\ a = Pow2[p] /\ b = Pow2[q - p] /\ u = ValueFrom(d, p) /\ v = ValueFrom(e, 0)
        /\ x = ValueFrom(d, q)
  <2>1. q - p \in Nat
    BY <1>2
  <2> QED BY <1>6, <1>7, <2>1, Pow2Type
<1>9. u = v + b * x
  BY <1>6, <1>8
<1>10. After(c) = a * u
  <2>1. c # loc.numblocks
    OBVIOUS
  <2> QED BY <1>1, <1>3, <1>8, <2>1 DEF After
<1>11. After(c + 1) = a * (b * x)
  <2>1. CASE c = loc.numblocks - 1
    <3>1. After(c + 1) = 0
      BY <2>1 DEF After
    <3>2. x = 0
      <4>1. q = Len(d) /\ q >= Len(d)
        BY <1>1, <1>2, <2>1 DEF BlockTo
      <4>2. ValueFrom(d, q) = 0
        BY <4>1, ValueFalls
      <4> QED BY <1>8, <4>2
    <3>3. b * 0 = 0 /\ a * 0 = 0
      OBVIOUS
    <3> QED BY <3>1, <3>2, <3>3
  <2>2. CASE c # loc.numblocks - 1
    <3>1. c < loc.numblocks - 1 /\ c + 1 # loc.numblocks
      BY <2>2
    <3>2. q = BlockSize * (c + 1)
      BY <1>2, <3>1 DEF BlockFrom
    <3>3. After(c + 1) = Pow2[q] * x
      BY <1>1, <1>8, <3>1, <3>2 DEF After
    <3>4. Pow2[q] = a * b
      <4>1. q - p \in Nat /\ p + (q - p) = q
        BY <1>2
      <4>2. Pow2[p + (q - p)] = Pow2[p] * Pow2[q - p]
        BY <4>1, Pow2Add
      <4> QED BY <1>8, <4>1, <4>2
    <3>5. (a * b) * x = a * (b * x)
      OBVIOUS
    <3> QED BY <3>3, <3>4, <3>5
  <2> QED BY <2>1, <2>2
<1>12. a * (v + b * x) = a * v + a * (b * x) /\ a * v \in Int /\ a * (b * x) \in Int /\ a * u \in Int
  OBVIOUS
<1> QED
  BY <1>3, <1>4, <1>5, <1>8, <1>9, <1>10, <1>11, <1>12

Continues(a, v, y, x) == a * v + y = x
ContinuesModulo(g, a, v, y, x) == (g * y + ((a * g) % Order) * v) % Order = (g * x) % Order

LEMMA BlockAdds ==
  ASSUME NEW g \in Int, NEW a \in Int, NEW v \in Int, NEW x \in Int, NEW y \in Int,
         Continues(a, v, y, x)
  PROVE  ContinuesModulo(g, a, v, y, x)
<1>0. Order \in Nat \ {0}
  BY ParametersAssumption
<1>1. PICK P \in Int : P = a * g
  BY ProductType
<1>2. PICK Q \in Int : Q = P % Order
  BY <1>0, DivMod
<1>3. (Q * v) % Order = (v * P) % Order
  BY <1>2, RowOf
<1>4. PICK s \in Int : s = Q * v
  BY ProductType
<1>5. PICK t \in Int : t = v * P
  BY ProductType
<1>6. PICK u \in Int : u = g * y
  BY ProductType
<1>7. s % Order = t % Order
  BY <1>3, <1>4, <1>5
<1>8. (s + u) % Order = (t + u) % Order
  <2>1. Alike(s, t)
    BY <1>7 DEF Alike
  <2>2. Alike(s + u, t + u)
    BY <2>1, AlikePlus
  <2> QED BY <2>2 DEF Alike
<1>9. t + u = g * x
  <2>1. v * (a * g) = g * (a * v) /\ a * v \in Int
    OBVIOUS
  <2>2. g * (a * v + y) = g * (a * v) + g * y
    BY <2>1
  <2> QED BY <1>1, <1>5, <1>6, <2>1, <2>2 DEF Continues
<1>10. s + u = u + s
  OBVIOUS
<1> QED
  BY <1>1, <1>2, <1>4, <1>6, <1>8, <1>9, <1>10 DEF ContinuesModulo

(* The rows of the blocks come to the generator's part of the sum.            *)
LEMMA BlockRowTotal ==
  ASSUME IInv, Lined, pc = "run", loc.pre, loc.tmp # <<>>, NEW c \in 0 .. loc.numblocks - 1
  PROVE  /\ RowTotal(num + c) \in Int
         /\ (group.generator * After(c + 1) + RowTotal(num + c)) % Order
              = (group.generator * After(c)) % Order
         /\ group.generator * After(c) \in Int /\ group.generator * After(c + 1) \in Int
<1>0. Order \in Nat \ {0}
  BY ParametersAssumption
<1>1. GroupKept /\ CallKept /\ pc # "idle"
  BY DEF IInv, Kept
<1>2. /\ num \in Nat /\ Room \in Nat /\ Room <= num + group.pre_comp.numblocks
      /\ loc.total \in 0 .. Room /\ loc.numblocks \in Nat /\ loc.tmp \in Seq(Int)
      /\ group.generator \in 0 .. Order - 1
  BY <1>1, CallShape, Fields
<1>3. /\ loc.total = num + loc.numblocks /\ loc.numblocks >= 1
      /\ BlockSize * (loc.numblocks - 1) < Len(loc.tmp)
      /\ \A j \in num .. loc.total - 1 : BlockRow(j)
  BY DEF Lined, Rows
<1>4. group.pre_comp.w \in Nat \ {0} /\ group.pre_comp.numblocks \in Nat
  BY <1>1, PreMultiples
<1>5. c \in 0 .. group.pre_comp.numblocks - 1 /\ num + c \in num .. loc.total - 1
      /\ (num + c) - num = c
  <2>0. loc.total \in Nat
    BY <1>2
  <2>1. PICK m \in Nat, n \in Nat, t \in Nat, k \in Nat :
          m = num /\ n = loc.numblocks /\ t = loc.total /\ k = group.pre_comp.numblocks
    BY <1>2, <1>4, <2>0, Zenon
  <2>4. t = m + n /\ c \in 0 .. n - 1
    BY <1>3, <2>1
  <2>5. Room <= m + k /\ t <= Room /\ Room \in Nat
    BY <1>2, <2>1
  <2>2. t = m + n /\ t <= m + k /\ c \in 0 .. n - 1
    BY <2>4, <2>5
  <2>3. c \in 0 .. k - 1 /\ m + c \in m .. t - 1 /\ (m + c) - m = c
    BY <2>2
  <2> QED BY <2>1, <2>3
<1>6. PICK P \in Int : P = Pow2[BlockSize * c] * group.generator
  BY <1>1, <1>5, PreMultiples
<1>7. PICK w \in Nat \ {0} : w = group.pre_comp.w
  BY <1>4
<1>8. PICK Q \in Int : Q = P % Order
  BY <1>0, DivMod
<1>9. loc.val_sub[num + c] = OddMultiples(Q, w)
  <2>1. loc.val_sub[num + c] = group.pre_comp.points[c]
    BY <1>3, <1>5 DEF BlockRow
  <2>2. group.pre_comp.points[c]
          = OddMultiples((Pow2[BlockSize * c] * group.generator) % Order, group.pre_comp.w)
    BY <1>1, <1>5, PreMultiples
  <2> QED BY <1>6, <1>7, <1>8, <2>1, <2>2
<1>10. RowSum(num + c) = Q
  <2>1. OddMultiples(Q, w)[1] = Q % Order
    BY FirstMultiple
  <2>2. Q \in 0 .. Order - 1
    BY <1>0, <1>8, DivMod
  <2>3. Q % Order = Q
    BY <1>0, <2>2, SmallMod
  <2> QED BY <1>9, <2>1, <2>3 DEF RowSum
<1>11. RowDigits(num + c) = BlockDigits(c)
  BY <1>3, <1>5 DEF BlockRow, RowDigits
<1>12. /\ ValueFrom(BlockDigits(c), 0) \in Int /\ After(c) \in Int /\ After(c + 1) \in Int
       /\ Pow2[BlockSize * c] * ValueFrom(BlockDigits(c), 0) + After(c + 1) = After(c)
  <2>1. loc.numblocks \in Nat \ {0}
    BY <1>2, <1>3
  <2> QED BY <1>2, <1>3, <2>1, BlockValue
<1>13. PICK g \in Int, a \in Int, v \in Int, x \in Int, y \in Int :
         /\ g = group.generator /\ a = Pow2[BlockSize * c] /\ v = ValueFrom(BlockDigits(c), 0)
         /\ x = After(c) /\ y = After(c + 1)
  <2>1. BlockSize * c \in Nat
    BY ParametersAssumption
  <2>2. Pow2[BlockSize * c] \in Int
    BY <2>1, Pow2Type
  <2>3. group.generator \in Int
    BY <1>0, <1>2
  <2> QED BY <1>12, <2>2, <2>3
<1>14. Continues(a, v, y, x)
  BY <1>12, <1>13 DEF Continues
<1>19. P = a * g
  BY <1>6, <1>13
<1>15. RowTotal(num + c) = Q * v
  BY <1>10, <1>11, <1>13 DEF RowTotal
<1>16. Q * v \in Int /\ g * x \in Int /\ g * y \in Int
  BY ProductType
<1>17. (g * y + ((a * g) % Order) * v) % Order = (g * x) % Order
  <2>1. ContinuesModulo(g, a, v, y, x)
    BY <1>14, BlockAdds
  <2> QED BY <2>1 DEF ContinuesModulo
<1>18. Q = (a * g) % Order
  BY <1>8, <1>19
<1> QED
  BY <1>13, <1>15, <1>16, <1>17, <1>18

Follows(f, A, m, n) ==
  /\ \A i \in 0 .. n - 1 : f[i] \in Int
  /\ \A i \in m .. n : A[i] \in Int
  /\ Alike(SumOf(f, m), A[m])
  /\ \A i \in m .. n - 1 : Alike(A[i] + f[i], A[i + 1])

LEMMA SumFollowed ==
  ASSUME NEW n \in Nat, NEW f, NEW m \in 0 .. n, NEW A, Follows(f, A, m, n)
  PROVE  Alike(SumOf(f, n), A[n])
  BY SumFollows DEF Follows, Alike

(* What the rows come to, and the terms.                                      *)
RowTotals == [b \in 0 .. loc.total - 1 |-> RowTotal(b)]
Products == [t \in 0 .. num - 1 |-> req.terms[t + 1].s * req.terms[t + 1].P]

LEMMA TotalsGrow ==
  ASSUME IInv, RowsGood, pc = "run"
  PROVE  /\ num \in Nat /\ num <= loc.total /\ loc.total \in Nat /\ num <= Scalars /\ Scalars <= loc.total
         /\ \A b \in 0 .. loc.total - 1 : RowTotals[b] \in Int /\ RowTotals[b] = RowTotal(b)
         /\ \A m \in 0 .. loc.total : SumOf(RowTotals, m) \in Int
         /\ \A m \in 0 .. loc.total - 1 : SumOf(RowTotals, m + 1) = SumOf(RowTotals, m) + RowTotals[m]
         /\ SumOf(RowTotals, 0) = 0
<1>1. GroupKept /\ CallKept /\ pc # "idle" /\ Scalars <= loc.total
  BY DEF IInv, Kept, PlaceKept
<1>2. /\ num \in Nat /\ Scalars \in Nat /\ Room \in Nat /\ loc.total \in 0 .. Room
      /\ Scalars = num \/ Scalars = num + 1
  BY <1>1, CallShape, Fields
<1>3. ASSUME NEW b \in 0 .. loc.total - 1 PROVE RowTotals[b] \in Int /\ RowTotals[b] = RowTotal(b)
  <2>1. RowSum(b) \in Int /\ \A k \in Nat : ValueFrom(RowDigits(b), k) \in Int
    BY RowFacts
  <2>2. RowTotal(b) \in Int
    BY <2>1, ProductType DEF RowTotal
  <2> QED BY <2>2 DEF RowTotals
<1>4. PICK n \in Nat : n = loc.total
  BY <1>2
<1>5. \A b \in 0 .. n - 1 : RowTotals[b] \in Int
  BY <1>3, <1>4
<1>6. /\ \A m \in 0 .. n : SumOf(RowTotals, m) \in Int
      /\ \A m \in 0 .. n - 1 : SumOf(RowTotals, m + 1) = SumOf(RowTotals, m) + RowTotals[m]
      /\ SumOf(RowTotals, 0) = 0
  BY <1>5, SumGrows
<1>7. num <= loc.total /\ num <= Scalars
  BY <1>1, <1>2
<1> QED
  BY <1>1, <1>2, <1>3, <1>4, <1>6, <1>7

(* The terms of the sum have the first rows.                                  *)
LEMMA TermRows ==
  ASSUME IInv, Lined, RowsGood, pc = "run"
  PROVE  SumOf(Products, num) \in Int /\ Alike(SumOf(RowTotals, num), SumOf(Products, num))
<1>0. Order \in Nat \ {0}
  BY ParametersAssumption
<1>1. GroupKept /\ CallKept /\ pc # "idle"
  BY DEF IInv, Kept
<1>2. /\ num \in Nat /\ num <= loc.total /\ loc.total \in Nat /\ num <= Scalars
      /\ Scalars <= loc.total /\ Scalars \in Nat
      /\ \A i \in 0 .. num - 1 : req.terms[i + 1].s \in Int /\ req.terms[i + 1].P \in Int
  BY <1>1, TotalsGrow, CallShape
<1>6. PICK q \in Nat : q = num
  BY <1>2
<1>7. ASSUME NEW t \in 0 .. q - 1
      PROVE  /\ Products[t] \in Int /\ Products[t] = Scalar(t) * Point(t)
             /\ RowTotals[t] \in Int /\ RowTotals[t] = RowTotal(t)
             /\ t \in 0 .. Scalars - 1
  <2>1. t \in 0 .. num - 1 /\ t < num /\ t \in 0 .. Scalars - 1 /\ t \in 0 .. loc.total - 1
    BY <1>2, <1>6
  <2>2. Products[t] = req.terms[t + 1].s * req.terms[t + 1].P
    BY <2>1 DEF Products
  <2>3. req.terms[t + 1].s \in Int /\ req.terms[t + 1].P \in Int
    BY <1>2, <2>1
  <2>4. Products[t] \in Int
    BY <2>2, <2>3, ProductType
  <2>5. Scalar(t) = req.terms[t + 1].s /\ Point(t) = req.terms[t + 1].P
    BY <2>1 DEF Scalar, Point
  <2>6. RowTotals[t] \in Int /\ RowTotals[t] = RowTotal(t)
    BY <2>1, TotalsGrow
  <2> QED BY <2>1, <2>2, <2>4, <2>5, <2>6
<1>8. /\ SumOf(Products, 0) = 0 /\ \A m \in 0 .. q : SumOf(Products, m) \in Int
      /\ \A m \in 0 .. q - 1 : SumOf(Products, m + 1) = SumOf(Products, m) + Products[m]
  <2>1. \A t \in 0 .. q - 1 : Products[t] \in Int
    BY <1>7
  <2> QED BY <2>1, SumGrows
<1>9. ASSUME NEW b \in 0 .. q - 1 PROVE Alike(RowTotals[b], Products[b])
  <2>1. RowTotal(b) % Order = (Scalar(b) * Point(b)) % Order
    BY <1>7, ScalarRow
  <2> QED BY <1>7, <2>1 DEF Alike
<1> DEFINE A == [m \in 0 .. q |-> SumOf(Products, m)]
<1>10. Follows(RowTotals, A, 0, q)
  <2>1. \A i \in 0 .. q - 1 : RowTotals[i] \in Int
    BY <1>7
  <2>2. \A i \in 0 .. q : A[i] \in Int
    BY <1>8
  <2>3. Alike(SumOf(RowTotals, 0), A[0])
    BY <1>8, TotalsGrow DEF Alike
  <2>4. ASSUME NEW i \in 0 .. q - 1 PROVE Alike(A[i] + RowTotals[i], A[i + 1])
    <3>1. i \in 0 .. q /\ i + 1 \in 0 .. q
      OBVIOUS
    <3>2. A[i] = SumOf(Products, i) /\ A[i + 1] = SumOf(Products, i) + Products[i]
          /\ SumOf(Products, i) \in Int
      BY <1>8, <3>1
    <3>3. PICK x \in Int, y \in Int, z \in Int :
            x = RowTotals[i] /\ y = Products[i] /\ z = SumOf(Products, i)
      BY <1>7, <3>2
    <3>4. Alike(x, y)
      BY <1>9, <3>3
    <3>5. Alike(x + z, y + z)
      BY <3>4, AlikePlus
    <3>6. A[i] + RowTotals[i] = x + z /\ A[i + 1] = y + z
      <4>1. A[i] + RowTotals[i] = z + x /\ A[i + 1] = z + y
        BY <3>2, <3>3
      <4> HIDE DEF A
      <4> QED BY <4>1
    <3> QED BY <3>5, <3>6
  <2> HIDE DEF A
  <2> QED BY <2>1, <2>2, <2>3, <2>4 DEF Follows
<1>11. A[q] = SumOf(Products, q) /\ 0 \in 0 .. q
  OBVIOUS
<1> HIDE DEF A
<1>12. Alike(SumOf(RowTotals, q), A[q])
  <2> DEFINE zero == 0
  <2>1. zero \in 0 .. q /\ Follows(RowTotals, A, zero, q)
    BY <1>10, <1>11
  <2> HIDE DEF zero
  <2> QED BY <2>1, SumFollowed
<1>13. SumOf(Products, q) \in Int
  BY <1>8
<1> QED
  BY <1>6, <1>11, <1>12, <1>13

(* The rows after the terms, when the generator's NAF was split into blocks.  *)
LEMMA BlocksTotal ==
  ASSUME IInv, Lined, RowsGood, pc = "run", loc.pre, loc.tmp # <<>>
  PROVE  Alike(SumOf(RowTotals, loc.total), SumOf(RowTotals, num) + req.scalar * group.generator)
<1>1. GroupKept /\ CallKept /\ pc # "idle"
  BY DEF IInv, Kept
<1>2. /\ loc.total = num + loc.numblocks /\ loc.numblocks \in Nat \ {0} /\ loc.tmp = PreNaf
      /\ num \in Nat /\ req.scalar \in Int
  <2>1. loc.total = num + loc.numblocks /\ loc.numblocks >= 1 /\ loc.tmp = PreNaf
    BY DEF Lined, Rows
  <2>2. loc.numblocks \in Nat /\ num \in Nat /\ req.scalar \in Int
    BY <1>1, Fields, CallShape
  <2> QED BY <2>1, <2>2
<1>3. PICK q \in Nat, l \in Nat \ {0}, n \in Nat :
        q = num /\ l = loc.numblocks /\ n = q + l /\ n = loc.total
  BY <1>2
<1>4. After(l) = 0
  BY <1>3 DEF After
<1>5. After(0) = req.scalar
  <2>1. ValueFrom(PreNaf, 0) = req.scalar
    BY <1>1, PreShape DEF IsWnaf
  <2>2. 0 # loc.numblocks /\ BlockSize * 0 = 0
    BY <1>2, ParametersAssumption
  <2>3. After(0) = Pow2[0] * req.scalar
    BY <1>2, <2>1, <2>2 DEF After
  <2>4. Pow2[0] = 1
    BY Pow2Def
  <2> QED BY <1>2, <2>3, <2>4
<1>6. PICK g \in Int : g = group.generator
  BY <1>1, CallShape
<1>7. PICK s \in Int : s = SumOf(RowTotals, q)
  BY <1>3, TotalsGrow
<1>8. \A c \in 0 .. l - 1 : /\ RowTotals[q + c] \in Int
                            /\ Alike(g * After(c + 1) + RowTotals[q + c], g * After(c))
                            /\ g * After(c) \in Int /\ g * After(c + 1) \in Int
  <2> TAKE c \in 0 .. l - 1
  <2>1. q + c \in 0 .. loc.total - 1 /\ c \in 0 .. loc.numblocks - 1
    BY <1>3
  <2>2. RowTotals[q + c] = RowTotal(num + c) /\ RowTotals[q + c] \in Int
    BY <1>3, <2>1, TotalsGrow
  <2>3. /\ (g * After(c + 1) + RowTotal(num + c)) % Order = (g * After(c)) % Order
        /\ g * After(c) \in Int /\ g * After(c + 1) \in Int
    BY <1>6, <2>1, BlockRowTotal
  <2> QED BY <2>2, <2>3 DEF Alike
<1>9. PICK B : B = [c \in 0 .. l |-> g * After(c)]
  OBVIOUS
<1>10. /\ \A c \in 0 .. l : B[c] \in Int
       /\ \A c \in 0 .. l - 1 : Alike(B[c + 1] + RowTotals[q + c], B[c])
  <2>1. ASSUME NEW c \in 0 .. l - 1
        PROVE  Alike(B[c + 1] + RowTotals[q + c], B[c]) /\ B[c] \in Int /\ B[c + 1] \in Int
    <3>1. c \in 0 .. l /\ c + 1 \in 0 .. l
      BY <1>3
    <3>2. B[c] = g * After(c) /\ B[c + 1] = g * After(c + 1)
      BY <1>9, <3>1
    <3> QED BY <1>8, <3>2
  <2>2. ASSUME NEW c \in 0 .. l PROVE B[c] \in Int
    <3>1. CASE c \in 0 .. l - 1
      BY <2>1, <3>1
    <3>2. CASE c \notin 0 .. l - 1
      <4>1. l - 1 \in 0 .. l - 1 /\ (l - 1) + 1 = c
        BY <1>3, <3>2
      <4> QED BY <2>1, <4>1
    <3> QED BY <3>1, <3>2
  <2> QED BY <2>1, <2>2
<1>11. B[l] = 0 /\ B[0] = g * req.scalar
  <2>1. l \in 0 .. l /\ 0 \in 0 .. l /\ g * 0 = 0
    BY <1>3
  <2> QED BY <1>4, <1>5, <1>9, <2>1
<1>12. PICK K \in Int : K = s + B[0]
  <2>1. 0 \in 0 .. l
    BY <1>3
  <2> QED BY <1>7, <1>10, <2>1
<1> DEFINE A == [i \in q .. n |-> K - B[i - q]]
<1>13. Follows(RowTotals, A, q, n)
  <2>1. \A i \in 0 .. n - 1 : RowTotals[i] \in Int
    BY <1>3, TotalsGrow
  <2>2. \A i \in q .. n : A[i] \in Int
    <3> TAKE i \in q .. n
    <3>1. i - q \in 0 .. l
      BY <1>3
    <3>2. B[i - q] \in Int
      BY <1>10, <3>1
    <3> QED BY <1>12, <3>2
  <2>3. Alike(SumOf(RowTotals, q), A[q])
    <3>1. q \in q .. n /\ q - q = 0 /\ 0 \in 0 .. l
      BY <1>3
    <3>2. A[q] = K - B[0] /\ B[0] \in Int
      BY <1>10, <3>1
    <3>3. A[q] = s
      BY <1>7, <1>12, <3>2
    <3> QED BY <1>7, <3>3 DEF Alike
  <2>4. ASSUME NEW i \in q .. n - 1 PROVE Alike(A[i] + RowTotals[i], A[i + 1])
    <3>1. PICK c \in 0 .. l - 1 : i = q + c
      <4>1. i - q \in 0 .. l - 1 /\ i = q + (i - q)
        BY <1>3
      <4> QED BY <4>1
    <3>2. c \in 0 .. l /\ c + 1 \in 0 .. l /\ i \in q .. n /\ i + 1 \in q .. n
          /\ i - q = c /\ (i + 1) - q = c + 1
      <4>1. n = q + l /\ q \in Nat /\ l \in Nat /\ n \in Nat
        BY <1>3
      <4>2. c \in Nat /\ c < l /\ i = q + c
        BY <3>1
      <4>3. c \in 0 .. l /\ c + 1 \in 0 .. l
        BY <4>1, <4>2
      <4>4. i \in q .. n /\ i + 1 \in q .. n
        BY <4>1, <4>2
      <4>5. i - q = c /\ (i + 1) - q = c + 1
        BY <4>1, <4>2
      <4> QED BY <4>3, <4>4, <4>5
    <3>3. PICK x \in Int, y \in Int, z \in Int : x = B[c + 1] /\ y = RowTotals[i] /\ z = B[c]
      BY <1>8, <1>10, <3>1, <3>2
    <3>4. A[i] = K - z /\ A[i + 1] = K - x
      BY <3>2, <3>3
    <3>5. Alike(x + y, z)
      BY <1>10, <3>1, <3>3
    <3>6. Alike((x + y) + ((K - z) - x), z + ((K - z) - x))
      <4>1. x + y \in Int /\ (K - z) - x \in Int
        BY <1>12
      <4> QED BY <3>5, <4>1, AlikePlus
    <3>7. (x + y) + ((K - z) - x) = (K - z) + y /\ z + ((K - z) - x) = K - x
      BY <1>12
    <3> HIDE DEF A
    <3> QED BY <3>3, <3>4, <3>6, <3>7
  <2> HIDE DEF A
  <2> QED BY <2>1, <2>2, <2>3, <2>4 DEF Follows
<1>14. A[n] = K /\ q \in 0 .. n
  <2>1. n \in q .. n /\ n - q = l /\ q \in 0 .. n
    BY <1>3
  <2> QED BY <1>11, <1>12, <2>1
<1> HIDE DEF A
<1>15. Alike(SumOf(RowTotals, n), A[n])
  BY <1>13, <1>14, SumFollowed
<1>16. g * req.scalar = req.scalar * g
  BY <1>2
<1> QED
  BY <1>3, <1>6, <1>7, <1>11, <1>12, <1>14, <1>15, <1>16

(* The generator's part in one row: with a NAF of its own, or unsplit.        *)
LEMMA OwnRow ==
  ASSUME IInv, Lined, RowsGood, pc = "run", req.scalar # NULL, loc.pre => loc.tmp = <<>>
  PROVE  /\ loc.total = num + 1 /\ req.scalar * group.generator \in Int
         /\ RowTotal(num) % Order = (req.scalar * group.generator) % Order
<1>1. GroupKept /\ CallKept /\ pc # "idle" /\ Scalars <= loc.total
  BY DEF IInv, Kept, PlaceKept
<1>2. /\ num \in Nat /\ req.scalar \in Int /\ group.generator \in Int /\ group.generator \in 0 .. Order - 1
      /\ ~loc.pre => Scalars = Room
      /\ loc.total \in 0 .. Room /\ Room \in Nat
  <2>1. Order \in Nat
    BY ParametersAssumption
  <2>2. /\ num \in Nat /\ Room \in Nat /\ group.generator \in 0 .. Order - 1
        /\ ~loc.pre => Scalars = Room
        /\ req.scalar \in Int
    BY <1>1, CallShape
  <2>3. loc.total \in 0 .. Room
    BY <1>1, Fields
  <2>4. group.generator \in Int
    BY <2>1, <2>2
  <2> QED BY <2>2, <2>3, <2>4
<1>3. CASE ~loc.pre
  <2>1. Scalars = num + 1
    BY <1>3 DEF Scalars
  <2>2. loc.total = num + 1 /\ num \in 0 .. Scalars - 1
    BY <1>1, <1>2, <1>3, <2>1
  <2>3. RowTotal(num) % Order = (Scalar(num) * Point(num)) % Order
    BY <2>2, ScalarRow
  <2>4. Scalar(num) = req.scalar /\ Point(num) = group.generator
    BY <1>2 DEF Scalar, Point
  <2> QED BY <1>2, <2>2, <2>3, <2>4, ProductType
<1>4. CASE loc.pre
  <2>1. /\ loc.total = num + 1 /\ loc.wNAF[num].digits = PreNaf
        /\ loc.val_sub[num] = group.pre_comp.points[0]
    BY <1>4 DEF Lined, Rows
  <2>2. PICK s \in Int, g \in Int, w \in Nat \ {0} :
          s = req.scalar /\ g = group.generator /\ w = group.pre_comp.w
    BY <1>1, <1>2, <1>4, PreShape
  <2>3. ValueFrom(PreNaf, 0) = s
    BY <1>1, <1>4, <2>2, PreShape DEF IsWnaf
  <2>4. g \in 0 .. Order - 1 /\ Order \in Nat \ {0} /\ BlockSize * 0 = 0 /\ Pow2[0] * g = g
        /\ g % Order = g
    <3>1. g \in 0 .. Order - 1 /\ Order \in Nat \ {0} /\ BlockSize * 0 = 0
      BY <1>2, <2>2, ParametersAssumption
    <3>2. Pow2[0] * g = g
      <4>1. Pow2[0] = 1 /\ 1 * g = g
        BY Pow2Def
      <4> QED BY <4>1
    <3>3. g % Order = g
      BY <3>1, SmallMod
    <3> QED BY <3>1, <3>2, <3>3
  <2>5. group.pre_comp.points[0] = OddMultiples(g, w)
    <3>1. 0 \in 0 .. group.pre_comp.numblocks - 1
      BY <1>1, <1>4, PreShape
    <3>2. group.pre_comp.points[0]
            = OddMultiples((Pow2[BlockSize * 0] * group.generator) % Order, group.pre_comp.w)
      BY <1>1, <1>4, <3>1, PreMultiples
    <3> QED BY <2>2, <2>4, <3>2
  <2>6. RowTotal(num) = (g % Order) * s
    <3>1. OddMultiples(g, w)[1] = g % Order
      BY FirstMultiple
    <3> QED BY <2>1, <2>3, <2>5, <3>1 DEF RowTotal, RowSum, RowDigits
  <2>7. ((g % Order) * s) % Order = (s * g) % Order
    BY RowOf
  <2> QED BY <2>1, <2>2, <2>6, <2>7, ProductType
<1> QED
  BY <1>3, <1>4

(* All the rows together are the sum that was asked for.                      *)
LEMMA TotalIs ==
  ASSUME IInv, Lined, RowsGood, pc = "run"
  PROVE  /\ SumOf(RowTotals, loc.total) \in Int /\ Asked \in Int
         /\ Alike(SumOf(RowTotals, loc.total), Asked)
<1>0. Order \in Nat \ {0}
  BY ParametersAssumption
<1>1. GroupKept /\ CallKept /\ pc # "idle" /\ Scalars <= loc.total
  BY DEF IInv, Kept, PlaceKept
<1>2. /\ num \in Nat /\ loc.total \in Nat /\ num <= loc.total /\ Room \in Nat /\ loc.total \in 0 .. Room
      /\ \A m \in 0 .. loc.total : SumOf(RowTotals, m) \in Int
      /\ \A m \in 0 .. loc.total - 1 : SumOf(RowTotals, m + 1) = SumOf(RowTotals, m) + RowTotals[m]
      /\ \A b \in 0 .. loc.total - 1 : RowTotals[b] \in Int /\ RowTotals[b] = RowTotal(b)
  BY <1>1, TotalsGrow, Fields, CallShape
<1> DEFINE gen == IF req.scalar = NULL THEN 0 ELSE req.scalar * group.generator
<1>3. gen \in Int
  <2>1. group.generator \in Int /\ (req.scalar = NULL \/ req.scalar \in Int)
    <3>1. Order \in Nat
      BY ParametersAssumption
    <3> QED BY <1>1, <3>1, CallShape
  <2> QED BY <2>1, ProductType
<1>4. PICK s \in Int, t \in Int, x \in Int :
        s = SumOf(RowTotals, num) /\ t = SumOf(RowTotals, loc.total) /\ x = SumOf(Products, num)
  <2>1. num \in 0 .. loc.total /\ loc.total \in 0 .. loc.total
    BY <1>2
  <2> QED BY <1>2, <2>1, TermRows
<1>5. Asked = gen + x
  BY <1>4 DEF Asked, Products
<1>6. Alike(t, s + gen)
  <2>1. CASE req.scalar = NULL
    <3>1. ~loc.pre /\ Scalars = num
      BY <1>1, <2>1, CallShape DEF Scalars
    <3>2. loc.total = num
      BY <1>1, <1>2, <3>1, CallShape
    <3>3. gen = 0 /\ t = s
      BY <1>4, <2>1, <3>2
    <3>4. t = s + gen
      BY <3>3
    <3> QED BY <3>4 DEF Alike
  <2>2. CASE req.scalar # NULL /\ (loc.pre => loc.tmp = <<>>)
    <3>1. /\ loc.total = num + 1 /\ RowTotal(num) % Order = (req.scalar * group.generator) % Order
      BY <2>2, OwnRow
    <3>2. num \in 0 .. loc.total - 1
      BY <1>2, <3>1
    <3>3. PICK v \in Int : v = RowTotal(num) /\ v = RowTotals[num]
      BY <1>2, <3>2
    <3>4. t = s + v
      BY <1>2, <1>4, <3>1, <3>2, <3>3
    <3>5. gen = req.scalar * group.generator
      BY <2>2
    <3>6. Alike(v, gen)
      BY <3>1, <3>3, <3>5 DEF Alike
    <3> HIDE DEF gen
    <3>7. Alike(v + s, gen + s)
      BY <1>3, <3>6, AlikePlus
    <3>8. v + s = t /\ gen + s = s + gen
      BY <1>3, <3>4
    <3> QED BY <3>7, <3>8
  <2>3. CASE req.scalar # NULL /\ loc.pre /\ loc.tmp # <<>>
    BY <1>4, <2>3, BlocksTotal
  <2> QED BY <2>1, <2>2, <2>3
<1> HIDE DEF gen
<1>7. Alike(s + gen, x + gen)
  <2>1. Alike(s, x)
    BY <1>4, TermRows
  <2> QED BY <1>3, <2>1, AlikePlus
<1>8. x + gen = Asked /\ Asked \in Int
  BY <1>3, <1>5
<1> QED
  BY <1>4, <1>6, <1>7, <1>8 DEF Alike

-------------------------------------------------------------------------------
(* The sum, through every step.                                               *)

Sums == SumsSoFar /\ Reduced

(* The sum of no rows, and of rows that are all zero.                         *)
LEMMA SumOfZeros ==
  ASSUME NEW n \in Nat, NEW f, \A b \in 0 .. n - 1 : f[b] = 0
  PROVE  Alike(0, SumOf(f, n))
<1>1. \A b \in 0 .. n - 1 : f[b] \in Int
  OBVIOUS
<1>2. /\ SumOf(f, 0) = 0 /\ \A m \in 0 .. n : SumOf(f, m) \in Int
      /\ \A m \in 0 .. n - 1 : SumOf(f, m + 1) = SumOf(f, m) + f[m]
  BY <1>1, SumGrows
<1> DEFINE A == [m \in 0 .. n |-> 0]
           zero == 0
<1>3. Follows(f, A, zero, n)
  <2>1. \A i \in zero .. n : A[i] \in Int
    OBVIOUS
  <2>2. Alike(SumOf(f, zero), A[zero])
    BY <1>2 DEF Alike
  <2>3. ASSUME NEW i \in zero .. n - 1 PROVE Alike(A[i] + f[i], A[i + 1])
    <3>1. A[i] = 0 /\ A[i + 1] = 0 /\ f[i] = 0
      OBVIOUS
    <3>2. A[i] + f[i] = A[i + 1]
      BY <3>1
    <3> HIDE DEF A
    <3> QED BY <3>2 DEF Alike
  <2> HIDE DEF A
  <2> QED BY <1>1, <2>1, <2>2, <2>3 DEF Follows, zero
<1>4. A[n] = 0 /\ zero \in 0 .. n
  OBVIOUS
<1> HIDE DEF A, zero
<1>5. Alike(SumOf(f, n), A[n])
  BY <1>3, <1>4, SumFollowed
<1> QED
  BY <1>4, <1>5 DEF Alike

(* A call for nothing at all is done at once.                                 *)
LEMMA BeginSums ==
  ASSUME Begin
  PROVE  Sums'
<1>1. CASE pc' = "done"
  <2>1. req'.scalar = NULL /\ req'.terms = <<>> /\ r' = 0
    BY <1>1 DEF Begin
  <2>2. num' = 0
    BY <2>1 DEF num
  <2>3. PICK f : f = [t \in 0 .. num' - 1 |-> req'.terms[t + 1].s * req'.terms[t + 1].P]
    OBVIOUS
  <2>4. Asked' = 0 + SumOf(f, 0)
    BY <2>1, <2>2, <2>3 DEF Asked
  <2> DEFINE zero == 0
  <2>5. zero \in Nat /\ \A b \in 0 .. zero - 1 : f[b] \in Int
    OBVIOUS
  <2>6. SumOf(f, 0) = 0
    <3> HIDE DEF zero
    <3> QED BY <2>5, SumGrows
  <2>7. Order \in Nat \ {0} /\ 0 \in 0 .. Order - 1
    BY ParametersAssumption
  <2>8. 0 % Order = 0
    BY <2>7, SmallMod
  <2> QED BY <1>1, <2>1, <2>4, <2>6, <2>8 DEF Sums, SumsSoFar, Reduced
<1>2. CASE pc' # "done"
  <2>1. pc' = "arrays"
    BY <1>2 DEF Begin
  <2> QED BY <2>1 DEF Sums, SumsSoFar, Reduced
<1> QED
  BY <1>1, <1>2

(* Before the first turn no digit has been looked at.                         *)
LEMMA TablesSums ==
  ASSUME IInv, Lined, RowsGood', Tables
  PROVE  Sums'
<1>1. /\ pc = "val" /\ pc' = "run" /\ loc.at_infinity
      /\ GroupKept /\ CallKept /\ pc # "idle"
  <2>1. pc = "val" /\ pc' = "run"
    BY DEF Tables, Step
  <2> QED BY <2>1 DEF IInv, Kept, Lined, Fresh
<1>2. /\ loc'.at_infinity = loc.at_infinity /\ loc'.total = loc.total
      /\ loc'.k = loc.max_len - 1 /\ loc'.i = 0 /\ loc'.wNAF = loc.wNAF
  BY <1>1 DEF Tables, CallKept, Locals
<1>3. loc.total \in Nat /\ loc.max_len \in Nat
  <2>1. Room \in Nat /\ loc.total \in 0 .. Room /\ loc.max_len \in Nat
    BY <1>1, CallShape, Fields
  <2> QED BY <2>1
<1>4. PICK n \in Nat, m \in Nat : n = loc.total /\ m = loc.max_len
  BY <1>3
<1>5. loc'.k + 1 = m /\ loc'.at_infinity
  BY <1>1, <1>2, <1>4
<1>6. PICK h : h = [b \in 0 .. loc'.total - 1 |-> SoFar(b)']
  OBVIOUS
<1>7. ASSUME NEW b \in 0 .. n - 1 PROVE h[b] = 0
  <2>1. b \in 0 .. loc'.total - 1 /\ b \in 0 .. loc.total - 1 /\ ~(b < loc'.i)
    BY <1>2, <1>4
  <2>2. PICK P \in Int, w \in Nat \ {0} : RowIs(P, w, b)'
    BY <1>1, <2>1 DEF RowsGood
  <2>3. PICK d \in Seq(Int) : d = loc'.wNAF[b].digits
    BY <2>2 DEF RowIs
  <2>4. loc'.val_sub[b] = OddMultiples(P, w)
    BY <2>2 DEF RowIs
  <2>5. Len(d) <= m
    BY <1>1, <1>2, <1>4, <2>1, <2>3 DEF Lined, Longest
  <2>6. ValueFrom(d, m) = 0
    <3>1. m >= Len(d)
      BY <2>5
    <3> QED BY <3>1, ValueFalls
  <2>7. PICK p \in Int : p = loc'.val_sub[b][1]
    <3>1. w - 1 \in Nat
      OBVIOUS
    <3>2. 1 \in 1 .. Pow2[w - 1]
      BY <3>1, Pow2Type
    <3>3. OddMultiples(P, w)[1] \in 0 .. Order - 1 /\ Order \in Nat
      BY <3>2, OddMultiplesType, ParametersAssumption
    <3> QED BY <2>4, <3>3
  <2>8. SoFar(b)' = p * ValueFrom(d, m)
    BY <1>2, <1>5, <2>1, <2>3, <2>7 DEF SoFar
  <2>9. SoFar(b)' = 0
    BY <2>6, <2>7, <2>8
  <2> QED BY <1>6, <2>1, <2>9
<1>8. Alike(0, SumOf(h, n))
  BY <1>7, SumOfZeros
<1>9. SumsSoFar'
  BY <1>1, <1>2, <1>4, <1>5, <1>6, <1>8 DEF SumsSoFar, Alike
<1> QED
  BY <1>1, <1>5, <1>9 DEF Sums, Reduced

(* After the last turn they all have been.                                    *)
LEMMA FinishSums ==
  ASSUME IInv, Lined, RowsGood, Sums, Finish
  PROVE  Sums'
<1>0. Order \in Nat \ {0} /\ 0 \in 0 .. Order - 1
  BY ParametersAssumption
<1>1. /\ pc = "run" /\ pc' = "done" /\ UNCHANGED <<group, req, loc>> /\ loc.k < 0
      /\ r' = (IF loc.at_infinity THEN 0 ELSE IF loc.inverted THEN (-r) % Order ELSE r)
  BY DEF Finish, Step
<1>2. GroupKept /\ CallKept /\ pc # "idle" /\ AtRun
  BY <1>1 DEF IInv, Kept, PlaceKept
<1>3. loc.k + 1 = 0 /\ loc.i = 0
  <2>1. loc.k \in Int
    BY <1>2, Fields
  <2> QED BY <1>1, <1>2, <2>1 DEF AtRun
<1>4. [b \in 0 .. loc.total - 1 |-> SoFar(b)] = RowTotals
  <2>1. ASSUME NEW b \in 0 .. loc.total - 1 PROVE SoFar(b) = RowTotal(b)
    <3>1. ~(b < loc.i)
      <4>1. loc.total \in Nat
        BY <1>1, TotalsGrow
      <4> QED BY <1>3, <4>1
    <3> QED BY <1>3, <3>1 DEF SoFar, RowTotal, RowSum, RowDigits
  <2> QED BY <2>1 DEF RowTotals
<1>5. PICK v : v = IF loc.at_infinity THEN 0 ELSE IF loc.inverted THEN -r ELSE r
  OBVIOUS
<1>6. v % Order = SumOf(RowTotals, loc.total) % Order
  BY <1>1, <1>4, <1>5 DEF Sums, SumsSoFar
<1>7. SumOf(RowTotals, loc.total) % Order = Asked % Order
  BY <1>1, TotalIs DEF Alike
<1>8. r' = v % Order
  <2>1. CASE loc.at_infinity
    <3>1. 0 % Order = 0
      BY <1>0, SmallMod
    <3> QED BY <1>1, <1>5, <2>1, <3>1
  <2>2. CASE ~loc.at_infinity /\ loc.inverted
    BY <1>1, <1>5, <2>2
  <2>3. CASE ~loc.at_infinity /\ ~loc.inverted
    <3>1. r \in 0 .. Order - 1
      BY <1>1, <2>3 DEF Sums, Reduced
    <3>2. r % Order = r
      BY <1>0, <3>1, SmallMod
    <3> QED BY <1>1, <1>5, <2>3, <3>2
  <2> QED BY <2>1, <2>2, <2>3
<1>9. Asked' = Asked
  BY <1>1 DEF Asked, num
<1> QED
  BY <1>1, <1>6, <1>7, <1>8, <1>9 DEF Sums, SumsSoFar, Reduced

LEMMA SumsHold ==
  /\ Init => Sums
  /\ IInv /\ Lined /\ RowsGood /\ RowsGood' /\ Sums /\ [Next]_vars => Sums'
<1>1. Init => Sums
  BY DEF Init, Sums, SumsSoFar, Reduced
<1>2. ASSUME IInv, Lined, RowsGood, RowsGood', Sums, [Next]_vars PROVE Sums'
  <2>1. CASE SkipDigit \/ AddDigit
    BY <1>2, <2>1, SumsTurn DEF IInv, Sums
  <2>2. CASE pc' \notin {"run", "done"}
    BY <2>2 DEF Sums, SumsSoFar, Reduced
  <2>3. CASE UNCHANGED vars
    <3>1. UNCHANGED <<group, req, loc, pc, r>>
      BY <2>3 DEF vars
    <3>2. Asked' = Asked
      BY <3>1 DEF Asked, num
    <3>3. [b \in 0 .. loc.total - 1 |-> SoFar(b)]' = [b \in 0 .. loc.total - 1 |-> SoFar(b)]
      BY <3>1 DEF SoFar
    <3> QED BY <1>2, <3>1, <3>2, <3>3 DEF Sums, SumsSoFar, Reduced
  <2>4. CASE Begin
    BY <2>4, BeginSums
  <2>5. CASE Tables
    BY <1>2, <2>5, TablesSums
  <2>6. CASE Finish
    BY <1>2, <2>6, FinishSums
  <2>7. CASE \/ SetGenerator \/ PrecomputeMult \/ AllocArrays \/ Fails \/ NextNaf \/ NafsEnd
             \/ SplitNot \/ SplitBegins \/ SplitBlock \/ SplitFails \/ SplitEnds
             \/ TablesFail \/ Cleanup
    <3>1. pc' \notin {"run", "done"}
      BY <2>7 DEF SetGenerator, PrecomputeMult, AllocArrays, Fails, NextNaf, NafsEnd, SplitNot,
         SplitBegins, SplitBlock, SplitFails, SplitEnds, TablesFail, Cleanup, Step
    <3> QED BY <2>2, <3>1
  <2> QED
    BY <1>2, <2>1, <2>3, <2>4, <2>5, <2>6, <2>7 DEF Next
<1> QED
  BY <1>1, <1>2

(* At every turn of the loop the result so far is, up to its sign, the sum of *)
(* what the digits so far ask for, and at the end it is the sum that was      *)
(* asked for (ec_mult.c:628-690): for every order, window and block size.     *)
THEOREM SumsAreRight == Spec => []SumsSoFar
<1>1. Spec => [](IInv /\ Lined)
  <2>1. Init => IInv /\ Lined
    BY KeptHolds, HeldHolds, FormedHolds, LinedHolds DEF IInv
  <2>2. (IInv /\ Lined) /\ [Next]_vars => (IInv /\ Lined)'
    BY KeptHolds, HeldHolds, FormedHolds, LinedHolds DEF IInv
  <2> QED BY <2>1, <2>2, PTL DEF Spec
<1>2. IInv /\ Lined => RowsGood
  BY RowsAreGood
<1>3. Init => Sums
  BY SumsHold
<1>4. IInv /\ Lined /\ RowsGood /\ RowsGood' /\ Sums /\ [Next]_vars => Sums'
  BY SumsHold
<1>5. Sums => SumsSoFar
  BY DEF Sums
<1> QED
  BY <1>1, <1>2, <1>3, <1>4, <1>5, PTL DEF Spec
===============================================================================
