----------------------------- MODULE ModInvProofs -----------------------------
(* The modular inversion tracks its divsteps and stays in range, for every    *)
(* width of a limb, every number of limbs and every odd modulus.              *)
EXTENDS ModInvProps, Arithmetic

-------------------------------------------------------------------------------
(* Words and powers of 2.                                                     *)

Bat == [i : 0..W, eta : Int, f0 : Words, g0 : Words, f : Words, g : Words,
        u : Words, v : Words, q : Words, r : Words]

LEMMA Widths ==
  /\ W \in Nat /\ Pad \in Nat /\ Pad < W /\ W >= 1
  /\ Base \in Nat \ {0} /\ Base \in Int /\ Base >= 2 /\ Base = Pow2[W]
  /\ 4 * Base \in Nat \ {0} /\ 4 * Base \in Int
  /\ 4 * Base = Pow2[W + 2]
<1>1. W \in Nat /\ Pad \in Nat /\ Pad < W /\ W >= 1 /\ Base = Pow2[W]
  BY WidthAssumption
<1>2. Base \in Nat \ {0}
  BY <1>1, Pow2Type
<1>3. 2 * Pow2[0] <= Pow2[W]
  BY <1>1, Pow2Grows
<1>4. Base >= 2
  BY <1>1, <1>3, Pow2Def
<1>5. Pow2[W + 1] = 2 * Pow2[W]
  BY <1>1, Pow2Def
<1>6. Pow2[(W + 1) + 1] = 2 * Pow2[W + 1]
  <2>1. W + 1 \in Nat
    BY <1>1
  <2> QED BY <2>1, Pow2Def
<1>7. (W + 1) + 1 = W + 2
  BY <1>1
<1> QED
  BY <1>1, <1>2, <1>4, <1>5, <1>6, <1>7

(* Congruent numbers differ by a multiple.                                    *)
Same(n, a, b) == \E k \in Int : a = b + n * k

LEMMA SameMod ==
  ASSUME NEW n \in Nat \ {0}, NEW a \in Int, NEW b \in Int
  PROVE  Same(n, a, b) <=> a % n = b % n
  BY CongruentIf, CongruentOnlyIf DEF Same

LEMMA SameRefl ==
  ASSUME NEW n \in Int, NEW a \in Int
  PROVE  Same(n, a, a)
<1>1. a = a + n * 0
  OBVIOUS
<1> QED
  BY <1>1 DEF Same

LEMMA SameSym ==
  ASSUME NEW n \in Int, NEW a \in Int, NEW b \in Int, Same(n, a, b)
  PROVE  Same(n, b, a)
<1>1. PICK k \in Int : a = b + n * k
  BY DEF Same
<1>2. b = a + n * (-k) /\ -k \in Int
  BY <1>1
<1> QED
  BY <1>2 DEF Same

LEMMA SameTrans ==
  ASSUME NEW n \in Int, NEW a \in Int, NEW b \in Int, NEW c \in Int,
         Same(n, a, b), Same(n, b, c)
  PROVE  Same(n, a, c)
<1>1. PICK k \in Int : a = b + n * k
  BY DEF Same
<1>2. PICK j \in Int : b = c + n * j
  BY DEF Same
<1>3. a = c + n * (k + j) /\ k + j \in Int
  BY <1>1, <1>2
<1> QED
  BY <1>3 DEF Same

LEMMA SameAdd ==
  ASSUME NEW n \in Int, NEW a \in Int, NEW b \in Int, NEW c \in Int, NEW d0 \in Int,
         Same(n, a, b), Same(n, c, d0)
  PROVE  Same(n, a + c, b + d0) /\ Same(n, a - c, b - d0)
<1>1. PICK k \in Int : a = b + n * k
  BY DEF Same
<1>2. PICK j \in Int : c = d0 + n * j
  BY DEF Same
<1>3. a + c = (b + d0) + n * (k + j) /\ k + j \in Int
  BY <1>1, <1>2
<1>4. a - c = (b - d0) + n * (k - j) /\ k - j \in Int
  BY <1>1, <1>2
<1> QED
  BY <1>3, <1>4 DEF Same

LEMMA SameScale ==
  ASSUME NEW n \in Int, NEW a \in Int, NEW b \in Int, NEW c \in Int, Same(n, a, b)
  PROVE  Same(n, c * a, c * b) /\ Same(n, a * c, b * c) /\ Same(n, -a, -b)
<1>1. PICK k \in Int : a = b + n * k
  BY DEF Same
<1>2. c * a = c * b + n * (c * k) /\ a * c = b * c + n * (c * k) /\ c * k \in Int
  BY <1>1
<1>3. -a = (-b) + n * (-k) /\ -k \in Int
  BY <1>1
<1> QED
  BY <1>2, <1>3 DEF Same

(* What is congruent modulo a multiple is congruent.                          *)
LEMMA SameCoarser ==
  ASSUME NEW n \in Int, NEW m \in Int, NEW a \in Int, NEW b \in Int, Same(n * m, a, b)
  PROVE  Same(n, a, b) /\ Same(m, a, b)
<1>1. PICK k \in Int : a = b + (n * m) * k
  BY DEF Same
<1>2. a = b + n * (m * k) /\ m * k \in Int /\ a = b + m * (n * k) /\ n * k \in Int
  BY <1>1
<1> QED
  BY <1>2 DEF Same

LEMMA WordType ==
  ASSUME NEW n \in Int
  PROVE  Word(n) \in Words /\ Word(n) \in Int /\ Same(4 * Base, Word(n), n)
<1> DEFINE m == 4 * Base
<1>1. m \in Nat \ {0}
  BY Widths
<1> HIDE DEF m
<1>2. n % m \in 0 .. m - 1 /\ n % m \in Int /\ n = m * (n \div m) + (n % m) /\ n \div m \in Int
  BY <1>1, DivMod
<1>3. n % m = n + m * (-(n \div m)) /\ -(n \div m) \in Int
  BY <1>1, <1>2
<1>4. Same(m, n % m, n)
  BY <1>3 DEF Same
<1> QED
  BY <1>2, <1>4 DEF Word, Words, m

LEMMA WordsAreInts ==
  ASSUME NEW n \in Words
  PROVE  n \in Int /\ n \in Nat /\ Word(n) = n
<1> DEFINE m == 4 * Base
<1>1. m \in Nat \ {0}
  BY Widths
<1>2. n \in 0 .. m - 1
  BY DEF Words
<1> HIDE DEF m
<1>3. n % m = n
  BY <1>1, <1>2, SmallMod
<1> QED
  BY <1>1, <1>2, <1>3 DEF Word, m

LEMMA WordSame ==
  ASSUME NEW a \in Int, NEW b \in Int
  PROVE  Word(a) = Word(b) <=> Same(4 * Base, a, b)
<1> DEFINE m == 4 * Base
<1>1. m \in Nat \ {0}
  BY Widths
<1> HIDE DEF m
<1>2. Same(m, a, b) <=> a % m = b % m
  BY <1>1, SameMod
<1> QED
  BY <1>2 DEF Word, m

(* A word read as a signed number.                                            *)
LEMMA WrappedIs ==
  ASSUME NEW m \in Nat \ {0}, NEW h \in Int, m = 2 * h, NEW n \in Int, -h <= n, n < h
  PROVE  Wrapped(n, m) = n
<1>1. m \div 2 = h
  <2>1. 0 \in 0 .. 2 - 1 /\ 2 \in Nat \ {0} /\ m = 2 * h + 0
    OBVIOUS
  <2> QED BY <2>1, DivUnique
<1>2. CASE n >= 0
  <2>1. n \in 0 .. m - 1
    BY <1>2
  <2>2. n % m = n
    BY <2>1, SmallMod
  <2> QED BY <1>1, <2>2 DEF Wrapped
<1>3. CASE n < 0
  <2> DEFINE k == n + m
  <2>1. k \in 0 .. m - 1 /\ n = m * (-1) + k /\ -1 \in Int
    BY <1>3
  <2> HIDE DEF k
  <2>2. n % m = k
    BY <2>1, DivUnique
  <2>3. k >= h /\ k - m = n
    BY DEF k
  <2> QED BY <1>1, <2>2, <2>3 DEF Wrapped
<1> QED
  BY <1>2, <1>3

LEMMA SignedWord ==
  ASSUME NEW n \in Int, -2 * Base <= n, n < 2 * Base
  PROVE  Signed(Word(n)) = n
<1> DEFINE m == 4 * Base
           h == 2 * Base
           w == Word(n)
<1>1. m \in Nat \ {0} /\ h \in Int /\ m = 2 * h /\ -h <= n /\ n < h
  BY Widths
<1>2. w \in Int /\ w \in Words /\ Same(m, w, n)
  BY WordType
<1> HIDE DEF m, h, w
<1>3. w % m = n % m
  BY <1>1, <1>2, SameMod
<1>4. Wrapped(w, m) = Wrapped(n, m)
  BY <1>3 DEF Wrapped
<1>5. Wrapped(n, m) = n
  BY <1>1, WrappedIs
<1> QED
  BY <1>4, <1>5 DEF Signed, m, w

LEMMA SignedType ==
  ASSUME NEW n \in Words
  PROVE  Signed(n) \in Int /\ Word(Signed(n)) = n
         /\ -2 * Base <= Signed(n) /\ Signed(n) < 2 * Base
<1> DEFINE m == 4 * Base
           h == 2 * Base
<1>1. m \in Nat \ {0} /\ h \in Int /\ m = 2 * h /\ n \in Int /\ n \in 0 .. m - 1
  BY Widths, WordsAreInts DEF Words
<1> HIDE DEF m, h
<1>2. m \div 2 = h
  <2>1. 0 \in 0 .. 2 - 1 /\ 2 \in Nat \ {0} /\ m = 2 * h + 0
    BY <1>1
  <2> QED BY <1>1, <2>1, DivUnique
<1>3. n % m = n
  BY <1>1, SmallMod
<1>4. Wrapped(n, m) = IF n < h THEN n ELSE n - m
  BY <1>2, <1>3 DEF Wrapped
<1> DEFINE s == IF n < h THEN n ELSE n - m
<1>5. s \in Int /\ -h <= s /\ s < h
  BY <1>1
<1>6. Same(m, s, n)
  <2>1. n = n + m * 0 /\ n - m = n + m * (-1) /\ 0 \in Int /\ -1 \in Int
    BY <1>1
  <2> QED BY <2>1 DEF Same
<1>7. s = Signed(n)
  BY <1>4 DEF Signed, m
<1> HIDE DEF s
<1>8. Word(s) = Word(n)
  BY <1>1, <1>5, <1>6, WordSame DEF m
<1>9. Word(n) = n
  BY WordsAreInts
<1> QED
  BY <1>5, <1>7, <1>8, <1>9 DEF h

-------------------------------------------------------------------------------
(* A row of the matrix takes the words a batch began with to f or g.          *)

Row(b, c1, c2, n, s) == Same(4 * Base, c1 * b.f0 + c2 * b.g0, n * s)

LEMMA RowAdd ==
  ASSUME NEW b, b.f0 \in Int, b.g0 \in Int, NEW a1 \in Int, NEW a2 \in Int, NEW a \in Int,
         NEW c1 \in Int, NEW c2 \in Int, NEW c \in Int, NEW s \in Int, NEW k \in Int,
         Row(b, a1, a2, a, s), Row(b, c1, c2, c, s)
  PROVE  Row(b, a1 + k * c1, a2 + k * c2, a + k * c, s)
<1> DEFINE m == 4 * Base
           F == b.f0
           G == b.g0
<1>0. m \in Int /\ F \in Int /\ G \in Int
  BY Widths
<1>1. Same(m, a1 * F + a2 * G, a * s) /\ Same(m, c1 * F + c2 * G, c * s)
  BY DEF Row
<1> HIDE DEF m, F, G
<1>2. PICK i \in Int : a1 * F + a2 * G = a * s + m * i
  BY <1>1 DEF Same
<1>3. PICK j \in Int : c1 * F + c2 * G = c * s + m * j
  BY <1>1 DEF Same
<1>4. (a1 + k * c1) * F + (a2 + k * c2) * G
        = (a1 * F + a2 * G) + k * (c1 * F + c2 * G)
  BY <1>0
<1>5. (a * s + m * i) + k * (c * s + m * j) = (a + k * c) * s + m * (i + k * j)
      /\ i + k * j \in Int
  BY <1>0
<1>6. (a1 + k * c1) * F + (a2 + k * c2) * G = (a + k * c) * s + m * (i + k * j)
  BY <1>2, <1>3, <1>4, <1>5
<1>7. Same(m, (a1 + k * c1) * F + (a2 + k * c2) * G, (a + k * c) * s)
  BY <1>5, <1>6 DEF Same
<1> QED
  BY <1>7 DEF Row, m, F, G

(* Shifting a row is the same as scaling it.                                  *)
LEMMA RowScale ==
  ASSUME NEW b, b.f0 \in Int, b.g0 \in Int, NEW a1 \in Int, NEW a2 \in Int, NEW a \in Int,
         NEW s \in Int, NEW p \in Int, Row(b, a1, a2, a, s)
  PROVE  Row(b, p * a1, p * a2, a, p * s)
<1> DEFINE m == 4 * Base
           F == b.f0
           G == b.g0
<1>0. m \in Int /\ F \in Int /\ G \in Int
  BY Widths
<1>1. Same(m, a1 * F + a2 * G, a * s)
  BY DEF Row
<1> HIDE DEF m, F, G
<1>2. PICK i \in Int : a1 * F + a2 * G = a * s + m * i
  BY <1>1 DEF Same
<1>3. (p * a1) * F + (p * a2) * G = p * (a1 * F + a2 * G)
  BY <1>0
<1>4. p * (a * s + m * i) = a * (p * s) + m * (p * i) /\ p * i \in Int
  BY <1>0
<1>5. (p * a1) * F + (p * a2) * G = a * (p * s) + m * (p * i)
  BY <1>2, <1>3, <1>4
<1>6. Same(m, (p * a1) * F + (p * a2) * G, a * (p * s))
  BY <1>4, <1>5 DEF Same
<1> QED
  BY <1>6 DEF Row, m, F, G

(* A number may be replaced by its word.                                      *)
LEMMA RowWord ==
  ASSUME NEW b, b.f0 \in Int, b.g0 \in Int, NEW a1 \in Int, NEW a2 \in Int, NEW a \in Int,
         NEW c \in Int, NEW s \in Int, Row(b, a1, a2, a, s), Same(4 * Base, c, a)
  PROVE  Row(b, a1, a2, c, s)
<1> DEFINE m == 4 * Base
           n == a1 * b.f0 + a2 * b.g0
           k == a * s
           j == c * s
<1>1. m \in Int /\ n \in Int /\ k \in Int /\ j \in Int
  BY Widths
<1>2. Same(m, n, k)
  BY DEF Row
<1>3. Same(m, j, k)
  BY <1>1, SameScale
<1> HIDE DEF m, n, k, j
<1>4. Same(m, n, j)
  BY <1>1, <1>2, <1>3, SameSym, SameTrans
<1> QED
  BY <1>4 DEF Row, m, n, j

-------------------------------------------------------------------------------
(* The sizes of the matrix: s bounds the row of f, t that of g.               *)

Fits(u, v, q, r, s, t, det) ==
  /\ Abs(u) + Abs(v) <= s /\ -s < u
  /\ Abs(q) + Abs(r) <= t /\ -t < q /\ q < t
  /\ u * r - v * q = det

LEMMA AbsIs ==
  ASSUME NEW a \in Int
  PROVE  /\ Abs(a) \in Int /\ Abs(a) >= 0 /\ a <= Abs(a) /\ -a <= Abs(a)
         /\ Abs(a) = a \/ Abs(a) = -a
         /\ Abs(-a) = Abs(a)
  BY DEF Abs

LEMMA AbsSum ==
  ASSUME NEW a \in Int, NEW b \in Int
  PROVE  Abs(a + b) <= Abs(a) + Abs(b) /\ Abs(a - b) <= Abs(a) + Abs(b)
  BY DEF Abs

LEMMA AbsProduct ==
  ASSUME NEW a \in Int, NEW p \in Nat
  PROVE  Abs(p * a) = p * Abs(a) /\ p * Abs(a) \in Int /\ p * a \in Int
<1>1. CASE a >= 0
  <2>1. p * a >= 0 /\ p * a \in Int
    BY <1>1
  <2> QED BY <1>1, <2>1 DEF Abs
<1>2. CASE a < 0
  <2>1. p * (-a) >= 0 /\ p * (-a) = -(p * a) /\ p * a \in Int
    BY <1>2
  <2>2. CASE p * a = 0
    <3>1. Abs(p * a) = 0 /\ p * Abs(a) = -(p * a)
      BY <1>2, <2>1, <2>2 DEF Abs
    <3> QED BY <2>1, <2>2, <3>1
  <2>3. CASE p * a # 0
    <3>1. p * a < 0
      BY <2>1, <2>3
    <3> QED BY <1>2, <2>1, <3>1 DEF Abs
  <2> QED BY <2>2, <2>3
<1> QED
  BY <1>1, <1>2

LEMMA FitsHalved ==
  ASSUME NEW u \in Int, NEW v \in Int, NEW q \in Int, NEW r \in Int,
         NEW s \in Nat \ {0}, NEW det \in Int, Fits(u, v, q, r, s, s, det)
  PROVE  /\ Fits(2 * u, 2 * v, q, r, 2 * s, 2 * s, 2 * det)
         /\ Fits(2 * u, 2 * v, q + u, r + v, 2 * s, 2 * s, 2 * det)
         /\ Fits(2 * q, 2 * r, q - u, r - v, 2 * s, 2 * s, 2 * det)
<1>0. /\ Abs(u) + Abs(v) <= s /\ -s < u
      /\ Abs(q) + Abs(r) <= s /\ -s < q /\ q < s
      /\ u * r - v * q = det
  BY DEF Fits
<1>1. (2 * u) * r - (2 * v) * q = 2 * det
  <2>1. (2 * u) * r - (2 * v) * q = 2 * (u * r - v * q)
    OBVIOUS
  <2> QED BY <1>0, <2>1
<1>2. (2 * u) * (r + v) - (2 * v) * (q + u) = 2 * det
  <2>1. (2 * u) * (r + v) - (2 * v) * (q + u) = 2 * (u * r - v * q)
    OBVIOUS
  <2> QED BY <1>0, <2>1
<1>3. (2 * q) * (r - v) - (2 * r) * (q - u) = 2 * det
  <2>1. (2 * q) * (r - v) - (2 * r) * (q - u) = 2 * (u * r - v * q)
    OBVIOUS
  <2> QED BY <1>0, <2>1
<1>4. /\ Abs(2 * u) + Abs(2 * v) <= 2 * s /\ -(2 * s) < 2 * u
      /\ Abs(2 * q) + Abs(2 * r) <= 2 * s /\ -(2 * s) < 2 * q
      /\ Abs(q) + Abs(r) <= 2 * s /\ -(2 * s) < q /\ q < 2 * s
  BY <1>0 DEF Abs
<1>5. /\ Abs(q + u) + Abs(r + v) <= 2 * s /\ -(2 * s) < q + u /\ q + u < 2 * s
      /\ Abs(q - u) + Abs(r - v) <= 2 * s /\ -(2 * s) < q - u /\ q - u < 2 * s
  BY <1>0 DEF Abs
<1>6. Fits(2 * u, 2 * v, q, r, 2 * s, 2 * s, 2 * det)
  BY <1>1, <1>4 DEF Fits
<1>7. Fits(2 * u, 2 * v, q + u, r + v, 2 * s, 2 * s, 2 * det)
  BY <1>2, <1>4, <1>5 DEF Fits
<1>8. Fits(2 * q, 2 * r, q - u, r - v, 2 * s, 2 * s, 2 * det)
  BY <1>3, <1>4, <1>5 DEF Fits
<1> QED
  BY <1>6, <1>7, <1>8

LEMMA FitsShifted ==
  ASSUME NEW u \in Int, NEW v \in Int, NEW q \in Int, NEW r \in Int,
         NEW s \in Nat \ {0}, NEW p \in Nat \ {0}, NEW det \in Int,
         Fits(u, v, q, r, s, s * p, det)
  PROVE  Fits(p * u, p * v, q, r, p * s, p * s, p * det)
<1>0. /\ Abs(u) + Abs(v) <= s /\ -s < u
      /\ Abs(q) + Abs(r) <= s * p /\ -(s * p) < q /\ q < s * p
      /\ u * r - v * q = det
  BY DEF Fits
<1>1. s * p = p * s
  OBVIOUS
<1>2. (p * u) * r - (p * v) * q = p * det
  <2>1. (p * u) * r - (p * v) * q = p * (u * r - v * q)
    OBVIOUS
  <2> QED BY <1>0, <2>1
<1>3. Abs(p * u) + Abs(p * v) <= p * s
  <2>1. Abs(p * u) + Abs(p * v) = p * (Abs(u) + Abs(v))
    <3>1. Abs(u) \in Int /\ Abs(v) \in Int
      BY AbsIs
    <3>2. Abs(p * u) = p * Abs(u) /\ Abs(p * v) = p * Abs(v)
      BY AbsProduct
    <3> QED BY <3>1, <3>2
  <2> DEFINE a == Abs(u) + Abs(v)
             c == s - a
  <2>2. a \in Int /\ c \in Nat
    BY <1>0, AbsIs
  <2> HIDE DEF a
  <2>3. p * a + p * c = p * s /\ p * c >= 0 /\ p * a \in Int /\ p * c \in Int
    <3>1. s = a + c
      BY <2>2
    <3> HIDE DEF c
    <3> QED BY <2>2, <3>1
  <2>4. p * a <= p * s
    <3> HIDE DEF c
    <3> QED BY <2>3
  <2> QED BY <2>1, <2>4 DEF a
<1>4. -(p * s) < p * u
  <2> DEFINE c == u + s
  <2>1. c \in Nat /\ c >= 1
    BY <1>0
  <2>2. p * c = p * u + p * s /\ p * u \in Int /\ p * s \in Int
    OBVIOUS
  <2> HIDE DEF c
  <2>3. p * c >= 1
    BY <2>1
  <2> QED BY <2>2, <2>3
<1> QED
  BY <1>0, <1>1, <1>2, <1>3, <1>4 DEF Fits

(* Adding w times the row of f to that of g, w < p, with a swap or without.   *)
LEMMA FitsCancelled ==
  ASSUME NEW u \in Int, NEW v \in Int, NEW q \in Int, NEW r \in Int,
         NEW s \in Nat \ {0}, NEW p \in Nat \ {0}, NEW t \in Int, NEW det \in Int,
         NEW w \in Nat, w < p, s * p <= t, Fits(u, v, q, r, s, s, det)
  PROVE  /\ Fits(u, v, q + w * u, r + w * v, s, t, det)
         /\ w >= 1 => Fits(q, r, w * q - u, w * r - v, s, t, det)
<1>0. /\ Abs(u) + Abs(v) <= s /\ -s < u
      /\ Abs(q) + Abs(r) <= s /\ -s < q /\ q < s
      /\ u * r - v * q = det
  BY DEF Fits
<1>1. w * s + s <= t /\ w * s \in Int
  <2>1. s * p = (w * s + s) + s * ((p - w) - 1) /\ (p - w) - 1 \in Nat
    OBVIOUS
  <2>2. s * ((p - w) - 1) >= 0 /\ s * ((p - w) - 1) \in Int /\ w * s \in Int
    BY <2>1
  <2> QED BY <2>1, <2>2
<1>2. ASSUME NEW a \in Int, NEW b \in Int, Abs(a) + Abs(b) <= s
      PROVE  /\ Abs(w * a) + Abs(w * b) <= w * s
             /\ Abs(a) <= s
             /\ w * a \in Int /\ w * b \in Int
  <2>1. Abs(w * a) = w * Abs(a) /\ Abs(w * b) = w * Abs(b) /\ w * a \in Int /\ w * b \in Int
    BY AbsProduct
  <2>2. Abs(a) \in Nat /\ Abs(b) \in Nat
    BY AbsIs
  <2> DEFINE i == Abs(a)
             j == Abs(b)
             c == s - (i + j)
  <2>3. c \in Nat /\ s = (i + j) + c /\ i \in Nat /\ j \in Nat
    BY <1>2, <2>2
  <2> HIDE DEF i, j, c
  <2>4. w * s = w * i + w * j + w * c /\ w * c >= 0 /\ w * c \in Int /\ w * i \in Int /\ w * j \in Int
    BY <2>3
  <2>5. w * i + w * j <= w * s
    BY <2>4
  <2> QED BY <2>1, <2>3, <2>5 DEF i, j
<1>3. /\ Abs(w * u) + Abs(w * v) <= w * s /\ w * u \in Int /\ w * v \in Int
      /\ Abs(w * q) + Abs(w * r) <= w * s /\ w * q \in Int /\ w * r \in Int
  BY <1>0, <1>2
<1>4. Fits(u, v, q + w * u, r + w * v, s, t, det)
  <2> DEFINE a == w * u
             b == w * v
             z == w * s
  <2>1. a \in Int /\ b \in Int /\ z \in Int /\ Abs(a) + Abs(b) <= z /\ z + s <= t
    BY <1>1, <1>3
  <2>2. u * (r + b) - v * (q + a) = det
    <3>1. u * (r + w * v) - v * (q + w * u) = u * r - v * q
      OBVIOUS
    <3> QED BY <1>0, <3>1
  <2> HIDE DEF a, b, z
  <2>3. Abs(q + a) + Abs(r + b) <= t /\ -t < q + a /\ q + a < t
    BY <1>0, <2>1 DEF Abs
  <2>4. Fits(u, v, q + a, r + b, s, t, det)
    BY <1>0, <2>2, <2>3 DEF Fits
  <2> QED BY <2>4 DEF a, b
<1>5. ASSUME w >= 1
      PROVE  Fits(q, r, w * q - u, w * r - v, s, t, det)
  <2> DEFINE a == w * q
             b == w * r
             z == w * s
  <2>1. a \in Int /\ b \in Int /\ z \in Int /\ Abs(a) + Abs(b) <= z /\ z + s <= t
    BY <1>1, <1>3
  <2>2. q * (b - v) - r * (a - u) = det
    <3>1. q * (w * r - v) - r * (w * q - u) = u * r - v * q
      OBVIOUS
    <3> QED BY <1>0, <3>1
  <2>3. a < z /\ -z < a
    <3>1. z - a = w * (s - q) /\ z + a = w * (s + q)
      OBVIOUS
    <3>2. s - q \in Nat /\ s - q >= 1 /\ s + q \in Nat /\ s + q >= 1
      BY <1>0
    <3>3. w * (s - q) >= 1 /\ w * (s + q) >= 1
      BY <1>5, <3>2
    <3> HIDE DEF a, z
    <3> QED BY <2>1, <3>1, <3>3
  <2> HIDE DEF a, b, z
  <2>4. Abs(a - u) + Abs(b - v) <= t /\ -t < a - u /\ a - u < t
    BY <1>0, <2>1, <2>3 DEF Abs
  <2>5. Fits(q, r, a - u, b - v, s, t, det)
    BY <1>0, <2>2, <2>4 DEF Fits
  <2> QED BY <2>5 DEF a, b
<1> QED
  BY <1>4, <1>5

-------------------------------------------------------------------------------
(* Divisibility by powers of 2.                                               *)

Divides(n, a) == Same(n, a, 0)

LEMMA DividesMod ==
  ASSUME NEW n \in Nat \ {0}, NEW a \in Int
  PROVE  Divides(n, a) <=> a % n = 0
<1>1. 0 % n = 0
  BY SmallMod
<1>2. Same(n, a, 0) <=> a % n = 0 % n
  <2> DEFINE o == 0
  <2>1. o \in Int
    OBVIOUS
  <2> HIDE DEF o
  <2>2. Same(n, a, o) <=> a % n = o % n
    BY <2>1, SameMod
  <2> QED BY <2>2 DEF o
<1> QED
  BY <1>1, <1>2 DEF Divides

LEMMA DividesIs ==
  ASSUME NEW n \in Int, NEW a \in Int
  PROVE  Divides(n, a) <=> \E k \in Int : a = n * k
<1>1. \A k \in Int : (a = 0 + n * k) <=> (a = n * k)
  OBVIOUS
<1> QED
  BY <1>1 DEF Divides, Same

(* Smaller powers of 2 divide what the greater divide.                        *)
LEMMA Pow2Split ==
  ASSUME NEW a \in Nat, NEW b \in Nat, a <= b
  PROVE  b - a \in Nat /\ Pow2[b] = Pow2[a] * Pow2[b - a] /\ Pow2[b] = Pow2[b - a] * Pow2[a]
<1> DEFINE c == b - a
<1>1. c \in Nat /\ a + c = b /\ c + a = b
  OBVIOUS
<1> HIDE DEF c
<1>2. Pow2[a + c] = Pow2[a] * Pow2[c] /\ Pow2[c + a] = Pow2[c] * Pow2[a]
  BY <1>1, Pow2Add
<1> QED
  BY <1>1, <1>2 DEF c

LEMMA Pow2Coarser ==
  ASSUME NEW a \in Nat, NEW b \in Nat, a <= b, NEW m \in Int, NEW n \in Int,
         Same(Pow2[b], m, n)
  PROVE  Same(Pow2[a], m, n)
<1> DEFINE p == Pow2[a]
           c == b - a
           t == Pow2[c]
<1>1. c \in Nat /\ Pow2[b] = Pow2[a] * Pow2[c]
  BY Pow2Split
<1> HIDE DEF c
<1>2. p \in Int /\ t \in Int /\ Same(p * t, m, n)
  BY <1>1, Pow2Type
<1> HIDE DEF p, t
<1>3. Same(p, m, n)
  BY <1>2, SameCoarser
<1> QED
  BY <1>3 DEF p

LEMMA Pow2Least ==
  ASSUME NEW a \in Nat, NEW b \in Nat, a <= b
  PROVE  Pow2[a] <= Pow2[b]
<1>1. Pow2[a] \in Nat /\ Pow2[b] \in Nat
  BY Pow2Type
<1>2. a = b \/ a < b
  OBVIOUS
<1>3. a < b => 2 * Pow2[a] <= Pow2[b]
  BY Pow2Grows
<1> QED
  BY <1>1, <1>2, <1>3

(* A word and what it stands for agree modulo the small powers of 2.          *)
LEMMA WordMod ==
  ASSUME NEW k \in Nat, k <= W + 2, NEW a \in Int, NEW b \in Int, Same(4 * Base, a, b)
  PROVE  Same(Pow2[k], a, b)
<1>1. W + 2 \in Nat /\ 4 * Base = Pow2[W + 2]
  BY Widths
<1>2. Same(Pow2[W + 2], a, b)
  BY <1>1
<1> DEFINE w == W + 2
<1>3. w \in Nat /\ k <= w /\ Same(Pow2[w], a, b)
  BY <1>1, <1>2
<1> HIDE DEF w
<1> QED
  BY <1>3, Pow2Coarser

LEMMA OddSame ==
  ASSUME NEW a \in Int, NEW b \in Int, Same(4 * Base, a, b)
  PROVE  Odd(a) <=> Odd(b)
<1>1. Pow2[1] = 2
  <2>1. Pow2[0 + 1] = 2 * Pow2[0] /\ 0 + 1 = 1
    BY Pow2Def
  <2> QED BY <2>1, Pow2Def
<1>2. 1 \in Nat /\ 1 <= W + 2
  BY Widths
<1>3. Same(Pow2[1], a, b)
  BY <1>2, WordMod
<1>4. Same(2, a, b)
  BY <1>1, <1>3
<1>5. a % 2 = b % 2
  <2>1. 2 \in Nat \ {0}
    OBVIOUS
  <2> QED BY <1>4, <2>1, SameMod
<1> QED
  BY <1>5 DEF Odd

(* The trailing zeros of a word, and that there are as many.                  *)
LEMMA TrailingZerosAre ==
  ASSUME NEW w \in Int, NEW most \in Nat
  PROVE  LET z == TrailingZeros(w, most)
         IN  /\ z \in 0 .. most /\ z \in Nat /\ Divides(Pow2[z], w)
             /\ z < most => ~Divides(Pow2[z + 1], w)
<1> DEFINE T == {z \in Nat : z <= most /\ (z < most => w % Pow2[z + 1] # 0)}
           Is(z) == w % Pow2[z] = 0 /\ (z < most => w % Pow2[z + 1] # 0)
<1>1. most \in T /\ T \subseteq Nat
  OBVIOUS
<1>2. PICK z \in T : \A y \in T : z <= y
  <2> HIDE DEF T
  <2> QED BY <1>1, LeastNumber
<1>3. z \in 0 .. most /\ z \in Nat /\ (z < most => w % Pow2[z + 1] # 0)
  OBVIOUS
<1>4. w % Pow2[z] = 0
  <2>1. CASE z = 0
    <3>1. w % 1 = 0
      <4>1. w = 1 * w + 0 /\ 0 \in 0 .. 1 - 1 /\ 1 \in Nat \ {0}
        OBVIOUS
      <4> QED BY <4>1, DivUnique
    <3> QED BY <2>1, <3>1, Pow2Def
  <2>2. CASE z # 0
    <3>1. z - 1 \in Nat /\ z - 1 \notin T /\ z - 1 < most /\ (z - 1) + 1 = z
      BY <1>2, <1>3, <2>2
    <3> QED BY <3>1
  <2> QED BY <2>1, <2>2
<1>5. Is(z)
  BY <1>3, <1>4
<1>6. TrailingZeros(w, most) = CHOOSE y \in 0 .. most : Is(y)
  BY DEF TrailingZeros
<1> HIDE DEF Is
<1> DEFINE y == TrailingZeros(w, most)
<1>7. y \in 0 .. most /\ Is(y)
  BY <1>3, <1>5, <1>6
<1> HIDE DEF y
<1>8. y \in Nat /\ y + 1 \in Nat /\ Pow2[y] \in Nat \ {0} /\ Pow2[y + 1] \in Nat \ {0}
  <2>1. y \in Nat /\ y + 1 \in Nat
    BY <1>7
  <2> QED BY <2>1, Pow2Type
<1>9. Divides(Pow2[y], w) /\ (y < most => ~Divides(Pow2[y + 1], w))
  BY <1>7, <1>8, DividesMod DEF Is
<1> QED
  BY <1>7, <1>8, <1>9 DEF y

LEMMA TrailingZerosAtLeast ==
  ASSUME NEW w \in Int, NEW most \in Nat, NEW k \in 0 .. most, Divides(Pow2[k], w)
  PROVE  k <= TrailingZeros(w, most)
<1> DEFINE z == TrailingZeros(w, most)
<1>1. z \in 0 .. most /\ z \in Nat /\ (z < most => ~Divides(Pow2[z + 1], w))
  BY TrailingZerosAre
<1> HIDE DEF z
<1>2. SUFFICES ASSUME z < k PROVE FALSE
  BY <1>1 DEF z
<1>3. z + 1 \in Nat /\ z + 1 <= k /\ k \in Nat /\ z < most
  BY <1>1, <1>2
<1>4. Same(Pow2[k], w, 0)
  BY DEF Divides
<1>5. Same(Pow2[z + 1], w, 0)
  <2> DEFINE y == z + 1
  <2>1. y \in Nat /\ y <= k
    BY <1>3
  <2> HIDE DEF y
  <2>2. Same(Pow2[y], w, 0)
    BY <2>1, <1>3, <1>4, Pow2Coarser
  <2> QED BY <2>2 DEF y
<1> QED
  BY <1>1, <1>3, <1>5 DEF Divides

LEMMA OddHasNone ==
  ASSUME NEW w \in Int, NEW most \in Nat, Odd(w) \/ most = 0
  PROVE  TrailingZeros(w, most) = 0
<1> DEFINE z == TrailingZeros(w, most)
<1>1. z \in 0 .. most /\ z \in Nat /\ Divides(Pow2[z], w)
  BY TrailingZerosAre
<1> HIDE DEF z
<1>2. SUFFICES ASSUME z # 0 PROVE FALSE
  BY DEF z
<1>3. Odd(w) /\ 1 <= z
  BY <1>1, <1>2
<1>4. Same(Pow2[z], w, 0)
  BY <1>1 DEF Divides
<1>5. Same(Pow2[1], w, 0)
  BY <1>1, <1>3, <1>4, Pow2Coarser
<1>6. Pow2[1] = 2
  <2>1. Pow2[0 + 1] = 2 * Pow2[0] /\ 0 + 1 = 1
    BY Pow2Def
  <2> QED BY <2>1, Pow2Def
<1>7. w % 2 = 0
  <2>1. 2 \in Nat \ {0} /\ Divides(2, w)
    BY <1>5, <1>6 DEF Divides
  <2> QED BY <2>1, DividesMod
<1> QED
  BY <1>3, <1>7 DEF Odd

-------------------------------------------------------------------------------
(* A batch in progress. Scale is what its matrix is scaled by, Ahead the      *)
(* zeros of g that are found but not shifted out yet: the row of g may be     *)
(* that much larger, and only shifting makes the row of f as large.           *)

Scale(a, b) == Pow2[IF a = "const" THEN b.i ELSE W - b.i]
Ahead(a, b) == IF a = "const" THEN 0 ELSE TrailingZeros(b.g, b.i)
ScaleG(a, b) == Scale(a, b) * Pow2[Ahead(a, b)]
Determinant(a, b) == Pow2[IF a = "const" THEN b.i + Pad ELSE W - b.i]

Tracked(a, b) ==
  /\ Odd(b.f)
  /\ Row(b, Signed(b.u), Signed(b.v), b.f, Scale(a, b))
  /\ Row(b, Signed(b.q), Signed(b.r), b.g, Scale(a, b))
  /\ Fits(Signed(b.u), Signed(b.v), Signed(b.q), Signed(b.r),
          Scale(a, b), ScaleG(a, b), Determinant(a, b))
  /\ a = "const" => b.i >= Pad

LEMMA BatTypes ==
  ASSUME NEW b \in Bat
  PROVE  /\ b.i \in Nat /\ b.i \in Int /\ b.i <= W /\ W - b.i \in Nat /\ b.i + Pad \in Nat
         /\ b.eta \in Int
         /\ b.f0 \in Int /\ b.g0 \in Int /\ b.f \in Int /\ b.g \in Int
         /\ b.u \in Int /\ b.v \in Int /\ b.q \in Int /\ b.r \in Int
         /\ b.f0 \in Words /\ b.g0 \in Words /\ b.f \in Words /\ b.g \in Words
         /\ b.u \in Words /\ b.v \in Words /\ b.q \in Words /\ b.r \in Words
         /\ Signed(b.u) \in Int /\ Signed(b.v) \in Int
         /\ Signed(b.q) \in Int /\ Signed(b.r) \in Int
<1>1. /\ b.i \in 0..W /\ b.eta \in Int
      /\ b.f0 \in Words /\ b.g0 \in Words /\ b.f \in Words /\ b.g \in Words
      /\ b.u \in Words /\ b.v \in Words /\ b.q \in Words /\ b.r \in Words
  BY DEF Bat
<1>2. /\ b.f0 \in Int /\ b.g0 \in Int /\ b.f \in Int /\ b.g \in Int
      /\ b.u \in Int /\ b.v \in Int /\ b.q \in Int /\ b.r \in Int
  BY <1>1, WordsAreInts
<1>3. /\ Signed(b.u) \in Int /\ Signed(b.v) \in Int
      /\ Signed(b.q) \in Int /\ Signed(b.r) \in Int
  BY <1>1, SignedType
<1>4. b.i \in Nat /\ b.i \in Int /\ b.i <= W /\ W - b.i \in Nat /\ b.i + Pad \in Nat
  BY <1>1, Widths
<1> QED
  BY <1>1, <1>2, <1>3, <1>4

LEMMA ScaleType ==
  ASSUME NEW b \in Bat, NEW a
  PROVE  /\ Scale(a, b) \in Nat \ {0} /\ Scale(a, b) \in Int /\ Scale(a, b) <= Base
         /\ Ahead(a, b) \in Nat /\ Ahead(a, b) <= b.i
         /\ Pow2[Ahead(a, b)] \in Nat \ {0} /\ Pow2[Ahead(a, b)] \in Int
         /\ ScaleG(a, b) \in Nat \ {0} /\ ScaleG(a, b) \in Int /\ ScaleG(a, b) <= Base
         /\ Determinant(a, b) \in Int
<1>0. b.i \in Nat /\ b.i <= W /\ W - b.i \in Nat /\ b.i + Pad \in Nat /\ b.g \in Int
      /\ W \in Nat /\ Base = Pow2[W] /\ W - b.i <= W
  BY BatTypes, Widths
<1>1. TrailingZeros(b.g, b.i) \in 0 .. b.i
  BY <1>0, TrailingZerosAre
<1>2. Ahead(a, b) \in Nat /\ Ahead(a, b) <= b.i
  BY <1>0, <1>1 DEF Ahead
<1>3. Pow2[Ahead(a, b)] \in Nat \ {0} /\ Pow2[Ahead(a, b)] \in Int
  BY <1>2, Pow2Type
<1> DEFINE j == IF a = "const" THEN b.i ELSE W - b.i
           z == Ahead(a, b)
           n == j + z
           m == IF a = "const" THEN b.i + Pad ELSE W - b.i
<1>4. j \in Nat /\ z \in Nat /\ n \in Nat /\ j <= W /\ n <= W /\ m \in Nat
  BY <1>0, <1>1, <1>2 DEF Ahead
<1> HIDE DEF j, z, n, m
<1>5. Pow2[j] \in Nat \ {0} /\ Pow2[n] \in Nat \ {0} /\ Pow2[j] <= Base /\ Pow2[n] <= Base
      /\ Pow2[m] \in Int
  BY <1>0, <1>4, Pow2Type, Pow2Least
<1>6. Pow2[n] = Pow2[j] * Pow2[z]
  BY <1>4, Pow2Add DEF n
<1>7. Scale(a, b) = Pow2[j] /\ ScaleG(a, b) = Pow2[n] /\ Determinant(a, b) = Pow2[m]
  BY <1>6 DEF Scale, ScaleG, Determinant, j, z, m
<1> QED
  BY <1>2, <1>3, <1>5, <1>7

(* A word that stands for a number in bounds is read as that number.          *)
LEMMA SignedIs ==
  ASSUME NEW n \in Int, NEW w, w = Word(n), -Base <= n, n <= Base
  PROVE  Signed(w) = n
<1>1. -2 * Base <= n /\ n < 2 * Base
  BY Widths
<1> QED
  BY <1>1, SignedWord

LEMMA FitsBase ==
  ASSUME NEW u \in Int, NEW v \in Int, NEW q \in Int, NEW r \in Int, NEW s \in Int,
         NEW t \in Int, NEW det, s <= Base, t <= Base, Fits(u, v, q, r, s, t, det)
  PROVE  /\ -Base <= u /\ u <= Base /\ -Base <= v /\ v <= Base
         /\ -Base <= q /\ q <= Base /\ -Base <= r /\ r <= Base
  BY Widths DEF Fits, Abs

(* How the next state of a batch is shown to be tracked: its words stand for  *)
(* a matrix that fits.                                                        *)
LEMMA TrackedIf ==
  ASSUME NEW a, NEW b \in Bat, NEW u \in Int, NEW v \in Int, NEW q \in Int, NEW r \in Int,
         b.u = Word(u), b.v = Word(v), b.q = Word(q), b.r = Word(r),
         Odd(b.f), Row(b, u, v, b.f, Scale(a, b)), Row(b, q, r, b.g, Scale(a, b)),
         Fits(u, v, q, r, Scale(a, b), ScaleG(a, b), Determinant(a, b)),
         a = "const" => b.i >= Pad
  PROVE  /\ Tracked(a, b)
         /\ Signed(b.u) = u /\ Signed(b.v) = v /\ Signed(b.q) = q /\ Signed(b.r) = r
<1>1. /\ -Base <= u /\ u <= Base /\ -Base <= v /\ v <= Base
      /\ -Base <= q /\ q <= Base /\ -Base <= r /\ r <= Base
  <2> DEFINE s == Scale(a, b)
             t == ScaleG(a, b)
             det == Determinant(a, b)
  <2>1. s \in Int /\ t \in Int /\ s <= Base /\ t <= Base /\ Fits(u, v, q, r, s, t, det)
    BY ScaleType
  <2> HIDE DEF s, t, det
  <2> QED BY <2>1, FitsBase
<1>2. Signed(b.u) = u /\ Signed(b.v) = v /\ Signed(b.q) = q /\ Signed(b.r) = r
  BY <1>1, SignedIs
<1> QED
  BY <1>2 DEF Tracked

LEMMA TrackedParts ==
  ASSUME NEW a, NEW b \in Bat, Tracked(a, b)
  PROVE  /\ Odd(b.f)
         /\ Row(b, Signed(b.u), Signed(b.v), b.f, Scale(a, b))
         /\ Row(b, Signed(b.q), Signed(b.r), b.g, Scale(a, b))
         /\ Fits(Signed(b.u), Signed(b.v), Signed(b.q), Signed(b.r),
                 Scale(a, b), ScaleG(a, b), Determinant(a, b))
         /\ a = "const" => b.i >= Pad
         /\ Same(4 * Base, b.u, Signed(b.u)) /\ Same(4 * Base, b.v, Signed(b.v))
         /\ Same(4 * Base, b.q, Signed(b.q)) /\ Same(4 * Base, b.r, Signed(b.r))
<1>1. ASSUME NEW w \in Words
      PROVE  Same(4 * Base, w, Signed(w))
  <2>1. w \in Int /\ Word(w) = w /\ Signed(w) \in Int /\ Word(Signed(w)) = w
    BY WordsAreInts, SignedType
  <2> QED BY <2>1, WordSame
<1> QED
  BY <1>1, BatTypes DEF Tracked

(* A batch begins tracked.                                                    *)
LEMMA BatchBegins ==
  ASSUME NEW a \in {"const", "var"}, NEW h \in Int, NEW f0 \in Words, NEW g0 \in Words, Odd(f0)
  PROVE  /\ Batch(a, h, f0, g0) \in Bat /\ Tracked(a, Batch(a, h, f0, g0))
         /\ Signed(Batch(a, h, f0, g0).u) = Pow2[IF a = "const" THEN Pad ELSE 0]
         /\ Signed(Batch(a, h, f0, g0).v) = 0
         /\ Signed(Batch(a, h, f0, g0).q) = 0
         /\ Signed(Batch(a, h, f0, g0).r) = Pow2[IF a = "const" THEN Pad ELSE 0]
         /\ Scale(a, Batch(a, h, f0, g0)) = Pow2[IF a = "const" THEN Pad ELSE 0]
<1> DEFINE i == IF a = "const" THEN Pad ELSE 0
           p == Pow2[i]
           j == IF a = "const" THEN Pad ELSE W
           b == [i |-> j, eta |-> h, f0 |-> f0, g0 |-> g0,
                 f |-> f0, g |-> g0, u |-> p, v |-> 0, q |-> 0, r |-> p]
<1>1. Batch(a, h, f0, g0) = b
  BY DEF Batch
<1>2. i \in Nat /\ i <= W /\ j \in 0 .. W
  BY Widths
<1>3. p \in Nat \ {0} /\ p <= Base
  <2> HIDE DEF i
  <2>1. W \in Nat /\ Base = Pow2[W]
    BY Widths
  <2> QED BY <1>2, <2>1, Pow2Type, Pow2Least
<1>4. p \in Words /\ 0 \in Words
  <2> HIDE DEF p
  <2> QED BY <1>3, Widths DEF Words
<1>5. b \in Bat
  <2> HIDE DEF p, j
  <2> QED BY <1>2, <1>4 DEF Bat
<1>6. Scale(a, b) = p
  <2>1. W - W = 0
    BY Widths
  <2>2. CASE a = "const"
    BY <2>2 DEF Scale
  <2>3. CASE a = "var"
    BY <2>1, <2>3 DEF Scale
  <2> QED BY <2>2, <2>3
<1>7. Determinant(a, b) = p * p
  <2>1. CASE a = "const"
    <3>1. Pow2[Pad + Pad] = Pow2[Pad] * Pow2[Pad]
      BY Widths, Pow2Add
    <3> QED BY <2>1, <3>1 DEF Determinant
  <2>2. CASE a = "var"
    <3>1. W - W = 0 /\ Pow2[0] = 1
      BY Widths, Pow2Def
    <3>2. Determinant(a, b) = 1 /\ p = 1
      BY <2>2, <3>1 DEF Determinant
    <3> QED BY <3>2
  <2> QED BY <2>1, <2>2
<1> DEFINE t == ScaleG(a, b)
<1>8. t \in Int /\ p <= t
  <2> DEFINE y == Pow2[Ahead(a, b)]
  <2>1. y \in Nat \ {0} /\ t = p * y
    <3> HIDE DEF b, p
    <3> QED BY <1>5, <1>6, ScaleType DEF ScaleG
  <2> HIDE DEF y, t, p
  <2>2. p * y = p + p * (y - 1) /\ y - 1 \in Nat /\ p * (y - 1) >= 0 /\ p * (y - 1) \in Int
    BY <2>1, <1>3
  <2> QED BY <1>3, <2>1, <2>2
<1>9. b.u = Word(p) /\ b.v = Word(0) /\ b.q = Word(0) /\ b.r = Word(p) /\ b.f = f0 /\ b.g = g0
      /\ b.f0 = f0 /\ b.g0 = g0
  <2>1. Word(p) = p /\ Word(0) = 0
    <3> HIDE DEF p
    <3> QED BY <1>4, WordsAreInts
  <2> HIDE DEF p
  <2> QED BY <2>1
<1>10. f0 \in Int /\ g0 \in Int /\ 4 * Base \in Int
  BY WordsAreInts, Widths
<1>11. Row(b, p, 0, f0, p) /\ Row(b, 0, p, g0, p)
  <2> HIDE DEF p, b
  <2>1. p * f0 + 0 * g0 = f0 * p /\ 0 * f0 + p * g0 = g0 * p /\ f0 * p \in Int /\ g0 * p \in Int
    BY <1>3, <1>10
  <2>2. Same(4 * Base, f0 * p, f0 * p) /\ Same(4 * Base, g0 * p, g0 * p)
    BY <1>10, <2>1, SameRefl
  <2> QED BY <1>9, <2>1, <2>2 DEF Row
<1>12. Fits(p, 0, 0, p, p, t, p * p)
  <2> HIDE DEF p, t
  <2>1. p * p - 0 * 0 = p * p
    BY <1>3
  <2>2. Abs(p) = p /\ Abs(0) = 0
    BY <1>3 DEF Abs
  <2> QED BY <1>3, <1>8, <2>1, <2>2 DEF Fits
<1>13. a = "const" => b.i >= Pad
  BY Widths
<1> DEFINE o == 0
<1>14. o \in Int /\ p \in Int /\ b.v = Word(o) /\ b.q = Word(o)
       /\ Row(b, p, o, b.f, p) /\ Row(b, o, p, b.g, p) /\ Fits(p, o, o, p, p, t, p * p)
  BY <1>3, <1>9, <1>11, <1>12
<1>15. b.u = Word(p) /\ b.r = Word(p) /\ Odd(b.f)
  BY <1>9
<1> HIDE DEF b, p, o, t
<1>16. Row(b, p, o, b.f, Scale(a, b)) /\ Row(b, o, p, b.g, Scale(a, b))
       /\ Fits(p, o, o, p, Scale(a, b), ScaleG(a, b), Determinant(a, b))
  BY <1>6, <1>7, <1>14 DEF t
<1>17. /\ Tracked(a, b)
       /\ Signed(b.u) = p /\ Signed(b.v) = o /\ Signed(b.q) = o /\ Signed(b.r) = p
  BY <1>5, <1>13, <1>14, <1>15, <1>16, TrackedIf
<1> QED
  BY <1>1, <1>5, <1>6, <1>17 DEF p, o

-------------------------------------------------------------------------------
(* A constant-time divstep.                                                   *)

LEMMA WordPlus ==
  ASSUME NEW a \in Int, NEW b \in Int, NEW m \in Int, NEW n \in Int,
         Same(4 * Base, a, m), Same(4 * Base, b, n)
  PROVE  /\ Word(a + b) = Word(m + n) /\ Word(a - b) = Word(m - n)
         /\ Word(2 * a) = Word(2 * m) /\ Word(a) = Word(m)
<1>1. 4 * Base \in Int
  BY Widths
<1>2. Same(4 * Base, a + b, m + n) /\ Same(4 * Base, a - b, m - n)
  BY <1>1, SameAdd
<1>3. Same(4 * Base, 2 * a, 2 * m)
  BY <1>1, SameScale
<1>4. a + b \in Int /\ a - b \in Int /\ m + n \in Int /\ m - n \in Int
      /\ 2 * a \in Int /\ 2 * m \in Int
  OBVIOUS
<1> QED
  BY <1>2, <1>3, <1>4, WordSame

LEMMA HalfWord ==
  ASSUME NEW w \in Words, ~Odd(w)
  PROVE  w \div 2 \in Words /\ 2 * (w \div 2) = w
<1>1. w \in Nat /\ w < 4 * Base
  BY WordsAreInts, Widths DEF Words
<1>2. 2 \in Nat \ {0} /\ w \in Int
  BY <1>1
<1>3. w = 2 * (w \div 2) + (w % 2) /\ w \div 2 \in Int /\ w % 2 \in 0 .. 2 - 1
  BY <1>2, DivMod
<1>4. w % 2 = 0
  BY <1>3 DEF Odd
<1> DEFINE h == w \div 2
<1>5. h \in Int /\ w = 2 * h
  BY <1>3, <1>4
<1> HIDE DEF h
<1>6. h \in Words
  BY <1>1, <1>5, Widths DEF Words
<1> QED
  BY <1>5, <1>6 DEF h

LEMMA OddMeans ==
  ASSUME NEW a \in Int
  PROVE  /\ Odd(a) => \E k \in Int : a = 2 * k + 1
         /\ ~Odd(a) => \E k \in Int : a = 2 * k
         /\ \A k \in Int : (a = 2 * k + 1 => Odd(a)) /\ (a = 2 * k => ~Odd(a))
<1>1. 2 \in Nat \ {0}
  OBVIOUS
<1>2. a = 2 * (a \div 2) + (a % 2) /\ a \div 2 \in Int /\ a % 2 \in 0 .. 2 - 1
  BY <1>1, DivMod
<1>3. ASSUME NEW k \in Int, a = 2 * k + 1 PROVE a % 2 = 1
  <2>1. 1 \in 0 .. 2 - 1
    OBVIOUS
  <2> QED BY <1>1, <1>3, <2>1, DivUnique
<1>4. ASSUME NEW k \in Int, a = 2 * k PROVE a % 2 = 0
  <2>1. 0 \in 0 .. 2 - 1 /\ a = 2 * k + 0
    BY <1>4
  <2> QED BY <1>1, <2>1, DivUnique
<1> QED
  BY <1>2, <1>3, <1>4 DEF Odd

LEMMA SumOfOdd ==
  ASSUME NEW a \in Int, NEW b \in Int, Odd(a), Odd(b)
  PROVE  ~Odd(a + b) /\ ~Odd(a - b)
<1>1. PICK k \in Int : a = 2 * k + 1
  BY OddMeans
<1>2. PICK j \in Int : b = 2 * j + 1
  BY OddMeans
<1>3. a + b = 2 * (k + j + 1) /\ a - b = 2 * (k - j) /\ k + j + 1 \in Int /\ k - j \in Int
      /\ a + b \in Int /\ a - b \in Int
  BY <1>1, <1>2
<1> QED
  BY <1>3, OddMeans

(* What a divstep does to the words, by the three cases.                      *)
LEMMA DivsteppedIs ==
  ASSUME NEW b \in Bat
  PROVE  /\ ~Odd(b.g) => Divstepped(b) =
              [f0 |-> b.f0, g0 |-> b.g0, i |-> b.i + 1, eta |-> b.eta - 1,
               f |-> b.f, g |-> b.g \div 2, u |-> Word(2 * b.u), v |-> Word(2 * b.v),
               q |-> b.q, r |-> b.r]
         /\ Odd(b.g) /\ b.eta >= 0 => Divstepped(b) =
              [f0 |-> b.f0, g0 |-> b.g0, i |-> b.i + 1, eta |-> b.eta - 1,
               f |-> b.f, g |-> Word(b.g + b.f) \div 2,
               u |-> Word(2 * b.u), v |-> Word(2 * b.v),
               q |-> Word(b.q + b.u), r |-> Word(b.r + b.v)]
         /\ Odd(b.g) /\ b.eta < 0 => Divstepped(b) =
              [f0 |-> b.f0, g0 |-> b.g0, i |-> b.i + 1, eta |-> -b.eta - 2,
               f |-> Word(b.f + Word(b.g - b.f)), g |-> Word(b.g - b.f) \div 2,
               u |-> Word(2 * Word(b.u + Word(b.q - b.u))),
               v |-> Word(2 * Word(b.v + Word(b.r - b.v))),
               q |-> Word(b.q - b.u), r |-> Word(b.r - b.v)]
<1>0. b.eta \in Int
  BY BatTypes
<1>1. ASSUME ~Odd(b.g)
      PROVE  Divstepped(b) =
              [f0 |-> b.f0, g0 |-> b.g0, i |-> b.i + 1, eta |-> b.eta - 1,
               f |-> b.f, g |-> b.g \div 2, u |-> Word(2 * b.u), v |-> Word(2 * b.v),
               q |-> b.q, r |-> b.r]
  BY <1>1, Zenon DEF Divstepped
<1>2. ASSUME Odd(b.g), b.eta >= 0
      PROVE  Divstepped(b) =
              [f0 |-> b.f0, g0 |-> b.g0, i |-> b.i + 1, eta |-> b.eta - 1,
               f |-> b.f, g |-> Word(b.g + b.f) \div 2,
               u |-> Word(2 * b.u), v |-> Word(2 * b.v),
               q |-> Word(b.q + b.u), r |-> Word(b.r + b.v)]
  <2>1. ~(b.eta < 0)
    BY <1>0, <1>2
  <2> QED BY <1>2, <2>1, Zenon DEF Divstepped
<1>3. ASSUME Odd(b.g), b.eta < 0
      PROVE  Divstepped(b) =
              [f0 |-> b.f0, g0 |-> b.g0, i |-> b.i + 1, eta |-> -b.eta - 2,
               f |-> Word(b.f + Word(b.g - b.f)), g |-> Word(b.g - b.f) \div 2,
               u |-> Word(2 * Word(b.u + Word(b.q - b.u))),
               v |-> Word(2 * Word(b.v + Word(b.r - b.v))),
               q |-> Word(b.q - b.u), r |-> Word(b.r - b.v)]
  BY <1>3, Zenon DEF Divstepped
<1> QED
  BY <1>1, <1>2, <1>3

(* The numbers of a batch before and after a divstep.                         *)
Halved(b, n) ==
  /\ n.i = b.i + 1 /\ n.f0 = b.f0 /\ n.g0 = b.g0
  /\ \/ /\ ~Odd(b.g)
        /\ n.eta = b.eta - 1 /\ n.f = b.f /\ 2 * n.g = b.g
        /\ Signed(n.u) = 2 * Signed(b.u) /\ Signed(n.v) = 2 * Signed(b.v)
        /\ Signed(n.q) = Signed(b.q) /\ Signed(n.r) = Signed(b.r)
     \/ /\ Odd(b.g) /\ b.eta >= 0
        /\ n.eta = b.eta - 1 /\ n.f = b.f /\ Same(4 * Base, 2 * n.g, b.g + b.f)
        /\ Signed(n.u) = 2 * Signed(b.u) /\ Signed(n.v) = 2 * Signed(b.v)
        /\ Signed(n.q) = Signed(b.q) + Signed(b.u) /\ Signed(n.r) = Signed(b.r) + Signed(b.v)
     \/ /\ Odd(b.g) /\ b.eta < 0
        /\ n.eta = -b.eta - 2 /\ n.f = b.g /\ Same(4 * Base, 2 * n.g, b.g - b.f)
        /\ Signed(n.u) = 2 * Signed(b.q) /\ Signed(n.v) = 2 * Signed(b.r)
        /\ Signed(n.q) = Signed(b.q) - Signed(b.u) /\ Signed(n.r) = Signed(b.r) - Signed(b.v)

LEMMA ScaleDoubles ==
  ASSUME NEW b \in Bat, NEW n \in Bat, n.i = b.i + 1
  PROVE  /\ Scale("const", n) = 2 * Scale("const", b)
         /\ ScaleG("const", b) = Scale("const", b)
         /\ ScaleG("const", n) = 2 * Scale("const", b)
         /\ Determinant("const", n) = 2 * Determinant("const", b)
<1>1. b.i \in Nat /\ b.i + Pad \in Nat /\ (b.i + Pad) + 1 = n.i + Pad
  BY BatTypes, Widths
<1>2. Pow2[b.i + 1] = 2 * Pow2[b.i] /\ Pow2[(b.i + Pad) + 1] = 2 * Pow2[b.i + Pad]
  BY <1>1, Pow2Def
<1>3. Pow2[n.i] = 2 * Pow2[b.i] /\ Pow2[n.i + Pad] = 2 * Pow2[b.i + Pad]
  BY <1>1, <1>2
<1>4. Pow2[b.i] \in Int /\ Pow2[n.i] \in Int /\ Pow2[0] = 1
  BY <1>1, <1>3, Pow2Type, Pow2Def
<1>5. Pow2[b.i] * 1 = Pow2[b.i] /\ Pow2[n.i] * 1 = Pow2[n.i]
  BY <1>4
<1> QED
  BY <1>3, <1>4, <1>5 DEF Scale, ScaleG, Determinant, Ahead

LEMMA DivsteppedTracks ==
  ASSUME NEW b \in Bat, Tracked("const", b), b.i < W
  PROVE  /\ Divstepped(b) \in Bat /\ Tracked("const", Divstepped(b))
         /\ Halved(b, Divstepped(b))
<1> DEFINE n == Divstepped(b)
           U == Signed(b.u)
           V == Signed(b.v)
           Q == Signed(b.q)
           R == Signed(b.r)
           s == Scale("const", b)
           det == Determinant("const", b)
           m == 4 * Base
<1>0. /\ b.i \in Nat /\ b.i + 1 \in 0 .. W /\ b.eta \in Int
      /\ b.f0 \in Int /\ b.g0 \in Int /\ b.f \in Int /\ b.g \in Int
      /\ b.f0 \in Words /\ b.g0 \in Words /\ b.f \in Words /\ b.g \in Words
      /\ b.u \in Words /\ b.v \in Words /\ b.q \in Words /\ b.r \in Words
  BY BatTypes, Widths
<1>1. b.u \in Int /\ b.v \in Int /\ b.q \in Int /\ b.r \in Int
      /\ U \in Int /\ V \in Int /\ Q \in Int /\ R \in Int
  BY BatTypes
<1>2. s \in Nat \ {0} /\ s \in Int /\ det \in Int /\ m \in Int
  BY ScaleType, Widths
<1>3. /\ Odd(b.f) /\ Row(b, U, V, b.f, s) /\ Row(b, Q, R, b.g, s)
      /\ Fits(U, V, Q, R, s, ScaleG("const", b), det) /\ b.i >= Pad
      /\ Same(m, b.u, U) /\ Same(m, b.v, V) /\ Same(m, b.q, Q) /\ Same(m, b.r, R)
  BY TrackedParts
<1>4. /\ Word(2 * b.u) = Word(2 * U) /\ Word(2 * b.v) = Word(2 * V)
      /\ Word(2 * b.q) = Word(2 * Q) /\ Word(2 * b.r) = Word(2 * R)
      /\ b.q = Word(Q) /\ b.r = Word(R)
      /\ Word(b.q + b.u) = Word(Q + U) /\ Word(b.r + b.v) = Word(R + V)
      /\ Word(b.q - b.u) = Word(Q - U) /\ Word(b.r - b.v) = Word(R - V)
  <2>1. Word(b.q) = b.q /\ Word(b.r) = b.r
    BY <1>0, WordsAreInts
  <2> HIDE DEF U, V, Q, R
  <2> QED BY <1>1, <1>3, <2>1, WordPlus
<1>5. ScaleG("const", b) = s
  <2> DEFINE c == [b EXCEPT !.i = b.i + 1]
  <2>1. c \in Bat /\ c.i = b.i + 1
    BY <1>0 DEF Bat
  <2> HIDE DEF c
  <2> QED BY <2>1, ScaleDoubles
<1>6. /\ Fits(2 * U, 2 * V, Q, R, 2 * s, 2 * s, 2 * det)
      /\ Fits(2 * U, 2 * V, Q + U, R + V, 2 * s, 2 * s, 2 * det)
      /\ Fits(2 * Q, 2 * R, Q - U, R - V, 2 * s, 2 * s, 2 * det)
  <2> HIDE DEF U, V, Q, R, s, det
  <2>1. Fits(U, V, Q, R, s, s, det)
    BY <1>3, <1>5
  <2> QED BY <1>1, <1>2, <2>1, FitsHalved
<1>7. /\ 2 * U \in Int /\ 2 * V \in Int /\ 2 * Q \in Int /\ 2 * R \in Int
      /\ Q + U \in Int /\ R + V \in Int /\ Q - U \in Int /\ R - V \in Int
      /\ 2 * s \in Int
  <2> HIDE DEF U, V, Q, R, s
  <2> QED BY <1>1, <1>2
(* What remains is the same for all cases.                                    *)
<1>8. ASSUME n \in Bat, n.i = b.i + 1, n.f0 = b.f0, n.g0 = b.g0, Odd(n.f),
             NEW u \in Int, NEW v \in Int, NEW q \in Int, NEW r \in Int,
             n.u = Word(u), n.v = Word(v), n.q = Word(q), n.r = Word(r),
             Row(b, u, v, n.f, 2 * s), Row(b, q, r, n.g, 2 * s),
             Fits(u, v, q, r, 2 * s, 2 * s, 2 * det)
      PROVE  /\ Tracked("const", n)
             /\ Signed(n.u) = u /\ Signed(n.v) = v /\ Signed(n.q) = q /\ Signed(n.r) = r
  <2> HIDE DEF n
  <2>1. /\ Scale("const", n) = 2 * s /\ ScaleG("const", n) = 2 * s
        /\ Determinant("const", n) = 2 * det
    BY <1>8, ScaleDoubles
  <2>2. Row(n, u, v, n.f, 2 * s) /\ Row(n, q, r, n.g, 2 * s)
    BY <1>8 DEF Row
  <2>3. n.i >= Pad
    BY <1>0, <1>3, <1>8, Widths
  <2> HIDE DEF s, det
  <2>4. /\ Row(n, u, v, n.f, Scale("const", n)) /\ Row(n, q, r, n.g, Scale("const", n))
        /\ Fits(u, v, q, r, Scale("const", n), ScaleG("const", n), Determinant("const", n))
    BY <1>8, <2>1, <2>2
  <2> DEFINE a == "const"
  <2>5. /\ Row(n, u, v, n.f, Scale(a, n)) /\ Row(n, q, r, n.g, Scale(a, n))
        /\ Fits(u, v, q, r, Scale(a, n), ScaleG(a, n), Determinant(a, n))
        /\ a = "const" => n.i >= Pad
    BY <2>3, <2>4
  <2> HIDE DEF a
  <2>6. /\ Tracked(a, n)
        /\ Signed(n.u) = u /\ Signed(n.v) = v /\ Signed(n.q) = q /\ Signed(n.r) = r
    BY <1>8, <2>5, TrackedIf
  <2> QED BY <2>6 DEF a
<1>9. CASE ~Odd(b.g)
  <2> DEFINE h == b.g \div 2
  <2>1. n = [f0 |-> b.f0, g0 |-> b.g0, i |-> b.i + 1, eta |-> b.eta - 1,
             f |-> b.f, g |-> h, u |-> Word(2 * U), v |-> Word(2 * V),
             q |-> b.q, r |-> b.r]
    BY <1>4, <1>9, DivsteppedIs
  <2>2. h \in Words /\ h \in Int /\ 2 * h = b.g
    BY <1>0, <1>9, HalfWord, WordsAreInts
  <2>3. Word(2 * U) \in Words /\ Word(2 * V) \in Words /\ b.eta - 1 \in Int
    BY <1>0, <1>7, WordType
  <2> HIDE DEF n, h, U, V, Q, R, s, det, m
  <2>4. n \in Bat
    BY <1>0, <2>1, <2>2, <2>3 DEF Bat
  <2>5. Row(b, 2 * U, 2 * V, b.f, 2 * s)
    <3> DEFINE two == 2
    <3>1. two \in Int
      OBVIOUS
    <3> HIDE DEF two
    <3>2. Row(b, two * U, two * V, b.f, two * s)
      BY <1>0, <1>1, <1>2, <1>3, <3>1, RowScale
    <3> QED BY <3>2 DEF two
  <2>6. Row(b, Q, R, h, 2 * s)
    <3>1. h * (2 * s) = b.g * s
      BY <1>2, <2>2
    <3> QED BY <1>3, <3>1 DEF Row
  <2>7. /\ n.i = b.i + 1 /\ n.f0 = b.f0 /\ n.g0 = b.g0 /\ n.f = b.f /\ n.g = h
        /\ n.u = Word(2 * U) /\ n.v = Word(2 * V) /\ n.q = Word(Q) /\ n.r = Word(R)
        /\ n.eta = b.eta - 1
    BY <1>4, <2>1
  <2>8. Odd(n.f) /\ Row(b, 2 * U, 2 * V, n.f, 2 * s) /\ Row(b, Q, R, n.g, 2 * s)
    BY <1>3, <2>5, <2>6, <2>7
  <2>9. /\ Tracked("const", n)
        /\ Signed(n.u) = 2 * U /\ Signed(n.v) = 2 * V /\ Signed(n.q) = Q /\ Signed(n.r) = R
    BY <1>1, <1>6, <1>7, <1>8, <2>4, <2>7, <2>8
  <2>10. Halved(b, n)
    BY <1>9, <2>2, <2>7, <2>9 DEF Halved, U, V, Q, R
  <2> QED BY <2>4, <2>9, <2>10 DEF n
<1>10. CASE Odd(b.g) /\ b.eta >= 0
  <2> DEFINE w == Word(b.g + b.f)
             h == w \div 2
  <2>1. n = [f0 |-> b.f0, g0 |-> b.g0, i |-> b.i + 1, eta |-> b.eta - 1,
             f |-> b.f, g |-> h, u |-> Word(2 * U), v |-> Word(2 * V),
             q |-> Word(Q + U), r |-> Word(R + V)]
    BY <1>4, <1>10, DivsteppedIs
  <2>2. w \in Words /\ w \in Int /\ Same(m, w, b.g + b.f) /\ b.g + b.f \in Int
    BY <1>0, WordType
  <2>3. ~Odd(w)
    <3> HIDE DEF w
    <3>1. ~Odd(b.g + b.f)
      BY <1>0, <1>3, <1>10, SumOfOdd
    <3> QED BY <2>2, <3>1, OddSame DEF m
  <2>4. h \in Words /\ h \in Int /\ 2 * h = w
    <3> HIDE DEF w
    <3> QED BY <2>2, <2>3, HalfWord, WordsAreInts
  <2>5. /\ Word(2 * U) \in Words /\ Word(2 * V) \in Words /\ b.eta - 1 \in Int
        /\ Word(Q + U) \in Words /\ Word(R + V) \in Words
    BY <1>0, <1>7, WordType
  <2> HIDE DEF n, w, h, U, V, Q, R, s, det, m
  <2>6. n \in Bat
    BY <1>0, <2>1, <2>4, <2>5 DEF Bat
  <2>7. Row(b, 2 * U, 2 * V, b.f, 2 * s)
    <3> DEFINE two == 2
    <3>1. two \in Int
      OBVIOUS
    <3> HIDE DEF two
    <3>2. Row(b, two * U, two * V, b.f, two * s)
      BY <1>0, <1>1, <1>2, <1>3, <3>1, RowScale
    <3> QED BY <3>2 DEF two
  <2>8. Row(b, Q + U, R + V, h, 2 * s)
    <3> DEFINE one == 1
    <3>1. one \in Int
      OBVIOUS
    <3> HIDE DEF one
    <3>2. Row(b, Q + one * U, R + one * V, b.g + one * b.f, s)
      BY <1>0, <1>1, <1>2, <1>3, <3>1, RowAdd
    <3>3. Q + one * U = Q + U /\ R + one * V = R + V /\ b.g + one * b.f = b.g + b.f
      BY <1>0, <1>1 DEF one
    <3>4. Row(b, Q + U, R + V, b.g + b.f, s)
      BY <3>2, <3>3
    <3>5. Row(b, Q + U, R + V, w, s)
      BY <1>0, <1>2, <1>7, <2>2, <3>4, RowWord DEF m
    <3>6. h * (2 * s) = w * s
      BY <1>2, <2>4
    <3> QED BY <3>5, <3>6 DEF Row
  <2>9. /\ n.i = b.i + 1 /\ n.f0 = b.f0 /\ n.g0 = b.g0 /\ n.f = b.f /\ n.g = h
        /\ n.u = Word(2 * U) /\ n.v = Word(2 * V)
        /\ n.q = Word(Q + U) /\ n.r = Word(R + V) /\ n.eta = b.eta - 1
    BY <2>1
  <2>10. Odd(n.f) /\ Row(b, 2 * U, 2 * V, n.f, 2 * s) /\ Row(b, Q + U, R + V, n.g, 2 * s)
    BY <1>3, <2>7, <2>8, <2>9
  <2>11. /\ Tracked("const", n)
         /\ Signed(n.u) = 2 * U /\ Signed(n.v) = 2 * V
         /\ Signed(n.q) = Q + U /\ Signed(n.r) = R + V
    BY <1>6, <1>7, <1>8, <2>6, <2>9, <2>10
  <2>12. Same(4 * Base, 2 * n.g, b.g + b.f)
    BY <2>2, <2>4, <2>9 DEF m
  <2>13. Halved(b, n)
    BY <1>10, <2>9, <2>11, <2>12 DEF Halved, U, V, Q, R
  <2> QED BY <2>6, <2>11, <2>13 DEF n
<1>11. CASE Odd(b.g) /\ b.eta < 0
  <2> DEFINE w == Word(b.g - b.f)
             h == w \div 2
  <2>1. n = [f0 |-> b.f0, g0 |-> b.g0, i |-> b.i + 1, eta |-> -b.eta - 2,
             f |-> Word(b.f + w), g |-> h,
             u |-> Word(2 * Word(b.u + Word(Q - U))), v |-> Word(2 * Word(b.v + Word(R - V))),
             q |-> Word(Q - U), r |-> Word(R - V)]
    BY <1>4, <1>11, DivsteppedIs
  <2>2. w \in Words /\ w \in Int /\ Same(m, w, b.g - b.f) /\ b.g - b.f \in Int
    BY <1>0, WordType
  <2>3. ~Odd(w)
    <3> HIDE DEF w
    <3>1. ~Odd(b.g - b.f)
      BY <1>0, <1>3, <1>11, SumOfOdd
    <3> QED BY <2>2, <3>1, OddSame DEF m
  <2>4. h \in Words /\ h \in Int /\ 2 * h = w
    <3> HIDE DEF w
    <3> QED BY <2>2, <2>3, HalfWord, WordsAreInts
  <2>5. ASSUME NEW k \in Int, NEW c \in Int, NEW K \in Int, NEW C \in Int,
               Same(m, k, K), Same(m, c, C)
        PROVE  Word(k + Word(C - K)) = Word(C) /\ Word(2 * Word(k + Word(C - K))) = Word(2 * C)
    <3> DEFINE y == Word(C - K)
               a == Word(k + y)
    <3>1. y \in Int /\ Same(m, y, C - K) /\ C - K \in Int
      BY WordType
    <3>2. a \in Int /\ a = Word(K + (C - K))
      <4> HIDE DEF y
      <4>1. k + y \in Int
        BY <3>1
      <4> QED BY <2>5, <3>1, <4>1, WordPlus, WordType DEF m
    <3>3. K + (C - K) = C
      OBVIOUS
    <3>4. a = Word(C) /\ a \in Int
      BY <3>2, <3>3
    <3>5. Same(m, a, C)
      <4> HIDE DEF a
      <4> QED BY <3>4, WordType DEF m
    <3>6. Word(2 * a) = Word(2 * C)
      <4> HIDE DEF a
      <4> QED BY <3>4, <3>5, WordPlus DEF m
    <3> QED BY <3>4, <3>6
  <2>6. Word(2 * Word(b.u + Word(Q - U))) = Word(2 * Q)
        /\ Word(2 * Word(b.v + Word(R - V))) = Word(2 * R)
    <3> HIDE DEF U, V, Q, R
    <3> QED BY <1>1, <1>3, <2>5
  <2>7. Word(b.f + w) = b.g
    <3>1. Same(m, b.f, b.f) /\ Same(m, b.g, b.g)
      BY <1>0, <1>2, SameRefl
    <3>2. Word(b.f + Word(b.g - b.f)) = Word(b.g)
      <4> HIDE DEF m
      <4> QED BY <1>0, <2>5, <3>1
    <3> QED BY <1>0, <3>2, WordsAreInts
  <2>8. /\ Word(2 * Q) \in Words /\ Word(2 * R) \in Words /\ -b.eta - 2 \in Int
        /\ Word(Q - U) \in Words /\ Word(R - V) \in Words
    BY <1>0, <1>7, WordType
  <2> HIDE DEF n, w, h, U, V, Q, R, s, det, m
  <2>9. n = [f0 |-> b.f0, g0 |-> b.g0, i |-> b.i + 1, eta |-> -b.eta - 2,
             f |-> b.g, g |-> h, u |-> Word(2 * Q), v |-> Word(2 * R),
             q |-> Word(Q - U), r |-> Word(R - V)]
    BY <2>1, <2>6, <2>7
  <2>10. n \in Bat
    BY <1>0, <2>4, <2>8, <2>9 DEF Bat
  <2>11. Row(b, 2 * Q, 2 * R, b.g, 2 * s)
    <3> DEFINE two == 2
    <3>1. two \in Int
      OBVIOUS
    <3> HIDE DEF two
    <3>2. Row(b, two * Q, two * R, b.g, two * s)
      BY <1>0, <1>1, <1>2, <1>3, <3>1, RowScale
    <3> QED BY <3>2 DEF two
  <2>12. Row(b, Q - U, R - V, h, 2 * s)
    <3> DEFINE one == -1
    <3>1. one \in Int
      OBVIOUS
    <3> HIDE DEF one
    <3>2. Row(b, Q + one * U, R + one * V, b.g + one * b.f, s)
      BY <1>0, <1>1, <1>2, <1>3, <3>1, RowAdd
    <3>3. Q + one * U = Q - U /\ R + one * V = R - V /\ b.g + one * b.f = b.g - b.f
      BY <1>0, <1>1 DEF one
    <3>4. Row(b, Q - U, R - V, b.g - b.f, s)
      BY <3>2, <3>3
    <3>5. Row(b, Q - U, R - V, w, s)
      BY <1>0, <1>2, <1>7, <2>2, <3>4, RowWord DEF m
    <3>6. h * (2 * s) = w * s
      BY <1>2, <2>4
    <3> QED BY <3>5, <3>6 DEF Row
  <2>13. /\ n.i = b.i + 1 /\ n.f0 = b.f0 /\ n.g0 = b.g0 /\ n.f = b.g /\ n.g = h
         /\ n.u = Word(2 * Q) /\ n.v = Word(2 * R)
         /\ n.q = Word(Q - U) /\ n.r = Word(R - V) /\ n.eta = -b.eta - 2
    BY <2>9
  <2>14. Odd(n.f) /\ Row(b, 2 * Q, 2 * R, n.f, 2 * s) /\ Row(b, Q - U, R - V, n.g, 2 * s)
    BY <1>11, <2>11, <2>12, <2>13
  <2>15. /\ Tracked("const", n)
         /\ Signed(n.u) = 2 * Q /\ Signed(n.v) = 2 * R
         /\ Signed(n.q) = Q - U /\ Signed(n.r) = R - V
    BY <1>6, <1>7, <1>8, <2>10, <2>13, <2>14
  <2>16. Same(4 * Base, 2 * n.g, b.g - b.f)
    BY <2>2, <2>4, <2>13 DEF m
  <2>17. Halved(b, n)
    BY <1>11, <2>13, <2>15, <2>16 DEF Halved, U, V, Q, R
  <2> QED BY <2>10, <2>15, <2>17 DEF n
<1> QED
  BY <1>0, <1>9, <1>10, <1>11

-------------------------------------------------------------------------------
(* The formulas for the multiple of f that clears the bottom bits of g.       *)

(* The square of an odd number is 1 modulo 8.                                 *)
LEMMA OddSquare ==
  ASSUME NEW a \in Int, Odd(a)
  PROVE  \E k \in Int : a * a - 1 = 8 * k
<1>1. PICK j \in Int : a = 2 * j + 1
  BY OddMeans
<1>2. a * a - 1 = 4 * (j * (j + 1))
  <2>1. (2 * j + 1) * (2 * j + 1) - 1 = 4 * (j * (j + 1))
    OBVIOUS
  <2> QED BY <1>1, <2>1
<1>3. \E k \in Int : j * (j + 1) = 2 * k
  <2>1. CASE Odd(j)
    <3>1. PICK i \in Int : j = 2 * i + 1
      BY <2>1, OddMeans
    <3>2. (2 * i + 1) * ((2 * i + 1) + 1) = 2 * ((2 * i + 1) * (i + 1))
          /\ (2 * i + 1) * (i + 1) \in Int
      OBVIOUS
    <3> QED BY <3>1, <3>2
  <2>2. CASE ~Odd(j)
    <3>1. PICK i \in Int : j = 2 * i
      BY <2>2, OddMeans
    <3>2. (2 * i) * (2 * i + 1) = 2 * (i * (2 * i + 1)) /\ i * (2 * i + 1) \in Int
      OBVIOUS
    <3> QED BY <3>1, <3>2
  <2> QED BY <2>1, <2>2
<1>4. PICK k \in Int : j * (j + 1) = 2 * k
  BY <1>3
<1>5. a * a - 1 = 8 * k
  BY <1>2, <1>4
<1> QED
  BY <1>5

(* f * g * (f * f - 2) clears six bits.                                       *)
LEMMA SixBits ==
  ASSUME NEW a \in Int, NEW c \in Int, Odd(a)
  PROVE  Divides(64, c + a * ((a * c) * (a * a - 2)))
<1>1. PICK k \in Int : a * a - 1 = 8 * k
  BY OddSquare
<1>2. c + a * ((a * c) * (a * a - 2)) = c * ((a * a - 1) * (a * a - 1))
  OBVIOUS
<1>3. c * ((8 * k) * (8 * k)) = 64 * (c * (k * k)) /\ c * (k * k) \in Int
  OBVIOUS
<1>4. c + a * ((a * c) * (a * a - 2)) = 64 * (c * (k * k))
  BY <1>1, <1>2, <1>3
<1>5. c + a * ((a * c) * (a * a - 2)) \in Int
  OBVIOUS
<1> DEFINE n == c + a * ((a * c) * (a * a - 2))
<1> HIDE DEF n
<1>6. n \in Int /\ \E j \in Int : n = 64 * j
  BY <1>3, <1>4, <1>5 DEF n
<1>7. Divides(64, n)
  BY <1>6, DividesIs
<1> QED
  BY <1>7 DEF n

(* The inverse of f modulo 16, up to f + 8.                                   *)
FourBitInverse(n) == n + (IF ((n + 1) \div 4) % 2 = 1 THEN 8 ELSE 0)

LEMMA FourBits ==
  ASSUME NEW a \in Int, NEW c \in Int, Odd(a)
  PROVE  FourBitInverse(a) \in Int
         /\ Divides(16, c + a * ((-FourBitInverse(a)) * c))
<1> DEFINE w == FourBitInverse(a)
           k == a \div 8
           j == a % 8
<1>1. a = 8 * k + j /\ k \in Int /\ j \in 0 .. 7
  <2>1. 8 \in Nat \ {0}
    OBVIOUS
  <2>2. a = 8 * (a \div 8) + (a % 8) /\ a \div 8 \in Int /\ a % 8 \in 0 .. 8 - 1
    BY <2>1, DivMod
  <2> QED BY <2>2
<1> HIDE DEF k, j
<1>2. j \in {1, 3, 5, 7}
  <2>1. PICK i \in Int : a = 2 * i + 1
    BY OddMeans
  <2> QED BY <1>1, <2>1
<1>3. ASSUME NEW i \in Int, NEW t \in 0 .. 3, a + 1 = 4 * i + t
      PROVE  (a + 1) \div 4 = i
  <2>1. 4 \in Nat \ {0} /\ a + 1 \in Int /\ t \in 0 .. 4 - 1
    OBVIOUS
  <2> QED BY <1>3, <2>1, DivUnique
<1>4. ASSUME NEW i \in Int, NEW t \in 0 .. 3, a + 1 = 4 * i + t
      PROVE  w = IF Odd(i) THEN a + 8 ELSE a
  <2>1. (a + 1) \div 4 = i
    BY <1>3, <1>4
  <2> QED BY <2>1 DEF FourBitInverse, Odd
<1>5. \E y \in Int : w \in Int /\ a * w - 1 = 16 * y
  <2>1. CASE j = 1
    <3>1. a + 1 = 4 * (2 * k) + 2 /\ 2 * k \in Int /\ 2 \in 0 .. 3 /\ ~Odd(2 * k)
      BY <1>1, <2>1, OddMeans
    <3>2. w = a
      <4> DEFINE i == 2 * k
      <4>1. i \in Int /\ a + 1 = 4 * i + 2 /\ ~Odd(i)
        BY <3>1
      <4> HIDE DEF i, w
      <4> QED BY <1>4, <4>1
    <3>3. (8 * k + 1) * (8 * k + 1) - 1 = 16 * (4 * (k * k) + k) /\ 4 * (k * k) + k \in Int
      BY <1>1
    <3> DEFINE y == 4 * (k * k) + k
    <3>4. y \in Int /\ w \in Int /\ a * w - 1 = 16 * y
      <4> HIDE DEF w
      <4> QED BY <1>1, <2>1, <3>2, <3>3
    <3> HIDE DEF w, y
    <3> QED BY <3>4
  <2>2. CASE j = 3
    <3>1. a + 1 = 4 * (2 * k + 1) + 0 /\ 2 * k + 1 \in Int /\ 0 \in 0 .. 3 /\ Odd(2 * k + 1)
      BY <1>1, <2>2, OddMeans
    <3>2. w = a + 8
      <4> DEFINE i == 2 * k + 1
      <4>1. i \in Int /\ a + 1 = 4 * i + 0 /\ Odd(i)
        BY <3>1
      <4> HIDE DEF i, w
      <4> QED BY <1>4, <4>1
    <3>3. (8 * k + 3) * ((8 * k + 3) + 8) - 1 = 16 * (4 * (k * k) + 7 * k + 2)
          /\ 4 * (k * k) + 7 * k + 2 \in Int
      BY <1>1
    <3> DEFINE y == 4 * (k * k) + 7 * k + 2
    <3>4. y \in Int /\ w \in Int /\ a * w - 1 = 16 * y
      <4> HIDE DEF w
      <4> QED BY <1>1, <2>2, <3>2, <3>3
    <3> HIDE DEF w, y
    <3> QED BY <3>4
  <2>3. CASE j = 5
    <3>1. a + 1 = 4 * (2 * k + 1) + 2 /\ 2 * k + 1 \in Int /\ 2 \in 0 .. 3 /\ Odd(2 * k + 1)
      BY <1>1, <2>3, OddMeans
    <3>2. w = a + 8
      <4> DEFINE i == 2 * k + 1
      <4>1. i \in Int /\ a + 1 = 4 * i + 2 /\ Odd(i)
        BY <3>1
      <4> HIDE DEF i, w
      <4> QED BY <1>4, <4>1
    <3>3. (8 * k + 5) * ((8 * k + 5) + 8) - 1 = 16 * (4 * (k * k) + 9 * k + 4)
          /\ 4 * (k * k) + 9 * k + 4 \in Int
      BY <1>1
    <3> DEFINE y == 4 * (k * k) + 9 * k + 4
    <3>4. y \in Int /\ w \in Int /\ a * w - 1 = 16 * y
      <4> HIDE DEF w
      <4> QED BY <1>1, <2>3, <3>2, <3>3
    <3> HIDE DEF w, y
    <3> QED BY <3>4
  <2>4. CASE j = 7
    <3>1. a + 1 = 4 * (2 * k + 2) + 0 /\ 2 * k + 2 \in Int /\ 0 \in 0 .. 3 /\ ~Odd(2 * k + 2)
      <4>1. 2 * k + 2 = 2 * (k + 1) /\ k + 1 \in Int /\ 2 * k + 2 \in Int
        BY <1>1
      <4> QED BY <1>1, <2>4, <4>1, OddMeans
    <3>2. w = a
      <4> DEFINE i == 2 * k + 2
      <4>1. i \in Int /\ a + 1 = 4 * i + 0 /\ ~Odd(i)
        BY <3>1
      <4> HIDE DEF i, w
      <4> QED BY <1>4, <4>1
    <3>3. (8 * k + 7) * (8 * k + 7) - 1 = 16 * (4 * (k * k) + 7 * k + 3)
          /\ 4 * (k * k) + 7 * k + 3 \in Int
      BY <1>1
    <3> DEFINE y == 4 * (k * k) + 7 * k + 3
    <3>4. y \in Int /\ w \in Int /\ a * w - 1 = 16 * y
      <4> HIDE DEF w
      <4> QED BY <1>1, <2>4, <3>2, <3>3
    <3> HIDE DEF w, y
    <3> QED BY <3>4
  <2> QED BY <1>2, <2>1, <2>2, <2>3, <2>4
<1> HIDE DEF w
<1>6. PICK y \in Int : w \in Int /\ a * w - 1 = 16 * y
  BY <1>5
<1> DEFINE n == c + a * ((-w) * c)
           i == -(c * y)
<1>7. n \in Int /\ i \in Int /\ n = 16 * i
  <2>1. c + a * ((-w) * c) = -(c * (a * w - 1))
    BY <1>6
  <2>2. -(c * (16 * y)) = 16 * (-(c * y))
    OBVIOUS
  <2>3. c + a * ((-w) * c) \in Int
    BY <1>6
  <2> QED BY <1>6, <2>1, <2>2, <2>3
<1> HIDE DEF n, i
<1>8. Divides(16, n)
  BY <1>7, DividesIs
<1> QED
  BY <1>6, <1>8 DEF n, w

LEMMA SmallPowers ==
  /\ Pow2[0] = 1 /\ Pow2[1] = 2 /\ Pow2[4] = 16 /\ Pow2[6] = 64
<1>1. /\ Pow2[0 + 1] = 2 * Pow2[0] /\ Pow2[1 + 1] = 2 * Pow2[1] /\ Pow2[2 + 1] = 2 * Pow2[2]
      /\ Pow2[3 + 1] = 2 * Pow2[3] /\ Pow2[4 + 1] = 2 * Pow2[4] /\ Pow2[5 + 1] = 2 * Pow2[5]
  BY Pow2Def
<1> QED
  BY <1>1, Pow2Def

-------------------------------------------------------------------------------
(* The steps of a variable-time batch.                                        *)

(* The numbers of a batch before and after z zeros are shifted out.           *)
Shifted(b, n, z) ==
  /\ z \in Nat /\ z <= b.i
  /\ n.i = b.i - z /\ n.f0 = b.f0 /\ n.g0 = b.g0 /\ n.eta = b.eta - z
  /\ n.f = b.f /\ Pow2[z] * n.g = b.g
  /\ Signed(n.u) = Pow2[z] * Signed(b.u) /\ Signed(n.v) = Pow2[z] * Signed(b.v)
  /\ Signed(n.q) = Signed(b.q) /\ Signed(n.r) = Signed(b.r)
  /\ z = Ahead("var", b) /\ Ahead("var", n) = 0

LEMMA ShiftedWord ==
  ASSUME NEW w \in Words, NEW z \in Nat, Divides(Pow2[z], w)
  PROVE  w \div Pow2[z] \in Words /\ Pow2[z] * (w \div Pow2[z]) = w
<1> DEFINE p == Pow2[z]
           h == w \div p
<1>1. p \in Nat \ {0} /\ w \in Int /\ w \in Nat /\ w < 4 * Base /\ 4 * Base \in Int
  BY Pow2Type, WordsAreInts, Widths DEF Words
<1> HIDE DEF p
<1>2. w = p * h + (w % p) /\ h \in Int
  BY <1>1, DivMod
<1>3. w % p = 0
  BY <1>1, DividesMod DEF p
<1> HIDE DEF h
<1>4. w = p * h
  <2>1. p * h + 0 = p * h
    BY <1>1, <1>2
  <2> QED BY <1>2, <1>3, <2>1
<1>5. h >= 0 /\ h <= w
  <2>1. ASSUME h < 0 PROVE FALSE
    <3>1. p * h < 0
      BY <1>1, <1>2, <2>1
    <3> QED BY <1>1, <1>4, <3>1
  <2>2. h >= 0
    BY <1>2, <2>1
  <2>3. p * h = h + (p - 1) * h /\ (p - 1) * h >= 0 /\ (p - 1) * h \in Int
    BY <1>1, <1>2, <2>2
  <2> QED BY <1>1, <1>2, <1>4, <2>2, <2>3
<1>6. h \in Words
  BY <1>1, <1>2, <1>5 DEF Words
<1> QED
  BY <1>4, <1>6 DEF h, p

LEMMA ShiftedZerosTracks ==
  ASSUME NEW b \in Bat, Tracked("var", b)
  PROVE  /\ ShiftedZeros(b) \in Bat /\ Tracked("var", ShiftedZeros(b))
         /\ Shifted(b, ShiftedZeros(b), TrailingZeros(b.g, b.i))
<1> DEFINE n == ShiftedZeros(b)
           z == TrailingZeros(b.g, b.i)
           p == Pow2[z]
           h == b.g \div p
           U == Signed(b.u)
           V == Signed(b.v)
           Q == Signed(b.q)
           R == Signed(b.r)
           var == "var"
           s == Scale(var, b)
           det == Determinant(var, b)
           m == 4 * Base
<1>0. /\ b.i \in Nat /\ b.i <= W /\ W \in Nat /\ b.eta \in Int
      /\ b.f0 \in Int /\ b.g0 \in Int /\ b.f \in Int /\ b.g \in Int
      /\ b.f0 \in Words /\ b.g0 \in Words /\ b.f \in Words /\ b.g \in Words
      /\ b.u \in Words /\ b.v \in Words /\ b.q \in Words /\ b.r \in Words
  BY BatTypes, Widths
<1>1. b.u \in Int /\ b.v \in Int /\ b.q \in Int /\ b.r \in Int
      /\ U \in Int /\ V \in Int /\ Q \in Int /\ R \in Int
  BY BatTypes
<1>2. s \in Nat \ {0} /\ s \in Int /\ det \in Int /\ m \in Int
  BY ScaleType, Widths
<1>3. /\ Odd(b.f) /\ Row(b, U, V, b.f, s) /\ Row(b, Q, R, b.g, s)
      /\ Fits(U, V, Q, R, s, ScaleG(var, b), det)
      /\ Same(m, b.u, U) /\ Same(m, b.v, V) /\ Same(m, b.q, Q) /\ Same(m, b.r, R)
  BY TrackedParts
<1>4. z \in 0 .. b.i /\ z \in Nat /\ Divides(p, b.g) /\ (z < b.i => ~Divides(Pow2[z + 1], b.g))
  BY <1>0, TrailingZerosAre
<1>5. p \in Nat \ {0} /\ p \in Int
  BY <1>4, Pow2Type
<1>6. h \in Words /\ h \in Int /\ p * h = b.g
  <2> HIDE DEF z
  <2> QED BY <1>0, <1>4, ShiftedWord, WordsAreInts
<1>7. z = Ahead(var, b) /\ ScaleG(var, b) = s * p
  BY DEF Ahead, ScaleG
<1>8. Word(b.u * p) = Word(p * U) /\ Word(b.v * p) = Word(p * V)
      /\ p * U \in Int /\ p * V \in Int
  <2> HIDE DEF p, U, V, m
  <2>1. ASSUME NEW w \in Int, NEW k \in Int, Same(m, w, k)
        PROVE  Word(w * p) = Word(p * k)
    <3>1. Same(m, p * w, p * k)
      BY <1>2, <1>5, <2>1, SameScale
    <3>2. w * p = p * w /\ p * w \in Int /\ p * k \in Int
      BY <1>5
    <3> QED BY <3>1, <3>2, WordSame DEF m
  <2> QED BY <1>1, <1>3, <1>5, <2>1
<1>9. n = [b EXCEPT !.i = b.i - z, !.eta = b.eta - z, !.g = h,
                    !.u = Word(b.u * p), !.v = Word(b.v * p)]
  BY DEF ShiftedZeros
<1>10. Word(p * U) \in Words /\ Word(p * V) \in Words /\ Word(Q) = b.q /\ Word(R) = b.r
  <2>1. Word(p * U) \in Words /\ Word(p * V) \in Words
    <3> HIDE DEF p, U, V
    <3> QED BY <1>8, WordType
  <2>2. Word(b.q) = b.q /\ Word(b.r) = b.r
    BY <1>0, WordsAreInts
  <2> HIDE DEF Q, R
  <2> QED BY <1>1, <1>3, <2>1, <2>2, WordSame DEF m
<1>11. b.i - z \in 0 .. W /\ b.eta - z \in Int
  <2> HIDE DEF z
  <2> QED BY <1>0, <1>4
<1> HIDE DEF n, h, U, V, Q, R, var, s, det, m
<1>12. n \in Bat
  <2> HIDE DEF z, p
  <2> QED BY <1>6, <1>8, <1>9, <1>10, <1>11 DEF Bat
<1>13. /\ n.i = b.i - z /\ n.f0 = b.f0 /\ n.g0 = b.g0 /\ n.f = b.f /\ n.g = h
       /\ n.u = Word(p * U) /\ n.v = Word(p * V) /\ n.q = Word(Q) /\ n.r = Word(R)
       /\ n.eta = b.eta - z
  <2> HIDE DEF z, p
  <2> QED BY <1>8, <1>9, <1>10 DEF Bat
(* The zeros are gone.                                                        *)
<1>14. Ahead(var, n) = 0
  <2>1. Odd(h) \/ n.i = 0
    <3>1. SUFFICES ASSUME ~Odd(h), n.i # 0 PROVE FALSE
      OBVIOUS
    <3>2. z < b.i
      <4> HIDE DEF z
      <4> QED BY <1>0, <1>4, <1>13, <3>1
    <3>3. PICK k \in Int : h = 2 * k
      BY <1>6, <3>1, OddMeans
    <3>4. Pow2[z + 1] = 2 * p /\ z + 1 \in Nat /\ Pow2[z + 1] \in Int
      <4>1. z + 1 \in Nat
        BY <1>4
      <4> QED BY <1>4, <4>1, Pow2Def, Pow2Type
    <3>5. b.g = Pow2[z + 1] * k
      <4>1. p * (2 * k) = (2 * p) * k
        <5> HIDE DEF p
        <5> QED BY <1>5
      <4> QED BY <1>6, <3>3, <3>4, <4>1
    <3>6. Divides(Pow2[z + 1], b.g)
      <4> DEFINE y == Pow2[z + 1]
      <4>1. y \in Int /\ b.g = y * k
        BY <3>4, <3>5
      <4> HIDE DEF y
      <4>2. Divides(y, b.g)
        BY <1>0, <4>1, DividesIs
      <4> QED BY <4>2 DEF y
    <3> QED BY <1>4, <3>2, <3>6
  <2>2. n.i \in Nat
    BY <1>12, BatTypes
  <2>3. TrailingZeros(h, n.i) = 0
    BY <1>6, <2>1, <2>2, OddHasNone
  <2> QED BY <1>13, <2>3 DEF Ahead, var
<1>15. Scale(var, n) = p * s /\ ScaleG(var, n) = p * s /\ Determinant(var, n) = p * det
  <2> DEFINE k == W - b.i
             j == W - n.i
  <2>1. k \in Nat /\ z + k = j
    <3> HIDE DEF z
    <3> QED BY <1>0, <1>4, <1>13
  <2> HIDE DEF k
  <2>2. Pow2[z + k] = Pow2[z] * Pow2[k]
    <3> HIDE DEF z
    <3> QED BY <1>4, <2>1, Pow2Add
  <2>3. Pow2[j] = p * Pow2[k]
    BY <2>1, <2>2
  <2>4. Scale(var, n) = Pow2[j] /\ s = Pow2[k] /\ det = Pow2[k] /\ Determinant(var, n) = Pow2[j]
    BY DEF Scale, Determinant, var, s, det, k
  <2>5. ScaleG(var, n) = Scale(var, n) * 1
    BY <1>14, Pow2Def DEF ScaleG
  <2>6. Scale(var, n) = p * s
    BY <2>3, <2>4
  <2>7. (p * s) * 1 = p * s
    <3> HIDE DEF p
    <3> QED BY <1>2, <1>5
  <2> QED BY <2>3, <2>4, <2>5, <2>6, <2>7
<1> HIDE DEF p
<1>16. Row(b, p * U, p * V, b.f, p * s)
  BY <1>0, <1>1, <1>2, <1>3, <1>5, RowScale
<1>17. Row(b, Q, R, h, p * s)
  <2>1. h * (p * s) = (p * h) * s
    BY <1>2, <1>5, <1>6
  <2>2. h * (p * s) = b.g * s
    BY <1>6, <2>1
  <2> QED BY <1>3, <2>2 DEF Row
<1>18. Fits(p * U, p * V, Q, R, p * s, p * s, p * det)
  BY <1>1, <1>2, <1>3, <1>5, <1>7, FitsShifted
<1>19. /\ Row(n, p * U, p * V, n.f, Scale(var, n)) /\ Row(n, Q, R, n.g, Scale(var, n))
       /\ Fits(p * U, p * V, Q, R, Scale(var, n), ScaleG(var, n), Determinant(var, n))
       /\ Odd(n.f)
  <2>1. Row(n, p * U, p * V, b.f, p * s) /\ Row(n, Q, R, h, p * s)
    BY <1>13, <1>16, <1>17 DEF Row
  <2> QED BY <1>3, <1>13, <1>15, <1>18, <2>1
<1>20. var = "const" => n.i >= Pad
  BY DEF var
<1>21. /\ Tracked(var, n)
       /\ Signed(n.u) = p * U /\ Signed(n.v) = p * V /\ Signed(n.q) = Q /\ Signed(n.r) = R
  BY <1>1, <1>8, <1>12, <1>13, <1>19, <1>20, TrackedIf
<1>22. Shifted(b, n, z)
  <2>1. z \in Nat /\ z <= b.i
    <3> HIDE DEF z
    <3> QED BY <1>0, <1>4
  <2>2. p * n.g = b.g /\ n.i = b.i - z /\ n.eta = b.eta - z
    BY <1>6, <1>13
  <2> HIDE DEF z
  <2> QED BY <1>7, <1>13, <1>14, <1>21, <2>1, <2>2 DEF Shifted, p, U, V, Q, R, var
<1> QED
  BY <1>12, <1>21, <1>22 DEF n, var

LEMMA CancellableIs ==
  ASSUME NEW b, b.eta \in Int, b.eta >= 0, b.i \in Nat \ {0}, NEW most \in Nat \ {0}
  PROVE  LET k == Cancellable(b, most)
         IN  k \in Nat \ {0} /\ k <= b.i /\ k <= most /\ k <= b.eta + 1
  BY DEF Cancellable, Lower

(* The words of Cancelled, with the multiple of f it adds.                    *)
LEMMA CancelledIs ==
  ASSUME NEW b \in Bat, NEW k \in Nat, NEW w \in Int
  PROVE  LET t == w % Pow2[k]
         IN  /\ t \in 0 .. Pow2[k] - 1 /\ Same(Pow2[k], t, w)
             /\ Cancelled(b, k, w) \in Bat
             /\ Cancelled(b, k, w) =
                  [b EXCEPT !.g = Word(b.g + b.f * t), !.q = Word(b.q + b.u * t),
                            !.r = Word(b.r + b.v * t)]
<1> DEFINE p == Pow2[k]
           t == w % p
<1>1. p \in Nat \ {0}
  BY Pow2Type
<1> HIDE DEF p
<1>2. t \in 0 .. p - 1 /\ t \in Int /\ w = p * (w \div p) + t /\ w \div p \in Int
  BY <1>1, DivMod
<1> HIDE DEF t
<1>3. Same(p, t, w)
  <2>1. t = w + p * (-(w \div p)) /\ -(w \div p) \in Int
    BY <1>1, <1>2
  <2> QED BY <2>1 DEF Same
<1>4. Cancelled(b, k, w) =
        [b EXCEPT !.g = Word(b.g + b.f * t), !.q = Word(b.q + b.u * t), !.r = Word(b.r + b.v * t)]
  BY DEF Cancelled, t, p
<1>5. /\ b.g + b.f * t \in Int /\ b.q + b.u * t \in Int /\ b.r + b.v * t \in Int
  BY <1>2, BatTypes
<1> DEFINE i1 == Word(b.g + b.f * t)
           i2 == Word(b.q + b.u * t)
           i3 == Word(b.r + b.v * t)
<1>6. i1 \in Words /\ i2 \in Words /\ i3 \in Words
  BY <1>5, WordType
<1> HIDE DEF i1, i2, i3
<1>7. [b EXCEPT !.g = i1, !.q = i2, !.r = i3] \in Bat
  BY <1>6 DEF Bat
<1>8. Cancelled(b, k, w) \in Bat
  BY <1>4, <1>7 DEF i1, i2, i3
<1> QED
  BY <1>2, <1>3, <1>4, <1>8 DEF t, p

(* When w times f cancels the bottom k bits of g, so do its bottom k bits,    *)
(* also in words.                                                             *)
LEMMA BitsCancelled ==
  ASSUME NEW k \in Nat, k <= W, NEW most \in Nat, k <= most,
         NEW a \in Int, NEW c \in Int, NEW w \in Int, NEW t \in Int, NEW n \in Int,
         Divides(Pow2[most], c + a * w), Same(Pow2[k], t, w), Same(4 * Base, n, c + a * t)
  PROVE  Divides(Pow2[k], n)
<1> DEFINE p == Pow2[k]
           i == c + a * w
           j == c + a * t
<1>1. p \in Int /\ i \in Int /\ j \in Int /\ a * w \in Int /\ a * t \in Int
  BY Pow2Type
<1>2. Same(p, a * t, a * w)
  <2> HIDE DEF p
  <2> QED BY <1>1, SameScale DEF p
<1>3. Same(p, j, i)
  <2>1. Same(p, c, c)
    <3> HIDE DEF p
    <3> QED BY <1>1, SameRefl
  <2> DEFINE y1 == a * t
             y2 == a * w
  <2>2. y1 \in Int /\ y2 \in Int /\ Same(p, y1, y2)
    BY <1>1, <1>2
  <2> HIDE DEF p, y1, y2
  <2>3. Same(p, c + y1, c + y2)
    BY <1>1, <2>1, <2>2, SameAdd
  <2> QED BY <2>3 DEF y1, y2
<1>4. Same(Pow2[most], i, 0)
  BY DEF Divides
<1>5. k <= W + 2
  BY Widths
<1> DEFINE o == 0
<1>6. o \in Int /\ Same(Pow2[most], i, o)
  BY <1>4
<1> HIDE DEF i, j, o
<1>7. Same(p, i, o)
  BY <1>1, <1>6, Pow2Coarser DEF p
<1>8. Same(p, n, j)
  <2>1. Same(4 * Base, n, j)
    BY DEF j
  <2> QED BY <1>1, <1>5, <2>1, WordMod DEF p
<1> HIDE DEF p
<1>9. Same(p, n, o)
  BY <1>1, <1>3, <1>6, <1>7, <1>8, SameTrans
<1> QED
  BY <1>9 DEF Divides, o, p

(* The numbers of a batch before and after bits are cancelled.                *)
CancelledBy(b, n, k, t) ==
  /\ k \in Nat \ {0} /\ k <= b.i /\ t \in Nat /\ t < Pow2[k]
  /\ n.i = b.i /\ n.f0 = b.f0 /\ n.g0 = b.g0 /\ Divides(Pow2[k], n.g)
  /\ \/ /\ b.eta >= 0 /\ k <= b.eta + 1
        /\ n.eta = b.eta /\ n.f = b.f /\ Same(4 * Base, n.g, b.g + t * b.f)
        /\ Signed(n.u) = Signed(b.u) /\ Signed(n.v) = Signed(b.v)
        /\ Signed(n.q) = Signed(b.q) + t * Signed(b.u)
        /\ Signed(n.r) = Signed(b.r) + t * Signed(b.v)
     \/ /\ b.eta < 0 /\ k <= -b.eta + 1
        /\ n.eta = -b.eta /\ n.f = b.g /\ Same(4 * Base, n.g, t * b.g - b.f)
        /\ Signed(n.u) = Signed(b.q) /\ Signed(n.v) = Signed(b.r)
        /\ Signed(n.q) = t * Signed(b.q) - Signed(b.u)
        /\ Signed(n.r) = t * Signed(b.r) - Signed(b.v)

(* A cancelled batch is tracked: the row of g is larger, but what is shifted  *)
(* out next makes up for it.                                                  *)
Cancelling(b, n, k, t, u, v, q, r) ==
  /\ b \in Bat /\ n \in Bat /\ n.i = b.i /\ n.f0 = b.f0 /\ n.g0 = b.g0
  /\ Tracked("var", b) /\ Ahead("var", b) = 0
  /\ k \in Nat /\ k <= b.i /\ Divides(Pow2[k], n.g) /\ t \in Nat /\ t < Pow2[k]
  /\ u \in Int /\ v \in Int /\ q \in Int /\ r \in Int
  /\ n.u = Word(u) /\ n.v = Word(v) /\ n.q = Word(q) /\ n.r = Word(r) /\ Odd(n.f)
  /\ Row(b, u, v, n.f, Scale("var", b)) /\ Row(b, q, r, n.g, Scale("var", b))
  /\ \/ /\ u = Signed(b.u) /\ q = Signed(b.q) + t * Signed(b.u)
        /\ v = Signed(b.v) /\ r = Signed(b.r) + t * Signed(b.v)
     \/ /\ u = Signed(b.q) /\ q = t * Signed(b.q) - Signed(b.u) /\ t >= 1
        /\ v = Signed(b.r) /\ r = t * Signed(b.r) - Signed(b.v)

LEMMA CancelledTracks ==
  ASSUME NEW b, NEW n, NEW k, NEW t, NEW u, NEW v, NEW q, NEW r,
         Cancelling(b, n, k, t, u, v, q, r)
  PROVE  /\ Tracked("var", n)
         /\ Signed(n.u) = u /\ Signed(n.v) = v /\ Signed(n.q) = q /\ Signed(n.r) = r
<1> DEFINE var == "var"
           s == Scale(var, b)
           det == Determinant(var, b)
           U == Signed(b.u)
           V == Signed(b.v)
           Q == Signed(b.q)
           R == Signed(b.r)
           p == Pow2[k]
           y == Pow2[Ahead(var, n)]
           l == ScaleG(var, n)
<1>0. /\ b \in Bat /\ n \in Bat /\ n.i = b.i /\ n.f0 = b.f0 /\ n.g0 = b.g0
      /\ Tracked("var", b) /\ Ahead("var", b) = 0
      /\ k \in Nat /\ k <= b.i /\ Divides(Pow2[k], n.g) /\ t \in Nat /\ t < Pow2[k]
      /\ u \in Int /\ v \in Int /\ q \in Int /\ r \in Int
      /\ n.u = Word(u) /\ n.v = Word(v) /\ n.q = Word(q) /\ n.r = Word(r) /\ Odd(n.f)
      /\ Row(b, u, v, n.f, s) /\ Row(b, q, r, n.g, s)
  BY DEF Cancelling
<1>12. \/ u = U /\ q = Q + t * U /\ v = V /\ r = R + t * V
       \/ u = Q /\ q = t * Q - U /\ v = R /\ r = t * R - V /\ t >= 1
  BY DEF Cancelling
<1>1. Scale(var, n) = s /\ Determinant(var, n) = det /\ ScaleG(var, n) = s * y
  BY <1>0 DEF Scale, Determinant, ScaleG
<1>2. s \in Nat \ {0} /\ s \in Int /\ det \in Int /\ y \in Nat /\ p \in Nat \ {0} /\ p \in Int
      /\ l \in Int
  BY <1>0, ScaleType, Pow2Type
<1>3. p <= y
  <2> DEFINE z == TrailingZeros(n.g, n.i)
  <2>1. n.g \in Int /\ n.i \in Nat /\ k \in 0 .. n.i
    BY <1>0, BatTypes
  <2>2. k <= z /\ z \in Nat
    BY <1>0, <2>1, TrailingZerosAtLeast, TrailingZerosAre
  <2> HIDE DEF z
  <2>3. Pow2[k] <= Pow2[z]
    BY <1>0, <2>2, Pow2Least
  <2> QED BY <2>3 DEF Ahead, z
<1>4. U \in Int /\ V \in Int /\ Q \in Int /\ R \in Int
  BY <1>0, BatTypes
<1>5. Fits(U, V, Q, R, s, s, det)
  <2>1. Fits(U, V, Q, R, s, ScaleG(var, b), det)
    BY <1>0, TrackedParts
  <2>2. ScaleG(var, b) = s * 1
    BY <1>0, Pow2Def DEF ScaleG
  <2>3. s * 1 = s
    BY <1>2
  <2> QED BY <2>1, <2>2, <2>3
<1>6. s * p <= l
  <2>1. l = s * y
    BY <1>1
  <2> HIDE DEF s, p, y, l
  <2>2. s * y = s * p + s * (y - p) /\ y - p \in Nat
    BY <1>2, <1>3
  <2>3. s * (y - p) >= 0 /\ s * (y - p) \in Int /\ s * p \in Int
    BY <1>2, <2>2
  <2> QED BY <1>2, <2>1, <2>2, <2>3
<1>7. Fits(u, v, q, r, s, l, det)
  <2> HIDE DEF s, det, U, V, Q, R, p, l
  <2>1. /\ Fits(U, V, Q + t * U, R + t * V, s, l, det)
        /\ t >= 1 => Fits(Q, R, t * Q - U, t * R - V, s, l, det)
    <3>1. t < p
      BY <1>0 DEF p
    <3> QED BY <1>0, <1>2, <1>4, <1>5, <1>6, <3>1, FitsCancelled
  <2> QED BY <1>12, <2>1
<1>8. Row(n, u, v, n.f, s) /\ Row(n, q, r, n.g, s)
  BY <1>0 DEF Row
<1> HIDE DEF s, det, U, V, Q, R, p, y, l
<1>9. /\ Row(n, u, v, n.f, Scale(var, n)) /\ Row(n, q, r, n.g, Scale(var, n))
      /\ Fits(u, v, q, r, Scale(var, n), ScaleG(var, n), Determinant(var, n))
  BY <1>1, <1>7, <1>8 DEF l
<1>10. var = "const" => n.i >= Pad
  OBVIOUS
<1> HIDE DEF var
<1>11. /\ Tracked(var, n)
       /\ Signed(n.u) = u /\ Signed(n.v) = v /\ Signed(n.q) = q /\ Signed(n.r) = r
  BY <1>0, <1>9, <1>10, TrackedIf
<1> QED
  BY <1>11 DEF var

LEMMA TimesWord ==
  ASSUME NEW a \in Int, NEW A \in Int, NEW c \in Int, NEW C \in Int, NEW t \in Int,
         Same(4 * Base, a, A), Same(4 * Base, c, C)
  PROVE  Word(c + a * t) = Word(C + t * A)
<1> DEFINE m == 4 * Base
           k == a * t
           K == t * A
<1>1. m \in Int /\ k \in Int /\ K \in Int /\ a * t = t * a
  BY Widths
<1>2. Same(m, a * t, A * t)
  <2>1. Same(m, a, A)
    OBVIOUS
  <2> HIDE DEF m
  <2> QED BY <1>1, <2>1, SameScale
<1>3. Same(m, k, K)
  <2>1. A * t = t * A
    OBVIOUS
  <2> QED BY <1>2, <2>1
<1> HIDE DEF m, k, K
<1>4. Word(c + k) = Word(C + K)
  BY <1>1, <1>3, WordPlus DEF m
<1> QED
  BY <1>4 DEF k, K

LEMMA CancelledBitsTracks ==
  ASSUME NEW b \in Bat, Tracked("var", b), b.i > 0, Odd(b.g), b.eta >= 0
  PROVE  /\ CancelledBits(b) \in Bat /\ Tracked("var", CancelledBits(b))
         /\ \E k \in Nat, t \in Nat : CancelledBy(b, CancelledBits(b), k, t)
<1> DEFINE n == CancelledBits(b)
           w == (-FourBitInverse(b.f)) * b.g
           k == Cancellable(b, 4)
           t == w % Pow2[k]
           U == Signed(b.u)
           V == Signed(b.v)
           Q == Signed(b.q)
           R == Signed(b.r)
           var == "var"
           s == Scale(var, b)
           m == 4 * Base
           g1 == b.g + b.f * t
           q1 == Q + t * U
           r1 == R + t * V
<1>0. /\ b.i \in Nat \ {0} /\ b.i \in Nat /\ b.i <= W /\ b.eta \in Int
      /\ b.f0 \in Int /\ b.g0 \in Int /\ b.f \in Int /\ b.g \in Int
      /\ b.u \in Words /\ b.v \in Words /\ b.q \in Words /\ b.r \in Words
  BY BatTypes
<1>1. b.u \in Int /\ b.v \in Int /\ b.q \in Int /\ b.r \in Int
      /\ U \in Int /\ V \in Int /\ Q \in Int /\ R \in Int
  BY BatTypes
<1>2. s \in Int /\ m \in Int
  BY ScaleType, Widths
<1>3. /\ Odd(b.f) /\ Row(b, U, V, b.f, s) /\ Row(b, Q, R, b.g, s)
      /\ Same(m, b.u, U) /\ Same(m, b.v, V) /\ Same(m, b.q, Q) /\ Same(m, b.r, R)
  BY TrackedParts
<1>4. k \in Nat \ {0} /\ k \in Nat /\ k <= b.i /\ k <= 4 /\ k <= b.eta + 1 /\ k <= W
  <2> DEFINE most == 4
  <2>1. most \in Nat \ {0}
    OBVIOUS
  <2> HIDE DEF most
  <2>2. LET j == Cancellable(b, most)
        IN  j \in Nat \ {0} /\ j <= b.i /\ j <= most /\ j <= b.eta + 1
    BY <1>0, <2>1, CancellableIs
  <2> DEFINE j == Cancellable(b, most)
  <2>3. j \in Nat \ {0} /\ j <= b.i /\ j <= most /\ j <= b.eta + 1
    BY <2>2
  <2>4. k = j
    BY DEF most
  <2> HIDE DEF k, j
  <2>5. most = 4 /\ W \in Nat
    BY Widths DEF most
  <2> QED BY <1>0, <2>3, <2>4, <2>5
<1>5. w \in Int /\ Divides(16, b.g + b.f * w)
  BY <1>0, <1>3, FourBits
<1>6. n = Cancelled(b, k, w)
  BY DEF CancelledBits, FourBitInverse
<1> HIDE DEF w, k, n
<1>7. /\ t \in 0 .. Pow2[k] - 1 /\ Same(Pow2[k], t, w) /\ n \in Bat
      /\ n = [b EXCEPT !.g = Word(b.g + b.f * t), !.q = Word(b.q + b.u * t),
                       !.r = Word(b.r + b.v * t)]
  <2>1. w \in Int /\ k \in Nat
    BY <1>4, <1>5
  <2>2. LET y == w % Pow2[k]
        IN  /\ y \in 0 .. Pow2[k] - 1 /\ Same(Pow2[k], y, w)
            /\ Cancelled(b, k, w) \in Bat
            /\ Cancelled(b, k, w) =
                 [b EXCEPT !.g = Word(b.g + b.f * y), !.q = Word(b.q + b.u * y),
                           !.r = Word(b.r + b.v * y)]
    BY <2>1, CancelledIs
  <2> QED BY <1>6, <2>2
<1>8. t \in Nat /\ t \in Int /\ t < Pow2[k]
  <2>1. Pow2[k] \in Nat
    BY <1>4, Pow2Type
  <2> HIDE DEF t
  <2> QED BY <1>7, <2>1
<1>9. Word(b.q + b.u * t) = Word(q1) /\ Word(b.r + b.v * t) = Word(r1) /\ q1 \in Int /\ r1 \in Int
  <2> HIDE DEF t, U, V, Q, R, m
  <2>1. Word(b.q + b.u * t) = Word(Q + t * U) /\ Word(b.r + b.v * t) = Word(R + t * V)
    BY <1>1, <1>3, <1>8, TimesWord DEF m
  <2> QED BY <1>1, <1>8, <2>1
<1>10. Word(b.u) = b.u /\ Word(b.v) = b.v /\ b.u = Word(U) /\ b.v = Word(V)
  <2>1. Word(b.u) = b.u /\ Word(b.v) = b.v
    BY <1>0, WordsAreInts
  <2> HIDE DEF U, V
  <2> QED BY <1>1, <1>3, <2>1, WordSame DEF m
<1>11. g1 \in Int /\ g1 = b.g + t * b.f /\ Word(g1) \in Int /\ Same(m, Word(g1), g1)
  <2> HIDE DEF t
  <2>1. b.f * t = t * b.f /\ b.g + b.f * t \in Int
    BY <1>0, <1>8
  <2> QED BY <1>0, <2>1, WordType
<1> HIDE DEF n, t, U, V, Q, R, var, s, m, q1, r1
<1>12. /\ n.i = b.i /\ n.f0 = b.f0 /\ n.g0 = b.g0 /\ n.f = b.f /\ n.g = Word(g1)
       /\ n.u = Word(U) /\ n.v = Word(V) /\ n.q = Word(q1) /\ n.r = Word(r1) /\ n.eta = b.eta
  BY <1>7, <1>9, <1>10 DEF Bat
<1>13. Divides(Pow2[k], n.g)
  <2>1. Divides(Pow2[4], b.g + b.f * w)
    BY <1>5, SmallPowers
  <2> DEFINE most == 4
             y == Word(g1)
  <2>2. most \in Nat /\ k <= most /\ Divides(Pow2[most], b.g + b.f * w)
    BY <1>4, <2>1
  <2>3. y \in Int /\ Same(4 * Base, y, b.g + b.f * t)
    BY <1>11 DEF m
  <2> HIDE DEF most, y
  <2>4. Divides(Pow2[k], y)
    BY <1>0, <1>4, <1>5, <1>7, <1>8, <2>2, <2>3, BitsCancelled
  <2> QED BY <1>12, <2>4 DEF y
<1>14. Ahead(var, b) = 0
  <2>1. TrailingZeros(b.g, b.i) = 0
    BY <1>0, OddHasNone
  <2> QED BY <2>1 DEF Ahead, var
<1>15. Row(b, U, V, n.f, s) /\ Row(b, q1, r1, n.g, s)
  <2>1. Row(b, Q + t * U, R + t * V, b.g + t * b.f, s)
    BY <1>0, <1>1, <1>2, <1>3, <1>8, RowAdd
  <2>2. Row(b, q1, r1, g1, s)
    BY <1>11, <2>1 DEF q1, r1
  <2> HIDE DEF g1
  <2>3. Row(b, q1, r1, Word(g1), s)
    BY <1>0, <1>2, <1>9, <1>11, <2>2, RowWord DEF m
  <2> QED BY <1>3, <1>12, <2>3
<1>16. /\ Tracked("var", n)
       /\ Signed(n.u) = U /\ Signed(n.v) = V /\ Signed(n.q) = q1 /\ Signed(n.r) = r1
  <2>1. Row(b, U, V, n.f, Scale("var", b)) /\ Row(b, q1, r1, n.g, Scale("var", b))
        /\ Ahead("var", b) = 0 /\ Odd(n.f)
    BY <1>3, <1>12, <1>14, <1>15 DEF var, s
  <2>2. U = Signed(b.u) /\ q1 = Signed(b.q) + t * Signed(b.u)
        /\ V = Signed(b.v) /\ r1 = Signed(b.r) + t * Signed(b.v)
    BY DEF U, V, Q, R, q1, r1
  <2>3. k <= b.i /\ k \in Nat /\ n \in Bat /\ n.i = b.i /\ n.f0 = b.f0 /\ n.g0 = b.g0
        /\ n.u = Word(U) /\ n.v = Word(V) /\ n.q = Word(q1) /\ n.r = Word(r1)
    BY <1>4, <1>7, <1>12
  <2>4. Cancelling(b, n, k, t, U, V, q1, r1)
    BY <1>1, <1>8, <1>9, <1>13, <2>1, <2>2, <2>3 DEF Cancelling
  <2> QED BY <2>4, CancelledTracks
<1>17. CancelledBy(b, n, k, t)
  <2>1. Same(4 * Base, n.g, b.g + t * b.f)
    BY <1>11, <1>12 DEF m
  <2> HIDE DEF g1
  <2> QED BY <1>4, <1>8, <1>12, <1>13, <1>16, <2>1 DEF CancelledBy, U, V, Q, R, q1, r1
<1> QED
  BY <1>4, <1>7, <1>8, <1>16, <1>17 DEF n

LEMMA SwappedIs ==
  ASSUME NEW b \in Bat
  PROVE  /\ Swapped(b) \in Bat
         /\ Swapped(b) = [b EXCEPT !.eta = -b.eta, !.f = b.g, !.g = Word(-b.f), !.u = b.q,
                                   !.q = Word(-b.u), !.v = b.r, !.r = Word(-b.v)]
<1>1. Swapped(b) = [b EXCEPT !.eta = -b.eta, !.f = b.g, !.g = Word(-b.f), !.u = b.q,
                             !.q = Word(-b.u), !.v = b.r, !.r = Word(-b.v)]
  BY DEF Swapped
<1>2. -b.eta \in Int /\ -b.f \in Int /\ -b.u \in Int /\ -b.v \in Int
  BY BatTypes
<1> DEFINE i1 == Word(-b.f)
           i2 == Word(-b.u)
           i3 == Word(-b.v)
           i4 == -b.eta
<1>3. i1 \in Words /\ i2 \in Words /\ i3 \in Words /\ i4 \in Int
  BY <1>2, WordType
<1>4. b.g \in Words /\ b.q \in Words /\ b.r \in Words
  BY BatTypes
<1> HIDE DEF i1, i2, i3, i4
<1>5. [b EXCEPT !.eta = i4, !.f = b.g, !.g = i1, !.u = b.q, !.q = i2, !.v = b.r, !.r = i3] \in Bat
  BY <1>3, <1>4 DEF Bat
<1> QED
  BY <1>1, <1>5 DEF i1, i2, i3, i4

LEMMA NegatedWord ==
  ASSUME NEW a \in Int, NEW A \in Int, Same(4 * Base, a, A)
  PROVE  Same(4 * Base, Word(-a), -A) /\ Word(-a) \in Int /\ -A \in Int
<1> DEFINE m == 4 * Base
           c == -a
           C == -A
<1>1. m \in Int /\ c \in Int /\ C \in Int
  BY Widths
<1>2. Same(m, c, C)
  <2> HIDE DEF m
  <2> QED BY <1>1, SameScale DEF m
<1> HIDE DEF c, C
<1>3. Word(c) \in Int /\ Same(m, Word(c), c)
  BY <1>1, WordType
<1> HIDE DEF m
<1>4. Same(m, Word(c), C)
  BY <1>1, <1>2, <1>3, SameTrans
<1> QED
  BY <1>1, <1>3, <1>4 DEF m, c, C

(* The product of the words is congruent to the product.                      *)
LEMMA SixBitFactor ==
  ASSUME NEW a \in Int, NEW c \in Int
  PROVE  LET w == Word(a * c) * Word(a * a - 2)
         IN  w \in Int /\ Same(4 * Base, w, (a * c) * (a * a - 2))
<1> DEFINE m == 4 * Base
           i == a * c
           j == a * a - 2
           I == Word(i)
           J == Word(j)
<1>1. m \in Int /\ i \in Int /\ j \in Int
  BY Widths
<1>2. I \in Int /\ J \in Int /\ Same(m, I, i) /\ Same(m, J, j)
  <2> HIDE DEF i, j
  <2> QED BY <1>1, WordType
<1> HIDE DEF m, i, j, I, J
<1>3. Same(m, I * J, i * J) /\ Same(m, i * J, i * j)
  BY <1>1, <1>2, SameScale
<1> DEFINE k1 == I * J
           k2 == i * J
           k3 == i * j
<1>4. k1 \in Int /\ k2 \in Int /\ k3 \in Int
  BY <1>1, <1>2
<1>5. Same(m, k1, k2) /\ Same(m, k2, k3)
  BY <1>3
<1> HIDE DEF k1, k2, k3
<1>6. Same(m, k1, k3)
  BY <1>1, <1>4, <1>5, SameTrans
<1> QED
  BY <1>4, <1>6 DEF k1, k3, I, J, i, j, m

LEMMA SwappedAndCancelledTracks ==
  ASSUME NEW b \in Bat, Tracked("var", b), b.i > 0, Odd(b.g), b.eta < 0
  PROVE  /\ SwappedAndCancelled(b) \in Bat /\ Tracked("var", SwappedAndCancelled(b))
         /\ \E k \in Nat, t \in Nat : CancelledBy(b, SwappedAndCancelled(b), k, t)
<1> DEFINE n == SwappedAndCancelled(b)
           c == Swapped(b)
           w == Word(c.f * c.g) * Word(c.f * c.f - 2)
           k == Cancellable(c, 6)
           y == (b.g * Word(-b.f)) * (b.g * b.g - 2)
           t == w % Pow2[k]
           U == Signed(b.u)
           V == Signed(b.v)
           Q == Signed(b.q)
           R == Signed(b.r)
           var == "var"
           s == Scale(var, b)
           m == 4 * Base
           nf == Word(-b.f)
           nu == Word(-b.u)
           nv == Word(-b.v)
           g1 == nf + b.g * t
           q1 == t * Q - U
           r1 == t * R - V
<1>0. /\ b.i \in Nat \ {0} /\ b.i \in Nat /\ b.i <= W /\ b.eta \in Int
      /\ b.f0 \in Int /\ b.g0 \in Int /\ b.f \in Int /\ b.g \in Int
      /\ b.u \in Words /\ b.v \in Words /\ b.q \in Words /\ b.r \in Words
  BY BatTypes
<1>1. b.u \in Int /\ b.v \in Int /\ b.q \in Int /\ b.r \in Int
      /\ U \in Int /\ V \in Int /\ Q \in Int /\ R \in Int
  BY BatTypes
<1>2. s \in Int /\ m \in Int
  BY ScaleType, Widths
<1>3. /\ Odd(b.f) /\ Row(b, U, V, b.f, s) /\ Row(b, Q, R, b.g, s)
      /\ Same(m, b.u, U) /\ Same(m, b.v, V) /\ Same(m, b.q, Q) /\ Same(m, b.r, R)
  BY TrackedParts
<1>4. /\ Same(m, nf, -b.f) /\ nf \in Int /\ -b.f \in Int
      /\ Same(m, nu, -U) /\ nu \in Int /\ -U \in Int
      /\ Same(m, nv, -V) /\ nv \in Int /\ -V \in Int
  <2>1. Same(m, b.f, b.f)
    <3> HIDE DEF m
    <3> QED BY <1>0, <1>2, SameRefl
  <2> HIDE DEF U, V
  <2> QED BY <1>0, <1>1, <1>3, <2>1, NegatedWord
<1>5. /\ c \in Bat /\ c.i = b.i /\ c.f0 = b.f0 /\ c.g0 = b.g0 /\ c.eta = -b.eta
      /\ c.f = b.g /\ c.g = nf /\ c.u = b.q /\ c.q = nu /\ c.v = b.r /\ c.r = nv
      /\ c = [b EXCEPT !.eta = -b.eta, !.f = b.g, !.g = nf, !.u = b.q,
                       !.q = nu, !.v = b.r, !.r = nv]
  <2>1. c \in Bat /\ c = [b EXCEPT !.eta = -b.eta, !.f = b.g, !.g = nf, !.u = b.q,
                                   !.q = nu, !.v = b.r, !.r = nv]
    BY SwappedIs
  <2> HIDE DEF c, nf, nu, nv
  <2> QED BY <2>1 DEF Bat
<1> HIDE DEF c
<1>6. k \in Nat \ {0} /\ k \in Nat /\ k <= b.i /\ k <= 6 /\ k <= -b.eta + 1 /\ k <= W
  <2> DEFINE most == 6
  <2>1. most \in Nat \ {0} /\ c.eta \in Int /\ c.eta >= 0 /\ c.i \in Nat \ {0}
    BY <1>0, <1>5
  <2> HIDE DEF most
  <2>2. LET j == Cancellable(c, most)
        IN  j \in Nat \ {0} /\ j <= c.i /\ j <= most /\ j <= c.eta + 1
    BY <2>1, CancellableIs
  <2> DEFINE j == Cancellable(c, most)
  <2>3. j \in Nat \ {0} /\ j <= b.i /\ j <= most /\ j <= -b.eta + 1
    BY <2>2, <1>5
  <2>4. k = j
    BY DEF most
  <2> HIDE DEF k, j
  <2>5. most = 6 /\ W \in Nat
    BY Widths DEF most
  <2> QED BY <1>0, <2>3, <2>4, <2>5
<1>7. w \in Int /\ y \in Int /\ Same(m, w, y) /\ Divides(64, nf + b.g * y)
  <2>1. w = Word(b.g * nf) * Word(b.g * b.g - 2) /\ y = (b.g * nf) * (b.g * b.g - 2)
    BY <1>5
  <2> HIDE DEF w, y, nf
  <2>2. LET i == Word(b.g * nf) * Word(b.g * b.g - 2)
        IN  i \in Int /\ Same(4 * Base, i, (b.g * nf) * (b.g * b.g - 2))
    BY <1>0, <1>4, SixBitFactor
  <2>3. Divides(64, nf + b.g * ((b.g * nf) * (b.g * b.g - 2)))
    BY <1>0, <1>3, <1>4, SixBits
  <2>4. (b.g * nf) * (b.g * b.g - 2) \in Int
    BY <1>0, <1>4
  <2> QED BY <2>1, <2>2, <2>3, <2>4
<1>8. n = Cancelled(c, k, w)
  BY DEF SwappedAndCancelled, c
<1> HIDE DEF w, k, n, y
<1>9. /\ t \in 0 .. Pow2[k] - 1 /\ Same(Pow2[k], t, w) /\ n \in Bat
      /\ n = [c EXCEPT !.g = Word(c.g + c.f * t), !.q = Word(c.q + c.u * t),
                       !.r = Word(c.r + c.v * t)]
  <2>1. w \in Int /\ k \in Nat /\ c \in Bat
    BY <1>5, <1>6, <1>7
  <2>2. LET j == w % Pow2[k]
        IN  /\ j \in 0 .. Pow2[k] - 1 /\ Same(Pow2[k], j, w)
            /\ Cancelled(c, k, w) \in Bat
            /\ Cancelled(c, k, w) =
                 [c EXCEPT !.g = Word(c.g + c.f * j), !.q = Word(c.q + c.u * j),
                           !.r = Word(c.r + c.v * j)]
    BY <2>1, CancelledIs
  <2> QED BY <1>8, <2>2
<1>10. t \in Nat /\ t \in Int /\ t < Pow2[k] /\ Pow2[k] \in Int
  <2>1. Pow2[k] \in Nat
    BY <1>6, Pow2Type
  <2> HIDE DEF t
  <2> QED BY <1>9, <2>1
<1>11. Word(nu + b.q * t) = Word(q1) /\ Word(nv + b.r * t) = Word(r1) /\ q1 \in Int /\ r1 \in Int
  <2> HIDE DEF t, U, V, Q, R, m, nu, nv
  <2> DEFINE mu == -U
             mv == -V
  <2>1. mu \in Int /\ mv \in Int /\ Same(m, nu, mu) /\ Same(m, nv, mv)
    BY <1>4
  <2>2. mu + t * Q = q1 /\ mv + t * R = r1 /\ q1 \in Int /\ r1 \in Int
    BY <1>1, <1>10
  <2> HIDE DEF mu, mv
  <2>3. Word(nu + b.q * t) = Word(mu + t * Q) /\ Word(nv + b.r * t) = Word(mv + t * R)
    BY <1>1, <1>3, <1>4, <1>10, <2>1, TimesWord DEF m
  <2> QED BY <2>2, <2>3
<1>12. b.q = Word(Q) /\ b.r = Word(R)
  <2>1. Word(b.q) = b.q /\ Word(b.r) = b.r
    BY <1>0, WordsAreInts
  <2> HIDE DEF Q, R
  <2> QED BY <1>1, <1>3, <2>1, WordSame DEF m
<1>13. g1 \in Int /\ Word(g1) \in Int /\ Same(m, Word(g1), g1)
  <2> HIDE DEF t, nf
  <2>1. nf + b.g * t \in Int
    BY <1>0, <1>4, <1>10
  <2> QED BY <2>1, WordType
<1>14. Same(m, g1, t * b.g - b.f) /\ t * b.g - b.f \in Int
  <2> HIDE DEF t, m, nf
  <2> DEFINE i == b.g * t
             j == -b.f
  <2>1. i \in Int /\ j \in Int /\ Same(m, nf, j)
    BY <1>0, <1>4, <1>10
  <2>2. j + i = t * b.g - b.f /\ t * b.g - b.f \in Int
    BY <1>0, <1>10
  <2> HIDE DEF i, j
  <2>3. Same(m, i, i)
    BY <1>2, <2>1, SameRefl
  <2>4. Same(m, nf + i, j + i)
    BY <1>2, <1>4, <2>1, <2>3, SameAdd
  <2> QED BY <2>2, <2>4 DEF i
<1> HIDE DEF t, U, V, Q, R, var, s, m, q1, r1, nu, nv
<1>15. /\ n.i = b.i /\ n.f0 = b.f0 /\ n.g0 = b.g0 /\ n.f = b.g /\ n.g = Word(g1)
       /\ n.u = Word(Q) /\ n.v = Word(R) /\ n.q = Word(q1) /\ n.r = Word(r1) /\ n.eta = -b.eta
  <2> HIDE DEF nf
  <2>1. /\ n.i = c.i /\ n.f0 = c.f0 /\ n.g0 = c.g0 /\ n.f = c.f /\ n.eta = c.eta
        /\ n.u = c.u /\ n.v = c.v
        /\ n.g = Word(c.g + c.f * t) /\ n.q = Word(c.q + c.u * t) /\ n.r = Word(c.r + c.v * t)
    BY <1>5, <1>9 DEF Bat
  <2> QED BY <1>5, <1>11, <1>12, <2>1
<1>16. Divides(Pow2[k], n.g)
  <2>1. Divides(Pow2[6], nf + b.g * y)
    BY <1>7, SmallPowers
  <2>2. Same(Pow2[k], w, y)
    <3>1. k <= W + 2
      BY <1>6, Widths
    <3> QED BY <1>6, <1>7, <3>1, WordMod DEF m
  <2>3. Same(Pow2[k], t, y)
    BY <1>7, <1>9, <1>10, <2>2, SameTrans
  <2> DEFINE most == 6
             a == Word(g1)
  <2>4. most \in Nat /\ k <= most /\ Divides(Pow2[most], nf + b.g * y)
    BY <1>6, <2>1
  <2>5. a \in Int /\ Same(4 * Base, a, nf + b.g * t)
    BY <1>13 DEF m
  <2> HIDE DEF most, a, nf
  <2>6. Divides(Pow2[k], a)
    BY <1>0, <1>4, <1>6, <1>7, <1>10, <2>3, <2>4, <2>5, BitsCancelled
  <2> QED BY <1>15, <2>6 DEF a
<1>17. t >= 1
  <2>1. SUFFICES ASSUME t = 0 PROVE FALSE
    BY <1>10
  <2>2. g1 = nf
    <3> HIDE DEF nf
    <3>1. nf + b.g * 0 = nf
      BY <1>0, <1>4
    <3> QED BY <2>1, <3>1
  <2>3. Odd(nf)
    <3>1. Odd(-b.f)
      <4>1. PICK i \in Int : b.f = 2 * i + 1
        BY <1>0, <1>3, OddMeans
      <4>2. -b.f = 2 * (-i - 1) + 1 /\ -i - 1 \in Int
        BY <4>1
      <4> DEFINE a == -b.f
                 j == -i - 1
      <4>3. a \in Int /\ j \in Int /\ a = 2 * j + 1
        BY <1>0, <4>2
      <4> HIDE DEF a, j
      <4>4. Odd(a)
        BY <4>3, OddMeans
      <4> QED BY <4>4 DEF a
    <3> HIDE DEF nf
    <3> QED BY <1>4, <3>1, OddSame DEF m
  <2>4. Odd(n.g)
    <3>1. n.g = Word(nf) /\ Word(nf) \in Int /\ Same(m, Word(nf), nf)
      BY <1>13, <1>15, <2>2
    <3> HIDE DEF nf
    <3> QED BY <1>4, <2>3, <3>1, OddSame DEF m
  <2>5. Divides(2, n.g)
    <3>1. Same(Pow2[k], n.g, 0)
      BY <1>16 DEF Divides
    <3> DEFINE o == 0
    <3>0. n.g \in Int
      <4> HIDE DEF g1
      <4> QED BY <1>13, <1>15
    <3>2. o \in Int /\ Same(Pow2[k], n.g, o) /\ n.g \in Int /\ 1 <= k
      BY <1>6, <3>0, <3>1
    <3> HIDE DEF o
    <3>3. Same(Pow2[1], n.g, o)
      BY <1>6, <3>2, Pow2Coarser
    <3> QED BY <3>3, SmallPowers DEF Divides, o
  <2>6. n.g % 2 = 0
    <3>1. 2 \in Nat \ {0} /\ n.g \in Int
      <4> HIDE DEF g1
      <4> QED BY <1>13, <1>15
    <3> QED BY <2>5, <3>1, DividesMod
  <2> QED BY <2>4, <2>6 DEF Odd
<1>18. Ahead(var, b) = 0
  <2>1. TrailingZeros(b.g, b.i) = 0
    BY <1>0, OddHasNone
  <2> QED BY <2>1 DEF Ahead, var
<1>19. Row(b, Q, R, n.f, s) /\ Row(b, q1, r1, n.g, s)
  <2> DEFINE o == 0
             one == -1
             h1 == one * U
             h2 == one * V
             h3 == one * b.f
  <2>0. o \in Int /\ one \in Int /\ h1 \in Int /\ h2 \in Int /\ h3 \in Int
        /\ o + one * U = h1 /\ o + one * V = h2 /\ o + one * b.f = h3
        /\ h1 + t * Q = q1 /\ h2 + t * R = r1 /\ h3 + t * b.g = t * b.g - b.f
    BY <1>0, <1>1, <1>10 DEF q1, r1
  <2>1. Row(b, o, o, o, s)
    <3>1. 0 * b.f0 + 0 * b.g0 = 0 /\ 0 * s = 0
      BY <1>0, <1>2
    <3>2. Same(m, 0, 0)
      BY <1>2, SameRefl
    <3> QED BY <3>1, <3>2 DEF Row, m
  <2>2. Row(b, o + one * U, o + one * V, o + one * b.f, s)
    <3> HIDE DEF o, one
    <3> QED BY <1>0, <1>1, <1>2, <1>3, <2>0, <2>1, RowAdd
  <2>3. Row(b, h1, h2, h3, s)
    <3> HIDE DEF o, one, h1, h2, h3
    <3> QED BY <2>0, <2>2
  <2>4. Row(b, h1 + t * Q, h2 + t * R, h3 + t * b.g, s)
    <3> HIDE DEF o, one, h1, h2, h3
    <3> QED BY <1>0, <1>1, <1>2, <1>3, <1>10, <2>0, <2>3, RowAdd
  <2>5. Row(b, q1, r1, t * b.g - b.f, s)
    <3> HIDE DEF o, one, h1, h2, h3
    <3> QED BY <2>0, <2>4
  <2> DEFINE i == t * b.g - b.f
             j == Word(g1)
  <2>6. i \in Int /\ j \in Int /\ Same(m, j, i) /\ Row(b, q1, r1, i, s)
    <3>1. i \in Int /\ j \in Int /\ Same(m, j, g1) /\ Same(m, g1, i)
      BY <1>13, <1>14
    <3> HIDE DEF i, j, g1
    <3> QED BY <1>2, <1>13, <2>5, <3>1, SameTrans DEF i
  <2> HIDE DEF i, j
  <2>7. Row(b, q1, r1, j, s)
    BY <1>0, <1>2, <1>11, <2>6, RowWord DEF m
  <2> QED BY <1>3, <1>15, <2>7 DEF j
<1>20. /\ Tracked("var", n)
       /\ Signed(n.u) = Q /\ Signed(n.v) = R /\ Signed(n.q) = q1 /\ Signed(n.r) = r1
  <2>1. Row(b, Q, R, n.f, Scale("var", b)) /\ Row(b, q1, r1, n.g, Scale("var", b))
        /\ Ahead("var", b) = 0 /\ Odd(n.f)
    BY <1>15, <1>18, <1>19 DEF var, s
  <2>2. Q = Signed(b.q) /\ q1 = t * Signed(b.q) - Signed(b.u)
        /\ R = Signed(b.r) /\ r1 = t * Signed(b.r) - Signed(b.v)
    BY DEF U, V, Q, R, q1, r1
  <2>3. k <= b.i /\ k \in Nat /\ n \in Bat /\ n.i = b.i /\ n.f0 = b.f0 /\ n.g0 = b.g0
        /\ n.u = Word(Q) /\ n.v = Word(R) /\ n.q = Word(q1) /\ n.r = Word(r1)
    BY <1>6, <1>9, <1>15
  <2>4. Cancelling(b, n, k, t, Q, R, q1, r1)
    BY <1>1, <1>10, <1>11, <1>16, <1>17, <2>1, <2>2, <2>3 DEF Cancelling
  <2> QED BY <2>4, CancelledTracks
<1>21. CancelledBy(b, n, k, t)
  <2>1. Same(4 * Base, n.g, t * b.g - b.f)
    <3>1. n.g = Word(g1) /\ Word(g1) \in Int
      BY <1>13, <1>15
    <3> DEFINE i == t * b.g - b.f
               j == Word(g1)
    <3>2. i \in Int /\ j \in Int /\ Same(m, j, g1) /\ Same(m, g1, i)
      BY <1>13, <1>14
    <3> HIDE DEF i, j, g1
    <3>3. Same(m, j, i)
      BY <1>2, <1>13, <3>2, SameTrans
    <3> QED BY <3>1, <3>3 DEF m, i, j
  <2> HIDE DEF g1
  <2> QED BY <1>6, <1>10, <1>15, <1>16, <1>20, <2>1 DEF CancelledBy, U, V, Q, R, q1, r1
<1> QED
  BY <1>6, <1>9, <1>10, <1>20, <1>21 DEF n

-------------------------------------------------------------------------------
(* Applying a matrix.                                                         *)

(* An odd number has an inverse modulo every power of 2.                      *)
LEMMA OddInverse ==
  ASSUME NEW a \in Int, Odd(a), NEW n \in Nat
  PROVE  \E k \in Int : Divides(Pow2[n], k * a - 1)
<1> DEFINE S == {i \in Nat : \E k \in Int : \E j \in Int : k * a - 1 = Pow2[i] * j}
<1>1. 0 \in S
  <2>1. 0 * a - 1 = 1 * (-1) /\ -1 \in Int /\ 0 \in Int
    OBVIOUS
  <2> DEFINE k == 0
             j == -1
  <2>2. k \in Int /\ j \in Int /\ k * a - 1 = Pow2[0] * j
    BY <2>1, Pow2Def
  <2> HIDE DEF k, j
  <2> QED BY <2>2
<1>2. ASSUME NEW i \in Nat, i \in S
      PROVE  i + 1 \in S
  <2>1. PICK k \in Int, j \in Int : k * a - 1 = Pow2[i] * j
    BY <1>2
  <2> DEFINE p == Pow2[i]
             p2 == Pow2[i + 1]
  <2>2. p \in Int /\ p2 = 2 * p /\ k * a - 1 = p * j
    BY <2>1, Pow2Type, Pow2Def
  <2> HIDE DEF p, p2
  <2>3. \E y \in Int, z \in Int : y * a - 1 = p2 * z
    <3>1. CASE ~Odd(j)
      <4>1. PICK z \in Int : j = 2 * z
        BY <3>1, OddMeans
      <4>2. k * a - 1 = p2 * z
        <5>1. p * (2 * z) = (2 * p) * z
          BY <2>2
        <5> QED BY <2>2, <4>1, <5>1
      <4> QED BY <4>2
    <3>2. CASE Odd(j)
      <4>1. ~Odd(j + a)
        BY <3>2, SumOfOdd
      <4>2. PICK z \in Int : j + a = 2 * z
        <5>1. j + a \in Int
          OBVIOUS
        <5> QED BY <4>1, <5>1, OddMeans
      <4> DEFINE y == k + p
      <4>3. y \in Int
        BY <2>2
      <4>4. y * a - 1 = (k * a - 1) + p * a
        BY <2>2
      <4>5. (k * a - 1) + p * a = p * (j + a)
        BY <2>2
      <4>6. p * (2 * z) = (2 * p) * z
        BY <2>2
      <4>7. y * a - 1 = p2 * z
        BY <2>2, <4>2, <4>4, <4>5, <4>6
      <4> HIDE DEF y
      <4> QED BY <4>3, <4>7
    <3> QED BY <3>1, <3>2
  <2>4. i + 1 \in Nat
    OBVIOUS
  <2> QED BY <2>3, <2>4 DEF p2
<1> HIDE DEF S
<1>3. n \in S
  BY <1>1, <1>2, SetInduction
<1>4. PICK k \in Int, j \in Int : k * a - 1 = Pow2[n] * j
  BY <1>3 DEF S
<1> DEFINE i == k * a - 1
<1>5. i \in Int /\ i = Pow2[n] * j /\ Pow2[n] \in Int
  BY <1>4, Pow2Type
<1> HIDE DEF i
<1>6. Divides(Pow2[n], i)
  BY <1>5, DividesIs
<1> QED
  BY <1>6 DEF i

LEMMA ModulusIs ==
  ASSUME modulus \in Moduli
  PROVE  modulus \in Int /\ modulus \in Nat /\ modulus \in Nat \ {0} /\ modulus > 2 /\ Odd(modulus)
  BY ModuliAssumption DEF Odd

LEMMA InverseOfModulusIs ==
  ASSUME modulus \in Moduli
  PROVE  InverseOfModulus \in Int /\ Same(Base, modulus * InverseOfModulus, 1)
<1> DEFINE M == modulus
           r == M % Base
           K == InverseOfModulus
           Is(k) == (k * r) % Base = 1 % Base
<1>1. M \in Int /\ Odd(M) /\ Base \in Nat \ {0} /\ Base = Pow2[W] /\ W \in Nat /\ Base \in Int
  BY ModulusIs, Widths
<1>2. r \in Int /\ Same(Base, r, M)
  <2> HIDE DEF M
  <2>1. r \in Int /\ M = Base * (M \div Base) + r /\ M \div Base \in Int
    BY <1>1, DivMod
  <2> HIDE DEF r
  <2>2. r = M + Base * (-(M \div Base)) /\ -(M \div Base) \in Int
    BY <1>1, <2>1
  <2> QED BY <2>2 DEF Same
<1> HIDE DEF M, r
<1>3. PICK k \in Int : Divides(Pow2[W], k * M - 1)
  BY <1>1, OddInverse
<1> DEFINE j == k % Base
<1>4. j \in 0 .. Base - 1 /\ j \in Int /\ Same(Base, j, k)
  <2>1. j \in 0 .. Base - 1 /\ j \in Int /\ k = Base * (k \div Base) + j /\ k \div Base \in Int
    BY <1>1, DivMod
  <2> HIDE DEF j
  <2>2. j = k + Base * (-(k \div Base)) /\ -(k \div Base) \in Int
    BY <1>1, <2>1
  <2> QED BY <2>1, <2>2 DEF Same
<1> HIDE DEF j
<1> DEFINE one == 1
           a1 == k * M
           a2 == j * M
           a3 == j * r
<1>5. Same(Base, a1, one)
  <2>1. PICK i \in Int : k * M - 1 = Base * i
    <3>1. k * M - 1 \in Int
      BY <1>1
    <3> DEFINE y == k * M - 1
    <3>2. y \in Int /\ Divides(Base, y)
      BY <1>1, <1>3, <3>1
    <3> HIDE DEF y
    <3>3. \E i \in Int : y = Base * i
      BY <1>1, <3>2 DEF Divides, Same
    <3> QED BY <3>3 DEF y
  <2>2. k * M = 1 + Base * i
    BY <1>1, <2>1
  <2> QED BY <2>2 DEF Same
<1>6. Same(Base, a2, a1) /\ Same(Base, a3, a2)
  BY <1>1, <1>2, <1>4, SameScale
<1>7. one \in Int /\ a1 \in Int /\ a2 \in Int /\ a3 \in Int
  BY <1>1, <1>2, <1>4
<1>8. Is(j)
  <2> HIDE DEF one, a1, a2, a3
  <2>1. Same(Base, a3, one)
    BY <1>1, <1>5, <1>6, <1>7, SameTrans
  <2>2. a3 % Base = one % Base
    BY <1>1, <1>7, <2>1, SameMod
  <2> QED BY <2>2 DEF a3, one
<1>9. K = CHOOSE i \in 0 .. Base - 1 : Is(i)
  BY DEF InverseOfModulus, r, M
<1> HIDE DEF Is, K
<1>10. K \in 0 .. Base - 1 /\ Is(K)
  BY <1>4, <1>8, <1>9
<1>11. K \in Int
  BY <1>1, <1>10
<1> DEFINE c1 == K * r
           c2 == K * M
           c3 == M * K
<1>12. c1 \in Int /\ c2 \in Int /\ c2 = c3 /\ Same(Base, c1, c2) /\ c1 % Base = one % Base
  <2>1. c1 \in Int /\ c2 \in Int /\ c2 = c3
    BY <1>1, <1>2, <1>11
  <2>2. Same(Base, c1, c2)
    BY <1>1, <1>2, <1>11, SameScale
  <2>3. c1 % Base = one % Base
    BY <1>10 DEF Is
  <2> QED BY <2>1, <2>2, <2>3
<1> HIDE DEF c1, c2, c3, one
<1>13. Same(Base, c1, one)
  BY <1>1, <1>7, <1>12, SameMod
<1>14. Same(Base, c2, one)
  BY <1>1, <1>7, <1>12, <1>13, SameTrans, SameSym
<1> QED
  BY <1>11, <1>12, <1>14 DEF c3, one, M, K

(* The row sums bound what a matrix makes of numbers in range.                *)
LEMMA ProductBound ==
  ASSUME NEW a \in Int, NEW n \in Int, NEW m \in Nat, -m <= n, n <= m
  PROVE  a * n <= Abs(a) * m /\ -(Abs(a) * m) <= a * n /\ a * n \in Int /\ Abs(a) * m \in Int
<1>1. CASE a >= 0
  <2>1. a * m - a * n = a * (m - n) /\ a * n + a * m = a * (n + m)
    OBVIOUS
  <2>2. a * (m - n) >= 0 /\ a * (n + m) >= 0
    BY <1>1
  <2>3. a * n \in Int /\ a * m \in Int
    OBVIOUS
  <2> QED BY <1>1, <2>1, <2>2, <2>3 DEF Abs
<1>2. CASE a < 0
  <2>1. (-a) * m - a * n = (-a) * (m + n) /\ a * n + (-a) * m = (-a) * (m - n)
    OBVIOUS
  <2>2. (-a) * (m + n) >= 0 /\ (-a) * (m - n) >= 0
    BY <1>2
  <2>3. a * n \in Int /\ (-a) * m \in Int
    OBVIOUS
  <2> QED BY <1>2, <2>1, <2>2, <2>3 DEF Abs
<1> QED
  BY <1>1, <1>2

LEMMA Scaled ==
  ASSUME NEW s \in Nat, NEW a \in Int, NEW c \in Int, a <= c
  PROVE  s * a <= s * c /\ a * s <= c * s /\ s * a \in Int /\ s * c \in Int
<1>1. s * c - s * a = s * (c - a) /\ c - a \in Nat
  OBVIOUS
<1>2. s * (c - a) >= 0 /\ s * a \in Int /\ s * c \in Int /\ a * s = s * a /\ c * s = s * c
  BY <1>1
<1> QED
  BY <1>1, <1>2

LEMMA RowBound ==
  ASSUME NEW a \in Int, NEW c \in Int, NEW s \in Nat \ {0}, Abs(a) + Abs(c) <= s,
         NEW m \in Nat \ {0}, NEW F \in Int, -m < F, F <= m, NEW G \in Int, -m < G, G < m
  PROVE  /\ a * F + c * G \in Int /\ s * m \in Int /\ a * F + c * G <= s * m
         /\ -s < a => -(s * m) < a * F + c * G
         /\ -s < a /\ a < s => a * F + c * G < s * m
<1> DEFINE i == Abs(a)
           j == Abs(c)
           l == m - 1
           X == a * F
           Y == c * G
           im == i * m
           jl == j * l
           jm == j * m
           sm == s * m
<1>1. i \in Nat /\ j \in Nat /\ l \in Nat /\ i + j <= s
  BY AbsIs
<1>2. X <= im /\ -im <= X /\ X \in Int /\ im \in Int
  <2>1. -m <= F /\ F <= m /\ m \in Nat
    OBVIOUS
  <2> QED BY <2>1, ProductBound
<1>3. Y <= jl /\ -jl <= Y /\ Y \in Int /\ jl \in Int
  <2>1. -l <= G /\ G <= l /\ l \in Nat
    BY <1>1
  <2> HIDE DEF l
  <2> QED BY <2>1, ProductBound
<1>4. jl = jm - j /\ jm \in Int /\ sm \in Int
  <2> HIDE DEF i, j
  <2> QED BY <1>1
<1>5. im + jm <= sm
  <2>1. (i + j) * m <= s * m
    <3> DEFINE y == i + j
    <3>1. y \in Int /\ y <= s /\ m \in Nat
      BY <1>1
    <3> HIDE DEF y
    <3>2. y * m <= s * m
      BY <3>1, Scaled
    <3> QED BY <3>2 DEF y
  <2>2. (i + j) * m = i * m + j * m
    <3> HIDE DEF i, j
    <3> QED BY <1>1
  <2> QED BY <2>1, <2>2
<1>6. X + Y <= sm
  <2> HIDE DEF X, Y, im, jl, jm, sm, i, j
  <2> QED BY <1>1, <1>2, <1>3, <1>4, <1>5
<1>7. CASE j >= 1
  <2> HIDE DEF X, Y, im, jl, jm, sm, i, j
  <2>1. -sm < X + Y /\ X + Y < sm
    BY <1>1, <1>2, <1>3, <1>4, <1>5, <1>7
  <2> QED BY <1>2, <1>3, <1>4, <1>6, <2>1 DEF X, Y, sm
<1>8. CASE j = 0
  <2>1. c = 0 /\ Y = 0 /\ jm = 0
    <3>1. c = 0
      BY <1>8 DEF Abs
    <3>2. 0 * G = 0 /\ 0 * m = 0
      OBVIOUS
    <3> QED BY <1>8, <3>1, <3>2
  <2>2. ASSUME -s < a PROVE -sm < X
    <3>1. CASE a >= 1
      <4>1. X + a * m = a * (F + m) /\ F + m >= 1 /\ a * (F + m) >= 1
        <5>1. a * F + a * m = a * (F + m)
          OBVIOUS
        <5>2. F + m \in Nat /\ F + m >= 1 /\ a \in Nat
          BY <3>1
        <5>3. a * (F + m) >= 1
          BY <3>1, <5>2
        <5> QED BY <5>1, <5>2, <5>3
      <4>2. a * m = im
        BY <3>1 DEF Abs
      <4> HIDE DEF X, Y, im, jl, jm, sm, i, j
      <4> QED BY <1>2, <1>4, <1>5, <2>1, <4>1, <4>2
    <3>2. CASE a = 0
      <4>1. X = 0 /\ sm >= 1
        <5>1. 0 * F = 0 /\ s * m >= 1
          OBVIOUS
        <5> QED BY <3>2, <5>1
      <4> HIDE DEF X, Y, im, jl, jm, sm, i, j
      <4> QED BY <1>4, <4>1
    <3>3. CASE a < 0
      <4>1. im = -(a * m) /\ a * m \in Int
        <5>1. i = -a
          BY <3>3 DEF Abs
        <5>2. (-a) * m = -(a * m) /\ a * m \in Int
          OBVIOUS
        <5> QED BY <5>1, <5>2
      <4>2. a * m + s * m = (a + s) * m /\ (a + s) * m >= 1
        <5>1. a * m + s * m = (a + s) * m
          OBVIOUS
        <5>2. a + s \in Nat /\ a + s >= 1
          BY <2>2
        <5>3. (a + s) * m >= 1
          BY <5>2
        <5> QED BY <5>1, <5>3
      <4> HIDE DEF X, Y, im, jl, jm, i, j
      <4> QED BY <1>2, <1>4, <4>1, <4>2
    <3> QED BY <3>1, <3>2, <3>3
  <2>3. ASSUME -s < a, a < s PROVE X < sm
    <3>1. i < s
      BY <2>3 DEF Abs
    <3>2. i * m < s * m
      <4>1. s * m - i * m = (s - i) * m /\ s - i \in Nat /\ s - i >= 1
        <5> HIDE DEF i
        <5> QED BY <1>1, <3>1
      <4>2. (s - i) * m >= 1
        <5> HIDE DEF i
        <5> QED BY <1>1, <4>1
      <4> HIDE DEF i
      <4> QED BY <1>1, <4>1, <4>2
    <3> HIDE DEF X, Y, jl, jm, i, j
    <3> QED BY <1>2, <1>4, <3>2
  <2> HIDE DEF X, Y, im, jl, jm, sm, i, j
  <2>4. X + Y = X
    BY <1>2, <2>1
  <2> QED BY <1>2, <1>3, <1>4, <1>6, <2>2, <2>3, <2>4 DEF X, Y, sm
<1> QED
  BY <1>1, <1>7, <1>8

(* Exact quotients are in proportion.                                         *)
LEMMA ExactQuotient ==
  ASSUME NEW n \in Nat \ {0}, NEW a \in Int, Divides(n, a)
  PROVE  a \div n \in Int /\ a = n * (a \div n)
<1>1. a % n = 0
  BY DividesMod
<1>2. a = n * (a \div n) + (a % n) /\ a \div n \in Int
  BY DivMod
<1>3. n * (a \div n) + 0 = n * (a \div n)
  BY <1>2
<1> QED
  BY <1>1, <1>2, <1>3

LEMMA Unscaled ==
  ASSUME NEW s \in Nat \ {0}, NEW a \in Int, NEW c \in Int
  PROVE  (s * a <= s * c => a <= c) /\ (s * a < s * c => a < c)
<1>1. ASSUME c < a PROVE s * c < s * a
  <2>1. s * a - s * c = s * (a - c) /\ a - c \in Nat /\ a - c >= 1
    BY <1>1
  <2>2. s * (a - c) >= 1 /\ s * a \in Int /\ s * c \in Int
    BY <2>1
  <2> QED BY <2>1, <2>2
<1>2. s * a \in Int /\ s * c \in Int
  OBVIOUS
<1>3. a = c => s * a = s * c
  OBVIOUS
<1> QED
  BY <1>1, <1>2, <1>3

-------------------------------------------------------------------------------
(* Applying the matrix of a finished batch.                                   *)

(* The rows of a finished batch divide exactly, whatever the words lacked of  *)
(* f and g.                                                                   *)
Exact(a, c, n, F, G) ==
  \E i \in Int, j \in Int, k \in Int : a * F + c * G = Base * (((n + 4 * i) + a * j) + c * k)

LEMMA RowExact ==
  ASSUME NEW b, b.f0 \in Int, b.g0 \in Int, NEW a \in Int, NEW c \in Int, NEW n \in Int,
         NEW F \in Int, NEW G \in Int,
         Row(b, a, c, n, Base), Same(Base, F, b.f0), Same(Base, G, b.g0)
  PROVE  Exact(a, c, n, F, G)
<1> DEFINE f0 == b.f0
           g0 == b.g0
           B == Base
<1>1. f0 \in Int /\ g0 \in Int /\ B \in Int
  BY Widths
<1>2. PICK i \in Int : a * f0 + c * g0 = n * B + (4 * B) * i
  BY DEF Row, Same
<1>3. PICK j \in Int : F = f0 + B * j
  BY DEF Same
<1>4. PICK k \in Int : G = g0 + B * k
  BY DEF Same
<1> HIDE DEF f0, g0, B
<1>5. a * (f0 + B * j) + c * (g0 + B * k) = (a * f0 + c * g0) + B * (a * j + c * k)
  BY <1>1
<1>6. (n * B + (4 * B) * i) + B * (a * j + c * k) = B * (((n + 4 * i) + a * j) + c * k)
  BY <1>1
<1>7. a * F + c * G = B * (((n + 4 * i) + a * j) + c * k)
  BY <1>2, <1>3, <1>4, <1>5, <1>6
<1> QED
  BY <1>7 DEF B, Exact

(* When the coefficients are even, the quotient is odd where the word is.     *)
LEMMA EvenRow ==
  ASSUME NEW a \in Int, NEW c \in Int, NEW n \in Int, NEW i \in Int, NEW j \in Int, NEW k \in Int,
         ~Odd(a), ~Odd(c), Odd(n)
  PROVE  Odd(((n + 4 * i) + a * j) + c * k)
<1>1. PICK a1 \in Int : a = 2 * a1
  BY OddMeans
<1>2. PICK c1 \in Int : c = 2 * c1
  BY OddMeans
<1>3. PICK n1 \in Int : n = 2 * n1 + 1
  BY OddMeans
<1> DEFINE y == ((n + 4 * i) + a * j) + c * k
           h == ((n1 + 2 * i) + a1 * j) + c1 * k
<1>4. (2 * a1) * j = 2 * (a1 * j) /\ (2 * c1) * k = 2 * (c1 * k) /\ a1 * j \in Int /\ c1 * k \in Int
  OBVIOUS
<1>5. a * j = 2 * (a1 * j) /\ c * k = 2 * (c1 * k)
  BY <1>1, <1>2, <1>4
<1> DEFINE aj == a1 * j
           ck == c1 * k
<1>6. aj \in Int /\ ck \in Int /\ y = ((n + 4 * i) + 2 * aj) + 2 * ck /\ h = ((n1 + 2 * i) + aj) + ck
  BY <1>4, <1>5
<1> HIDE DEF y, h, aj, ck
<1>7. y = 2 * h + 1 /\ h \in Int /\ y \in Int
  BY <1>3, <1>6
<1>8. Odd(y)
  BY <1>7, OddMeans
<1> QED
  BY <1>8 DEF y

LEMMA UpdatedFGIs ==
  ASSUME NEW b \in Bat, NEW p \in Words, NEW t \in Words, NEW n \in Int, f \in Int, g \in Int,
         Row(b, Signed(p), Signed(t), n, Base), Same(Base, f, b.f0), Same(Base, g, b.g0)
  PROVE  /\ UpdatedFG(p, t) \in Int
         /\ Base * UpdatedFG(p, t) = Signed(p) * f + Signed(t) * g
         /\ ~Odd(Signed(p)) /\ ~Odd(Signed(t)) /\ Odd(n) => Odd(UpdatedFG(p, t))
<1> DEFINE a == Signed(p)
           c == Signed(t)
           F == f
           G == g
           X == a * F + c * G
           Y(i, j, k) == ((n + 4 * i) + a * j) + c * k
<1>1. a \in Int /\ c \in Int /\ b.f0 \in Int /\ b.g0 \in Int /\ F \in Int /\ G \in Int
      /\ Base \in Nat \ {0} /\ Base \in Int
  BY SignedType, BatTypes, Widths
<1>2. Row(b, a, c, n, Base) /\ Same(Base, F, b.f0) /\ Same(Base, G, b.g0)
  OBVIOUS
<1>3. UpdatedFG(p, t) = X \div Base
  BY DEF UpdatedFG
<1> HIDE DEF a, c, F, G
<1>4. PICK i \in Int, j \in Int, k \in Int : X = Base * Y(i, j, k)
  <2>1. Exact(a, c, n, F, G)
    BY <1>1, <1>2, RowExact
  <2> QED BY <2>1, Zenon DEF Exact
<1> DEFINE y == Y(i, j, k)
<1>5. y \in Int /\ X \in Int
  BY <1>1
<1>6. X = Base * y + 0 /\ 0 \in 0 .. Base - 1
  <2> HIDE DEF X, y
  <2>1. X = Base * y
    BY <1>4 DEF y
  <2> QED BY <1>1, <1>5, <2>1
<1>7. X \div Base = y
  <2> DEFINE o == 0
  <2>1. o \in 0 .. Base - 1 /\ X = Base * y + o
    BY <1>6
  <2> HIDE DEF X, y, o
  <2> QED BY <1>1, <1>5, <2>1, DivUnique
<1>8. ~Odd(a) /\ ~Odd(c) /\ Odd(n) => Odd(y)
  BY <1>1, EvenRow
<1>9. Base * y = X
  BY <1>4
<1> HIDE DEF y, X
<1>10. UpdatedFG(p, t) = y
  BY <1>3, <1>7
<1> QED
  BY <1>5, <1>8, <1>9, <1>10 DEF X, a, c, F, G

LEMMA UpdatedFGInRange ==
  ASSUME NEW p \in Words, NEW t \in Words, modulus \in Moduli,
         f \in Int, -modulus < f, f <= modulus, g \in Int, -modulus < g, g < modulus,
         UpdatedFG(p, t) \in Int,
         Base * UpdatedFG(p, t) = Signed(p) * f + Signed(t) * g,
         Abs(Signed(p)) + Abs(Signed(t)) <= Base, -Base < Signed(p)
  PROVE  /\ -modulus < UpdatedFG(p, t) /\ UpdatedFG(p, t) <= modulus
         /\ Signed(p) < Base => UpdatedFG(p, t) < modulus
<1> DEFINE a == Signed(p)
           c == Signed(t)
           F == f
           G == g
           M == modulus
           y == UpdatedFG(p, t)
           nM == -M
<1>1. a \in Int /\ c \in Int /\ F \in Int /\ G \in Int /\ M \in Nat \ {0} /\ M \in Int
      /\ Base \in Nat \ {0} /\ Base \in Int
  BY SignedType, Widths, ModulusIs
<1>2. Abs(a) + Abs(c) <= Base /\ -Base < a /\ -M < F /\ F <= M /\ -M < G /\ G < M
      /\ y \in Int /\ Base * y = a * F + c * G
  OBVIOUS
<1> HIDE DEF a, c, F, G, M, y
<1>3. /\ a * F + c * G \in Int /\ Base * M \in Int /\ a * F + c * G <= Base * M
      /\ -Base < a => -(Base * M) < a * F + c * G
      /\ -Base < a /\ a < Base => a * F + c * G < Base * M
  BY <1>1, <1>2, RowBound
<1>4. Base * nM = -(Base * M) /\ nM \in Int
  BY <1>1
<1> HIDE DEF nM
<1>5. Base * y <= Base * M /\ Base * nM < Base * y /\ (a < Base => Base * y < Base * M)
  BY <1>2, <1>3, <1>4
<1>6. y <= M /\ nM < y /\ (a < Base => y < M)
  BY <1>1, <1>2, <1>4, <1>5, Unscaled
<1> QED
  BY <1>6 DEF a, M, y, nM

(* The multiple of the modulus that update_de adds clears the bottom limb.    *)
LEMMA Clearing ==
  ASSUME NEW M \in Int, NEW K \in Int, NEW c \in Int, NEW s \in Int, Same(Base, M * K, 1)
  PROVE  LET t == (K * (c % Base) + s) % Base
             m == s - t
         IN  /\ t \in 0 .. Base - 1 /\ t \in Int /\ m \in Int
             /\ c + M * m \in Int /\ Divides(Base, c + M * m)
<1> DEFINE l == c % Base
           h == K * l + s
           t == h % Base
           m == s - t
<1>1. Base \in Nat \ {0} /\ Base \in Int
  BY Widths
<1>2. l \in Int /\ c = Base * (c \div Base) + l /\ c \div Base \in Int
  BY <1>1, DivMod
<1> DEFINE cq == c \div Base
<1>3. cq \in Int /\ c = Base * cq + l
  BY <1>2
<1> HIDE DEF l, cq
<1>4. h \in Int
  BY <1>2
<1> DEFINE hq == h \div Base
<1> HIDE DEF h
<1>5. t \in 0 .. Base - 1 /\ t \in Int /\ h = Base * hq + t /\ hq \in Int
  BY <1>1, <1>4, DivMod
<1> HIDE DEF t, hq
<1>6. PICK i \in Int : M * K = 1 + Base * i
  BY DEF Same
<1>7. m \in Int /\ M * m \in Int
  BY <1>5
<1>8. m = Base * hq - K * l
  BY <1>1, <1>2, <1>5 DEF h
<1>9. M * (Base * hq - K * l) = Base * (M * hq) - (M * K) * l
  BY <1>1, <1>2, <1>5
<1>10. (1 + Base * i) * l = l + Base * (i * l)
  BY <1>1, <1>2
<1>11. M * m = Base * (M * hq) - (l + Base * (i * l))
  BY <1>6, <1>8, <1>9, <1>10
<1> DEFINE Mm == M * m
           x1 == M * hq
           x2 == i * l
           k == (cq + x1) - x2
<1>12. x1 \in Int /\ x2 \in Int /\ Mm \in Int /\ Mm = Base * x1 - (l + Base * x2)
  BY <1>2, <1>5, <1>7, <1>11
<1> HIDE DEF Mm, x1, x2
<1>13. c + Mm = Base * k /\ k \in Int /\ c + Mm \in Int
  BY <1>1, <1>2, <1>3, <1>12
<1> HIDE DEF k
<1>14. Divides(Base, c + Mm)
  BY <1>1, <1>13, DividesIs
<1> QED
  BY <1>5, <1>7, <1>13, <1>14 DEF Mm, t, h, l

(* d and e of the next batch.                                                 *)
LEMMA UpdatedDEIs ==
  ASSUME NEW p \in Words, NEW t \in Words, modulus \in Moduli,
         d \in Int, -2 * modulus < d, d < modulus, e \in Int, -2 * modulus < e, e < modulus,
         Abs(Signed(p)) + Abs(Signed(t)) <= Base
  PROVE  /\ UpdatedDE(p, t) \in Int /\ -2 * modulus < UpdatedDE(p, t) /\ UpdatedDE(p, t) < modulus
         /\ Same(modulus, Base * UpdatedDE(p, t), Signed(p) * d + Signed(t) * e)
<1> DEFINE a == Signed(p)
           b == Signed(t)
           D0 == d
           E0 == e
           M == modulus
           K == InverseOfModulus
           c == a * D0 + b * E0
           s1 == IF D0 < 0 THEN a ELSE 0
           s2 == IF E0 < 0 THEN b ELSE 0
           s == s1 + s2
           l == (K * (c % Base) + s) % Base
           m == s - l
           n == c + M * m
           y == UpdatedDE(p, t)
<1>1. a \in Int /\ b \in Int /\ D0 \in Int /\ E0 \in Int /\ M \in Nat \ {0} /\ M \in Int /\ K \in Int
      /\ Base \in Nat \ {0} /\ Base \in Int /\ Same(Base, M * K, 1)
  BY SignedType, Widths, ModulusIs, InverseOfModulusIs
<1>2. Abs(a) + Abs(b) <= Base /\ -2 * M < D0 /\ D0 < M /\ -2 * M < E0 /\ E0 < M
  OBVIOUS
<1>3. y = n \div Base
  BY Zenon DEF UpdatedDE
<1> HIDE DEF a, b, D0, E0, M, K, y
<1>4. s1 \in Int /\ s2 \in Int /\ c \in Int /\ s \in Int
  BY <1>1
<1>5. l \in 0 .. Base - 1 /\ l \in Int /\ m \in Int /\ n \in Int /\ Divides(Base, n)
  <2> HIDE DEF c, s
  <2> QED BY <1>1, <1>4, Clearing
<1>6. y \in Int /\ n = Base * y
  <2> HIDE DEF n
  <2> QED BY <1>1, <1>3, <1>5, ExactQuotient
<1> DEFINE D1 == IF D0 < 0 THEN D0 + M ELSE D0
           E1 == IF E0 < 0 THEN E0 + M ELSE E0
           M1 == M - 1
<1>7. D1 \in Int /\ -M1 <= D1 /\ D1 <= M1 /\ E1 \in Int /\ -M1 <= E1 /\ E1 <= M1 /\ M1 \in Nat
  BY <1>1, <1>2
<1>8. a * D0 + M * s1 = a * D1 /\ b * E0 + M * s2 = b * E1
  <2>1. a * (D0 + M) = a * D0 + M * a /\ M * 0 = 0 /\ b * (E0 + M) = b * E0 + M * b
        /\ a * D0 \in Int /\ b * E0 \in Int
    BY <1>1
  <2>2. a * D0 + M * s1 = a * D1
    <3>1. CASE D0 < 0
      BY <2>1, <3>1
    <3>2. CASE ~(D0 < 0)
      BY <2>1, <3>2
    <3> QED BY <3>1, <3>2
  <2>3. b * E0 + M * s2 = b * E1
    <3>1. CASE E0 < 0
      BY <2>1, <3>1
    <3>2. CASE ~(E0 < 0)
      BY <2>1, <3>2
    <3> QED BY <3>1, <3>2
  <2> QED BY <2>2, <2>3
<1> HIDE DEF s1, s2, D1, E1, M1
<1> DEFINE ad == a * D1
           be == b * E1
           am == Abs(a) * M1
           bm == Abs(b) * M1
           sm == Base * M1
<1>9. ad <= am /\ -am <= ad /\ ad \in Int /\ am \in Int /\ be <= bm /\ -bm <= be /\ be \in Int /\ bm \in Int
  BY <1>1, <1>7, ProductBound
<1>10. am + bm <= sm /\ sm \in Int
  <2> DEFINE i == Abs(a)
             j == Abs(b)
             h == i + j
  <2>1. i \in Int /\ j \in Int /\ h \in Int /\ h <= Base /\ M1 \in Nat
    BY <1>1, <1>2, <1>7, AbsIs
  <2> HIDE DEF i, j
  <2>2. h * M1 = i * M1 + j * M1
    BY <2>1
  <2> HIDE DEF h
  <2>3. h * M1 <= Base * M1 /\ Base * M1 \in Int
    BY <1>1, <2>1, Scaled
  <2> QED BY <2>2, <2>3 DEF i, j
<1>11. n = (ad + be) - M * l
  <2>1. M * (s - l) = M * s1 + M * s2 - M * l
    BY <1>1, <1>4, <1>5
  <2> DEFINE x1 == M * s1
             x2 == M * s2
             x3 == M * l
             x4 == a * D0
             x5 == b * E0
  <2>2. x1 \in Int /\ x2 \in Int /\ x3 \in Int /\ x4 \in Int /\ x5 \in Int
    BY <1>1, <1>4, <1>5
  <2>3. n = (x4 + x5) + ((x1 + x2) - x3) /\ ad = x4 + x1 /\ be = x5 + x2
    <3>1. ad = x4 + x1 /\ be = x5 + x2
      BY <1>8
    <3>2. n = (x4 + x5) + M * (s - l)
      OBVIOUS
    <3>3. M * (s - l) = (x1 + x2) - x3
      <4> HIDE DEF l
      <4> QED BY <1>1, <1>4, <1>5
    <3> QED BY <3>1, <3>2, <3>3
  <2> HIDE DEF n, x1, x2, x3, x4, x5, ad, be
  <2>4. n = (ad + be) - x3
    BY <2>2, <2>3
  <2> QED BY <2>4 DEF x3
<1> DEFINE ml == M * l
           bM == Base * M
           q == -2 * M
<1>12. ml \in Int /\ 0 <= ml /\ ml <= bM - M /\ bM \in Int /\ sm = bM - Base
  <2>1. Base * (M - 1) = Base * M - Base /\ M * (Base - 1) = Base * M - M /\ Base * M \in Int
    BY <1>1
  <2> DEFINE b1 == Base - 1
             o == 0
  <2>2. M \in Nat /\ l \in Int /\ o \in Int /\ o <= l /\ l <= b1 /\ b1 \in Int
    BY <1>1, <1>5
  <2>3. M * b1 = bM - M /\ sm = bM - Base /\ M * o = 0
    BY <1>1, <2>1 DEF M1
  <2> HIDE DEF b1, o, l
  <2>4. M * o <= M * l /\ M * l <= M * b1 /\ M * l \in Int
    BY <2>2, Scaled
  <2> QED BY <2>1, <2>3, <2>4
<1>13. Base * q = -2 * bM /\ q \in Int
  <2>1. Base * (-2 * M) = -2 * (Base * M)
    BY <1>1
  <2> QED BY <1>1, <2>1
<1> HIDE DEF ad, be, am, bm, sm, ml, bM, q, l
<1>14. Base * q < Base * y /\ Base * y < bM
  <2> HIDE DEF n
  <2>1. n = (ad + be) - ml
    BY <1>11 DEF ml, n
  <2> QED BY <1>1, <1>6, <1>9, <1>10, <1>12, <1>13, <2>1
<1>15. q < y /\ y < M
  BY <1>1, <1>6, <1>13, <1>14, Unscaled DEF bM
<1>16. Same(M, Base * y, c)
  BY <1>5, <1>6 DEF Same, n
<1> QED
  BY <1>6, <1>15, <1>16 DEF y, M, q, c, a, b, D0, E0

-------------------------------------------------------------------------------
(* Limbs.                                                                     *)

LEMMA OddSameBase ==
  ASSUME NEW a \in Int, NEW b \in Int, Same(Base, a, b)
  PROVE  Odd(a) <=> Odd(b)
<1>1. W \in Nat /\ 1 <= W /\ Same(Pow2[W], a, b)
  BY Widths
<1>2. Pow2[1] = 2
  <2>1. Pow2[0 + 1] = 2 * Pow2[0] /\ 0 + 1 = 1
    BY Pow2Def
  <2> QED BY <2>1, Pow2Def
<1> DEFINE one == 1
<1>3. one \in Nat /\ one <= W
  BY <1>1
<1> HIDE DEF one
<1>4. Same(Pow2[one], a, b)
  BY <1>1, <1>3, Pow2Coarser
<1>5. a % 2 = b % 2
  <2>1. 2 \in Nat \ {0} /\ Same(2, a, b)
    BY <1>2, <1>4 DEF one
  <2> QED BY <2>1, SameMod
<1> QED
  BY <1>5 DEF Odd

(* A word agrees with its number in the bottom limb.                          *)
LEMMA WordSameBase ==
  ASSUME NEW a \in Int, NEW b \in Int, Same(4 * Base, a, b)
  PROVE  Same(Base, a, b)
<1>1. W \in Nat /\ W <= W + 2 /\ Base = Pow2[W]
  BY Widths
<1> QED
  BY <1>1, WordMod

LEMMA Limb0Is ==
  ASSUME NEW n \in Int, NEW l
  PROVE  /\ Limb0(n, l) \in Words /\ Limb0(n, l) \in Int
         /\ Same(Base, n, Limb0(n, l)) /\ (Odd(Limb0(n, l)) <=> Odd(n))
<1> DEFINE y == Limb0(n, l)
<1>1. Base \in Nat \ {0} /\ Base \in Int
  BY Widths
<1>2. y \in Words /\ y \in Int /\ Same(Base, y, n)
  <2>1. CASE l > 1
    <3>1. y = n % Base
      BY <2>1 DEF Limb0
    <3>2. n % Base \in 0 .. Base - 1 /\ n % Base \in Int /\ n = Base * (n \div Base) + (n % Base)
          /\ n \div Base \in Int
      BY <1>1, DivMod
    <3> DEFINE r == n % Base
               i == n \div Base
    <3>3. r \in 0 .. Base - 1 /\ r \in Int /\ n = Base * i + r /\ i \in Int
      BY <3>2
    <3> HIDE DEF r, i
    <3>4. r = n + Base * (-i) /\ -i \in Int /\ r \in Words
      BY <1>1, <3>3 DEF Words
    <3> QED BY <3>1, <3>3, <3>4 DEF Same, r
  <2>2. CASE ~(l > 1)
    <3>1. y = Word(n)
      BY <2>2 DEF Limb0
    <3>2. Word(n) \in Words /\ Word(n) \in Int /\ Same(4 * Base, Word(n), n)
      BY WordType
    <3> QED BY <3>1, <3>2, WordSameBase
  <2> QED BY <2>1, <2>2
<1> HIDE DEF y
<1>3. Same(Base, n, y)
  BY <1>1, <1>2, SameSym
<1>4. Odd(y) <=> Odd(n)
  BY <1>2, OddSameBase
<1> QED
  BY <1>2, <1>3, <1>4 DEF y

(* Dropping a limb that only repeats a sign loses nothing.                    *)
LEMMA ShortenedIs ==
  ASSUME NEW n \in Int, NEW l \in Nat, l > 1, SignOnly(n, l)
  PROVE  Shortened(n, l) = n
<1> DEFINE p == Pow2[W * (l - 1)]
           i == n \div p
           t == n % p
           h == 2 * p
           m == 4 * p
<1>1. p \in Nat \ {0}
  <2>1. W * (l - 1) \in Nat
    <3>1. W \in Nat /\ l - 1 \in Nat
      BY Widths
    <3> QED BY <3>1
  <2> DEFINE j == W * (l - 1)
  <2> HIDE DEF j
  <2>2. Pow2[j] \in Nat \ {0}
    BY <2>1, Pow2Type DEF j
  <2> QED BY <2>2 DEF j
<1>2. i \in {0, -1}
  BY DEF SignOnly
<1>3. Shortened(n, l) = Wrapped(n, m)
  BY DEF Shortened
<1> HIDE DEF p
<1>4. n = p * i + t /\ t \in 0 .. p - 1
  BY <1>1, DivMod
<1> HIDE DEF i, t
<1>5. -p <= n /\ n < p
  <2>1. CASE i = 0
    BY <1>1, <1>4, <2>1
  <2>2. CASE i = -1
    BY <1>1, <1>4, <2>2
  <2> QED BY <1>2, <2>1, <2>2
<1>6. m \in Nat \ {0} /\ h \in Int /\ m = 2 * h /\ -h <= n /\ n < h
  BY <1>1, <1>5
<1> HIDE DEF m, h
<1>7. Wrapped(n, m) = n
  BY <1>6, WrappedIs
<1> QED
  BY <1>3, <1>7

-------------------------------------------------------------------------------
(* The inductive invariant.                                                   *)

(* Once the row of f was shifted as far as it will be, it is even.            *)
Lead(a, b) ==
  (IF a = "const" THEN b.i > Pad ELSE b.i < W /\ Ahead(a, b) = 0)
    => ~Odd(Signed(b.u)) /\ ~Odd(Signed(b.v))

(* Divsteps done before and in the batch, which bound eta.                    *)
StepsDone(a, b, k) == IF a = "const" THEN k * (W - Pad) + b.i - Pad ELSE k * W + W - b.i
EtaBounded(a, b, k) == Abs(b.eta) <= 1 + StepsDone(a, b, k)

Ranges ==
  /\ -2 * modulus < d /\ d < modulus /\ -2 * modulus < e /\ e < modulus
  /\ -modulus < f /\ f <= modulus /\ -modulus < g /\ g < modulus

(* A batch in progress: its words are the bottom of f and g.                  *)
Running ==
  /\ Tracked(algo, bat) /\ Lead(algo, bat) /\ EtaBounded(algo, bat, round)
  /\ Same(Base, f, bat.f0) /\ Same(Base, g, bat.g0)
  /\ algo = "const" => round < Rounds

IInv == TypeOK /\ Ranges /\ (pc = "batch" => Running)

LEMMA TypeIs ==
  ASSUME TypeOK
  PROVE  /\ bat \in Bat /\ modulus \in Moduli /\ modulus \in Int /\ modulus \in Nat \ {0}
         /\ d \in Int /\ e \in Int /\ f \in Int /\ g \in Int /\ bat.eta \in Int /\ bat.i \in Int
         /\ round \in Nat /\ len \in 1 .. Limbs /\ len \in Nat /\ algo \in {"const", "var"}
<1>1. bat \in Bat /\ modulus \in Moduli
  BY DEF TypeOK, Bat
<1>2. modulus \in Int /\ modulus \in Nat \ {0} /\ bat.eta \in Int /\ bat.i \in Int
  BY <1>1, ModulusIs, BatTypes
<1>3. len \in Nat
  BY RoundsAssumption DEF TypeOK
<1> QED
  BY <1>1, <1>2, <1>3 DEF TypeOK

(* What the runs check follows.                                               *)
LEMMA InvariantTracks ==
  ASSUME IInv
  PROVE  BatchTracks
<1>1. SUFFICES ASSUME pc = "batch" PROVE BatchTracks
  BY DEF BatchTracks
<1> DEFINE a == algo
           b == bat
           U == Signed(b.u)
           V == Signed(b.v)
           Q == Signed(b.q)
           R == Signed(b.r)
           s == Scale(a, b)
           m == 4 * Base
<1>2. b \in Bat /\ a \in {"const", "var"} /\ Tracked(a, b)
  BY <1>1, TypeIs DEF IInv, Running
<1>3. s = Pow2[IF algo = "const" THEN bat.i ELSE BatchDone]
  BY <1>2 DEF Scale, BatchDone
<1>4. /\ b.i \in Nat /\ b.f0 \in Int /\ b.g0 \in Int /\ b.f \in Int /\ b.g \in Int
      /\ b.u \in Int /\ b.v \in Int /\ b.q \in Int /\ b.r \in Int
      /\ U \in Int /\ V \in Int /\ Q \in Int /\ R \in Int /\ s \in Int
      /\ m \in Nat \ {0} /\ m \in Int
  BY <1>2, BatTypes, ScaleType, Widths
<1>5. /\ Odd(b.f) /\ Row(b, U, V, b.f, s) /\ Row(b, Q, R, b.g, s)
      /\ Fits(U, V, Q, R, s, ScaleG(a, b), Determinant(a, b))
      /\ Same(m, b.u, U) /\ Same(m, b.v, V) /\ Same(m, b.q, Q) /\ Same(m, b.r, R)
  BY <1>2, TrackedParts
<1>6. ASSUME NEW w1 \in Int, NEW w2 \in Int, NEW c1 \in Int, NEW c2 \in Int, NEW n \in Int,
             Row(b, c1, c2, n, s), Same(m, w1, c1), Same(m, w2, c2)
      PROVE  Word(w1 * b.f0 + w2 * b.g0 - n * s) = 0
  <2> DEFINE f0 == b.f0
             g0 == b.g0
             x1 == w1 * f0
             x2 == w2 * g0
             y1 == c1 * f0
             y2 == c2 * g0
             k == n * s
             l == (x1 + x2) - k
             y == y1 + y2
  <2>1. f0 \in Int /\ g0 \in Int
    BY <1>4
  <2>2. Same(m, y, k)
    BY <1>6 DEF Row
  <2> HIDE DEF f0, g0, m, s
  <2>3. Same(m, x1, y1) /\ Same(m, x2, y2)
    BY <1>4, <1>6, <2>1, SameScale
  <2>4. x1 \in Int /\ x2 \in Int /\ y1 \in Int /\ y2 \in Int /\ k \in Int
    BY <1>4, <2>1
  <2> HIDE DEF x1, x2, y1, y2, k
  <2>5. Same(m, x1 + x2, y)
    BY <1>4, <2>3, <2>4, SameAdd
  <2> DEFINE z == x1 + x2
  <2>6. z \in Int /\ y \in Int /\ Same(m, z, y)
    BY <2>4, <2>5
  <2> HIDE DEF z, y
  <2>7. Same(m, z, k)
    BY <1>4, <2>2, <2>4, <2>6, SameTrans
  <2>8. l \in Int /\ Divides(m, l)
    <3>1. PICK i \in Int : z = k + m * i
      BY <2>7 DEF Same
    <3>2. z - k = m * i /\ z - k \in Int
      BY <1>4, <2>4, <2>6, <3>1
    <3>3. l = z - k
      BY DEF z
    <3> QED BY <1>4, <3>2, <3>3, DividesIs
  <2> HIDE DEF l
  <2>9. l % m = 0
    BY <1>4, <2>8, DividesMod
  <2>10. l = w1 * b.f0 + w2 * b.g0 - n * s
    BY <1>4 DEF l, x1, x2, k, f0, g0
  <2>11. Word(l) = 0
    BY <2>9 DEF Word, m
  <2> QED BY <2>10, <2>11
<1>7. Word(b.u * b.f0 + b.v * b.g0 - b.f * s) = 0 /\ Word(b.q * b.f0 + b.r * b.g0 - b.g * s) = 0
  <2> HIDE DEF U, V, Q, R, s, b, m
  <2> QED BY <1>4, <1>5, <1>6
<1>8. ASSUME b.i = IF a = "const" THEN W ELSE 0
      PROVE  /\ U * R - V * Q = Pow2[IF a = "const" THEN W + Pad ELSE W]
             /\ Abs(U) + Abs(V) <= Base /\ Abs(Q) + Abs(R) <= Base
  <2>1. s <= Base /\ ScaleG(a, b) <= Base
    BY <1>2, ScaleType
  <2>2. Determinant(a, b) = Pow2[IF a = "const" THEN W + Pad ELSE W]
    <3>1. W - 0 = W
      BY Widths
    <3>2. CASE a = "const"
      BY <1>8, <3>2 DEF Determinant
    <3>3. CASE a # "const"
      BY <1>8, <3>1, <3>3 DEF Determinant
    <3> QED BY <3>2, <3>3
  <2>3. ScaleG(a, b) \in Int /\ Base \in Int /\ Abs(U) \in Int /\ Abs(V) \in Int
        /\ Abs(Q) \in Int /\ Abs(R) \in Int
    BY <1>2, <1>4, ScaleType, Widths, AbsIs
  <2> DEFINE l == ScaleG(a, b)
             det == Determinant(a, b)
  <2>4. Abs(U) + Abs(V) <= s /\ Abs(Q) + Abs(R) <= l /\ U * R - V * Q = det
    BY <1>5 DEF Fits
  <2>5. det = Pow2[IF a = "const" THEN W + Pad ELSE W] /\ s <= Base /\ l <= Base /\ l \in Int
    BY <2>1, <2>2, <2>3
  <2> HIDE DEF l, det, s, U, V, Q, R, a, b
  <2> QED BY <1>4, <2>3, <2>4, <2>5
<1>9. Odd(bat.f)
  BY <1>5
<1>10. /\ Word(bat.u * bat.f0 + bat.v * bat.g0 - bat.f * s) = 0
       /\ Word(bat.q * bat.f0 + bat.r * bat.g0 - bat.g * s) = 0
  BY <1>7
<1>11. bat.i = (IF algo = "const" THEN W ELSE 0) =>
         /\ Signed(bat.u) * Signed(bat.r) - Signed(bat.v) * Signed(bat.q)
              = Pow2[IF algo = "const" THEN W + Pad ELSE W]
         /\ Abs(Signed(bat.u)) + Abs(Signed(bat.v)) <= Base
         /\ Abs(Signed(bat.q)) + Abs(Signed(bat.r)) <= Base
  BY <1>8
<1> HIDE DEF s
<1> QED
  BY <1>3, <1>9, <1>10, <1>11, Zenon DEF BatchTracks

LEMMA InvariantRanges ==
  ASSUME IInv
  PROVE  NumbersInRange
<1>1. /\ \A n \in {d, e} : -2 * modulus < n /\ n < modulus
      /\ -modulus < f /\ f <= modulus /\ -modulus < g /\ g < modulus
  BY DEF IInv, Ranges
<1>2. ASSUME pc = "batch"
      PROVE  LET done == IF algo = "const" THEN round * (W - Pad) + bat.i - Pad
                                           ELSE round * W + W - bat.i
             IN  /\ Abs(bat.eta) <= 1 + done
                 /\ algo = "const" => Abs(bat.eta) <= 1 + Rounds * (W - Pad)
  <2>1. Abs(bat.eta) <= 1 + StepsDone(algo, bat, round)
    BY <1>2 DEF IInv, Running, EtaBounded
  <2>2. ASSUME algo = "const"
        PROVE  1 + StepsDone(algo, bat, round) <= 1 + Rounds * (W - Pad)
    <3> DEFINE k == W - Pad
               j == round
               i == bat.i
    <3>1. k \in Nat /\ j \in Nat /\ j + 1 <= Rounds /\ Rounds \in Nat /\ i \in Nat /\ i <= W
          /\ W \in Nat /\ Pad \in Nat
      BY <1>2, <2>2, TypeIs, Widths, BatTypes, RoundsAssumption DEF IInv, Running
    <3>2. StepsDone(algo, bat, round) = j * k + i - Pad
      BY <2>2 DEF StepsDone
    <3> DEFINE j1 == j + 1
    <3>3. j1 \in Nat /\ j1 * k = j * k + k
      BY <3>1
    <3> HIDE DEF j1
    <3>4. j1 * k <= Rounds * k
      <4>1. j1 <= Rounds /\ j1 \in Int /\ Rounds \in Int
        BY <3>1 DEF j1
      <4> HIDE DEF k
      <4> QED BY <3>1, <4>1, Scaled
    <3>5. j * k \in Int /\ j1 * k \in Int /\ Rounds * k \in Int /\ i - Pad <= k
      BY <3>1, <3>3
    <3> DEFINE jk == j * k
               jk1 == j1 * k
               Rk == Rounds * k
    <3>6. jk \in Int /\ jk1 \in Int /\ Rk \in Int /\ jk1 = jk + k /\ jk1 <= Rk /\ i - Pad <= k
      BY <3>3, <3>4, <3>5
    <3> HIDE DEF jk, jk1, Rk
    <3>7. 1 + (jk + i - Pad) <= 1 + Rk
      BY <3>1, <3>6
    <3> QED BY <3>2, <3>7 DEF jk, Rk
  <2>3. Abs(bat.eta) \in Int /\ StepsDone(algo, bat, round) \in Int /\ Rounds * (W - Pad) \in Int
    BY TypeIs, AbsIs, Widths, RoundsAssumption DEF IInv, StepsDone
  <2>4. algo = "const" => Abs(bat.eta) <= 1 + Rounds * (W - Pad)
    <3> DEFINE l == Rounds * (W - Pad)
               k == StepsDone(algo, bat, round)
               i == Abs(bat.eta)
    <3> HIDE DEF l, k, i
    <3>1. algo = "const" => i <= 1 + l
      BY <2>1, <2>2, <2>3 DEF l, k, i
    <3> QED BY <3>1 DEF i, l
  <2> QED BY <2>1, <2>4 DEF StepsDone
<1> QED
  BY <1>1, <1>2 DEF NumbersInRange

-------------------------------------------------------------------------------
(* The invariant holds initially ...                                          *)

(* The batch that follows: its words are the bottom limbs of f and g.         *)
LEMMA BatchRuns ==
  ASSUME NEW a \in {"const", "var"}, NEW h \in Int, NEW k \in Nat,
         NEW f0 \in Words, NEW g0 \in Words, Odd(f0),
         Abs(h) <= 1 + (IF a = "const" THEN k * (W - Pad) ELSE k * W)
  PROVE  LET b == Batch(a, h, f0, g0)
         IN  b \in Bat /\ Tracked(a, b) /\ Lead(a, b) /\ EtaBounded(a, b, k)
             /\ b.f0 = f0 /\ b.g0 = g0
<1> DEFINE b == Batch(a, h, f0, g0)
<1>1. b \in Bat /\ Tracked(a, b)
  BY BatchBegins
<1>2. b.f0 = f0 /\ b.g0 = g0 /\ b.eta = h /\ b.i = IF a = "const" THEN Pad ELSE W
  BY DEF Batch
<1> HIDE DEF b
<1>3. Lead(a, b)
  <2>1. ~(IF a = "const" THEN b.i > Pad ELSE b.i < W /\ Ahead(a, b) = 0)
    BY <1>2, Widths
  <2> QED BY <2>1 DEF Lead
<1>4. EtaBounded(a, b, k)
  <2> DEFINE y == k * (W - Pad)
             z == k * W
  <2>1. y \in Int /\ z \in Int /\ W \in Int /\ Pad \in Int
    BY Widths
  <2>2. StepsDone(a, b, k) = IF a = "const" THEN y + b.i - Pad ELSE z + W - b.i
    BY DEF StepsDone
  <2>3. Abs(h) <= 1 + (IF a = "const" THEN y ELSE z)
    OBVIOUS
  <2> HIDE DEF y, z
  <2>4. StepsDone(a, b, k) = IF a = "const" THEN y ELSE z
    BY <1>2, <2>1, <2>2
  <2> QED BY <1>2, <2>3, <2>4 DEF EtaBounded
<1> QED
  BY <1>1, <1>2, <1>3, <1>4 DEF b

LEMMA InvariantInit ==
  ASSUME Init
  PROVE  IInv
<1>1. /\ algo \in {"const", "var"} /\ modulus \in Moduli /\ x \in 0 .. modulus - 1
      /\ d = 0 /\ e = 1 /\ f = modulus /\ g = x
      /\ eta = -1 /\ len = Limbs /\ round = 0 /\ pc = "batch" /\ result = -1
  BY DEF Init
<1>2. PICK f0 \in {Limb0(modulus, Limbs), Word((modulus % Base) - Base)} :
        bat = Batch(algo, -1, f0, Limb0(x, Limbs))
  BY DEF Init
<1> DEFINE M == modulus
           g0 == Limb0(x, Limbs)
           h == -1
<1>3. M \in Int /\ M > 2 /\ Odd(M) /\ x \in Int
  BY <1>1, ModulusIs
<1>4. Base \in Nat \ {0} /\ Base \in Int
  BY Widths
<1>5. f0 \in Words /\ f0 \in Int /\ Same(Base, M, f0) /\ Odd(f0)
  <2>1. CASE f0 = Limb0(M, Limbs)
    <3> HIDE DEF M
    <3> QED BY <1>3, <2>1, Limb0Is
  <2>2. CASE f0 = Word((M % Base) - Base)
    <3> DEFINE r == M % Base
               i == M \div Base
               n == r - Base
    <3>1. f0 = Word(n)
      BY <2>2
    <3> HIDE DEF M
    <3>2. r \in Int /\ i \in Int /\ M = Base * i + r
      BY <1>3, <1>4, DivMod
    <3> HIDE DEF r, i
    <3>3. n \in Int /\ M = n + Base * (i + 1) /\ i + 1 \in Int
      BY <1>4, <3>2
    <3> HIDE DEF n
    <3>4. Same(Base, M, n)
      BY <3>3 DEF Same
    <3>5. f0 \in Words /\ f0 \in Int /\ Same(4 * Base, f0, n)
      BY <3>1, <3>3, WordType
    <3>6. Same(Base, f0, n)
      BY <3>3, <3>5, WordSameBase
    <3>7. Same(Base, n, f0)
      BY <1>4, <3>3, <3>5, <3>6, SameSym
    <3>8. Same(Base, M, f0)
      BY <1>3, <1>4, <3>3, <3>4, <3>5, <3>7, SameTrans
    <3>9. Odd(f0)
      BY <1>3, <3>5, <3>8, OddSameBase
    <3> QED BY <3>5, <3>8, <3>9
  <2> QED BY <1>2, <2>1, <2>2
<1>6. g0 \in Words /\ Same(Base, x, g0)
  BY <1>3, Limb0Is
<1> DEFINE o == 0
<1>7. h \in Int /\ o \in Nat /\ Abs(h) <= 1 + (IF algo = "const" THEN o * (W - Pad) ELSE o * W)
  <2>1. 0 * (W - Pad) = 0 /\ 0 * W = 0
    BY Widths
  <2>2. h \in Int /\ h < 0 /\ h + 1 = 0
    <3>1. -1 \in Int /\ -1 < 0 /\ -1 + 1 = 0
      OBVIOUS
    <3> QED BY <3>1
  <2> HIDE DEF h
  <2>3. Abs(h) = 1
    BY <2>2 DEF Abs
  <2> QED BY <2>1, <2>2, <2>3
<1>8. bat = Batch(algo, h, f0, g0) /\ round = o
  BY <1>1, <1>2
<1>9. f = M /\ g = x /\ algo \in {"const", "var"}
  BY <1>1
<1> HIDE DEF M, g0, h, o
<1>10. /\ bat \in Bat /\ Tracked(algo, bat) /\ Lead(algo, bat) /\ EtaBounded(algo, bat, o)
       /\ bat.f0 = f0 /\ bat.g0 = g0
  BY <1>5, <1>6, <1>7, <1>8, <1>9, BatchRuns
<1>11. Running
  <2>1. algo = "const" => round < Rounds
    BY <1>1, RoundsAssumption
  <2> QED BY <1>5, <1>6, <1>8, <1>9, <1>10, <2>1 DEF Running
<1>12. TypeOK
  <2>1. Limbs \in 1 .. Limbs
    BY RoundsAssumption
  <2> QED BY <1>1, <1>3, <1>10, <2>1 DEF TypeOK, Bat, M
<1>13. Ranges
  BY <1>1, <1>3 DEF Ranges, M
<1> QED
  BY <1>11, <1>12, <1>13 DEF IInv

(* ... and every action keeps it. The actions of a batch change the batch     *)
(* alone.                                                                     *)
LEMMA WithinKeeps ==
  ASSUME IInv, pc = "batch", NEW n \in Bat, Within(n), Tracked(algo, n), Lead(algo, n),
         EtaBounded(algo, n, round), n.f0 = bat.f0, n.g0 = bat.g0
  PROVE  IInv'
<1>1. bat' = n /\ UNCHANGED <<algo, modulus, x, d, e, f, g, eta, len, round, pc, result>>
  BY DEF Within
<1>2. TypeOK /\ Ranges /\ Running
  BY DEF IInv
<1>3. TypeOK'
  BY <1>1, <1>2 DEF TypeOK, Bat
<1>4. Ranges'
  BY <1>1, <1>2 DEF Ranges
<1>5. Running'
  <2>1. Tracked(algo, bat)'
    BY <1>1
  <2>2. Lead(algo, bat)' /\ EtaBounded(algo, bat, round)'
    BY <1>1
  <2>3. Same(Base, f, bat.f0)' /\ Same(Base, g, bat.g0)' /\ (algo = "const" => round < Rounds)'
    BY <1>1, <1>2 DEF Running
  <2> QED BY <2>1, <2>2, <2>3 DEF Running
<1> QED
  BY <1>3, <1>4, <1>5 DEF IInv

LEMMA TwiceIsEven ==
  ASSUME NEW a \in Int
  PROVE  ~Odd(2 * a)
<1> DEFINE y == 2 * a
<1>1. y \in Int /\ y = 2 * a
  OBVIOUS
<1> HIDE DEF y
<1>2. ~Odd(y)
  BY <1>1, OddMeans
<1> QED
  BY <1>2 DEF y

LEMMA DivstepKeeps ==
  ASSUME IInv, Divstep
  PROVE  IInv'
<1> DEFINE b == bat
           n == Divstepped(b)
           const == "const"
<1>1. pc = "batch" /\ algo = const /\ b.i < W /\ Within(n)
  BY DEF Divstep, Batching
<1>2. b \in Bat /\ Tracked(const, b) /\ EtaBounded(const, b, round) /\ round \in Nat
  BY <1>1, TypeIs DEF IInv, Running
<1>3. n \in Bat /\ Tracked(const, n) /\ Halved(b, n)
  BY <1>1, <1>2, DivsteppedTracks
<1> HIDE DEF n, b
<1>4. /\ b.eta \in Int /\ n.eta \in Int /\ b.i \in Nat /\ Pad \in Nat /\ W \in Nat
      /\ Signed(b.u) \in Int /\ Signed(b.v) \in Int /\ Signed(b.q) \in Int /\ Signed(b.r) \in Int
  BY <1>2, <1>3, BatTypes, Widths
<1>5. /\ n.i = b.i + 1 /\ n.f0 = b.f0 /\ n.g0 = b.g0
      /\ n.eta = b.eta - 1 \/ (b.eta < 0 /\ n.eta = -b.eta - 2)
  BY <1>3 DEF Halved
<1>6. Lead(const, n)
  <2>1. ~Odd(Signed(n.u)) /\ ~Odd(Signed(n.v))
    BY <1>3, <1>4, TwiceIsEven DEF Halved
  <2> QED BY <2>1 DEF Lead
<1>7. EtaBounded(const, n, round)
  <2> DEFINE y == round * (W - Pad)
  <2>1. y \in Int
    BY <1>2, <1>4
  <2>2. StepsDone(const, b, round) = y + b.i - Pad /\ StepsDone(const, n, round) = y + n.i - Pad
    BY DEF StepsDone
  <2> HIDE DEF y
  <2>3. Abs(b.eta) <= 1 + (y + b.i - Pad) /\ b.i >= Pad /\ y + b.i - Pad \in Int
    BY <1>2, <1>4, <2>1, <2>2 DEF EtaBounded, Tracked
  <2>4. Abs(n.eta) <= 1 + (y + n.i - Pad)
    BY <1>4, <1>5, <2>1, <2>3 DEF Abs
  <2> QED BY <2>2, <2>4 DEF EtaBounded
<1> HIDE DEF const
<1>8. /\ Tracked(algo, n) /\ Lead(algo, n) /\ EtaBounded(algo, n, round)
      /\ n.f0 = bat.f0 /\ n.g0 = bat.g0
  BY <1>1, <1>3, <1>5, <1>6, <1>7 DEF b
<1> QED
  BY <1>1, <1>3, <1>8, WithinKeeps

LEMMA ShiftZerosKeeps ==
  ASSUME IInv, ShiftZeros
  PROVE  IInv'
<1> DEFINE b == bat
           n == ShiftedZeros(b)
           z == TrailingZeros(b.g, b.i)
           p == Pow2[z]
           var == "var"
<1>1. pc = "batch" /\ algo = var /\ b.i > 0 /\ ~Odd(b.g) /\ Within(n)
  BY DEF ShiftZeros, Batching
<1>2. b \in Bat /\ Tracked(var, b) /\ EtaBounded(var, b, round) /\ round \in Nat
  BY <1>1, TypeIs DEF IInv, Running
<1>3. n \in Bat /\ Tracked(var, n) /\ Shifted(b, n, z)
  BY <1>2, ShiftedZerosTracks
<1>4. b.i \in Nat /\ b.g \in Int /\ b.g \in Words
  BY <1>2, BatTypes
<1>5. z >= 1 /\ z \in Nat
  <2> DEFINE one == 1
             i == b.g
             j == b.i
  <2>1. Pow2[1] = 2
    <3>1. Pow2[0 + 1] = 2 * Pow2[0] /\ 0 + 1 = 1
      BY Pow2Def
    <3> QED BY <3>1, Pow2Def
  <2>2. PICK k \in Int : b.g = 2 * k
    BY <1>1, <1>4, OddMeans
  <2>3. 2 \in Int /\ Divides(2, b.g)
    BY <1>4, <2>2, DividesIs
  <2>4. one \in 0 .. j /\ Divides(Pow2[one], i) /\ i \in Int /\ j \in Nat
    BY <1>1, <1>4, <2>1, <2>3
  <2> HIDE DEF one, i, j
  <2>5. one <= TrailingZeros(i, j) /\ TrailingZeros(i, j) \in Nat
    BY <2>4, TrailingZerosAtLeast, TrailingZerosAre
  <2> QED BY <2>5 DEF one, i, j
<1> HIDE DEF n, b, z
<1>6. /\ b.eta \in Int /\ n.eta \in Int /\ b.i \in Nat /\ n.i \in Nat /\ W \in Nat
      /\ Signed(b.u) \in Int /\ Signed(b.v) \in Int
  BY <1>2, <1>3, BatTypes, Widths
<1>7. n.i = b.i - z /\ n.f0 = b.f0 /\ n.g0 = b.g0 /\ n.eta = b.eta - z
      /\ Signed(n.u) = p * Signed(b.u) /\ Signed(n.v) = p * Signed(b.v)
  BY <1>3 DEF Shifted
<1>8. Lead(var, n)
  <2>1. PICK c \in Int : p = 2 * c
    <3> DEFINE j == z - 1
    <3>1. j \in Nat /\ j + 1 = z
      BY <1>5
    <3> HIDE DEF j
    <3>2. Pow2[j + 1] = 2 * Pow2[j] /\ Pow2[j] \in Int
      BY <3>1, Pow2Def, Pow2Type
    <3> QED BY <3>1, <3>2
  <2> HIDE DEF p
  <2>2. ASSUME NEW a \in Int PROVE ~Odd(p * a)
    <3>1. p * a = 2 * (c * a) /\ c * a \in Int
      BY <2>1
    <3> DEFINE y == c * a
    <3>2. y \in Int /\ p * a = 2 * y
      BY <3>1
    <3> HIDE DEF y
    <3> QED BY <3>2, TwiceIsEven
  <2>3. ~Odd(Signed(n.u)) /\ ~Odd(Signed(n.v))
    BY <1>6, <1>7, <2>2
  <2> QED BY <2>3 DEF Lead
<1>9. EtaBounded(var, n, round)
  <2> DEFINE y == round * W
  <2>1. y \in Int
    BY <1>2, <1>6
  <2>2. StepsDone(var, b, round) = y + W - b.i /\ StepsDone(var, n, round) = y + W - n.i
    BY DEF StepsDone
  <2> HIDE DEF y
  <2>3. Abs(b.eta) <= 1 + (y + W - b.i) /\ y + W - b.i \in Int
    BY <1>2, <1>6, <2>1, <2>2 DEF EtaBounded
  <2>4. Abs(n.eta) <= 1 + (y + W - n.i)
    BY <1>5, <1>6, <1>7, <2>1, <2>3 DEF Abs
  <2> QED BY <2>2, <2>4 DEF EtaBounded
<1> HIDE DEF var
<1>10. /\ Tracked(algo, n) /\ Lead(algo, n) /\ EtaBounded(algo, n, round)
       /\ n.f0 = bat.f0 /\ n.g0 = bat.g0
  BY <1>1, <1>3, <1>7, <1>8, <1>9 DEF b
<1> QED
  BY <1>1, <1>3, <1>10, WithinKeeps

(* Cancelling bits shifts nothing: the zeros it makes are ahead.              *)
LEMMA CancellingKeeps ==
  ASSUME IInv, pc = "batch", algo = "var", NEW n \in Bat, Within(n), Tracked("var", n),
         NEW k \in Nat, NEW t \in Nat, CancelledBy(bat, n, k, t)
  PROVE  IInv'
<1> DEFINE b == bat
           var == "var"
<1>1. b \in Bat /\ EtaBounded(var, b, round) /\ round \in Nat /\ algo = var /\ Tracked(var, n)
  BY TypeIs DEF IInv, Running
<1>2. /\ k \in Nat \ {0} /\ k <= b.i /\ n.i = b.i /\ n.f0 = b.f0 /\ n.g0 = b.g0
      /\ Divides(Pow2[k], n.g) /\ (n.eta = b.eta \/ n.eta = -b.eta)
  BY DEF CancelledBy
<1> HIDE DEF b
<1>3. b.eta \in Int /\ n.eta \in Int /\ n.i \in Nat /\ n.g \in Int
  BY <1>1, BatTypes
<1>4. Ahead(var, n) >= 1
  <2> DEFINE i == n.g
             j == n.i
  <2>1. k \in 0 .. j /\ i \in Int /\ j \in Nat /\ Divides(Pow2[k], i)
    BY <1>2, <1>3
  <2> HIDE DEF i, j
  <2>2. k <= TrailingZeros(i, j) /\ TrailingZeros(i, j) \in Nat
    BY <2>1, TrailingZerosAtLeast, TrailingZerosAre
  <2>3. TrailingZeros(i, j) >= 1
    BY <1>2, <2>2
  <2> QED BY <2>3 DEF Ahead, i, j
<1>5. Lead(var, n)
  <2>1. Ahead(var, n) # 0
    BY <1>4
  <2> QED BY <2>1 DEF Lead
<1>6. EtaBounded(var, n, round)
  <2>1. Abs(n.eta) = Abs(b.eta)
    BY <1>2, <1>3 DEF Abs
  <2>2. StepsDone(var, n, round) = StepsDone(var, b, round)
    BY <1>2 DEF StepsDone
  <2> QED BY <1>1, <2>1, <2>2 DEF EtaBounded
<1> HIDE DEF var
<1>7. /\ Tracked(algo, n) /\ Lead(algo, n) /\ EtaBounded(algo, n, round)
      /\ n.f0 = bat.f0 /\ n.g0 = bat.g0
  BY <1>1, <1>2, <1>5, <1>6 DEF b
<1> QED
  BY <1>7, WithinKeeps

LEMMA SwapAndCancelKeeps ==
  ASSUME IInv, SwapAndCancel
  PROVE  IInv'
<1> DEFINE b == bat
           n == SwappedAndCancelled(b)
<1>1. pc = "batch" /\ algo = "var" /\ b.i > 0 /\ Odd(b.g) /\ b.eta < 0 /\ Within(n)
  BY DEF SwapAndCancel, Batching
<1>2. b \in Bat /\ Tracked("var", b)
  BY <1>1, TypeIs DEF IInv, Running
<1>3. n \in Bat /\ Tracked("var", n) /\ \E k \in Nat, t \in Nat : CancelledBy(b, n, k, t)
  BY <1>1, <1>2, SwappedAndCancelledTracks
<1> HIDE DEF n
<1> QED
  BY <1>1, <1>3, CancellingKeeps

LEMMA CancelBitsKeeps ==
  ASSUME IInv, CancelBits
  PROVE  IInv'
<1> DEFINE b == bat
           n == CancelledBits(b)
<1>1. pc = "batch" /\ algo = "var" /\ b.i > 0 /\ Odd(b.g) /\ b.eta >= 0 /\ Within(n)
  BY DEF CancelBits, Batching
<1>2. b \in Bat /\ Tracked("var", b)
  BY <1>1, TypeIs DEF IInv, Running
<1>3. n \in Bat /\ Tracked("var", n) /\ \E k \in Nat, t \in Nat : CancelledBy(b, n, k, t)
  BY <1>1, <1>2, CancelledBitsTracks
<1> HIDE DEF n
<1> QED
  BY <1>1, <1>3, CancellingKeeps

(* A batch that has made its divsteps is scaled by 2^W, and no zeros are      *)
(* ahead.                                                                     *)
LEMMA FinishedScale ==
  ASSUME NEW b \in Bat, NEW a, b.i = IF a = "const" THEN W ELSE 0
  PROVE  Ahead(a, b) = 0 /\ Scale(a, b) = Base /\ ScaleG(a, b) = Base
<1>1. b.g \in Int /\ b.i \in Nat /\ W \in Nat /\ W - 0 = W /\ Base = Pow2[W] /\ Base \in Int
  BY BatTypes, Widths
<1>2. Ahead(a, b) = 0
  <2>1. CASE a = "const"
    BY <2>1 DEF Ahead
  <2>2. CASE a # "const"
    <3> DEFINE i == b.g
               j == b.i
    <3>1. i \in Int /\ j \in Nat /\ j = 0
      BY <1>1, <2>2
    <3> HIDE DEF i, j
    <3>2. TrailingZeros(i, j) = 0
      BY <3>1, OddHasNone
    <3> QED BY <2>2, <3>2 DEF Ahead, i, j
  <2> QED BY <2>1, <2>2
<1>3. Scale(a, b) = Base
  <2>1. (IF a = "const" THEN b.i ELSE W - b.i) = W
    BY <1>1
  <2> QED BY <1>1, <2>1, Zenon DEF Scale
<1>4. ScaleG(a, b) = Base
  <2>1. Pow2[0] = 1 /\ Base * 1 = Base
    BY <1>1, Pow2Def
  <2> QED BY <1>2, <1>3, <2>1 DEF ScaleG
<1> QED
  BY <1>2, <1>3, <1>4

(* The numbers of the next batch, from the matrix of a finished one.          *)
LEMMA NextNumbers ==
  ASSUME IInv, pc = "batch", bat.i = IF algo = "const" THEN W ELSE 0
  PROVE  LET ff == UpdatedFG(bat.u, bat.v)
             gg == UpdatedFG(bat.q, bat.r)
             dd == UpdatedDE(bat.u, bat.v)
             ee == UpdatedDE(bat.q, bat.r)
         IN  /\ ff \in Int /\ -modulus < ff /\ ff <= modulus /\ Odd(ff)
             /\ gg \in Int /\ -modulus < gg /\ gg < modulus
             /\ dd \in Int /\ -2 * modulus < dd /\ dd < modulus
             /\ ee \in Int /\ -2 * modulus < ee /\ ee < modulus
             /\ Base * ff = Signed(bat.u) * f + Signed(bat.v) * g
             /\ Base * gg = Signed(bat.q) * f + Signed(bat.r) * g
             /\ Same(modulus, Base * dd, Signed(bat.u) * d + Signed(bat.v) * e)
             /\ Same(modulus, Base * ee, Signed(bat.q) * d + Signed(bat.r) * e)
<1> DEFINE b == bat
           a == algo
           U == Signed(b.u)
           V == Signed(b.v)
           Q == Signed(b.q)
           R == Signed(b.r)
           ff == UpdatedFG(b.u, b.v)
           gg == UpdatedFG(b.q, b.r)
<1>1. /\ b \in Bat /\ modulus \in Moduli /\ d \in Int /\ e \in Int /\ f \in Int /\ g \in Int
      /\ a \in {"const", "var"}
      /\ Tracked(a, b) /\ Lead(a, b) /\ Same(Base, f, b.f0) /\ Same(Base, g, b.g0)
  BY TypeIs DEF IInv, Running
<1>2. /\ -2 * modulus < d /\ d < modulus /\ -2 * modulus < e /\ e < modulus
      /\ -modulus < f /\ f <= modulus /\ -modulus < g /\ g < modulus
  BY DEF IInv, Ranges
<1>3. /\ b.u \in Words /\ b.v \in Words /\ b.q \in Words /\ b.r \in Words
      /\ b.f \in Int /\ b.g \in Int /\ b.i \in Nat /\ W \in Nat /\ W >= 1 /\ Pad < W /\ Pad \in Nat
      /\ Base = Pow2[W] /\ Base \in Int
      /\ U \in Int /\ V \in Int /\ Q \in Int /\ R \in Int
  BY <1>1, BatTypes, Widths
<1>4. Ahead(a, b) = 0 /\ Scale(a, b) = Base /\ ScaleG(a, b) = Base
  BY <1>1, FinishedScale
<1>6. ~Odd(U) /\ ~Odd(V)
  <2>1. IF a = "const" THEN b.i > Pad ELSE b.i < W /\ Ahead(a, b) = 0
    BY <1>3, <1>4
  <2> QED BY <1>1, <2>1 DEF Lead
<1>7. /\ Odd(b.f) /\ Row(b, U, V, b.f, Base) /\ Row(b, Q, R, b.g, Base)
      /\ Abs(U) + Abs(V) <= Base /\ -Base < U
      /\ Abs(Q) + Abs(R) <= Base /\ -Base < Q /\ Q < Base
  <2>1. /\ Odd(b.f) /\ Row(b, U, V, b.f, Scale(a, b)) /\ Row(b, Q, R, b.g, Scale(a, b))
        /\ Fits(U, V, Q, R, Scale(a, b), ScaleG(a, b), Determinant(a, b))
    BY <1>1, TrackedParts
  <2> DEFINE det == Determinant(a, b)
  <2>2. Fits(U, V, Q, R, Base, Base, det)
    BY <1>4, <2>1
  <2> HIDE DEF U, V, Q, R, a, b, det
  <2> QED BY <1>4, <2>1, <2>2 DEF Fits
<1>8. ff \in Int /\ Base * ff = U * f + V * g /\ Odd(ff)
  <2> HIDE DEF b
  <2> QED BY <1>1, <1>3, <1>6, <1>7, UpdatedFGIs
<1>9. gg \in Int /\ Base * gg = Q * f + R * g
  <2> HIDE DEF b
  <2> QED BY <1>1, <1>3, <1>7, UpdatedFGIs
<1>10. -modulus < ff /\ ff <= modulus
  <2> HIDE DEF b
  <2> QED BY <1>1, <1>2, <1>3, <1>7, <1>8, UpdatedFGInRange
<1>11. -modulus < gg /\ gg < modulus
  <2> HIDE DEF b
  <2> QED BY <1>1, <1>2, <1>3, <1>7, <1>9, UpdatedFGInRange
<1> DEFINE dd == UpdatedDE(b.u, b.v)
           ee == UpdatedDE(b.q, b.r)
<1>12. /\ dd \in Int /\ -2 * modulus < dd /\ dd < modulus
       /\ Same(modulus, Base * dd, U * d + V * e)
  <2> HIDE DEF b
  <2> QED BY <1>1, <1>2, <1>3, <1>7, UpdatedDEIs
<1>13. /\ ee \in Int /\ -2 * modulus < ee /\ ee < modulus
       /\ Same(modulus, Base * ee, Q * d + R * e)
  <2> HIDE DEF b
  <2> QED BY <1>1, <1>2, <1>3, <1>7, UpdatedDEIs
<1> HIDE DEF ff, gg, dd, ee, U, V, Q, R
<1>14. /\ ff \in Int /\ -modulus < ff /\ ff <= modulus /\ Odd(ff)
       /\ gg \in Int /\ -modulus < gg /\ gg < modulus
       /\ dd \in Int /\ -2 * modulus < dd /\ dd < modulus
       /\ ee \in Int /\ -2 * modulus < ee /\ ee < modulus
       /\ Base * ff = U * f + V * g /\ Base * gg = Q * f + R * g
       /\ Same(modulus, Base * dd, U * d + V * e) /\ Same(modulus, Base * ee, Q * d + R * e)
  BY <1>8, <1>9, <1>10, <1>11, <1>12, <1>13
<1> QED
  BY <1>14, Zenon DEF ff, gg, dd, ee, U, V, Q, R

(* After the update: the loop goes on with the bottom limbs of f and g, or    *)
(* the call normalizes.                                                       *)
LEMMA NextBatchKeeps ==
  ASSUME IInv, pc = "batch", bat.i = IF algo = "const" THEN W ELSE 0,
         NEW l \in 1 .. Limbs, NEW loop \in BOOLEAN,
         NextBatch(UpdatedFG(bat.u, bat.v), UpdatedFG(bat.q, bat.r), l, loop),
         algo = "const" /\ loop => round + 1 < Rounds
  PROVE  IInv'
<1> DEFINE b == bat
           a == algo
           ff == UpdatedFG(b.u, b.v)
           gg == UpdatedFG(b.q, b.r)
           dd == UpdatedDE(b.u, b.v)
           ee == UpdatedDE(b.q, b.r)
           f0 == Limb0(ff, l)
           g0 == Limb0(gg, l)
           k == round + 1
           h == b.eta
<1>1. /\ ff \in Int /\ -modulus < ff /\ ff <= modulus /\ Odd(ff)
      /\ gg \in Int /\ -modulus < gg /\ gg < modulus
      /\ dd \in Int /\ -2 * modulus < dd /\ dd < modulus
      /\ ee \in Int /\ -2 * modulus < ee /\ ee < modulus
  <2>1. LET ff1 == UpdatedFG(bat.u, bat.v)
            gg1 == UpdatedFG(bat.q, bat.r)
            dd1 == UpdatedDE(bat.u, bat.v)
            ee1 == UpdatedDE(bat.q, bat.r)
        IN  /\ ff1 \in Int /\ -modulus < ff1 /\ ff1 <= modulus /\ Odd(ff1)
            /\ gg1 \in Int /\ -modulus < gg1 /\ gg1 < modulus
            /\ dd1 \in Int /\ -2 * modulus < dd1 /\ dd1 < modulus
            /\ ee1 \in Int /\ -2 * modulus < ee1 /\ ee1 < modulus
    BY NextNumbers, Zenon
  <2> QED BY <2>1, Zenon
<1>2. /\ f' = ff /\ g' = gg /\ len' = l /\ eta' = h /\ d' = dd /\ e' = ee /\ round' = k
      /\ bat' = IF loop THEN Batch(a, h, f0, g0) ELSE b
      /\ pc' = IF loop THEN "batch" ELSE "normalize"
      /\ algo' = a /\ modulus' = modulus /\ x' = x /\ result' = result
  BY Zenon DEF NextBatch
<1>3. /\ b \in Bat /\ a \in {"const", "var"} /\ round \in Nat /\ h \in Int
      /\ EtaBounded(a, b, round) /\ TypeOK
  BY TypeIs DEF IInv, Running
<1>4. f0 \in Words /\ f0 \in Int /\ Same(Base, ff, f0) /\ Odd(f0) /\ g0 \in Words /\ Same(Base, gg, g0)
  <2> HIDE DEF ff, gg
  <2> QED BY <1>1, Limb0Is
<1>5. Abs(h) <= 1 + (IF a = "const" THEN k * (W - Pad) ELSE k * W)
  <2> DEFINE y == round * (W - Pad)
             z == round * W
  <2>1. y \in Int /\ z \in Int /\ W \in Int /\ Pad \in Int
    BY <1>3, Widths
  <2>2. k * (W - Pad) = y + (W - Pad) /\ k * W = z + W
    BY <1>3, Widths
  <2>3. StepsDone(a, b, round) = IF a = "const" THEN y + b.i - Pad ELSE z + W - b.i
    BY DEF StepsDone
  <2> HIDE DEF y, z, k
  <2>4. Abs(h) <= 1 + StepsDone(a, b, round)
    BY <1>3 DEF EtaBounded
  <2>5. Abs(h) \in Int
    BY <1>3, AbsIs
  <2>6. b.i = IF a = "const" THEN W ELSE 0
    OBVIOUS
  <2> HIDE DEF h, b, a
  <2>7. CASE a = "const"
    BY <2>1, <2>2, <2>3, <2>4, <2>5, <2>6, <2>7
  <2>8. CASE a # "const"
    BY <2>1, <2>2, <2>3, <2>4, <2>5, <2>6, <2>8
  <2> QED BY <2>7, <2>8
<1>6. k \in Nat
  BY <1>3
<1> DEFINE n == Batch(a, h, f0, g0)
<1>7. n \in Bat /\ Tracked(a, n) /\ Lead(a, n) /\ EtaBounded(a, n, k) /\ n.f0 = f0 /\ n.g0 = g0
  <2> HIDE DEF a, h, f0, g0, k
  <2> QED BY <1>3, <1>4, <1>5, <1>6, BatchRuns
<1>8. a = "const" /\ loop => k < Rounds
  OBVIOUS
<1> HIDE DEF ff, gg, dd, ee, f0, g0, n, h, k
<1>9. Ranges'
  BY <1>1, <1>2 DEF Ranges
<1>10. bat' \in Bat
  BY <1>2, <1>3, <1>7 DEF n
<1>11. TypeOK'
  BY <1>1, <1>2, <1>3, <1>6, <1>10 DEF TypeOK, Bat, h
<1>12. ASSUME loop PROVE Running'
  <2>1. bat' = n /\ algo' = a /\ round' = k /\ f' = ff /\ g' = gg
    BY <1>2, <1>12 DEF n
  <2>2. Tracked(algo', bat') /\ Lead(algo', bat') /\ EtaBounded(algo', bat', round')
    BY <1>7, <2>1
  <2>3. Same(Base, f', bat'.f0) /\ Same(Base, g', bat'.g0) /\ (algo' = "const" => round' < Rounds)
    BY <1>4, <1>7, <1>8, <1>12, <2>1
  <2> QED BY <2>2, <2>3 DEF Running
<1>13. pc' = "batch" => loop
  BY <1>2
<1> QED
  BY <1>9, <1>11, <1>12, <1>13 DEF IInv

LEMMA UpdateConstKeeps ==
  ASSUME IInv, UpdateConst
  PROVE  IInv'
<1> DEFINE loop == round + 1 < Rounds
<1>1. pc = "batch" /\ algo = "const" /\ bat.i = W
      /\ NextBatch(UpdatedFG(bat.u, bat.v), UpdatedFG(bat.q, bat.r), len, loop)
  BY DEF UpdateConst, Batching
<1>2. len \in 1 .. Limbs /\ loop \in BOOLEAN /\ (algo = "const" /\ loop => round + 1 < Rounds)
  BY TypeIs DEF IInv
<1>3. bat.i = IF algo = "const" THEN W ELSE 0
  BY <1>1
<1> HIDE DEF loop
<1> QED
  BY <1>1, <1>2, <1>3, NextBatchKeeps

(* A variable-time update, whichever way it ends, stores what the matrix      *)
(* makes of f and g: losing a limb does not change them.                      *)
LEMMA UpdateVarIs ==
  ASSUME IInv, UpdateVar
  PROVE  /\ pc = "batch" /\ algo = "var" /\ bat.i = 0
         /\ \E l \in 1 .. Limbs, loop \in BOOLEAN :
              /\ NextBatch(UpdatedFG(bat.u, bat.v), UpdatedFG(bat.q, bat.r), l, loop)
              /\ ~loop => UpdatedFG(bat.q, bat.r) = 0
<1> DEFINE ff == UpdatedFG(bat.u, bat.v)
           gg == UpdatedFG(bat.q, bat.r)
<1>1. pc = "batch" /\ algo = "var" /\ bat.i = 0
  BY DEF UpdateVar, Batching
<1>2. \/ gg = 0 /\ NextBatch(ff, gg, len, FALSE)
      \/ Shorter(ff, gg, len) /\ NextBatch(Shortened(ff, len), Shortened(gg, len), len - 1, TRUE)
      \/ NextBatch(ff, gg, len, TRUE)
  BY Zenon DEF UpdateVar
<1>3. bat.i = IF algo = "const" THEN W ELSE 0
  BY <1>1
<1>4. len \in 1 .. Limbs /\ len \in Nat /\ len \in Int /\ Limbs \in Nat
  BY TypeIs, RoundsAssumption DEF IInv
<1>5. ff \in Int /\ gg \in Int
  <2>1. LET ff1 == UpdatedFG(bat.u, bat.v)
            gg1 == UpdatedFG(bat.q, bat.r)
        IN  ff1 \in Int /\ gg1 \in Int
    BY <1>1, <1>3, NextNumbers, Zenon
  <2> QED BY <2>1, Zenon
<1>6. CASE gg = 0 /\ NextBatch(ff, gg, len, FALSE)
  BY <1>1, <1>4, <1>6
<1>7. CASE NextBatch(ff, gg, len, TRUE)
  BY <1>1, <1>4, <1>7
<1>8. CASE Shorter(ff, gg, len)
           /\ NextBatch(Shortened(ff, len), Shortened(gg, len), len - 1, TRUE)
  <2>1. len > 1 /\ SignOnly(ff, len) /\ SignOnly(gg, len)
    BY <1>8, Zenon DEF Shorter
  <2>2. Shortened(ff, len) = ff /\ Shortened(gg, len) = gg
    <3> HIDE DEF ff, gg
    <3> QED BY <1>4, <1>5, <2>1, ShortenedIs
  <2>3. NextBatch(ff, gg, len - 1, TRUE)
    BY <1>8, <2>2
  <2>4. len - 1 \in 1 .. Limbs
    BY <1>4, <2>1
  <2> QED BY <1>1, <2>3, <2>4
<1> QED
  BY <1>2, <1>6, <1>7, <1>8

LEMMA UpdateVarKeeps ==
  ASSUME IInv, UpdateVar
  PROVE  IInv'
<1>1. PICK l \in 1 .. Limbs, loop \in BOOLEAN :
        NextBatch(UpdatedFG(bat.u, bat.v), UpdatedFG(bat.q, bat.r), l, loop)
  BY UpdateVarIs
<1>2. pc = "batch" /\ bat.i = (IF algo = "const" THEN W ELSE 0) /\ (algo = "const" /\ loop => round + 1 < Rounds)
  BY UpdateVarIs
<1> QED
  BY <1>1, <1>2, NextBatchKeeps

LEMMA NormalizedIs ==
  ASSUME NEW n \in Int, NEW s \in Int, NEW m \in Nat \ {0}, -2 * m < n, n < m
  PROVE  Normalized(n, s, m) \in 0 .. m - 1
         /\ Same(m, Normalized(n, s, m), IF s < 0 THEN -n ELSE n)
<1> DEFINE near == IF n < 0 THEN n + m ELSE n
           neg  == IF s < 0 THEN -near ELSE near
           y    == IF neg < 0 THEN neg + m ELSE neg
           t    == IF s < 0 THEN -n ELSE n
<1>1. Normalized(n, s, m) = y
  BY DEF Normalized
<1>2. y \in 0 .. m - 1
  OBVIOUS
<1>3. y = t \/ y = t + m \/ y = t + (m + m) \/ y = t - m
  OBVIOUS
<1>4. t + m = t + m * 1 /\ t + (m + m) = t + m * 2 /\ t - m = t + m * (-1) /\ t = t + m * 0
  OBVIOUS
<1>5. \E k \in Int : y = t + m * k
  <2> HIDE DEF y, t
  <2>1. 0 \in Int /\ 1 \in Int /\ 2 \in Int /\ -1 \in Int
    OBVIOUS
  <2> QED BY <1>3, <1>4, <2>1
<1> HIDE DEF y, t
<1>6. Same(m, y, t)
  BY <1>5 DEF Same
<1> QED
  BY <1>1, <1>2, <1>6 DEF t

LEMMA NormalizeKeeps ==
  ASSUME IInv, Normalize
  PROVE  IInv'
<1>1. /\ pc = "normalize" /\ result' = Normalized(d, f, modulus) /\ pc' = "done"
      /\ UNCHANGED <<algo, modulus, x, d, e, f, g, eta, len, round, bat>>
  BY DEF Normalize
<1>2. TypeOK /\ Ranges
  BY DEF IInv
<1>3. /\ d \in Int /\ f \in Int /\ modulus \in Nat \ {0} /\ -2 * modulus < d /\ d < modulus
  BY <1>2, TypeIs DEF Ranges
<1>4. result' \in 0 .. modulus - 1
  BY <1>1, <1>3, NormalizedIs
<1>5. TypeOK'
  BY <1>1, <1>2, <1>4 DEF TypeOK
<1>6. Ranges'
  BY <1>1, <1>2 DEF Ranges
<1> QED
  BY <1>1, <1>5, <1>6 DEF IInv

LEMMA InvariantNext ==
  ASSUME IInv, [Next]_vars
  PROVE  IInv'
<1>1. CASE UNCHANGED vars
  BY <1>1 DEF IInv, TypeOK, Ranges, Running, vars
<1>2. CASE Divstep
  BY <1>2, DivstepKeeps
<1>3. CASE ShiftZeros
  BY <1>3, ShiftZerosKeeps
<1>4. CASE SwapAndCancel
  BY <1>4, SwapAndCancelKeeps
<1>5. CASE CancelBits
  BY <1>5, CancelBitsKeeps
<1>6. CASE UpdateConst
  BY <1>6, UpdateConstKeeps
<1>7. CASE UpdateVar
  BY <1>7, UpdateVarKeeps
<1>8. CASE Normalize
  BY <1>8, NormalizeKeeps
<1> QED
  BY <1>1, <1>2, <1>3, <1>4, <1>5, <1>6, <1>7, <1>8 DEF Next

THEOREM InvariantHolds == Spec => []IInv
<1>1. Init => IInv
  BY InvariantInit
<1>2. IInv /\ [Next]_vars => IInv'
  BY InvariantNext
<1> QED
  BY <1>1, <1>2, PTL DEF Spec

(* Words are words, loop counters stay in their batches, and the numbers      *)
(* have their types.                                                          *)
THEOREM TypeCorrect == Spec => []TypeOK
<1>1. IInv => TypeOK
  BY DEF IInv
<1> QED
  BY <1>1, InvariantHolds, PTL

(* Whatever the words lose at the top, the matrix of a batch takes the bottom *)
(* of f and g to what the divsteps made of it, its determinant is the power   *)
(* of two of their number and its rows do not exceed it (modinv64_impl.h      *)
(* lines 172-174, 212, 244-247 and 293).                                      *)
THEOREM MatrixCorrect == Spec => []BatchTracks
<1>1. IInv => BatchTracks
  BY InvariantTracks
<1> QED
  BY <1>1, InvariantHolds, PTL

(* d, e, f, g and eta stay in the ranges update_de, update_fg, normalize and  *)
(* the divsteps assert, so that their limbs never overflow.                   *)
THEOREM RangesKept == Spec => []NumbersInRange
<1>1. IInv => NumbersInRange
  BY InvariantRanges
<1> QED
  BY <1>1, InvariantHolds, PTL

-------------------------------------------------------------------------------
(* The divsteps of Divsteps, one after the other.                             *)

Numbers(M) == [delta2 : Int, f : Int, g : Int, d : 0 .. M - 1, e : 0 .. M - 1]

LEMMA NumbersAre ==
  ASSUME NEW M \in Nat \ {0}, NEW s \in Numbers(M)
  PROVE  /\ s.delta2 \in Int /\ s.f \in Int /\ s.g \in Int
         /\ s.d \in 0 .. M - 1 /\ s.e \in 0 .. M - 1 /\ s.d \in Int /\ s.e \in Int
  BY DEF Numbers

LEMMA EvenIs ==
  ASSUME NEW a \in Int
  PROVE  (a % 2 = 0 <=> ~Odd(a)) /\ (a % 2 = 1 <=> Odd(a))
         /\ (~Odd(a) => 2 * (a \div 2) = a) /\ a \div 2 \in Int
<1>1. 2 \in Nat \ {0}
  OBVIOUS
<1>2. a = 2 * (a \div 2) + (a % 2) /\ a \div 2 \in Int /\ a % 2 \in 0 .. 2 - 1
  BY <1>1, DivMod
<1> QED
  BY <1>2 DEF Odd

LEMMA HalfModIs ==
  ASSUME NEW M \in Nat \ {0}, Odd(M), NEW n \in 0 .. M - 1
  PROVE  D!HalfMod(n, M) \in 0 .. M - 1 /\ Same(M, 2 * D!HalfMod(n, M), n)
<1>1. n \in Int /\ M \in Int
  OBVIOUS
<1>2. CASE ~Odd(n)
  <2>1. D!HalfMod(n, M) = n \div 2 /\ 2 * (n \div 2) = n /\ n \div 2 \in Int
    BY <1>1, <1>2, EvenIs DEF D!HalfMod
  <2>2. n = n + M * 0
    BY <1>1
  <2> DEFINE h == n \div 2
  <2> HIDE DEF h
  <2>3. h \in 0 .. M - 1 /\ 2 * h = n + M * 0
    BY <2>1, <2>2 DEF h
  <2>4. Same(M, 2 * h, n)
    BY <2>3 DEF Same
  <2>5. D!HalfMod(n, M) = h
    BY <2>1 DEF h
  <2> QED BY <2>3, <2>4, <2>5
<1>3. CASE Odd(n)
  <2> DEFINE k == n + M
             h == k \div 2
  <2>1. k \in Int /\ ~Odd(k)
    BY <1>1, <1>3, SumOfOdd
  <2>2. D!HalfMod(n, M) = h
    BY <1>1, <1>3, EvenIs DEF D!HalfMod
  <2>3. 2 * h = k /\ h \in Int
    <3> HIDE DEF k
    <3> QED BY <2>1, EvenIs
  <2> HIDE DEF h
  <2>4. h \in 0 .. M - 1 /\ 2 * h = n + M * 1
    BY <2>3
  <2> QED BY <2>2, <2>4 DEF Same
<1> QED
  BY <1>2, <1>3

(* A divstep halves g, or its sum or difference with f.                       *)
Stepped(M, s, t) ==
  /\ t \in Numbers(M)
  /\ \/ /\ ~Odd(s.g)
        /\ t.delta2 = s.delta2 + 2 /\ t.f = s.f /\ 2 * t.g = s.g
        /\ t.d = s.d /\ Same(M, 2 * t.e, s.e)
     \/ /\ Odd(s.g) /\ s.delta2 <= 0
        /\ t.delta2 = s.delta2 + 2 /\ t.f = s.f /\ (Odd(s.f) => 2 * t.g = s.g + s.f)
        /\ t.d = s.d /\ Same(M, 2 * t.e, s.e + s.d)
     \/ /\ Odd(s.g) /\ s.delta2 > 0
        /\ t.delta2 = 2 - s.delta2 /\ t.f = s.g /\ (Odd(s.f) => 2 * t.g = s.g - s.f)
        /\ t.d = s.e /\ Same(M, 2 * t.e, s.e - s.d)

LEMMA HalfOfMod ==
  ASSUME NEW M \in Nat \ {0}, Odd(M), NEW n \in Int
  PROVE  D!HalfMod(n % M, M) \in 0 .. M - 1 /\ Same(M, 2 * D!HalfMod(n % M, M), n)
<1> DEFINE r == n % M
           h == D!HalfMod(r, M)
           hh == 2 * h
<1>1. r \in 0 .. M - 1 /\ r \in Int /\ n = M * (n \div M) + r /\ n \div M \in Int /\ M \in Int
  BY DivMod
<1> HIDE DEF r
<1>2. h \in 0 .. M - 1 /\ Same(M, hh, r)
  BY <1>1, HalfModIs
<1>3. Same(M, r, n)
  <2>1. r = n + M * (-(n \div M)) /\ -(n \div M) \in Int
    BY <1>1
  <2> QED BY <2>1 DEF Same
<1>4. hh \in Int
  BY <1>2
<1> HIDE DEF hh
<1>5. Same(M, hh, n)
  BY <1>1, <1>2, <1>3, <1>4, SameTrans
<1> QED
  BY <1>2, <1>5 DEF hh, r

LEMMA OneDivstepIs ==
  ASSUME NEW M \in Nat \ {0}, Odd(M), NEW s \in Numbers(M)
  PROVE  D!OneDivstep(s, M) \in Numbers(M) /\ Stepped(M, s, D!OneDivstep(s, M))
<1>1. /\ s.delta2 \in Int /\ s.f \in Int /\ s.g \in Int
      /\ s.d \in 0 .. M - 1 /\ s.e \in 0 .. M - 1 /\ s.d \in Int /\ s.e \in Int
  BY NumbersAre
<1>2. s = [delta2 |-> s.delta2, f |-> s.f, g |-> s.g, d |-> s.d, e |-> s.e]
  BY DEF Numbers
<1>3. CASE ~Odd(s.g)
  <2> DEFINE h == D!HalfMod(s.e, M)
             i == s.g \div 2
             t == [s EXCEPT !.delta2 = s.delta2 + 2, !.g = i, !.e = h]
  <2>1. s.g % 2 = 0 /\ ~(s.g % 2 = 1)
    BY <1>1, <1>3, EvenIs
  <2>2. D!OneDivstep(s, M) = t
    BY <2>1, Zenon DEF D!OneDivstep
  <2>3. h \in 0 .. M - 1 /\ Same(M, 2 * h, s.e)
    BY <1>1, HalfModIs
  <2>4. i \in Int /\ 2 * i = s.g
    BY <1>1, <1>3, EvenIs
  <2>5. t.delta2 = s.delta2 + 2 /\ t.f = s.f /\ t.g = i /\ t.d = s.d /\ t.e = h
    BY DEF Numbers
  <2>6. t \in Numbers(M)
    <3>1. s.delta2 + 2 \in Int
      BY <1>1
    <3> HIDE DEF h, i
    <3> QED BY <2>3, <2>4, <3>1 DEF Numbers
  <2> HIDE DEF t, h, i
  <2>7. Stepped(M, s, t)
    BY <1>3, <2>3, <2>4, <2>5, <2>6 DEF Stepped
  <2> QED BY <2>2, <2>6, <2>7
<1>4. CASE Odd(s.g) /\ s.delta2 <= 0
  <2> DEFINE k == s.e + s.d
             h == D!HalfMod(k % M, M)
             y == s.g + s.f
             i == y \div 2
             t == [s EXCEPT !.delta2 = s.delta2 + 2, !.g = i, !.e = h]
  <2>1. ~(s.g % 2 = 0) /\ ~(s.delta2 > 0)
    BY <1>1, <1>4, EvenIs
  <2>2. D!OneDivstep(s, M) = t
    BY <2>1, Zenon DEF D!OneDivstep
  <2>3. h \in 0 .. M - 1 /\ Same(M, 2 * h, k)
    <3>1. k \in Int
      BY <1>1
    <3> HIDE DEF k
    <3> QED BY <3>1, HalfOfMod
  <2>4. y \in Int /\ (Odd(s.f) => ~Odd(y))
    BY <1>1, <1>4, SumOfOdd
  <2>5. i \in Int /\ (Odd(s.f) => 2 * i = y)
    <3> HIDE DEF y
    <3> QED BY <2>4, EvenIs
  <2>6. t.delta2 = s.delta2 + 2 /\ t.f = s.f /\ t.g = i /\ t.d = s.d /\ t.e = h
    BY DEF Numbers
  <2>7. t \in Numbers(M)
    <3>1. s.delta2 + 2 \in Int
      BY <1>1
    <3> HIDE DEF h, i
    <3> QED BY <2>3, <2>5, <3>1 DEF Numbers
  <2> HIDE DEF t, h, i
  <2>8. Stepped(M, s, t)
    BY <1>4, <2>3, <2>5, <2>6, <2>7 DEF Stepped
  <2> QED BY <2>2, <2>7, <2>8
<1>5. CASE Odd(s.g) /\ s.delta2 > 0
  <2> DEFINE k == s.e - s.d
             h == D!HalfMod(k % M, M)
             y == s.g - s.f
             i == y \div 2
             t == [delta2 |-> 2 - s.delta2, f |-> s.g, g |-> i, d |-> s.e, e |-> h]
  <2>1. ~(s.g % 2 = 0) /\ s.g % 2 = 1
    BY <1>1, <1>5, EvenIs
  <2>2. D!OneDivstep(s, M) = t
    BY <1>5, <2>1, Zenon DEF D!OneDivstep
  <2>3. h \in 0 .. M - 1 /\ Same(M, 2 * h, k)
    <3>1. k \in Int
      BY <1>1
    <3> HIDE DEF k
    <3> QED BY <3>1, HalfOfMod
  <2>4. y \in Int /\ (Odd(s.f) => ~Odd(y))
    BY <1>1, <1>5, SumOfOdd
  <2>5. i \in Int /\ (Odd(s.f) => 2 * i = y)
    <3> HIDE DEF y
    <3> QED BY <2>4, EvenIs
  <2>6. t.delta2 = 2 - s.delta2 /\ t.f = s.g /\ t.g = i /\ t.d = s.e /\ t.e = h
    OBVIOUS
  <2> HIDE DEF h, i
  <2>7. t \in Numbers(M)
    BY <1>1, <2>3, <2>5 DEF Numbers
  <2> HIDE DEF t
  <2>8. Stepped(M, s, t)
    BY <1>5, <2>3, <2>5, <2>6, <2>7 DEF Stepped
  <2> QED BY <2>2, <2>7, <2>8
<1>6. s.delta2 <= 0 \/ s.delta2 > 0
  BY <1>1
<1> QED
  BY <1>3, <1>4, <1>5, <1>6

(* n divsteps, as a function of the numbers they begin with.                  *)
IsIterates(M, h) ==
  /\ h \in [Nat -> [Numbers(M) -> Numbers(M)]]
  /\ h[0] = [s \in Numbers(M) |-> s]
  /\ \A n \in Nat : h[n + 1] = [s \in Numbers(M) |-> D!OneDivstep(h[n][s], M)]
Iterates(M) == CHOOSE h : IsIterates(M, h)

LEMMA IteratesExist ==
  ASSUME NEW M \in Nat \ {0}, Odd(M)
  PROVE  IsIterates(M, Iterates(M))
<1> DEFINE N == Numbers(M)
           V == [N -> N]
           base == [s \in N |-> s]
           k == [p \in (Nat \ {0}) \X V |-> [s \in N |-> D!OneDivstep(p[2][s], M)]]
<1>1. base \in V
  OBVIOUS
<1>2. ASSUME NEW h \in V PROVE [s \in N |-> D!OneDivstep(h[s], M)] \in V
  <2>1. ASSUME NEW s \in N PROVE D!OneDivstep(h[s], M) \in N
    <3>1. h[s] \in Numbers(M)
      BY <1>2, <2>1
    <3> QED BY <3>1, OneDivstepIs
  <2> HIDE DEF N
  <2> QED BY <2>1
<1>3. Makes(k, V)
  <2> HIDE DEF N
  <2> QED BY <1>2 DEF Makes
<1> HIDE DEF V, base, k
<1>4. PICK h \in [Nat -> V] : h[0] = base /\ \A i \in Nat : h[i + 1] = k[<<i + 1, h[i]>>]
  BY <1>1, <1>3, BuiltForever
<1>5. ASSUME NEW n \in Nat
      PROVE  h[n + 1] = [s \in N |-> D!OneDivstep(h[n][s], M)]
  <2>1. h[n] \in V /\ <<n + 1, h[n]>> \in (Nat \ {0}) \X V
    BY <1>4
  <2>2. k[<<n + 1, h[n]>>] = [s \in N |-> D!OneDivstep(h[n][s], M)]
    <3> DEFINE q == <<n + 1, h[n]>>
    <3>1. q \in (Nat \ {0}) \X V /\ q[2] = h[n]
      BY <2>1
    <3> HIDE DEF q
    <3>2. k[q] = [s \in N |-> D!OneDivstep(q[2][s], M)]
      BY <3>1 DEF k
    <3> QED BY <3>1, <3>2 DEF q
  <2> QED BY <1>4, <2>2
<1>6. IsIterates(M, h)
  BY <1>4, <1>5 DEF IsIterates, V, base, N
<1> QED
  BY <1>6 DEF Iterates

LEMMA IteratesAre ==
  ASSUME NEW M \in Nat \ {0}, Odd(M), NEW s \in Numbers(M)
  PROVE  /\ Iterates(M)[0][s] = s
         /\ \A n \in Nat : /\ Iterates(M)[n][s] \in Numbers(M)
                           /\ Iterates(M)[n + 1][s] = D!OneDivstep(Iterates(M)[n][s], M)
<1> DEFINE N == Numbers(M)
           h == Iterates(M)
<1>1. /\ h \in [Nat -> [N -> N]] /\ h[0] = [t \in N |-> t]
      /\ \A n \in Nat : h[n + 1] = [t \in N |-> D!OneDivstep(h[n][t], M)]
  BY IteratesExist DEF IsIterates
<1>2. s \in N
  OBVIOUS
<1> HIDE DEF N, h
<1>3. h[0][s] = s
  BY <1>1, <1>2
<1>4. ASSUME NEW n \in Nat PROVE h[n][s] \in N /\ h[n + 1][s] = D!OneDivstep(h[n][s], M)
  <2>1. h[n] \in [N -> N]
    BY <1>1
  <2>2. h[n + 1] = [t \in N |-> D!OneDivstep(h[n][t], M)]
    BY <1>1
  <2>3. h[n + 1][s] = D!OneDivstep(h[n][s], M)
    BY <1>2, <2>2, Zenon
  <2> QED BY <1>2, <2>1, <2>3
<1> QED
  BY <1>3, <1>4 DEF h, N

(* The first divstep may be taken first.                                      *)
LEMMA IteratesFromFirst ==
  ASSUME NEW M \in Nat \ {0}, Odd(M), NEW s \in Numbers(M), NEW n \in Nat
  PROVE  Iterates(M)[n + 1][s] = Iterates(M)[n][D!OneDivstep(s, M)]
<1> DEFINE h == Iterates(M)
           t == D!OneDivstep(s, M)
           S == {i \in Nat : h[i + 1][s] = h[i][t]}
<1>1. t \in Numbers(M)
  BY OneDivstepIs
<1>2. h[0][s] = s /\ \A i \in Nat : h[i + 1][s] = D!OneDivstep(h[i][s], M)
  BY IteratesAre
<1> HIDE DEF t
<1>3. h[0][t] = t /\ \A i \in Nat : h[i + 1][t] = D!OneDivstep(h[i][t], M)
  BY <1>1, IteratesAre
<1> HIDE DEF h
<1>4. 0 \in S
  <2>1. h[0 + 1][s] = D!OneDivstep(h[0][s], M)
    BY <1>2
  <2> QED BY <1>2, <1>3, <2>1 DEF t
<1>5. ASSUME NEW i \in Nat, i \in S PROVE i + 1 \in S
  <2>1. i + 1 \in Nat /\ h[i + 1][s] = h[i][t]
    BY <1>5
  <2>2. h[(i + 1) + 1][s] = D!OneDivstep(h[i + 1][s], M)
    BY <1>2, <2>1
  <2>3. h[i + 1][t] = D!OneDivstep(h[i][t], M)
    BY <1>3
  <2> QED BY <2>1, <2>2, <2>3
<1> HIDE DEF S
<1>6. n \in S
  BY <1>4, <1>5, SetInduction
<1> QED
  BY <1>6 DEF S, h, t

(* Taking so many divsteps and then more.                                     *)
LEMMA IteratesAdd ==
  ASSUME NEW M \in Nat \ {0}, Odd(M), NEW s \in Numbers(M), NEW n \in Nat, NEW k \in Nat
  PROVE  Iterates(M)[n + k][s] = Iterates(M)[k][Iterates(M)[n][s]]
<1> DEFINE h == Iterates(M)
           t == h[n][s]
           S == {i \in Nat : h[n + i][s] = h[i][t]}
<1>1. t \in Numbers(M) /\ \A i \in Nat : h[i + 1][s] = D!OneDivstep(h[i][s], M)
  BY IteratesAre
<1> HIDE DEF t
<1>2. h[0][t] = t /\ \A i \in Nat : h[i + 1][t] = D!OneDivstep(h[i][t], M)
  BY <1>1, IteratesAre
<1> HIDE DEF h
<1>3. 0 \in S
  <2>1. n + 0 = n
    OBVIOUS
  <2> QED BY <1>2, <2>1 DEF t
<1>4. ASSUME NEW i \in Nat, i \in S PROVE i + 1 \in S
  <2>1. n + i \in Nat /\ n + (i + 1) = (n + i) + 1 /\ h[n + i][s] = h[i][t]
    BY <1>4
  <2>2. h[(n + i) + 1][s] = D!OneDivstep(h[n + i][s], M)
    BY <1>1, <2>1
  <2>3. h[i + 1][t] = D!OneDivstep(h[i][t], M)
    BY <1>2
  <2> QED BY <2>1, <2>2, <2>3
<1> HIDE DEF S
<1>5. k \in S
  BY <1>3, <1>4, SetInduction
<1> QED
  BY <1>5 DEF S, h, t

-------------------------------------------------------------------------------
(* Divsteps that do not swap add a multiple of f to g and shift the zeros out.*)

Cancels(s, w, m) ==
  /\ Odd(s.f) /\ w \in Nat /\ w < Pow2[m] /\ Divides(Pow2[m], s.g + w * s.f)
  /\ \A j \in Nat : j < m => s.delta2 + 2 * j <= 0 \/ w < Pow2[j]

Ran(M, s, w, m, t) ==
  /\ t \in Numbers(M) /\ t.delta2 = s.delta2 + 2 * m /\ t.f = s.f /\ t.d = s.d
  /\ Pow2[m] * t.g = s.g + w * s.f
  /\ Same(M, Pow2[m] * t.e, s.e + w * s.d)

LEMMA ProductOfOdd ==
  ASSUME NEW a \in Int, NEW b \in Int, Odd(a), Odd(b)
  PROVE  Odd(a * b)
<1>1. PICK k \in Int : a = 2 * k + 1
  BY OddMeans
<1>2. PICK j \in Int : b = 2 * j + 1
  BY OddMeans
<1>3. (2 * k + 1) * (2 * j + 1) = 2 * (2 * (k * j) + (k + j)) + 1 /\ 2 * (k * j) + (k + j) \in Int
  OBVIOUS
<1> DEFINE y == a * b
           i == 2 * (k * j) + (k + j)
<1>4. y = 2 * i + 1 /\ i \in Int
  BY <1>1, <1>2, <1>3
<1>5. y \in Int
  OBVIOUS
<1> HIDE DEF y, i
<1>6. Odd(y)
  BY <1>4, <1>5, OddMeans
<1> QED
  BY <1>6 DEF y

LEMMA ProductOfEven ==
  ASSUME NEW a \in Int, NEW b \in Int, ~Odd(a)
  PROVE  ~Odd(a * b)
<1>1. PICK k \in Int : a = 2 * k
  BY OddMeans
<1>2. (2 * k) * b = 2 * (k * b) /\ k * b \in Int
  OBVIOUS
<1> DEFINE y == k * b
<1>3. a * b = 2 * y /\ y \in Int
  BY <1>1, <1>2
<1> HIDE DEF y
<1>4. ~Odd(2 * y)
  BY <1>3, TwiceIsEven
<1> QED
  BY <1>3, <1>4

LEMMA ParityOfSum ==
  ASSUME NEW a \in Int, NEW b \in Int, ~Odd(a + b)
  PROVE  Odd(a) <=> Odd(b)
<1>1. ASSUME NEW i \in Int, NEW j \in Int, Odd(i), ~Odd(j), ~Odd(i + j) PROVE FALSE
  <2>1. PICK k1 \in Int : i = 2 * k1 + 1
    BY <1>1, OddMeans
  <2>2. PICK k2 \in Int : j = 2 * k2
    BY <1>1, OddMeans
  <2> DEFINE y == i + j
             k == k1 + k2
  <2>3. y \in Int /\ k \in Int /\ y = 2 * k + 1
    BY <2>1, <2>2
  <2> HIDE DEF y, k
  <2>4. Odd(y)
    BY <2>3, OddMeans
  <2> QED BY <1>1, <2>4 DEF y
<1>2. b + a = a + b
  OBVIOUS
<1> QED
  BY <1>1, <1>2

(* One divstep of such a run: c is the bit of w that it uses.                 *)
LEMMA RunsOnStep ==
  ASSUME NEW M \in Nat \ {0}, Odd(M), NEW s \in Numbers(M), NEW m \in Nat, NEW w \in Nat,
         Cancels(s, w, m + 1)
  PROVE  \E w1 \in Nat : /\ Cancels(D!OneDivstep(s, M), w1, m)
                         /\ \A t : Ran(M, D!OneDivstep(s, M), w1, m, t) => Ran(M, s, w, m + 1, t)
<1> DEFINE n == D!OneDivstep(s, M)
           p == Pow2[m]
<1>1. /\ s.delta2 \in Int /\ s.f \in Int /\ s.g \in Int /\ s.d \in Int /\ s.e \in Int
      /\ n \in Numbers(M) /\ Stepped(M, s, n)
  BY NumbersAre, OneDivstepIs
<1> HIDE DEF n
<1>2. n.delta2 \in Int /\ n.f \in Int /\ n.g \in Int /\ n.d \in Int /\ n.e \in Int
  BY <1>1, NumbersAre
<1>3. p \in Nat \ {0} /\ p \in Int /\ Pow2[m + 1] = 2 * p /\ M \in Int
  BY Pow2Type, Pow2Def
<1> HIDE DEF p
<1>4. /\ Odd(s.f) /\ w < 2 * p /\ Divides(2 * p, s.g + w * s.f)
      /\ \A j \in Nat : j < m + 1 => s.delta2 + 2 * j <= 0 \/ w < Pow2[j]
  BY <1>3 DEF Cancels
<1> DEFINE wf == w * s.f
           sum == s.g + wf
<1>5. wf \in Int /\ sum \in Int /\ sum = s.g + wf
  BY <1>1
<1>6. PICK i \in Int : sum = (2 * p) * i
  <2>1. 2 * p \in Int
    BY <1>3
  <2> QED BY <1>4, <2>1 DEF Divides, Same
<1> DEFINE pi == p * i
<1>7. sum = 2 * pi /\ pi \in Int
  <2>1. (2 * p) * i = 2 * (p * i) /\ p * i \in Int
    BY <1>3
  <2> QED BY <1>6, <2>1
<1>8. Odd(s.g) <=> Odd(w)
  <2>1. ~Odd(sum)
    <3> HIDE DEF sum, pi
    <3> QED BY <1>7, TwiceIsEven
  <2>2. Odd(s.g) <=> Odd(wf)
    <3> HIDE DEF wf
    <3> QED BY <1>1, <1>5, <2>1, ParityOfSum
  <2>3. Odd(wf) <=> Odd(w)
    <3>1. w \in Int /\ s.f \in Int /\ Odd(s.f)
      BY <1>1, <1>4
    <3> DEFINE y == s.f
    <3>2. y \in Int /\ Odd(y)
      BY <3>1
    <3> HIDE DEF y
    <3>3. Odd(w * y) <=> Odd(w)
      BY <3>1, <3>2, ProductOfOdd, ProductOfEven
    <3> QED BY <3>3 DEF y
  <2> QED BY <2>2, <2>3
<1> HIDE DEF sum, pi
<1>9. \E c \in {0, 1}, w1 \in Nat :
        /\ w = 2 * w1 + c /\ n.delta2 = s.delta2 + 2 /\ n.f = s.f /\ n.d = s.d
        /\ 2 * n.g = s.g + c * s.f /\ Same(M, 2 * n.e, s.e + c * s.d)
  <2>1. CASE ~Odd(s.g)
    <3>1. PICK j \in Int : w = 2 * j
      BY <1>8, <2>1, OddMeans
    <3> DEFINE c == 0
    <3>2. j \in Nat /\ w = 2 * j + c /\ c \in {0, 1}
      BY <3>1
    <3>3. n.delta2 = s.delta2 + 2 /\ n.f = s.f /\ n.d = s.d /\ 2 * n.g = s.g /\ Same(M, 2 * n.e, s.e)
      BY <1>1, <2>1 DEF Stepped
    <3>4. s.g + 0 * s.f = s.g /\ s.e + 0 * s.d = s.e
      BY <1>1
    <3>5. 2 * n.g = s.g + c * s.f /\ Same(M, 2 * n.e, s.e + c * s.d)
      BY <3>3, <3>4
    <3> HIDE DEF c
    <3> QED BY <3>2, <3>3, <3>5
  <2>2. CASE Odd(s.g)
    <3>1. PICK j \in Int : w = 2 * j + 1
      BY <1>8, <2>2, OddMeans
    <3> DEFINE c == 1
    <3>2. j \in Nat /\ w = 2 * j + c /\ c \in {0, 1}
      BY <3>1
    <3>3. s.delta2 <= 0
      <4>1. 0 \in Nat /\ 0 < m + 1 /\ Pow2[0] = 1 /\ s.delta2 + 2 * 0 = s.delta2
        BY <1>1, Pow2Def
      <4>2. s.delta2 + 2 * 0 <= 0 \/ w < Pow2[0]
        BY <1>4, <4>1
      <4> QED BY <3>2, <4>1, <4>2
    <3>4. n.delta2 = s.delta2 + 2 /\ n.f = s.f /\ n.d = s.d /\ 2 * n.g = s.g + s.f
          /\ Same(M, 2 * n.e, s.e + s.d)
      <4>1. ~(s.delta2 > 0)
        BY <1>1, <3>3
      <4> QED BY <1>1, <1>4, <2>2, <4>1 DEF Stepped
    <3>5. 1 * s.f = s.f /\ 1 * s.d = s.d
      BY <1>1
    <3>6. 2 * n.g = s.g + c * s.f /\ Same(M, 2 * n.e, s.e + c * s.d)
      BY <3>4, <3>5
    <3> HIDE DEF c
    <3> QED BY <3>2, <3>4, <3>6
  <2> QED BY <2>1, <2>2
<1>10. PICK c \in {0, 1}, w1 \in Nat :
        /\ w = 2 * w1 + c /\ n.delta2 = s.delta2 + 2 /\ n.f = s.f /\ n.d = s.d
        /\ 2 * n.g = s.g + c * s.f /\ Same(M, 2 * n.e, s.e + c * s.d)
  BY <1>9
<1>11. c \in Int /\ w1 \in Int
  OBVIOUS
<1>12. Cancels(n, w1, m)
  <2>1. w1 < p
    BY <1>3, <1>4, <1>10
  <2>2. Divides(p, n.g + w1 * n.f)
    <3> DEFINE wn == w1 * s.f
               cf == c * s.f
    <3>1. wn \in Int /\ cf \in Int
      BY <1>1, <1>11
    <3>2. wf = 2 * wn + cf
      <4>1. (2 * w1 + c) * s.f = 2 * (w1 * s.f) + c * s.f
        BY <1>1, <1>11
      <4> QED BY <1>10, <4>1
    <3>3. 2 * n.g = s.g + cf
      BY <1>10
    <3> HIDE DEF wn, cf, wf
    <3>4. 2 * (n.g + wn) = 2 * pi
      BY <1>1, <1>2, <1>5, <1>7, <3>1, <3>2, <3>3
    <3>5. n.g + wn = pi /\ n.g + wn \in Int
      BY <1>2, <1>7, <3>1, <3>4
    <3>6. n.g + w1 * n.f = n.g + wn
      BY <1>10 DEF wn
    <3> DEFINE y == n.g + w1 * n.f
    <3>7. y = p * i /\ y \in Int
      BY <3>5, <3>6 DEF pi
    <3> HIDE DEF y
    <3>8. Divides(p, y)
      BY <1>3, <3>7, DividesIs
    <3> QED BY <3>8 DEF y
  <2>3. ASSUME NEW j \in Nat, j < m PROVE n.delta2 + 2 * j <= 0 \/ w1 < Pow2[j]
    <3>1. j + 1 \in Nat /\ j + 1 < m + 1
      BY <2>3
    <3>2. s.delta2 + 2 * (j + 1) <= 0 \/ w < Pow2[j + 1]
      BY <1>4, <3>1
    <3>3. Pow2[j + 1] = 2 * Pow2[j] /\ Pow2[j] \in Nat
      BY Pow2Def, Pow2Type
    <3>4. CASE s.delta2 + 2 * (j + 1) <= 0
      BY <1>1, <1>10, <3>4
    <3>5. CASE w < Pow2[j + 1]
      BY <1>10, <1>11, <3>3, <3>5
    <3> QED BY <3>2, <3>4, <3>5
  <2>4. Odd(n.f)
    BY <1>4, <1>10
  <2> QED BY <2>1, <2>2, <2>3, <2>4 DEF Cancels, p
<1>13. ASSUME NEW t, Ran(M, n, w1, m, t) PROVE Ran(M, s, w, m + 1, t)
  <2>1. /\ t \in Numbers(M) /\ t.delta2 = n.delta2 + 2 * m /\ t.f = n.f /\ t.d = n.d
        /\ p * t.g = n.g + w1 * n.f /\ Same(M, p * t.e, n.e + w1 * n.d)
    BY <1>13 DEF Ran, p
  <2>2. t.g \in Int /\ t.e \in Int
    BY <2>1, NumbersAre
  <2>3. t.delta2 = s.delta2 + 2 * (m + 1)
    BY <1>1, <1>10, <2>1
  <2>4. (2 * p) * t.g = s.g + w * s.f
    <3> DEFINE wn == w1 * s.f
               cf == c * s.f
               pg == p * t.g
    <3>1. wn \in Int /\ cf \in Int /\ pg \in Int
      BY <1>1, <1>3, <1>11, <2>2
    <3>2. wf = 2 * wn + cf
      <4>1. (2 * w1 + c) * s.f = 2 * (w1 * s.f) + c * s.f
        BY <1>1, <1>11
      <4> QED BY <1>10, <4>1
    <3>3. 2 * n.g = s.g + cf /\ pg = n.g + wn
      BY <1>10, <2>1
    <3>4. (2 * p) * t.g = 2 * pg
      BY <1>3, <2>2
    <3> HIDE DEF wn, cf, pg, wf
    <3>5. (2 * p) * t.g = s.g + wf
      BY <1>1, <1>2, <1>5, <3>1, <3>2, <3>3, <3>4
    <3> QED BY <3>5 DEF wf
  <2>5. Same(M, (2 * p) * t.e, s.e + w * s.d)
    <3> DEFINE pe == p * t.e
               wd == w1 * s.d
               cd == c * s.d
               ed == n.e + wd
    <3>1. pe \in Int /\ wd \in Int /\ cd \in Int /\ ed \in Int
      BY <1>1, <1>2, <1>3, <1>11, <2>2
    <3>2. w * s.d = 2 * wd + cd
      <4>1. (2 * w1 + c) * s.d = 2 * (w1 * s.d) + c * s.d
        BY <1>1, <1>11
      <4> QED BY <1>10, <4>1
    <3>3. Same(M, pe, ed)
      BY <1>10, <2>1
    <3>4. PICK j \in Int : pe = ed + M * j
      BY <3>3 DEF Same
    <3>5. PICK l \in Int : 2 * n.e = (s.e + cd) + M * l
      BY <1>10 DEF Same
    <3>6. (2 * p) * t.e = 2 * pe
      BY <1>3, <2>2
    <3> DEFINE Mj == M * j
               Ml == M * l
    <3>7. Mj \in Int /\ Ml \in Int /\ pe = (n.e + wd) + Mj /\ 2 * n.e = (s.e + cd) + Ml
      BY <1>3, <3>4, <3>5
    <3>8. M * (2 * j + l) = 2 * Mj + Ml /\ 2 * j + l \in Int
      BY <1>3
    <3> HIDE DEF pe, wd, cd, ed, Mj, Ml
    <3>9. 2 * pe = (s.e + (2 * wd + cd)) + (2 * Mj + Ml)
      BY <1>1, <1>2, <3>1, <3>7
    <3>10. (2 * p) * t.e = (s.e + w * s.d) + M * (2 * j + l)
      BY <3>2, <3>6, <3>8, <3>9
    <3> QED BY <3>8, <3>10 DEF Same
  <2> QED BY <1>3, <1>10, <2>1, <2>3, <2>4, <2>5 DEF Ran
<1> QED
  BY <1>12, <1>13 DEF n

LEMMA RunsOn ==
  ASSUME NEW M \in Nat \ {0}, Odd(M), NEW s \in Numbers(M), NEW m \in Nat, NEW w \in Nat,
         Cancels(s, w, m)
  PROVE  Ran(M, s, w, m, Iterates(M)[m][s])
<1> DEFINE h == Iterates(M)
           S == {i \in Nat : \A k \in Numbers(M), j \in Nat :
                               Cancels(k, j, i) => Ran(M, k, j, i, h[i][k])}
<1>1. 0 \in S
  <2>1. SUFFICES ASSUME NEW k \in Numbers(M), NEW j \in Nat, Cancels(k, j, 0)
                 PROVE  Ran(M, k, j, 0, h[0][k])
    OBVIOUS
  <2>2. h[0][k] = k /\ Pow2[0] = 1
    BY IteratesAre, Pow2Def
  <2>3. j = 0
    BY <2>1, <2>2 DEF Cancels
  <2>4. k.delta2 \in Int /\ k.f \in Int /\ k.g \in Int /\ k.d \in Int /\ k.e \in Int /\ M \in Int
    BY NumbersAre
  <2>5. k.delta2 + 2 * 0 = k.delta2 /\ 1 * k.g = k.g + 0 * k.f /\ 1 * k.e = k.e + 0 * k.d
    BY <2>4
  <2>6. Same(M, k.e, k.e) /\ 1 * k.e = k.e
    BY <2>4, SameRefl
  <2> HIDE DEF h
  <2> QED BY <2>2, <2>3, <2>5, <2>6 DEF Ran
<1>2. ASSUME NEW i \in Nat, i \in S PROVE i + 1 \in S
  <2>1. SUFFICES ASSUME NEW k \in Numbers(M), NEW j \in Nat, Cancels(k, j, i + 1)
                 PROVE  Ran(M, k, j, i + 1, h[i + 1][k])
    OBVIOUS
  <2> DEFINE n == D!OneDivstep(k, M)
  <2>2. PICK l \in Nat : /\ Cancels(n, l, i)
                         /\ \A t : Ran(M, n, l, i, t) => Ran(M, k, j, i + 1, t)
    BY <2>1, RunsOnStep
  <2>3. h[i + 1][k] = h[i][n] /\ n \in Numbers(M)
    BY IteratesFromFirst, OneDivstepIs
  <2> HIDE DEF n, h
  <2>4. Ran(M, n, l, i, h[i][n])
    BY <1>2, <2>2, <2>3
  <2> QED BY <2>2, <2>3, <2>4
<1> HIDE DEF S
<1>3. m \in S
  BY <1>1, <1>2, SetInduction
<1> QED
  BY <1>3 DEF S

-------------------------------------------------------------------------------
(* The matrix of a batch relates the numbers the batch began with, F, G, D0   *)
(* and E0, to the numbers t the divsteps have reached.                        *)

Reaches(M, s, sg, u, v, q, r, F, G, D0, E0, t) ==
  /\ t \in Numbers(M)
  /\ s * t.f = u * F + v * G /\ sg * t.g = q * F + r * G
  /\ Same(M, s * t.d, u * D0 + v * E0) /\ Same(M, sg * t.e, q * D0 + r * E0)

(* The arguments of Reaches.                                                  *)
ReachTypes(M, s, u, v, q, r, F, G, D0, E0) ==
  /\ M \in Nat \ {0} /\ s \in Int /\ u \in Int /\ v \in Int /\ q \in Int /\ r \in Int
  /\ F \in Int /\ G \in Int /\ D0 \in Int /\ E0 \in Int

(* Shifting the row of f.                                                     *)
LEMMA ReachesShifted ==
  ASSUME NEW M, NEW s, NEW p \in Int, NEW u, NEW v, NEW q, NEW r, NEW F, NEW G, NEW D0, NEW E0, NEW t,
         ReachTypes(M, s, u, v, q, r, F, G, D0, E0), NEW sg,
         Reaches(M, s, sg, u, v, q, r, F, G, D0, E0, t)
  PROVE  Reaches(M, s * p, sg, p * u, p * v, q, r, F, G, D0, E0, t)
<1>1. /\ M \in Nat \ {0} /\ M \in Int /\ s \in Int /\ u \in Int /\ v \in Int
      /\ F \in Int /\ G \in Int /\ D0 \in Int /\ E0 \in Int
  BY DEF ReachTypes
<1>2. /\ t \in Numbers(M) /\ s * t.f = u * F + v * G /\ Same(M, s * t.d, u * D0 + v * E0)
      /\ sg * t.g = q * F + r * G /\ Same(M, sg * t.e, q * D0 + r * E0)
  BY DEF Reaches
<1>3. t.f \in Int /\ t.d \in Int
  BY <1>1, <1>2, NumbersAre
<1>4. (s * p) * t.f = (p * u) * F + (p * v) * G
  <2>1. (s * p) * t.f = p * (s * t.f) /\ p * (u * F + v * G) = (p * u) * F + (p * v) * G
    BY <1>1, <1>3
  <2> QED BY <1>2, <2>1
<1>5. Same(M, (s * p) * t.d, (p * u) * D0 + (p * v) * E0)
  <2>1. PICK k \in Int : s * t.d = (u * D0 + v * E0) + M * k
    BY <1>2 DEF Same
  <2>2. (s * p) * t.d = p * (s * t.d)
    BY <1>1, <1>3
  <2>3. p * ((u * D0 + v * E0) + M * k) = ((p * u) * D0 + (p * v) * E0) + M * (p * k) /\ p * k \in Int
    BY <1>1
  <2> QED BY <2>1, <2>2, <2>3 DEF Same
<1> QED
  BY <1>2, <1>4, <1>5 DEF Reaches

(* Adding w times f to g, and shifting.                                       *)
LEMMA ReachesAdded ==
  ASSUME NEW M, NEW s, NEW p \in Int, NEW w \in Int, NEW u, NEW v, NEW q, NEW r,
         NEW F, NEW G, NEW D0, NEW E0, NEW t, NEW n,
         ReachTypes(M, s, u, v, q, r, F, G, D0, E0),
         Reaches(M, s, s, u, v, q, r, F, G, D0, E0, t),
         n \in Numbers(M), n.f = t.f, n.d = t.d, p * n.g = t.g + w * t.f,
         Same(M, p * n.e, t.e + w * t.d)
  PROVE  Reaches(M, s, s * p, u, v, q + w * u, r + w * v, F, G, D0, E0, n)
<1>1. /\ M \in Nat \ {0} /\ M \in Int /\ s \in Int /\ u \in Int /\ v \in Int /\ q \in Int /\ r \in Int
      /\ F \in Int /\ G \in Int /\ D0 \in Int /\ E0 \in Int
  BY DEF ReachTypes
<1>2. /\ t \in Numbers(M) /\ s * t.f = u * F + v * G /\ Same(M, s * t.d, u * D0 + v * E0)
      /\ s * t.g = q * F + r * G /\ Same(M, s * t.e, q * D0 + r * E0)
  BY DEF Reaches
<1>3. t.f \in Int /\ t.g \in Int /\ t.d \in Int /\ t.e \in Int /\ n.g \in Int /\ n.e \in Int
  BY <1>1, <1>2, NumbersAre
<1>4. (s * p) * n.g = (q + w * u) * F + (r + w * v) * G
  <2>1. (s * p) * n.g = s * (p * n.g) /\ s * (t.g + w * t.f) = s * t.g + w * (s * t.f)
    BY <1>1, <1>3
  <2>2. (q * F + r * G) + w * (u * F + v * G) = (q + w * u) * F + (r + w * v) * G
    BY <1>1
  <2> QED BY <1>2, <2>1, <2>2
<1>5. Same(M, (s * p) * n.e, (q + w * u) * D0 + (r + w * v) * E0)
  <2>1. PICK k1 \in Int : s * t.d = (u * D0 + v * E0) + M * k1
    BY <1>2 DEF Same
  <2>2. PICK k2 \in Int : s * t.e = (q * D0 + r * E0) + M * k2
    BY <1>2 DEF Same
  <2>3. PICK k3 \in Int : p * n.e = (t.e + w * t.d) + M * k3
    BY DEF Same
  <2> DEFINE k == (k2 + w * k1) + s * k3
  <2>4. k \in Int
    BY <1>1
  <2>5. (s * p) * n.e = s * (p * n.e)
    BY <1>1, <1>3
  <2>6. s * ((t.e + w * t.d) + M * k3) = (s * t.e + w * (s * t.d)) + M * (s * k3)
    BY <1>1, <1>3
  <2>7. ((q * D0 + r * E0) + M * k2) + w * ((u * D0 + v * E0) + M * k1)
          = ((q + w * u) * D0 + (r + w * v) * E0) + M * (k2 + w * k1)
    BY <1>1
  <2>8. M * k = M * (k2 + w * k1) + M * (s * k3)
    BY <1>1
  <2> DEFINE X == (q + w * u) * D0 + (r + w * v) * E0
             y1 == M * (k2 + w * k1)
             y2 == M * (s * k3)
  <2>9. X \in Int /\ y1 \in Int /\ y2 \in Int
    BY <1>1
  <2>10. (s * p) * n.e = (X + y1) + y2 /\ M * k = y1 + y2
    BY <2>1, <2>2, <2>3, <2>5, <2>6, <2>7, <2>8
  <2> HIDE DEF X, y1, y2, k
  <2>11. (s * p) * n.e = X + M * k
    BY <2>9, <2>10
  <2> QED BY <2>4, <2>11 DEF Same, X
<1> QED
  BY <1>2, <1>4, <1>5 DEF Reaches

(* The same, where f and g change places.                                     *)
LEMMA ReachesSwapped ==
  ASSUME NEW M, NEW s, NEW p \in Int, NEW w \in Int, NEW u, NEW v, NEW q, NEW r,
         NEW F, NEW G, NEW D0, NEW E0, NEW t, NEW n,
         ReachTypes(M, s, u, v, q, r, F, G, D0, E0),
         Reaches(M, s, s, u, v, q, r, F, G, D0, E0, t),
         n \in Numbers(M), n.f = t.g, n.d = t.e, p * n.g = w * t.g - t.f,
         Same(M, p * n.e, w * t.e - t.d)
  PROVE  Reaches(M, s, s * p, q, r, w * q - u, w * r - v, F, G, D0, E0, n)
<1>1. /\ M \in Nat \ {0} /\ M \in Int /\ s \in Int /\ u \in Int /\ v \in Int /\ q \in Int /\ r \in Int
      /\ F \in Int /\ G \in Int /\ D0 \in Int /\ E0 \in Int
  BY DEF ReachTypes
<1>2. /\ t \in Numbers(M) /\ s * t.f = u * F + v * G /\ Same(M, s * t.d, u * D0 + v * E0)
      /\ s * t.g = q * F + r * G /\ Same(M, s * t.e, q * D0 + r * E0)
  BY DEF Reaches
<1>3. t.f \in Int /\ t.g \in Int /\ t.d \in Int /\ t.e \in Int /\ n.g \in Int /\ n.e \in Int
  BY <1>1, <1>2, NumbersAre
<1>4. (s * p) * n.g = (w * q - u) * F + (w * r - v) * G
  <2>1. (s * p) * n.g = s * (p * n.g) /\ s * (w * t.g - t.f) = w * (s * t.g) - s * t.f
    BY <1>1, <1>3
  <2>2. w * (q * F + r * G) - (u * F + v * G) = (w * q - u) * F + (w * r - v) * G
    BY <1>1
  <2> QED BY <1>2, <2>1, <2>2
<1>5. Same(M, (s * p) * n.e, (w * q - u) * D0 + (w * r - v) * E0)
  <2>1. PICK k1 \in Int : s * t.d = (u * D0 + v * E0) + M * k1
    BY <1>2 DEF Same
  <2>2. PICK k2 \in Int : s * t.e = (q * D0 + r * E0) + M * k2
    BY <1>2 DEF Same
  <2>3. PICK k3 \in Int : p * n.e = (w * t.e - t.d) + M * k3
    BY DEF Same
  <2> DEFINE k == (w * k2 - k1) + s * k3
  <2>4. k \in Int
    BY <1>1
  <2>5. (s * p) * n.e = s * (p * n.e)
    BY <1>1, <1>3
  <2>6. s * ((w * t.e - t.d) + M * k3) = (w * (s * t.e) - s * t.d) + M * (s * k3)
    BY <1>1, <1>3
  <2>7. w * ((q * D0 + r * E0) + M * k2) - ((u * D0 + v * E0) + M * k1)
          = ((w * q - u) * D0 + (w * r - v) * E0) + M * (w * k2 - k1)
    BY <1>1
  <2>8. M * k = M * (w * k2 - k1) + M * (s * k3)
    BY <1>1
  <2> DEFINE X == (w * q - u) * D0 + (w * r - v) * E0
             y1 == M * (w * k2 - k1)
             y2 == M * (s * k3)
  <2>9. X \in Int /\ y1 \in Int /\ y2 \in Int
    BY <1>1
  <2>10. (s * p) * n.e = (X + y1) + y2 /\ M * k = y1 + y2
    BY <2>1, <2>2, <2>3, <2>5, <2>6, <2>7, <2>8
  <2> HIDE DEF X, y1, y2, k
  <2>11. (s * p) * n.e = X + M * k
    BY <2>9, <2>10
  <2> QED BY <2>4, <2>11 DEF Same, X
<1> QED
  BY <1>2, <1>4, <1>5 DEF Reaches

(* The words agree with the numbers in the bits that are left.                *)
LEMMA WordAgrees ==
  ASSUME NEW b, b.f0 \in Int, b.g0 \in Int, NEW s \in Nat \ {0}, NEW L \in Int, Base = s * L,
         NEW c1 \in Int, NEW c2 \in Int, NEW n \in Int, NEW X \in Int, NEW F \in Int, NEW G \in Int,
         Row(b, c1, c2, n, s), Same(Base, F, b.f0), Same(Base, G, b.g0), s * X = c1 * F + c2 * G
  PROVE  Same(L, X, n)
<1> DEFINE f0 == b.f0
           g0 == b.g0
<1>1. f0 \in Int /\ g0 \in Int /\ Base \in Int
  BY Widths
<1>2. PICK i \in Int : c1 * f0 + c2 * g0 = n * s + (4 * Base) * i
  BY DEF Row, Same
<1>3. PICK j \in Int : F = f0 + Base * j
  BY DEF Same
<1>4. PICK k \in Int : G = g0 + Base * k
  BY DEF Same
<1> HIDE DEF f0, g0
<1> DEFINE y == (4 * i + c1 * j) + c2 * k
           z == n + L * y
<1>5. c1 * (f0 + Base * j) + c2 * (g0 + Base * k) = (c1 * f0 + c2 * g0) + Base * (c1 * j + c2 * k)
  BY <1>1
<1>6. (n * s + (4 * Base) * i) + Base * (c1 * j + c2 * k) = n * s + Base * y
  BY <1>1
<1>7. n * s + (s * L) * y = s * z
  <2>1. y \in Int
    OBVIOUS
  <2> HIDE DEF y
  <2> QED BY <2>1
<1>8. s * X = s * z
  BY <1>2, <1>3, <1>4, <1>5, <1>6, <1>7
<1>9. y \in Int /\ z \in Int
  <2>1. y \in Int
    OBVIOUS
  <2> HIDE DEF y
  <2> QED BY <2>1
<1> HIDE DEF y
<1>10. X = z
  <2> HIDE DEF z
  <2>1. s * X <= s * z /\ s * z <= s * X
    <3>1. s * X \in Int /\ s * z \in Int
      BY <1>9
    <3> QED BY <1>8, <3>1
  <2>2. X <= z /\ z <= X
    BY <1>9, <2>1, Unscaled
  <2> QED BY <1>9, <2>2
<1> QED
  BY <1>9, <1>10 DEF Same

-------------------------------------------------------------------------------
(* A batch follows the divsteps: what it has done to its words, that many     *)
(* divsteps (the zeros ahead included) do to the whole numbers.               *)

FollowsFrom(M, F, G, D0, E0, a, b, t) ==
  /\ t.delta2 = IF a = "const" THEN -2 * b.eta - 1 ELSE -2 * (b.eta - Ahead(a, b))
  /\ Reaches(M, Scale(a, b), ScaleG(a, b), Signed(b.u), Signed(b.v), Signed(b.q), Signed(b.r),
             F, G, D0, E0, t)

Follows(a, b, t) == FollowsFrom(modulus, f, g, d, e, a, b, t)

Batched(a, b) ==
  /\ b \in Bat /\ Tracked(a, b) /\ Same(Base, f, b.f0) /\ Same(Base, g, b.g0)
  /\ modulus \in Moduli /\ d \in Int /\ e \in Int /\ f \in Int /\ g \in Int

(* The bits of a word that are divsteps to come.                              *)
Left(a, b) == IF a = "const" THEN W - b.i ELSE b.i

LEMMA LeftIs ==
  ASSUME NEW b \in Bat, NEW a
  PROVE  /\ Left(a, b) \in Nat /\ Left(a, b) <= W
         /\ Pow2[Left(a, b)] \in Nat \ {0} /\ Pow2[Left(a, b)] \in Int
         /\ Base = Scale(a, b) * Pow2[Left(a, b)]
<1> DEFINE j == IF a = "const" THEN b.i ELSE W - b.i
           l == Left(a, b)
<1>1. b.i \in Nat /\ b.i <= W /\ W - b.i \in Nat /\ W \in Nat /\ Base = Pow2[W]
  BY BatTypes, Widths
<1>2. j \in Nat /\ l \in Nat /\ j + l = W /\ l <= W
  BY <1>1 DEF Left
<1>3. Scale(a, b) = Pow2[j]
  BY DEF Scale
<1> HIDE DEF j, l
<1>4. Pow2[j + l] = Pow2[j] * Pow2[l] /\ Pow2[l] \in Nat \ {0} /\ Pow2[l] \in Int
  BY <1>2, Pow2Add, Pow2Type
<1> QED
  BY <1>1, <1>2, <1>3, <1>4 DEF l

LEMMA BatchedTypes ==
  ASSUME NEW a, NEW b, Batched(a, b)
  PROVE  /\ b \in Bat /\ Tracked(a, b) /\ b.eta \in Int /\ Odd(modulus) /\ modulus \in Nat \ {0}
         /\ ReachTypes(modulus, Scale(a, b), Signed(b.u), Signed(b.v), Signed(b.q), Signed(b.r),
                       f, g, d, e)
<1>1. b \in Bat /\ Tracked(a, b) /\ modulus \in Moduli
      /\ d \in Int /\ e \in Int /\ f \in Int /\ g \in Int
  BY DEF Batched
<1> QED
  BY <1>1, ModulusIs, BatTypes, ScaleType DEF ReachTypes

LEMMA FollowsWords ==
  ASSUME NEW a, NEW b, Batched(a, b), NEW t, Follows(a, b, t)
  PROVE  /\ t \in Numbers(modulus) /\ t.delta2 \in Int /\ t.f \in Int /\ t.g \in Int
         /\ Same(Pow2[Left(a, b)], t.f, b.f)
         /\ Same(Pow2[Left(a, b)], Pow2[Ahead(a, b)] * t.g, b.g)
<1> DEFINE s == Scale(a, b)
           sg == ScaleG(a, b)
           p == Pow2[Ahead(a, b)]
           L == Pow2[Left(a, b)]
           U == Signed(b.u)
           V == Signed(b.v)
           Q == Signed(b.q)
           R == Signed(b.r)
           F == f
           G == g
           X == p * t.g
<1>1. /\ b \in Bat /\ Tracked(a, b) /\ Same(Base, F, b.f0) /\ Same(Base, G, b.g0)
      /\ modulus \in Moduli /\ F \in Int /\ G \in Int
  BY DEF Batched
<1>2. t \in Numbers(modulus) /\ s * t.f = U * F + V * G /\ sg * t.g = Q * F + R * G
  BY DEF Follows, FollowsFrom, Reaches
<1>3. t.delta2 \in Int /\ t.f \in Int /\ t.g \in Int
  BY <1>1, <1>2, ModulusIs, NumbersAre
<1>4. /\ s \in Nat \ {0} /\ sg = s * p /\ p \in Int /\ L \in Int /\ Base = s * L
      /\ b.f0 \in Int /\ b.g0 \in Int /\ b.f \in Int /\ b.g \in Int
      /\ U \in Int /\ V \in Int /\ Q \in Int /\ R \in Int
  BY <1>1, ScaleType, LeftIs, BatTypes DEF ScaleG
<1>5. Row(b, U, V, b.f, s) /\ Row(b, Q, R, b.g, s)
  BY <1>1, TrackedParts
<1> HIDE DEF s, p, L, U, V, Q, R, F, G
<1>6. X \in Int /\ s * X = Q * F + R * G
  <2>1. (s * p) * t.g = s * (p * t.g) /\ p * t.g \in Int
    BY <1>3, <1>4
  <2> QED BY <1>2, <1>4, <2>1
<1> HIDE DEF X
<1> DEFINE y == t.f
           y1 == b.f
           y2 == b.g
<1>7. y \in Int /\ y1 \in Int /\ y2 \in Int /\ s * y = U * F + V * G
      /\ Row(b, U, V, y1, s) /\ Row(b, Q, R, y2, s)
  BY <1>2, <1>3, <1>4, <1>5
<1> HIDE DEF y, y1, y2
<1>8. Same(L, y, y1)
  BY <1>1, <1>4, <1>7, WordAgrees
<1>9. Same(L, X, y2)
  BY <1>1, <1>4, <1>6, <1>7, WordAgrees
<1> QED
  BY <1>2, <1>3, <1>8, <1>9 DEF L, X, p, y, y1, y2

(* While bits are left f is odd, and without zeros ahead so is g where its    *)
(* word is.                                                                   *)
LEMMA FollowsParity ==
  ASSUME NEW a, NEW b, Batched(a, b), NEW t, Follows(a, b, t), Left(a, b) >= 1
  PROVE  Odd(t.f) /\ (Ahead(a, b) = 0 => (Odd(t.g) <=> Odd(b.g)))
<1> DEFINE l == Left(a, b)
           one == 1
<1>1. /\ t.f \in Int /\ t.g \in Int
      /\ Same(Pow2[l], t.f, b.f) /\ Same(Pow2[l], Pow2[Ahead(a, b)] * t.g, b.g)
  BY FollowsWords
<1>2. b \in Bat /\ Tracked(a, b)
  BY BatchedTypes
<1>3. l \in Nat /\ one \in Nat /\ one <= l /\ b.f \in Int /\ b.g \in Int /\ Odd(b.f)
  BY <1>2, LeftIs, BatTypes DEF Tracked
<1>4. Pow2[one] = 2
  <2>1. Pow2[0 + 1] = 2 * Pow2[0] /\ 0 + 1 = 1
    BY Pow2Def
  <2> QED BY <2>1, Pow2Def
<1> HIDE DEF l, one
<1>5. ASSUME NEW i \in Int, NEW j \in Int, Same(Pow2[l], i, j) PROVE Odd(i) <=> Odd(j)
  <2>1. Same(Pow2[one], i, j)
    BY <1>3, <1>5, Pow2Coarser
  <2>2. 2 \in Nat \ {0} /\ Same(2, i, j)
    BY <1>4, <2>1
  <2>3. i % 2 = j % 2
    BY <2>2, SameMod
  <2> QED BY <2>3 DEF Odd
<1>6. Odd(t.f)
  BY <1>1, <1>3, <1>5
<1>7. ASSUME Ahead(a, b) = 0 PROVE Odd(t.g) <=> Odd(b.g)
  <2>1. Pow2[Ahead(a, b)] = 1 /\ 1 * t.g = t.g
    BY <1>1, <1>7, Pow2Def
  <2>2. Same(Pow2[l], t.g, b.g)
    BY <1>1, <2>1
  <2> QED BY <1>1, <1>3, <1>5, <2>2
<1> QED
  BY <1>6, <1>7

LEMMA DivstepFollows ==
  ASSUME NEW b, Batched("const", b), b.i < W, NEW n \in Bat, Halved(b, n),
         NEW t, Follows("const", b, t)
  PROVE  Follows("const", n, D!OneDivstep(t, modulus))
<1> DEFINE const == "const"
           M == modulus
           y == D!OneDivstep(t, M)
           s == Scale(const, b)
           u == Signed(b.u)
           v == Signed(b.v)
           q == Signed(b.q)
           r == Signed(b.r)
           F == f
           G == g
           D0 == d
           E0 == e
           two == 2
           sp == s * two
           R2(n1, n2, n3, n4) == Reaches(M, sp, sp, n1, n2, n3, n4, F, G, D0, E0, y)
<1>1. b \in Bat /\ b.eta \in Int /\ n.eta \in Int /\ Odd(M) /\ M \in Nat \ {0}
      /\ ReachTypes(M, s, u, v, q, r, F, G, D0, E0)
  BY BatchedTypes, BatTypes
<1>2. n.i = b.i + 1
  BY DEF Halved
<1>3. Scale(const, n) = 2 * s /\ ScaleG(const, b) = s /\ ScaleG(const, n) = 2 * s /\ s \in Int
  BY <1>1, <1>2, ScaleDoubles, ScaleType
<1>4. t \in Numbers(M) /\ t.delta2 = -2 * b.eta - 1 /\ Reaches(M, s, s, u, v, q, r, F, G, D0, E0, t)
  BY <1>3 DEF Follows, FollowsFrom, Reaches
<1>5. Odd(t.f) /\ (Odd(t.g) <=> Odd(b.g)) /\ t.delta2 \in Int /\ t.f \in Int /\ t.g \in Int
      /\ t.d \in Int /\ t.e \in Int
  <2>1. Left(const, b) >= 1
    <3>1. b.i \in Int /\ W \in Int
      BY <1>1, BatTypes, Widths
    <3> QED BY <3>1 DEF Left
  <2>2. Ahead(const, b) = 0
    BY DEF Ahead
  <2>3. Odd(t.f) /\ (Odd(t.g) <=> Odd(b.g))
    BY <2>1, <2>2, FollowsParity
  <2> QED BY <1>1, <1>4, <2>3, NumbersAre
<1>6. y \in Numbers(M) /\ Stepped(M, t, y)
  BY <1>1, <1>4, OneDivstepIs
<1>7. /\ u \in Int /\ v \in Int /\ q \in Int /\ r \in Int /\ two \in Int /\ M \in Int
      /\ F \in Int /\ G \in Int /\ D0 \in Int /\ E0 \in Int
  BY <1>1 DEF ReachTypes
<1> DEFINE U1 == Signed(n.u)
           V1 == Signed(n.v)
           Q1 == Signed(n.q)
           R1 == Signed(n.r)
<1>8. \/ /\ ~Odd(b.g) /\ n.eta = b.eta - 1
         /\ U1 = 2 * u /\ V1 = 2 * v /\ Q1 = q /\ R1 = r
      \/ /\ Odd(b.g) /\ b.eta >= 0 /\ n.eta = b.eta - 1
         /\ U1 = 2 * u /\ V1 = 2 * v /\ Q1 = q + u /\ R1 = r + v
      \/ /\ Odd(b.g) /\ b.eta < 0 /\ n.eta = -b.eta - 2
         /\ U1 = 2 * q /\ V1 = 2 * r /\ Q1 = q - u /\ R1 = r - v
  BY DEF Halved
<1> HIDE DEF const, M, y, s, u, v, q, r, F, G, D0, E0, U1, V1, Q1, R1
<1>9. SUFFICES ASSUME y.delta2 = -2 * n.eta - 1, R2(U1, V1, Q1, R1)
               PROVE  Follows("const", n, D!OneDivstep(t, modulus))
  <2>1. y.delta2 = -2 * n.eta - 1 /\ R2(U1, V1, Q1, R1)
    <3>1. two * u = 2 * u /\ two * v = 2 * v /\ two * q = 2 * q /\ two * r = 2 * r
      OBVIOUS
    <3>2. ASSUME NEW n1 \in Int, NEW n2 \in Int, NEW n3 \in Int, NEW n4 \in Int,
                 Reaches(M, s, sp, n1, n2, n3, n4, F, G, D0, E0, y)
          PROVE  R2(two * n1, two * n2, n3, n4)
      <4>1. ReachTypes(M, s, n1, n2, n3, n4, F, G, D0, E0)
        BY <1>1, <1>3, <1>7, <3>2 DEF ReachTypes
      <4> HIDE DEF two
      <4> DEFINE sg == sp
      <4>2. Reaches(M, s, sg, n1, n2, n3, n4, F, G, D0, E0, y)
        BY <3>2
      <4> HIDE DEF sg
      <4>3. Reaches(M, s * two, sg, two * n1, two * n2, n3, n4, F, G, D0, E0, y)
        BY <1>7, <4>1, <4>2, ReachesShifted
      <4> QED BY <4>3 DEF sg
    <3> HIDE DEF R2
    <3>3. CASE ~Odd(b.g)
      <4> DEFINE w == 0
      <4>1. /\ y.delta2 = t.delta2 + 2 /\ y.f = t.f /\ 2 * y.g = t.g
            /\ y.d = t.d /\ Same(M, 2 * y.e, t.e)
        BY <1>5, <1>6, <3>3 DEF Stepped
      <4>2. t.g + w * t.f = t.g /\ t.e + w * t.d = t.e /\ q + w * u = q /\ r + w * v = r
        BY <1>5, <1>7
      <4>3. two * y.g = t.g + w * t.f /\ Same(M, two * y.e, t.e + w * t.d) /\ w \in Int
        BY <4>1, <4>2
      <4> HIDE DEF w, two
      <4>4. Reaches(M, s, sp, u, v, q + w * u, r + w * v, F, G, D0, E0, y)
        BY <1>1, <1>4, <1>6, <1>7, <4>1, <4>3, ReachesAdded
      <4>5. Reaches(M, s, sp, u, v, q, r, F, G, D0, E0, y)
        BY <4>2, <4>4
      <4>6. R2(two * u, two * v, q, r)
        BY <1>7, <3>2, <4>5
      <4>7. y.delta2 = -2 * n.eta - 1
        BY <1>1, <1>4, <1>8, <3>3, <4>1
      <4> QED BY <1>8, <3>1, <3>3, <4>6, <4>7
    <3>4. CASE Odd(b.g) /\ b.eta >= 0
      <4> DEFINE w == 1
      <4>1. /\ y.delta2 = t.delta2 + 2 /\ y.f = t.f /\ 2 * y.g = t.g + t.f
            /\ y.d = t.d /\ Same(M, 2 * y.e, t.e + t.d)
        <5>1. t.delta2 <= 0
          BY <1>1, <1>4, <3>4
        <5> QED BY <1>5, <1>6, <3>4, <5>1 DEF Stepped
      <4>2. w * t.f = t.f /\ w * t.d = t.d /\ w * u = u /\ w * v = v
        BY <1>5, <1>7
      <4>3. two * y.g = t.g + w * t.f /\ Same(M, two * y.e, t.e + w * t.d) /\ w \in Int
        BY <4>1, <4>2
      <4> HIDE DEF w, two
      <4>4. Reaches(M, s, sp, u, v, q + w * u, r + w * v, F, G, D0, E0, y)
        BY <1>1, <1>4, <1>6, <1>7, <4>1, <4>3, ReachesAdded
      <4> DEFINE i == q + u
                 j == r + v
      <4>5. Reaches(M, s, sp, u, v, i, j, F, G, D0, E0, y) /\ i \in Int /\ j \in Int
        BY <1>7, <4>2, <4>4
      <4> HIDE DEF i, j
      <4>6. R2(two * u, two * v, i, j)
        BY <1>7, <3>2, <4>5
      <4>7. y.delta2 = -2 * n.eta - 1
        BY <1>1, <1>4, <1>8, <3>4, <4>1
      <4> QED BY <1>1, <1>8, <3>1, <3>4, <4>6, <4>7 DEF i, j
    <3>5. CASE Odd(b.g) /\ b.eta < 0
      <4> DEFINE w == 1
      <4>1. /\ y.delta2 = 2 - t.delta2 /\ y.f = t.g /\ 2 * y.g = t.g - t.f
            /\ y.d = t.e /\ Same(M, 2 * y.e, t.e - t.d)
        <5>1. t.delta2 > 0
          BY <1>1, <1>4, <3>5
        <5> QED BY <1>5, <1>6, <3>5, <5>1 DEF Stepped
      <4>2. w * t.g = t.g /\ w * t.e = t.e /\ w * q = q /\ w * r = r
        BY <1>5, <1>7
      <4>3. two * y.g = w * t.g - t.f /\ Same(M, two * y.e, w * t.e - t.d) /\ w \in Int
        BY <4>1, <4>2
      <4> HIDE DEF w, two
      <4>4. Reaches(M, s, sp, q, r, w * q - u, w * r - v, F, G, D0, E0, y)
        BY <1>1, <1>4, <1>6, <1>7, <4>1, <4>3, ReachesSwapped
      <4> DEFINE i == q - u
                 j == r - v
      <4>5. Reaches(M, s, sp, q, r, i, j, F, G, D0, E0, y) /\ i \in Int /\ j \in Int
        BY <1>7, <4>2, <4>4
      <4> HIDE DEF i, j
      <4>6. R2(two * q, two * r, i, j)
        BY <1>7, <3>2, <4>5
      <4>7. y.delta2 = -2 * n.eta - 1
        BY <1>1, <1>4, <1>8, <3>5, <4>1
      <4> QED BY <1>1, <1>8, <3>1, <3>5, <4>6, <4>7 DEF i, j
    <3> QED BY <1>1, <3>3, <3>4, <3>5
  <2> QED BY <2>1
<1>10. sp = 2 * s
  BY <1>3
<1>11. Reaches(M, 2 * s, 2 * s, U1, V1, Q1, R1, F, G, D0, E0, y)
  BY <1>9, <1>10
<1> QED
  BY <1>3, <1>9, <1>11 DEF Follows, FollowsFrom, const, M, y, U1, V1, Q1, R1, F, G, D0, E0

(* Shifting zeros out is no divstep: they were counted when found.            *)
LEMMA ShiftFollows ==
  ASSUME NEW b, Batched("var", b), NEW n \in Bat, NEW z, Shifted(b, n, z),
         NEW t, Follows("var", b, t)
  PROVE  Follows("var", n, t)
<1> DEFINE var == "var"
           M == modulus
           s == Scale(var, b)
           p == Pow2[z]
           u == Signed(b.u)
           v == Signed(b.v)
           q == Signed(b.q)
           r == Signed(b.r)
           F == f
           G == g
           D0 == d
           E0 == e
           sg == s * p
<1>1. /\ b \in Bat /\ b.eta \in Int /\ ReachTypes(M, s, u, v, q, r, F, G, D0, E0)
  BY BatchedTypes
<1>2. /\ z \in Nat /\ z <= b.i /\ n.i = b.i - z /\ n.eta = b.eta - z
      /\ Signed(n.u) = p * u /\ Signed(n.v) = p * v /\ Signed(n.q) = q /\ Signed(n.r) = r
      /\ z = Ahead(var, b) /\ Ahead(var, n) = 0
  BY DEF Shifted
<1>3. Scale(var, n) = s * p /\ ScaleG(var, b) = s * p /\ ScaleG(var, n) = s * p /\ p \in Int
  <2>1. b.i \in Nat /\ W - b.i \in Nat /\ W \in Nat
    BY <1>1, BatTypes, Widths
  <2> DEFINE j == W - b.i
  <2>2. W - n.i = j + z /\ j \in Nat
    BY <1>2, <2>1
  <2>3. Scale(var, n) = Pow2[W - n.i] /\ s = Pow2[j]
    BY DEF Scale
  <2> HIDE DEF j
  <2>4. Pow2[j + z] = Pow2[j] * Pow2[z] /\ Pow2[j] \in Int /\ Pow2[z] \in Int /\ Pow2[0] = 1
    BY <1>2, <2>2, Pow2Add, Pow2Type, Pow2Def
  <2>5. Scale(var, n) = s * p /\ s * p \in Int
    BY <2>2, <2>3, <2>4
  <2>6. (s * p) * 1 = s * p
    BY <2>5
  <2> QED BY <1>2, <2>4, <2>5, <2>6 DEF ScaleG
<1>4. Reaches(M, s, sg, u, v, q, r, F, G, D0, E0, t) /\ t.delta2 = -2 * (b.eta - z)
  BY <1>2, <1>3 DEF Follows, FollowsFrom
<1> HIDE DEF M, s, p, u, v, q, r, F, G, D0, E0, sg, var
<1>5. Reaches(M, s * p, sg, p * u, p * v, q, r, F, G, D0, E0, t)
  BY <1>1, <1>3, <1>4, ReachesShifted
<1>6. Reaches(M, s * p, s * p, p * u, p * v, q, r, F, G, D0, E0, t)
  BY <1>5 DEF sg
<1>7. t.delta2 = -2 * (n.eta - Ahead(var, n))
  <2>1. n.eta - 0 = n.eta
    BY <1>1, <1>2
  <2> QED BY <1>2, <1>4, <2>1
<1> QED
  BY <1>2, <1>3, <1>6, <1>7 DEF Follows, FollowsFrom, M, F, G, D0, E0, var

(* Bits that are cancelled, and the zeros that follow them, are divsteps.     *)
LEMMA CancelFollows ==
  ASSUME NEW b, Batched("var", b), Ahead("var", b) = 0, Odd(b.g), b.eta >= 0,
         NEW n \in Bat, Tracked("var", n), NEW k \in Nat, NEW w \in Nat, CancelledBy(b, n, k, w),
         NEW t, Follows("var", b, t)
  PROVE  Follows("var", n, Iterates(modulus)[Ahead("var", n)][t])
<1> DEFINE var == "var"
           M == modulus
           s == Scale(var, b)
           z == Ahead(var, n)
           p == Pow2[z]
           u == Signed(b.u)
           v == Signed(b.v)
           q == Signed(b.q)
           r == Signed(b.r)
           F == f
           G == g
           D0 == d
           E0 == e
           y == Iterates(M)[z][t]
<1>1. /\ b \in Bat /\ b.eta \in Int /\ Tracked(var, b) /\ M \in Nat \ {0} /\ Odd(M)
      /\ ReachTypes(M, s, u, v, q, r, F, G, D0, E0)
  BY BatchedTypes
<1>2. /\ k \in Nat \ {0} /\ k <= b.i /\ w < Pow2[k]
      /\ n.i = b.i /\ Divides(Pow2[k], n.g) /\ k <= b.eta + 1 /\ n.eta = b.eta
      /\ Same(4 * Base, n.g, b.g + w * b.f)
      /\ Signed(n.u) = u /\ Signed(n.v) = v /\ Signed(n.q) = q + w * u /\ Signed(n.r) = r + w * v
  BY <1>1 DEF CancelledBy
<1>3. /\ Scale(var, n) = s /\ ScaleG(var, b) = s /\ ScaleG(var, n) = s * p /\ p \in Int /\ p \in Nat \ {0}
      /\ z \in Nat /\ z <= b.i /\ z >= k /\ Divides(Pow2[z], n.g) /\ s \in Int
  <2>1. Scale(var, n) = s
    BY <1>2 DEF Scale
  <2>2. Pow2[0] = 1 /\ s \in Int /\ p \in Int /\ p \in Nat \ {0} /\ z \in Nat
    BY <1>1, ScaleType, Pow2Def
  <2>3. ScaleG(var, b) = s
    <3>1. s * 1 = s
      BY <2>2
    <3> QED BY <2>2, <3>1 DEF ScaleG
  <2>4. ScaleG(var, n) = s * p
    BY <2>1 DEF ScaleG
  <2>5. n.g \in Int /\ n.i \in Nat /\ k \in 0 .. n.i
    BY <1>2, BatTypes
  <2>6. z = TrailingZeros(n.g, n.i)
    BY DEF Ahead
  <2> DEFINE i == n.g
             j == n.i
  <2>7. i \in Int /\ j \in Nat /\ k \in 0 .. j /\ Divides(Pow2[k], i)
    BY <1>2, <2>5
  <2> HIDE DEF i, j
  <2>8. TrailingZeros(i, j) \in 0 .. j /\ Divides(Pow2[TrailingZeros(i, j)], i) /\ k <= TrailingZeros(i, j)
    BY <2>7, TrailingZerosAre, TrailingZerosAtLeast
  <2>9. z <= b.i /\ z >= k /\ Divides(Pow2[z], n.g)
    BY <1>2, <2>2, <2>5, <2>6, <2>8 DEF i, j
  <2> HIDE DEF s, z, p
  <2> QED BY <2>1, <2>2, <2>3, <2>4, <2>9
<1>4. t \in Numbers(M) /\ t.delta2 = -2 * b.eta /\ Reaches(M, s, s, u, v, q, r, F, G, D0, E0, t)
  <2>1. b.eta - 0 = b.eta
    BY <1>1
  <2> QED BY <1>3, <2>1 DEF Follows, FollowsFrom, Reaches
<1>5. /\ t.delta2 \in Int /\ t.f \in Int /\ t.g \in Int /\ t.d \in Int /\ t.e \in Int
  BY <1>1, <1>4, NumbersAre
<1>6. /\ Odd(t.f) /\ Same(Pow2[b.i], t.f, b.f) /\ Same(Pow2[b.i], t.g, b.g)
  <2>1. Left(var, b) = b.i /\ b.i >= 1
    BY <1>2, <1>1, BatTypes DEF Left
  <2>2. Odd(t.f)
    BY <2>1, FollowsParity
  <2>3. Same(Pow2[b.i], t.f, b.f) /\ Same(Pow2[b.i], Pow2[Ahead(var, b)] * t.g, b.g)
    BY <2>1, FollowsWords
  <2>4. Pow2[Ahead(var, b)] * t.g = t.g
    <3>1. Pow2[0] = 1 /\ 1 * t.g = t.g
      BY <1>5, Pow2Def
    <3> QED BY <3>1
  <2> QED BY <2>2, <2>3, <2>4
<1>7. Cancels(t, w, z)
  <2>1. w < p
    <3>1. Pow2[k] <= Pow2[z] /\ Pow2[k] \in Nat
      <4> HIDE DEF z
      <4> QED BY <1>3, Pow2Least, Pow2Type
    <3> QED BY <1>2, <1>3, <3>1
  <2>2. Divides(p, t.g + w * t.f)
    <3> DEFINE l == b.i
               i1 == b.g
               i2 == b.f
               i3 == n.g
               j1 == t.g
               j2 == t.f
               X == j1 + w * j2
               Y == i1 + w * i2
               o == 0
    <3>1. /\ l \in Nat /\ l <= W + 2 /\ i1 \in Int /\ i2 \in Int /\ i3 \in Int /\ j1 \in Int /\ j2 \in Int
          /\ X \in Int /\ Y \in Int /\ o \in Int
      BY <1>1, <1>5, BatTypes, Widths
    <3>2. Same(4 * Base, i3, Y) /\ Same(Pow2[l], j1, i1) /\ Same(Pow2[l], j2, i2) /\ Same(Pow2[z], i3, o)
      BY <1>2, <1>3, <1>6 DEF Divides
    <3>3. Pow2[l] \in Int /\ Pow2[z] \in Int
      BY <1>3, <3>1, Pow2Type
    <3> HIDE DEF l, i1, i2, i3, j1, j2, o, z
    <3>4. Same(Pow2[l], X, Y)
      <4> DEFINE wj == w * j2
                 wi == w * i2
      <4>1. Same(Pow2[l], wj, wi) /\ wj \in Int /\ wi \in Int
        BY <3>1, <3>2, <3>3, SameScale
      <4> HIDE DEF wj, wi
      <4>2. Same(Pow2[l], j1 + wj, i1 + wi)
        BY <3>1, <3>2, <3>3, <4>1, SameAdd
      <4> QED BY <4>2 DEF wj, wi
    <3> HIDE DEF X, Y
    <3>5. Same(Pow2[l], i3, Y)
      BY <3>1, <3>2, WordMod
    <3>6. z \in Nat /\ z <= l
      BY <1>3 DEF l
    <3>7. Same(Pow2[z], X, Y) /\ Same(Pow2[z], i3, Y)
      BY <3>1, <3>4, <3>5, <3>6, Pow2Coarser
    <3>8. Same(Pow2[z], Y, i3)
      BY <3>1, <3>3, <3>7, SameSym
    <3>9. Same(Pow2[z], X, i3)
      BY <3>1, <3>3, <3>7, <3>8, SameTrans
    <3>10. Same(Pow2[z], X, o)
      BY <3>1, <3>2, <3>3, <3>9, SameTrans
    <3> QED BY <3>10 DEF Divides, X, j1, j2, o
  <2>3. ASSUME NEW j \in Nat, j < z PROVE t.delta2 + 2 * j <= 0 \/ w < Pow2[j]
    <3>1. CASE j < k
      BY <1>1, <1>2, <1>4, <3>1
    <3>2. CASE ~(j < k)
      <4>1. k <= j
        BY <3>2
      <4>2. Pow2[k] <= Pow2[j] /\ Pow2[k] \in Nat /\ Pow2[j] \in Nat
        BY <4>1, Pow2Least, Pow2Type
      <4> QED BY <1>2, <4>2
    <3> QED BY <3>1, <3>2
  <2> QED BY <1>6, <2>1, <2>2, <2>3 DEF Cancels
<1>8. Ran(M, t, w, z, y)
  <2> HIDE DEF z
  <2> QED BY <1>1, <1>3, <1>4, <1>7, RunsOn
<1> HIDE DEF y
<1>9. /\ y \in Numbers(M) /\ y.delta2 = t.delta2 + 2 * z /\ y.f = t.f /\ y.d = t.d
      /\ p * y.g = t.g + w * t.f /\ Same(M, p * y.e, t.e + w * t.d)
  BY <1>8 DEF Ran
<1>10. w \in Int
  OBVIOUS
<1> HIDE DEF var, M, s, z, p, u, v, q, r, F, G, D0, E0
<1>11. Reaches(M, s, s * p, u, v, q + w * u, r + w * v, F, G, D0, E0, y)
  BY <1>1, <1>3, <1>4, <1>9, <1>10, ReachesAdded
<1>12. y.delta2 = -2 * (n.eta - z)
  BY <1>1, <1>2, <1>3, <1>4, <1>9
<1> QED
  BY <1>2, <1>3, <1>11, <1>12 DEF Follows, FollowsFrom, var, M, z, F, G, D0, E0, y


(* Where f and g change places the first of these divsteps is the one that    *)
(* swaps: w is odd, and the rest of it is what the others add.                *)
LEMMA SwapCancels ==
  ASSUME NEW M \in Nat \ {0}, Odd(M), NEW t \in Numbers(M), Odd(t.f), Odd(t.g), t.delta2 > 0,
         NEW k \in Nat \ {0}, NEW w \in Nat, w < Pow2[k], t.delta2 + 2 >= 2 * k,
         NEW z \in Nat, k <= z, Divides(Pow2[z], w * t.g - t.f)
  PROVE  LET y == Iterates(M)[z][t]
         IN  /\ y \in Numbers(M) /\ y.delta2 = 2 * z - t.delta2 /\ y.f = t.g /\ y.d = t.e
             /\ Pow2[z] * y.g = w * t.g - t.f /\ Same(M, Pow2[z] * y.e, w * t.e - t.d)
<1> DEFINE n == D!OneDivstep(t, M)
           m == z - 1
           y == Iterates(M)[z][t]
           pm == Pow2[m]
           wg == w * t.g
           X == wg - t.f
<1>1. /\ t.delta2 \in Int /\ t.f \in Int /\ t.g \in Int /\ t.d \in Int /\ t.e \in Int /\ M \in Int
      /\ wg \in Int /\ X \in Int
  BY NumbersAre
<1>2. /\ n \in Numbers(M) /\ n.delta2 = 2 - t.delta2 /\ n.f = t.g /\ 2 * n.g = t.g - t.f
      /\ n.d = t.e /\ Same(M, 2 * n.e, t.e - t.d)
  <2>1. n \in Numbers(M) /\ Stepped(M, t, n) /\ ~(t.delta2 <= 0)
    BY <1>1, OneDivstepIs
  <2> HIDE DEF n
  <2> QED BY <2>1 DEF Stepped
<1> HIDE DEF n
<1>3. n.g \in Int /\ n.e \in Int /\ n.delta2 \in Int
  BY <1>2, NumbersAre
<1>4. m \in Nat /\ m + 1 = z
  OBVIOUS
<1>5. y = Iterates(M)[m][n]
  <2> HIDE DEF m
  <2>1. Iterates(M)[m + 1][t] = Iterates(M)[m][D!OneDivstep(t, M)]
    BY <1>4, IteratesFromFirst
  <2> QED BY <1>4, <2>1 DEF n
<1>6. Pow2[z] = 2 * pm /\ pm \in Nat \ {0} /\ pm \in Int
  <2> HIDE DEF m
  <2>1. Pow2[m + 1] = 2 * Pow2[m] /\ Pow2[m] \in Nat \ {0} /\ Pow2[m] \in Int
    BY <1>4, Pow2Def, Pow2Type
  <2> QED BY <1>4, <2>1
<1> HIDE DEF pm, y
<1>7. PICK i \in Int : X = (2 * pm) * i
  <2>1. 2 * pm \in Int /\ Divides(2 * pm, X)
    BY <1>6
  <2> QED BY <2>1 DEF Divides, Same
<1> DEFINE pi == pm * i
<1>8. X = 2 * pi /\ pi \in Int
  <2>1. (2 * pm) * i = 2 * (pm * i) /\ pm * i \in Int
    BY <1>6
  <2> QED BY <1>7, <2>1
<1>9. Odd(w)
  <2>1. ~Odd(X)
    <3> HIDE DEF X, pi
    <3> QED BY <1>8, TwiceIsEven
  <2> DEFINE nf == -t.f
  <2>2. nf \in Int /\ wg + nf = X /\ Odd(nf)
    <3>1. PICK j \in Int : t.f = 2 * j + 1
      BY <1>1, OddMeans
    <3>2. nf = 2 * (-j - 1) + 1 /\ -j - 1 \in Int /\ nf \in Int
      BY <3>1
    <3> DEFINE l == -j - 1
    <3>3. nf = 2 * l + 1 /\ l \in Int
      BY <3>2
    <3>4. wg + nf = X
      BY <1>1
    <3> HIDE DEF nf, l
    <3> QED BY <3>2, <3>3, <3>4, OddMeans
  <2>3. Odd(wg)
    <3> HIDE DEF wg, nf, X
    <3> QED BY <1>1, <2>1, <2>2, ParityOfSum
  <2>4. w \in Int
    OBVIOUS
  <2> QED BY <1>1, <2>3, <2>4, ProductOfEven
<1>10. PICK w1 \in Int : w = 2 * w1 + 1
  BY <1>9, OddMeans
<1>11. w1 \in Nat
  BY <1>10
<1> DEFINE wn == w1 * t.g
           we == w1 * t.e
<1>12. wn \in Int /\ we \in Int /\ wg = 2 * wn + t.g /\ w * t.e = 2 * we + t.e
  <2>1. (2 * w1 + 1) * t.g = 2 * (w1 * t.g) + t.g /\ (2 * w1 + 1) * t.e = 2 * (w1 * t.e) + t.e
        /\ w1 * t.g \in Int /\ w1 * t.e \in Int
    BY <1>1
  <2> QED BY <1>10, <2>1
<1> HIDE DEF pi
<1>13. Cancels(n, w1, m)
  <2>1. w1 < pm
    <3>1. Pow2[k] <= Pow2[z] /\ Pow2[k] \in Nat /\ Pow2[z] \in Nat
      BY Pow2Least, Pow2Type
    <3> QED BY <1>6, <1>10, <3>1
  <2>2. Divides(pm, n.g + w1 * n.f)
    <3> DEFINE a1 == n.g
               a2 == t.g
               a3 == t.f
    <3>0. /\ a1 \in Int /\ a2 \in Int /\ a3 \in Int /\ wn \in Int /\ wg \in Int
          /\ 2 * a1 = a2 - a3 /\ wg = 2 * wn + a2 /\ wg - a3 = 2 * pi
      BY <1>1, <1>2, <1>3, <1>8, <1>12
    <3> HIDE DEF wn, wg, a1, a2, a3
    <3>1. 2 * (a1 + wn) = 2 * pi
      BY <3>0, <1>8
    <3>2. n.g + wn = pi /\ n.g + wn \in Int
      <4>1. a1 + wn = pi
        BY <1>8, <3>0, <3>1
      <4> QED BY <1>3, <1>12, <4>1 DEF a1
    <3>3. n.g + w1 * n.f = n.g + wn
      BY <1>2 DEF wn
    <3> DEFINE l == n.g + w1 * n.f
    <3>4. l = pm * i /\ l \in Int
      BY <3>2, <3>3 DEF pi
    <3> HIDE DEF l
    <3>5. Divides(pm, l)
      BY <1>6, <3>4, DividesIs
    <3> QED BY <3>5 DEF l
  <2>3. ASSUME NEW j \in Nat, j < m PROVE n.delta2 + 2 * j <= 0 \/ w1 < Pow2[j]
    <3>1. CASE j < k - 1
      BY <1>1, <1>2, <3>1
    <3>2. CASE ~(j < k - 1)
      <4>1. k <= j + 1 /\ j + 1 \in Nat
        BY <3>2
      <4> DEFINE l == j + 1
      <4>2. Pow2[k] <= Pow2[l] /\ Pow2[k] \in Nat /\ Pow2[l] \in Nat /\ Pow2[l] = 2 * Pow2[j]
            /\ Pow2[j] \in Nat
        <5>1. Pow2[j + 1] = 2 * Pow2[j] /\ Pow2[j] \in Nat
          BY Pow2Def, Pow2Type
        <5>2. l \in Nat /\ k \in Nat /\ k <= l /\ Pow2[l] = 2 * Pow2[j]
          BY <4>1, <5>1
        <5> HIDE DEF l
        <5> QED BY <5>1, <5>2, Pow2Least, Pow2Type
      <4> QED BY <1>10, <4>2
    <3> QED BY <3>1, <3>2
  <2>4. Odd(n.f) /\ w1 \in Nat
    BY <1>2, <1>11
  <2> QED BY <2>1, <2>2, <2>3, <2>4 DEF Cancels, pm
<1>14. Ran(M, n, w1, m, y)
  <2> HIDE DEF m
  <2> QED BY <1>2, <1>4, <1>5, <1>11, <1>13, RunsOn
<1>15. /\ y \in Numbers(M) /\ y.delta2 = n.delta2 + 2 * m /\ y.f = n.f /\ y.d = n.d
       /\ pm * y.g = n.g + w1 * n.f /\ Same(M, pm * y.e, n.e + w1 * n.d)
  BY <1>14 DEF Ran, pm
<1>16. y.g \in Int /\ y.e \in Int
  BY <1>15, NumbersAre
<1>17. y.delta2 = 2 * z - t.delta2
  BY <1>1, <1>2, <1>15
<1>18. (2 * pm) * y.g = X
  <2> DEFINE pg == pm * y.g
  <2>1. (2 * pm) * y.g = 2 * pg /\ pg \in Int
    BY <1>6, <1>16
  <2>2. pg = n.g + wn
    BY <1>2, <1>15
  <2> DEFINE a1 == n.g
             a2 == t.g
             a3 == t.f
  <2>3. /\ a1 \in Int /\ a2 \in Int /\ a3 \in Int /\ wn \in Int /\ wg \in Int
        /\ 2 * a1 = a2 - a3 /\ wg = 2 * wn + a2
    BY <1>1, <1>2, <1>3, <1>12
  <2> HIDE DEF pg, wn, wg, a1, a2, a3
  <2>4. 2 * (a1 + wn) = wg - a3
    BY <2>3
  <2> QED BY <2>1, <2>2, <2>4 DEF a1, a3
<1>19. Same(M, (2 * pm) * y.e, w * t.e - t.d)
  <2> DEFINE pe == pm * y.e
             ne == n.e + we
  <2>1. (2 * pm) * y.e = 2 * pe /\ pe \in Int /\ ne \in Int
    BY <1>3, <1>6, <1>12, <1>16
  <2>2. Same(M, pe, ne)
    BY <1>2, <1>15
  <2>3. PICK j \in Int : pe = ne + M * j
    BY <2>2 DEF Same
  <2>4. PICK l \in Int : 2 * n.e = (t.e - t.d) + M * l
    BY <1>2 DEF Same
  <2> DEFINE Mj == M * j
             Ml == M * l
  <2>5. Mj \in Int /\ Ml \in Int /\ M * (2 * j + l) = 2 * Mj + Ml /\ 2 * j + l \in Int
        /\ pe = (n.e + we) + Mj /\ 2 * n.e = (t.e - t.d) + Ml
    BY <1>1, <2>3, <2>4
  <2> DEFINE a1 == n.e
             a2 == t.e
             a3 == t.d
  <2>a. /\ a1 \in Int /\ a2 \in Int /\ a3 \in Int /\ we \in Int /\ pe \in Int
        /\ pe = (a1 + we) + Mj /\ 2 * a1 = (a2 - a3) + Ml
    BY <1>1, <1>3, <1>12, <2>1, <2>5
  <2> HIDE DEF pe, ne, Mj, Ml, we, a1, a2, a3
  <2>b. 2 * pe = ((2 * we + a2) - a3) + (2 * Mj + Ml)
    BY <2>5, <2>a
  <2>6. 2 * pe = ((2 * we + t.e) - t.d) + (2 * Mj + Ml)
    BY <2>b DEF a2, a3
  <2>7. (2 * pm) * y.e = (w * t.e - t.d) + M * (2 * j + l)
    BY <1>12, <2>1, <2>5, <2>6
  <2> QED BY <2>5, <2>7 DEF Same
<1>20. /\ y \in Numbers(M) /\ y.delta2 = 2 * z - t.delta2 /\ y.f = t.g /\ y.d = t.e
       /\ Pow2[z] * y.g = w * t.g - t.f /\ Same(M, Pow2[z] * y.e, w * t.e - t.d)
  BY <1>2, <1>6, <1>15, <1>17, <1>18, <1>19
<1> QED
  BY <1>20 DEF y

LEMMA SwapFollows ==
  ASSUME NEW b, Batched("var", b), Ahead("var", b) = 0, Odd(b.g), b.eta < 0,
         NEW n \in Bat, Tracked("var", n), NEW k \in Nat, NEW w \in Nat, CancelledBy(b, n, k, w),
         NEW t, Follows("var", b, t)
  PROVE  Follows("var", n, Iterates(modulus)[Ahead("var", n)][t])
<1> DEFINE var == "var"
           M == modulus
           s == Scale(var, b)
           z == Ahead(var, n)
           p == Pow2[z]
           u == Signed(b.u)
           v == Signed(b.v)
           q == Signed(b.q)
           r == Signed(b.r)
           F == f
           G == g
           D0 == d
           E0 == e
           y == Iterates(M)[z][t]
<1>1. /\ b \in Bat /\ b.eta \in Int /\ Tracked(var, b) /\ M \in Nat \ {0} /\ Odd(M)
      /\ ReachTypes(M, s, u, v, q, r, F, G, D0, E0)
  BY BatchedTypes
<1>2. /\ k \in Nat \ {0} /\ k <= b.i /\ w < Pow2[k]
      /\ n.i = b.i /\ Divides(Pow2[k], n.g) /\ k <= -b.eta + 1 /\ n.eta = -b.eta
      /\ Same(4 * Base, n.g, w * b.g - b.f)
      /\ Signed(n.u) = q /\ Signed(n.v) = r /\ Signed(n.q) = w * q - u /\ Signed(n.r) = w * r - v
  BY <1>1 DEF CancelledBy
<1>3. /\ Scale(var, n) = s /\ ScaleG(var, b) = s /\ ScaleG(var, n) = s * p /\ p \in Int /\ p \in Nat \ {0}
      /\ z \in Nat /\ z <= b.i /\ z >= k /\ Divides(Pow2[z], n.g) /\ s \in Int
  <2>1. Scale(var, n) = s
    BY <1>2 DEF Scale
  <2>2. Pow2[0] = 1 /\ s \in Int /\ p \in Int /\ p \in Nat \ {0} /\ z \in Nat
    BY <1>1, ScaleType, Pow2Def
  <2>3. ScaleG(var, b) = s
    <3>1. s * 1 = s
      BY <2>2
    <3> QED BY <2>2, <3>1 DEF ScaleG
  <2>4. ScaleG(var, n) = s * p
    BY <2>1 DEF ScaleG
  <2>5. n.g \in Int /\ n.i \in Nat /\ k \in 0 .. n.i
    BY <1>2, BatTypes
  <2>6. z = TrailingZeros(n.g, n.i)
    BY DEF Ahead
  <2> DEFINE i == n.g
             j == n.i
  <2>7. i \in Int /\ j \in Nat /\ k \in 0 .. j /\ Divides(Pow2[k], i)
    BY <1>2, <2>5
  <2> HIDE DEF i, j
  <2>8. TrailingZeros(i, j) \in 0 .. j /\ Divides(Pow2[TrailingZeros(i, j)], i) /\ k <= TrailingZeros(i, j)
    BY <2>7, TrailingZerosAre, TrailingZerosAtLeast
  <2>9. z <= b.i /\ z >= k /\ Divides(Pow2[z], n.g)
    BY <1>2, <2>2, <2>5, <2>6, <2>8 DEF i, j
  <2> HIDE DEF s, z, p
  <2> QED BY <2>1, <2>2, <2>3, <2>4, <2>9
<1>4. t \in Numbers(M) /\ t.delta2 = -2 * b.eta /\ Reaches(M, s, s, u, v, q, r, F, G, D0, E0, t)
  <2>1. b.eta - 0 = b.eta
    BY <1>1
  <2> QED BY <1>3, <2>1 DEF Follows, FollowsFrom, Reaches
<1>5. /\ t.delta2 \in Int /\ t.f \in Int /\ t.g \in Int /\ t.d \in Int /\ t.e \in Int
  BY <1>1, <1>4, NumbersAre
<1>6. /\ Odd(t.f) /\ Odd(t.g) /\ Same(Pow2[b.i], t.f, b.f) /\ Same(Pow2[b.i], t.g, b.g)
  <2>1. Left(var, b) = b.i /\ b.i >= 1
    BY <1>2, <1>1, BatTypes DEF Left
  <2>2. Odd(t.f) /\ Odd(t.g)
    BY <2>1, FollowsParity
  <2>3. Same(Pow2[b.i], t.f, b.f) /\ Same(Pow2[b.i], Pow2[Ahead(var, b)] * t.g, b.g)
    BY <2>1, FollowsWords
  <2>4. Pow2[Ahead(var, b)] * t.g = t.g
    <3>1. Pow2[0] = 1 /\ 1 * t.g = t.g
      BY <1>5, Pow2Def
    <3> QED BY <3>1
  <2> QED BY <2>2, <2>3, <2>4
<1>7. Divides(p, w * t.g - t.f)
  <2> DEFINE l == b.i
             i1 == b.g
             i2 == b.f
             i3 == n.g
             j1 == t.g
             j2 == t.f
             X == w * j1 - j2
             Y == w * i1 - i2
             o == 0
  <2>1. /\ l \in Nat /\ l <= W + 2 /\ i1 \in Int /\ i2 \in Int /\ i3 \in Int /\ j1 \in Int /\ j2 \in Int
        /\ X \in Int /\ Y \in Int /\ o \in Int
    BY <1>1, <1>5, BatTypes, Widths
  <2>2. Same(4 * Base, i3, Y) /\ Same(Pow2[l], j1, i1) /\ Same(Pow2[l], j2, i2) /\ Same(Pow2[z], i3, o)
    BY <1>2, <1>3, <1>6 DEF Divides
  <2>3. Pow2[l] \in Int /\ Pow2[z] \in Int
    BY <1>3, <2>1, Pow2Type
  <2> HIDE DEF l, i1, i2, i3, j1, j2, o, z
  <2>4. Same(Pow2[l], X, Y)
    <3> DEFINE wj == w * j1
               wi == w * i1
    <3>1. Same(Pow2[l], wj, wi) /\ wj \in Int /\ wi \in Int
      BY <2>1, <2>2, <2>3, SameScale
    <3> HIDE DEF wj, wi
    <3>2. Same(Pow2[l], wj - j2, wi - i2)
      BY <2>1, <2>2, <2>3, <3>1, SameAdd
    <3> QED BY <3>2 DEF wj, wi
  <2> HIDE DEF X, Y
  <2>5. Same(Pow2[l], i3, Y)
    BY <2>1, <2>2, WordMod
  <2>6. z \in Nat /\ z <= l
    BY <1>3 DEF l
  <2>7. Same(Pow2[z], X, Y) /\ Same(Pow2[z], i3, Y)
    BY <2>1, <2>4, <2>5, <2>6, Pow2Coarser
  <2>8. Same(Pow2[z], Y, i3)
    BY <2>1, <2>3, <2>7, SameSym
  <2>9. Same(Pow2[z], X, i3)
    BY <2>1, <2>3, <2>7, <2>8, SameTrans
  <2>10. Same(Pow2[z], X, o)
    BY <2>1, <2>2, <2>3, <2>9, SameTrans
  <2> QED BY <2>10 DEF Divides, X, j1, j2, o
<1>8. /\ y \in Numbers(M) /\ y.delta2 = 2 * z - t.delta2 /\ y.f = t.g /\ y.d = t.e
      /\ p * y.g = w * t.g - t.f /\ Same(M, p * y.e, w * t.e - t.d)
  <2>1. t.delta2 > 0 /\ t.delta2 + 2 >= 2 * k
    BY <1>1, <1>2, <1>4
  <2> HIDE DEF z, M
  <2> QED BY <1>1, <1>2, <1>3, <1>4, <1>6, <1>7, <2>1, SwapCancels
<1>9. w \in Int
  OBVIOUS
<1> HIDE DEF var, M, s, z, p, u, v, q, r, F, G, D0, E0, y
<1>10. Reaches(M, s, s * p, q, r, w * q - u, w * r - v, F, G, D0, E0, y)
  BY <1>1, <1>3, <1>4, <1>8, <1>9, ReachesSwapped
<1>11. y.delta2 = -2 * (n.eta - z)
  BY <1>1, <1>2, <1>3, <1>4, <1>8
<1> QED
  BY <1>2, <1>3, <1>10, <1>11 DEF Follows, FollowsFrom, var, M, z, F, G, D0, E0, y

(* What Divsteps sees between batches, and how many divsteps a batch has      *)
(* taken: those whose zeros are ahead are counted when found.                 *)
Begun(a, h, F, G, D0, E0, M) ==
  [delta2 |-> IF a = "const" THEN -2 * h - 1 ELSE -2 * h,
   f |-> F, g |-> G, d |-> D0 % M, e |-> E0 % M]

BatchSteps(a, b) == (IF a = "const" THEN b.i - Pad ELSE W - b.i) + Ahead(a, b)

LEMMA BegunIs ==
  ASSUME NEW M \in Nat \ {0}, NEW a, NEW h \in Int, NEW F \in Int, NEW G \in Int,
         NEW D0 \in Int, NEW E0 \in Int
  PROVE  /\ Begun(a, h, F, G, D0, E0, M) \in Numbers(M)
         /\ Begun(a, h, F, G, D0, E0, M).f = F /\ Begun(a, h, F, G, D0, E0, M).g = G
         /\ Begun(a, h, F, G, D0, E0, M).d = D0 % M /\ Begun(a, h, F, G, D0, E0, M).e = E0 % M
         /\ Begun(a, h, F, G, D0, E0, M).delta2 = IF a = "const" THEN -2 * h - 1 ELSE -2 * h
<1> DEFINE s == Begun(a, h, F, G, D0, E0, M)
           i == IF a = "const" THEN -2 * h - 1 ELSE -2 * h
           j == D0 % M
           k == E0 % M
<1>1. i \in Int /\ j \in 0 .. M - 1 /\ k \in 0 .. M - 1
  BY DivMod
<1>2. s = [delta2 |-> i, f |-> F, g |-> G, d |-> j, e |-> k]
  BY DEF Begun
<1> HIDE DEF s, i, j, k
<1>3. s \in Numbers(M) /\ s.f = F /\ s.g = G /\ s.d = j /\ s.e = k /\ s.delta2 = i
  BY <1>1, <1>2 DEF Numbers
<1> QED
  BY <1>3, Zenon DEF s, i, j, k

LEMMA ModSame ==
  ASSUME NEW M \in Nat \ {0}, NEW a \in Int
  PROVE  a % M \in Int /\ Same(M, a % M, a)
<1>1. a % M \in Int /\ a \div M \in Int /\ M \in Int /\ a = M * (a \div M) + (a % M)
  BY DivMod
<1> DEFINE r == a % M
           k == a \div M
<1> HIDE DEF r, k
<1>2. r = a + M * (-k) /\ -k \in Int
  BY <1>1 DEF r, k
<1> QED
  BY <1>1, <1>2 DEF Same, r

(* A batch that begins has taken the divsteps of the zeros ahead.             *)
LEMMA FreshFollows ==
  ASSUME NEW M \in Nat \ {0}, Odd(M), NEW a \in {"const", "var"}, NEW h \in Int,
         NEW F \in Int, NEW G \in Int, NEW D0 \in Int, NEW E0 \in Int,
         NEW f0 \in Words, NEW g0 \in Words, Odd(f0), Same(Base, F, f0), Same(Base, G, g0),
         NEW b, b = Batch(a, h, f0, g0)
  PROVE  FollowsFrom(M, F, G, D0, E0, a, b,
                     Iterates(M)[BatchSteps(a, b)][Begun(a, h, F, G, D0, E0, M)])
<1> DEFINE k0 == Begun(a, h, F, G, D0, E0, M)
           s == Scale(a, b)
           z == Ahead(a, b)
           p == Pow2[z]
           o == 0
           y == Iterates(M)[z][k0]
<1>1. /\ b \in Bat /\ b.eta = h /\ b.g = g0 /\ b.i = (IF a = "const" THEN Pad ELSE W)
      /\ Signed(b.u) = s /\ Signed(b.v) = 0 /\ Signed(b.q) = 0 /\ Signed(b.r) = s
  <2>1. b.eta = h /\ b.g = g0 /\ b.i = (IF a = "const" THEN Pad ELSE W)
    BY DEF Batch
  <2> DEFINE y0 == Batch(a, h, f0, g0)
             s0 == Pow2[IF a = "const" THEN Pad ELSE 0]
  <2>2. /\ y0 \in Bat /\ Signed(y0.u) = s0 /\ Signed(y0.v) = 0 /\ Signed(y0.q) = 0
        /\ Signed(y0.r) = s0 /\ Scale(a, y0) = s0
    BY BatchBegins
  <2>3. b = y0
    OBVIOUS
  <2> HIDE DEF y0, s0
  <2> QED BY <2>1, <2>2, <2>3
<1>2. /\ k0 \in Numbers(M) /\ k0.f = F /\ k0.g = G /\ k0.d = D0 % M /\ k0.e = E0 % M
      /\ k0.delta2 = IF a = "const" THEN -2 * h - 1 ELSE -2 * h
  BY BegunIs
<1>3. /\ s \in Int /\ z \in Nat /\ p \in Nat \ {0} /\ p \in Int /\ ScaleG(a, b) = s * p
      /\ z <= W /\ W \in Nat /\ Pad \in Nat
  BY <1>1, ScaleType, BatTypes, Widths DEF ScaleG
<1>4. BatchSteps(a, b) = z /\ (a = "const" => z = 0)
  <2>1. Pad - Pad = 0 /\ W - W = 0 /\ 0 + z = z
    BY <1>3
  <2>2. BatchSteps(a, b) = 0 + z
    BY <1>1, <2>1 DEF BatchSteps
  <2> QED BY <2>1, <2>2 DEF Ahead
<1>5. Divides(p, g0)
  <2>1. CASE a = "const"
    <3>1. p = 1 /\ g0 = 1 * g0 /\ g0 \in Int /\ 1 \in Int
      BY <1>4, <2>1, Pow2Def, WordsAreInts
    <3> QED BY <3>1, DividesIs
  <2>2. CASE a # "const"
    <3>1. z = TrailingZeros(g0, W) /\ g0 \in Int
      BY <1>1, <2>2, WordsAreInts DEF Ahead
    <3> HIDE DEF z
    <3> QED BY <1>3, <3>1, TrailingZerosAre
  <2> QED BY <2>1, <2>2
<1>6. Divides(p, G)
  <2>1. g0 \in Int /\ Base = Pow2[W] /\ o \in Int
    BY WordsAreInts, Widths
  <2>2. Same(Pow2[W], G, g0)
    BY <2>1
  <2> HIDE DEF z, o
  <2>3. Same(Pow2[z], G, g0) /\ Pow2[z] \in Int
    BY <1>3, <2>1, <2>2, Pow2Coarser
  <2>4. Same(Pow2[z], g0, o)
    BY <1>5 DEF Divides, o
  <2>5. Same(Pow2[z], G, o)
    BY <2>1, <2>3, <2>4, SameTrans
  <2> QED BY <2>5 DEF Divides, o
<1>7. Odd(F)
  BY OddSameBase, WordsAreInts
<1>8. Ran(M, k0, o, z, y)
  <2>1. k0.g + o * k0.f = G /\ o \in Nat
    BY <1>2
  <2>2. o < Pow2[z] /\ \A j \in Nat : o < Pow2[j]
    BY <1>3, Pow2Type
  <2> HIDE DEF k0, z, o
  <2>3. Cancels(k0, o, z)
    BY <1>2, <1>6, <1>7, <2>1, <2>2 DEF Cancels
  <2> QED BY <1>2, <1>3, <2>1, <2>3, RunsOn
<1>9. Reaches(M, s, s, s, o, o, s, F, G, D0, E0, k0)
  <2>1. s * F = s * F + o * G /\ s * G = o * F + s * G
    BY <1>3
  <2>2. s * D0 + o * E0 = s * D0 /\ o * D0 + s * E0 = s * E0
    BY <1>3
  <2> DEFINE i == D0 % M
             j == E0 % M
  <2>3. i \in Int /\ j \in Int /\ Same(M, i, D0) /\ Same(M, j, E0) /\ M \in Int
    <3>1. i \in Int /\ Same(M, i, D0)
      BY ModSame
    <3>2. j \in Int /\ Same(M, j, E0)
      BY ModSame
    <3> HIDE DEF i, j
    <3> QED BY <3>1, <3>2
  <2> HIDE DEF i, j
  <2>4. Same(M, s * i, s * D0) /\ Same(M, s * j, s * E0)
    BY <1>3, <2>3, SameScale
  <2> HIDE DEF o, s
  <2> QED BY <1>2, <2>1, <2>2, <2>4 DEF Reaches, i, j
<1>10. /\ y \in Numbers(M) /\ y.delta2 = k0.delta2 + 2 * z /\ y.f = k0.f /\ y.d = k0.d
       /\ p * y.g = k0.g + o * k0.f /\ Same(M, p * y.e, k0.e + o * k0.d)
  BY <1>8 DEF Ran
<1> DEFINE q == o + o * s
           r == s + o * o
<1>11. Reaches(M, s, s * p, s, o, q, r, F, G, D0, E0, y)
  <2>1. ReachTypes(M, s, s, o, o, s, F, G, D0, E0) /\ o \in Int
    BY <1>3 DEF ReachTypes
  <2> HIDE DEF k0, s, p, o, y, z
  <2> QED BY <1>3, <1>9, <1>10, <2>1, ReachesAdded
<1>12. q = 0 /\ r = s
  BY <1>3
<1>13. y.delta2 = IF a = "const" THEN -2 * b.eta - 1 ELSE -2 * (b.eta - z)
  <2> HIDE DEF y, z, k0
  <2> QED BY <1>1, <1>2, <1>3, <1>4, <1>10
<1>14. Iterates(M)[BatchSteps(a, b)][k0] = y
  BY <1>4
<1> HIDE DEF k0, y, s, z, p, q, r
<1>15. Reaches(M, s, ScaleG(a, b), Signed(b.u), Signed(b.v), Signed(b.q), Signed(b.r), F, G, D0, E0, y)
  BY <1>1, <1>3, <1>11, <1>12
<1>16. FollowsFrom(M, F, G, D0, E0, a, b, y)
  BY <1>13, <1>15 DEF FollowsFrom, s, z
<1> QED
  BY <1>14, <1>16 DEF k0

(* The batch b of a call whose numbers are F, G, D0, E0 and h is in step with *)
(* the divsteps.                                                              *)
InStepFrom(M, F, G, D0, E0, h, a, b) ==
  FollowsFrom(M, F, G, D0, E0, a, b,
              Iterates(M)[BatchSteps(a, b)][Begun(a, h, F, G, D0, E0, M)])
InStep == pc = "batch" => InStepFrom(modulus, f, g, d, e, eta, algo, bat)

LEMMA BatchInStep ==
  ASSUME NEW M \in Nat \ {0}, Odd(M), NEW a \in {"const", "var"}, NEW h \in Int,
         NEW F \in Int, NEW G \in Int, NEW D0 \in Int, NEW E0 \in Int,
         NEW b \in Bat, Odd(b.f), Same(Base, F, b.f0), Same(Base, G, b.g0),
         b = Batch(a, h, b.f0, b.g0)
  PROVE  InStepFrom(M, F, G, D0, E0, h, a, b)
<1> DEFINE f0 == b.f0
           g0 == b.g0
<1>1. f0 \in Words /\ g0 \in Words /\ Same(Base, F, f0) /\ Same(Base, G, g0) /\ b = Batch(a, h, f0, g0)
  BY BatTypes
<1>2. b.f = f0
  BY <1>1 DEF Batch
<1>3. Odd(f0)
  BY <1>2
<1> HIDE DEF f0, g0
<1> QED
  BY <1>1, <1>3, FreshFollows DEF InStepFrom

LEMMA InvariantBatch ==
  ASSUME IInv, pc = "batch"
  PROVE  /\ Batched(algo, bat) /\ bat \in Bat /\ Tracked(algo, bat) /\ Odd(bat.f)
         /\ Odd(modulus) /\ modulus \in Nat \ {0} /\ algo \in {"const", "var"} /\ eta \in Int
         /\ f \in Int /\ g \in Int /\ d \in Int /\ e \in Int
         /\ Same(Base, f, bat.f0) /\ Same(Base, g, bat.g0)
<1>1. /\ bat \in Bat /\ modulus \in Moduli /\ d \in Int /\ e \in Int /\ f \in Int /\ g \in Int
      /\ algo \in {"const", "var"} /\ eta \in Int /\ Running
  BY TypeIs DEF IInv, TypeOK
<1>2. Tracked(algo, bat) /\ Same(Base, f, bat.f0) /\ Same(Base, g, bat.g0)
  BY <1>1 DEF Running
<1>3. Batched(algo, bat)
  BY <1>1, <1>2 DEF Batched
<1>4. Odd(bat.f) /\ Odd(modulus) /\ modulus \in Nat \ {0}
  BY <1>2, <1>3, BatchedTypes DEF Tracked
<1> QED
  BY <1>1, <1>2, <1>3, <1>4

LEMMA InStepBegins ==
  ASSUME Init
  PROVE  InStep
<1>1. IInv /\ pc = "batch" /\ eta = -1
  BY InvariantInit DEF Init
<1>2. PICK f0 \in {Limb0(modulus, Limbs), Word((modulus % Base) - Base)} :
        bat = Batch(algo, -1, f0, Limb0(x, Limbs))
  BY DEF Init
<1> DEFINE g0 == Limb0(x, Limbs)
<1>3. bat = Batch(algo, eta, f0, g0)
  BY <1>1, <1>2
<1> HIDE DEF g0
<1>4. bat.f0 = f0 /\ bat.g0 = g0
  BY <1>3 DEF Batch
<1>5. bat = Batch(algo, eta, bat.f0, bat.g0)
  BY <1>3, <1>4
<1>6. InStepFrom(modulus, f, g, d, e, eta, algo, bat)
  BY <1>1, <1>5, InvariantBatch, BatchInStep
<1> QED
  BY <1>6 DEF InStep

LEMMA IteratesSum ==
  ASSUME NEW M \in Nat \ {0}, Odd(M), NEW s \in Numbers(M)
  PROVE  \A n \in Nat, k \in Nat : Iterates(M)[n + k][s] = Iterates(M)[k][Iterates(M)[n][s]]
  BY IteratesAdd

(* The numbers a batch began with, and those its steps have reached.          *)
LEMMA InStepNow ==
  ASSUME IInv, InStep, pc = "batch"
  PROVE  \E s \in Numbers(modulus) :
           /\ s = Begun(algo, eta, f, g, d, e, modulus)
           /\ Iterates(modulus)[BatchSteps(algo, bat)][s] \in Numbers(modulus)
           /\ Follows(algo, bat, Iterates(modulus)[BatchSteps(algo, bat)][s])
<1> DEFINE s == Begun(algo, eta, f, g, d, e, modulus)
           t == Iterates(modulus)[BatchSteps(algo, bat)][s]
<1>1. s \in Numbers(modulus)
  BY InvariantBatch, BegunIs
<1>2. Follows(algo, bat, t)
  BY DEF InStep, InStepFrom, Follows
<1> HIDE DEF s, t
<1>3. t \in Numbers(modulus)
  BY <1>2 DEF Follows, FollowsFrom, Reaches
<1> QED
  BY <1>1, <1>2, <1>3 DEF s, t

LEMMA WithinInStep ==
  ASSUME NEW n, Within(n), Follows(algo, n, Iterates(modulus)[BatchSteps(algo, n)][Begun(algo, eta, f, g, d, e, modulus)])
  PROVE  InStep'
<1>1. bat' = n /\ UNCHANGED <<algo, modulus, d, e, f, g, eta>>
  BY DEF Within
<1>2. InStepFrom(modulus, f, g, d, e, eta, algo, n)
  BY DEF Follows, InStepFrom
<1>3. InStepFrom(modulus', f', g', d', e', eta', algo', bat')
  BY <1>1, <1>2
<1> QED
  BY <1>3 DEF InStep

LEMMA DivstepInStep ==
  ASSUME IInv, InStep, Divstep
  PROVE  InStep'
<1> DEFINE b == bat
           n == Divstepped(b)
           const == "const"
           M == modulus
           k == BatchSteps(const, b)
<1>1. pc = "batch" /\ algo = const /\ b.i < W /\ Within(n)
  BY DEF Divstep, Batching
<1>2. b \in Bat /\ Tracked(const, b) /\ Batched(const, b) /\ Odd(M) /\ M \in Nat \ {0}
  BY <1>1, InvariantBatch
<1>3. n \in Bat /\ Tracked(const, n) /\ Halved(b, n)
  BY <1>1, <1>2, DivsteppedTracks
<1>4. PICK s \in Numbers(M) : /\ s = Begun(algo, eta, f, g, d, e, M)
                              /\ Iterates(M)[k][s] \in Numbers(M) /\ Follows(const, b, Iterates(M)[k][s])
  BY <1>1, InStepNow
<1> HIDE DEF n, b
<1>5. Follows(const, n, D!OneDivstep(Iterates(M)[k][s], modulus))
  <2> DEFINE t == Iterates(M)[k][s]
  <2>1. Follows("const", b, t) /\ Batched("const", b)
    BY <1>2, <1>4
  <2> HIDE DEF t
  <2>2. Follows("const", n, D!OneDivstep(t, modulus))
    BY <1>1, <1>3, <2>1, DivstepFollows
  <2> QED BY <2>2 DEF t
<1>6. k \in Nat /\ BatchSteps(const, n) = k + 1
  <2>1. b.i \in Int /\ b.i >= Pad /\ n.i = b.i + 1 /\ Pad \in Nat
    BY <1>2, <1>3, BatTypes, Widths DEF Halved, Tracked
  <2>2. k = b.i - Pad + 0 /\ BatchSteps(const, n) = n.i - Pad + 0
    BY DEF BatchSteps, Ahead
  <2> QED BY <2>1, <2>2
<1> HIDE DEF k, M
<1>7. Iterates(M)[k + 1][s] = D!OneDivstep(Iterates(M)[k][s], M)
  BY <1>2, <1>6, IteratesAre
<1>8. Follows(algo, n, Iterates(modulus)[BatchSteps(algo, n)][s])
  BY <1>1, <1>5, <1>6, <1>7 DEF M
<1> HIDE DEF const
<1>9. Follows(algo, n, Iterates(modulus)[BatchSteps(algo, n)][Begun(algo, eta, f, g, d, e, modulus)])
  BY <1>4, <1>8 DEF M
<1> QED
  BY <1>1, <1>9, WithinInStep

LEMMA ShiftZerosInStep ==
  ASSUME IInv, InStep, ShiftZeros
  PROVE  InStep'
<1> DEFINE b == bat
           n == ShiftedZeros(b)
           z == TrailingZeros(b.g, b.i)
           var == "var"
           M == modulus
           k == BatchSteps(var, b)
<1>1. pc = "batch" /\ algo = var /\ Within(n)
  BY DEF ShiftZeros, Batching
<1>2. b \in Bat /\ Tracked(var, b) /\ Batched(var, b)
  BY <1>1, InvariantBatch
<1>3. n \in Bat /\ Tracked(var, n) /\ Shifted(b, n, z)
  BY <1>2, ShiftedZerosTracks
<1>4. PICK s \in Numbers(M) : /\ s = Begun(algo, eta, f, g, d, e, M)
                              /\ Follows(var, b, Iterates(M)[k][s])
  BY <1>1, InStepNow
<1> HIDE DEF n, b, z
<1>5. Follows(var, n, Iterates(M)[k][s])
  <2> DEFINE t == Iterates(M)[k][s]
  <2>1. Follows("var", b, t) /\ Batched("var", b)
    BY <1>2, <1>4
  <2> HIDE DEF t
  <2>2. Follows("var", n, t)
    BY <1>3, <2>1, ShiftFollows
  <2> QED BY <2>2 DEF t
<1>6. BatchSteps(var, n) = k
  <2>1. b.i \in Int /\ n.i = b.i - z /\ z \in Nat /\ z = Ahead(var, b) /\ Ahead(var, n) = 0 /\ W \in Int
    BY <1>2, <1>3, BatTypes, Widths DEF Shifted
  <2>2. k = W - b.i + Ahead(var, b) /\ BatchSteps(var, n) = W - n.i + Ahead(var, n)
    BY DEF BatchSteps
  <2> QED BY <2>1, <2>2
<1> HIDE DEF k, M
<1>7. Follows(algo, n, Iterates(modulus)[BatchSteps(algo, n)][s])
  BY <1>1, <1>5, <1>6 DEF M
<1> HIDE DEF var
<1>8. Follows(algo, n, Iterates(modulus)[BatchSteps(algo, n)][Begun(algo, eta, f, g, d, e, modulus)])
  BY <1>4, <1>7 DEF M
<1> QED
  BY <1>1, <1>8, WithinInStep

LEMMA CancellingInStep ==
  ASSUME IInv, InStep, pc = "batch", algo = "var", Odd(bat.g),
         NEW n \in Bat, Within(n), Tracked("var", n),
         NEW k \in Nat, NEW w \in Nat, CancelledBy(bat, n, k, w)
  PROVE  InStep'
<1> DEFINE b == bat
           var == "var"
           M == modulus
           j == BatchSteps(var, b)
           z == Ahead(var, n)
<1>1. b \in Bat /\ Batched(var, b) /\ Odd(M) /\ M \in Nat \ {0} /\ algo = var
  BY InvariantBatch
<1>2. PICK s \in Numbers(M) : /\ s = Begun(algo, eta, f, g, d, e, M)
                              /\ Follows(var, b, Iterates(M)[j][s])
  BY <1>1, InStepNow
<1>3. /\ b.i \in Nat /\ b.i <= W /\ W \in Nat /\ b.g \in Int /\ b.eta \in Int /\ n.i = b.i
      /\ z \in Nat /\ Odd(b.g) /\ CancelledBy(b, n, k, w)
  BY <1>1, BatTypes, ScaleType, Widths DEF CancelledBy
<1> HIDE DEF b
<1>4. Ahead(var, b) = 0
  <2> DEFINE i1 == b.g
             i2 == b.i
  <2>1. i1 \in Int /\ i2 \in Nat /\ Odd(i1)
    BY <1>3
  <2> HIDE DEF i1, i2
  <2>2. TrailingZeros(i1, i2) = 0
    BY <2>1, OddHasNone
  <2> QED BY <2>2 DEF Ahead, i1, i2
<1>5. Follows(var, n, Iterates(modulus)[Ahead("var", n)][Iterates(M)[j][s]])
  <2> DEFINE t == Iterates(M)[j][s]
  <2>1. Follows("var", b, t) /\ Batched("var", b) /\ Ahead("var", b) = 0
    BY <1>1, <1>2, <1>4
  <2> HIDE DEF t
  <2> DEFINE y == Iterates(modulus)[Ahead("var", n)][t]
  <2>2. ASSUME b.eta >= 0 PROVE Follows("var", n, Iterates(modulus)[Ahead("var", n)][t])
    BY <1>3, <2>1, <2>2, CancelFollows
  <2>3. ASSUME b.eta < 0 PROVE Follows("var", n, Iterates(modulus)[Ahead("var", n)][t])
    BY <1>3, <2>1, <2>3, SwapFollows
  <2> HIDE DEF y
  <2>4. Follows("var", n, y)
    BY <1>3, <2>2, <2>3 DEF y
  <2> QED BY <2>4 DEF t, y
<1>6. j \in Nat /\ BatchSteps(var, n) = j + z
  <2>1. j = W - b.i + Ahead(var, b) /\ BatchSteps(var, n) = W - n.i + z
    BY DEF BatchSteps
  <2> HIDE DEF z, j
  <2> QED BY <1>3, <1>4, <2>1
<1>7. Follows(var, n, Iterates(M)[z][Iterates(M)[j][s]])
  BY <1>5
<1> HIDE DEF z, j, M
<1>8. Iterates(M)[j + z][s] = Iterates(M)[z][Iterates(M)[j][s]]
  <2>1. j \in Nat /\ z \in Nat /\ s \in Numbers(M) /\ Odd(M) /\ M \in Nat \ {0}
    BY <1>1, <1>3, <1>6
  <2>2. \A i1 \in Nat, i2 \in Nat : Iterates(M)[i1 + i2][s] = Iterates(M)[i2][Iterates(M)[i1][s]]
    BY <2>1, IteratesSum
  <2> QED BY <2>1, <2>2, Zenon
<1>9. Follows(algo, n, Iterates(modulus)[BatchSteps(algo, n)][s])
  BY <1>1, <1>6, <1>7, <1>8 DEF M
<1> HIDE DEF var
<1>10. Follows(algo, n, Iterates(modulus)[BatchSteps(algo, n)][Begun(algo, eta, f, g, d, e, modulus)])
  BY <1>2, <1>9 DEF M
<1> QED
  BY <1>10, WithinInStep

LEMMA SwapAndCancelInStep ==
  ASSUME IInv, InStep, SwapAndCancel
  PROVE  InStep'
<1> DEFINE b == bat
           n == SwappedAndCancelled(b)
<1>1. pc = "batch" /\ algo = "var" /\ b.i > 0 /\ Odd(b.g) /\ b.eta < 0 /\ Within(n)
  BY DEF SwapAndCancel, Batching
<1>2. b \in Bat /\ Tracked("var", b)
  BY <1>1, InvariantBatch
<1>3. n \in Bat /\ Tracked("var", n) /\ \E k \in Nat, t \in Nat : CancelledBy(b, n, k, t)
  BY <1>1, <1>2, SwappedAndCancelledTracks
<1> HIDE DEF n
<1> QED
  BY <1>1, <1>3, CancellingInStep

LEMMA CancelBitsInStep ==
  ASSUME IInv, InStep, CancelBits
  PROVE  InStep'
<1> DEFINE b == bat
           n == CancelledBits(b)
<1>1. pc = "batch" /\ algo = "var" /\ b.i > 0 /\ Odd(b.g) /\ b.eta >= 0 /\ Within(n)
  BY DEF CancelBits, Batching
<1>2. b \in Bat /\ Tracked("var", b)
  BY <1>1, InvariantBatch
<1>3. n \in Bat /\ Tracked("var", n) /\ \E k \in Nat, t \in Nat : CancelledBy(b, n, k, t)
  BY <1>1, <1>2, CancelledBitsTracks
<1> HIDE DEF n
<1> QED
  BY <1>1, <1>3, CancellingInStep

LEMMA NextBatchInStep ==
  ASSUME IInv', NEW ff, NEW gg, NEW l, NEW loop \in BOOLEAN, NextBatch(ff, gg, l, loop)
  PROVE  InStep'
<1>1. SUFFICES ASSUME pc' = "batch" PROVE InStepFrom(modulus', f', g', d', e', eta', algo', bat')
  BY DEF InStep
<1> DEFINE f0 == Limb0(ff, l)
           g0 == Limb0(gg, l)
<1>2. bat' = Batch(algo', eta', f0, g0)
  BY <1>1 DEF NextBatch
<1>3. bat'.f0 = f0 /\ bat'.g0 = g0
  BY <1>2 DEF Batch
<1>4. /\ bat' \in Bat /\ modulus' \in Moduli /\ algo' \in {"const", "var"} /\ eta' \in Int
      /\ d' \in Int /\ e' \in Int /\ f' \in Int /\ g' \in Int
  BY DEF IInv, TypeOK, Bat
<1>5. Tracked(algo', bat') /\ Same(Base, f', bat'.f0) /\ Same(Base, g', bat'.g0)
  BY <1>1 DEF IInv, Running
<1>6. Odd(bat'.f) /\ modulus' \in Nat \ {0} /\ Odd(modulus')
  <2>1. \A b, a : Tracked(a, b) => Odd(b.f)
    BY DEF Tracked
  <2>2. \A m \in Moduli : m \in Nat \ {0} /\ Odd(m)
    BY ModuliAssumption DEF Odd
  <2> QED BY <1>4, <1>5, <2>1, <2>2, Zenon
<1>7. bat' = Batch(algo', eta', bat'.f0, bat'.g0)
  BY <1>2, <1>3
<1> QED
  BY <1>4, <1>5, <1>6, <1>7, BatchInStep

LEMMA InStepNext ==
  ASSUME IInv, InStep, [Next]_vars
  PROVE  InStep'
<1>1. IInv'
  BY InvariantNext
<1>2. CASE UNCHANGED vars
  <2>1. /\ algo' = algo /\ modulus' = modulus /\ d' = d /\ e' = e /\ f' = f /\ g' = g
        /\ eta' = eta /\ bat' = bat /\ pc' = pc
    BY <1>2 DEF vars
  <2> QED BY <2>1 DEF InStep
<1>3. CASE UpdateConst
  <2> DEFINE ff == UpdatedFG(bat.u, bat.v)
             gg == UpdatedFG(bat.q, bat.r)
             loop == round + 1 < Rounds
  <2>1. NextBatch(ff, gg, len, loop) /\ loop \in BOOLEAN
    BY <1>3 DEF UpdateConst
  <2> HIDE DEF ff, gg, loop
  <2> QED BY <1>1, <2>1, NextBatchInStep
<1>4. CASE UpdateVar
  <2>1. \E ff, gg, l : \E loop \in BOOLEAN : NextBatch(ff, gg, l, loop)
    BY <1>4 DEF UpdateVar
  <2> QED BY <1>1, <2>1, NextBatchInStep
<1>5. CASE Normalize
  <2>1. pc' # "batch"
    BY <1>5 DEF Normalize
  <2> QED BY <2>1 DEF InStep
<1> QED
  BY <1>2, <1>3, <1>4, <1>5, DivstepInStep, ShiftZerosInStep, SwapAndCancelInStep, CancelBitsInStep
     DEF Next

(* Modulo an odd number a power of two cancels.                               *)
LEMMA SameUnscaled ==
  ASSUME NEW M \in Nat \ {0}, Odd(M), NEW w \in Nat, NEW a \in Int, NEW c \in Int,
         Same(M, Pow2[w] * a, Pow2[w] * c)
  PROVE  Same(M, a, c)
<1> DEFINE p == Pow2[w]
<1>1. p \in Int /\ M \in Int
  BY Pow2Type
<1>2. PICK k \in Int : p * a = p * c + M * k
  BY DEF Same
<1>3. PICK i \in Int : Divides(p, i * M - 1)
  BY <1>1, OddInverse
<1>4. PICK j \in Int : i * M - 1 = p * j
  <2>1. i * M - 1 \in Int
    BY <1>1
  <2> QED BY <1>1, <1>3, <2>1, DividesIs
<1> HIDE DEF p
<1> DEFINE y == a - c
           q == p * j
           r == p * y
<1>5. y \in Int /\ q \in Int /\ r \in Int /\ r = M * k /\ i * M = q + 1
  <2>1. p * (a - c) = p * a - p * c
    BY <1>1
  <2> QED BY <1>1, <1>2, <1>4, <2>1
<1>6. (i * M) * y = M * (i * y) /\ (q + 1) * y = q * y + y /\ q * y = j * r /\ j * (M * k) = M * (j * k)
  <2>1. y \in Int
    OBVIOUS
  <2>2. (p * j) * y = j * (p * y)
    BY <1>1
  <2>3. (i * M) * y = M * (i * y) /\ j * (M * k) = M * (j * k)
    BY <1>1
  <2> HIDE DEF q, r, y
  <2>4. (q + 1) * y = q * y + y
    BY <1>5
  <2> QED BY <2>2, <2>3, <2>4 DEF q, r
<1> DEFINE y1 == i * y
           y2 == j * k
           z1 == M * y1
           z2 == M * y2
<1>7. y1 \in Int /\ y2 \in Int /\ z1 \in Int /\ z2 \in Int /\ z1 = z2 + y
  <2>1. y1 \in Int /\ y2 \in Int
    OBVIOUS
  <2>2. M * y1 = M * y2 + y
    BY <1>5, <1>6
  <2> HIDE DEF y1, y2
  <2>3. z1 \in Int /\ z2 \in Int
    BY <1>1, <2>1
  <2> QED BY <2>1, <2>2, <2>3
<1>8. M * (y1 - y2) = z1 - z2 /\ y1 - y2 \in Int
  <2> HIDE DEF y1, y2
  <2> QED BY <1>1, <1>7
<1>9. a = c + y
  OBVIOUS
<1> HIDE DEF y, z1, z2, y1, y2
<1>10. a = c + M * (y1 - y2)
  BY <1>5, <1>7, <1>8, <1>9
<1> QED
  BY <1>8, <1>10 DEF Same

LEMMA Reduced ==
  ASSUME NEW M \in Nat \ {0}, NEW a \in 0 .. M - 1, NEW c \in Int, Same(M, a, c)
  PROVE  a = c % M
<1>1. a \in Int
  OBVIOUS
<1>2. a % M = c % M
  BY <1>1, SameMod
<1> QED
  BY <1>2, SmallMod

LEMMA NumbersEqual ==
  ASSUME NEW M \in Nat \ {0}, NEW s \in Numbers(M), NEW t \in Numbers(M),
         s.delta2 = t.delta2, s.f = t.f, s.g = t.g, s.d = t.d, s.e = t.e
  PROVE  s = t
<1>1. s = [delta2 |-> s.delta2, f |-> s.f, g |-> s.g, d |-> s.d, e |-> s.e]
  BY DEF Numbers
<1>2. t = [delta2 |-> t.delta2, f |-> t.f, g |-> t.g, d |-> t.d, e |-> t.e]
  BY DEF Numbers
<1> QED
  BY <1>1, <1>2

(* n divsteps of the specification are n iterates.                            *)
LEMMA DivstepsAre ==
  ASSUME NEW M \in Nat \ {0}, Odd(M), NEW s \in Numbers(M), NEW n \in Nat
  PROVE  D!Divstepped(n, s, M) = Iterates(M)[n][s]
<1> DEFINE h == Iterates(M)
           Is(after) == after = [k \in 0 .. n |-> IF k = 0 THEN s ELSE D!OneDivstep(after[k - 1], M)]
           w == [k \in 0 .. n |-> h[k][s]]
<1>1. h[0][s] = s /\ \A i \in Nat : h[i + 1][s] = D!OneDivstep(h[i][s], M)
  BY IteratesAre
<1> HIDE DEF h
<1>2. Is(w)
  <2>1. ASSUME NEW k \in 0 .. n
        PROVE  h[k][s] = IF k = 0 THEN s ELSE D!OneDivstep(w[k - 1], M)
    <3>1. CASE k = 0
      BY <1>1, <3>1
    <3>2. CASE k # 0
      <4>1. k - 1 \in Nat /\ k - 1 \in 0 .. n /\ (k - 1) + 1 = k
        BY <3>2
      <4>2. w[k - 1] = h[k - 1][s] /\ h[(k - 1) + 1][s] = D!OneDivstep(h[k - 1][s], M)
        BY <1>1, <4>1
      <4> QED BY <3>2, <4>1, <4>2
    <3> QED BY <3>1, <3>2
  <2> DEFINE v == [k \in 0 .. n |-> IF k = 0 THEN s ELSE D!OneDivstep(w[k - 1], M)]
  <2>2. w = v
    BY <2>1
  <2> QED BY <2>2
<1> DEFINE c == CHOOSE after : Is(after)
<1>3. Is(c)
  <2> HIDE DEF Is
  <2> QED BY <1>2
<1>4. D!Divstepped(n, s, M) = c[n]
  BY DEF D!Divstepped
<1> HIDE DEF c
<1>5. \A k \in 0 .. n : c[k] = IF k = 0 THEN s ELSE D!OneDivstep(c[k - 1], M)
  BY <1>3
<1> DEFINE S == {k \in Nat : k <= n => c[k] = h[k][s]}
<1>6. 0 \in S
  BY <1>1, <1>5
<1>7. ASSUME NEW k \in Nat, k \in S PROVE k + 1 \in S
  <2>1. SUFFICES ASSUME k + 1 <= n PROVE c[k + 1] = h[k + 1][s]
    OBVIOUS
  <2>2. k <= n /\ k + 1 \in 0 .. n /\ (k + 1) - 1 = k /\ k + 1 # 0
    BY <2>1
  <2>3. c[k] = h[k][s]
    BY <1>7, <2>2
  <2>4. c[k + 1] = D!OneDivstep(c[k], M)
    BY <1>5, <2>2
  <2> QED BY <1>1, <2>3, <2>4
<1> HIDE DEF S
<1>8. n \in S
  BY <1>6, <1>7, SetInduction
<1>9. c[n] = h[n][s]
  BY <1>8 DEF S
<1> QED
  BY <1>4, <1>9 DEF h

(* The divsteps of a batch, once it has finished and is applied.              *)
LEMMA BatchIsDivsteps ==
  ASSUME IInv, InStep, pc = "batch", bat.i = IF algo = "const" THEN W ELSE 0
  PROVE  Iterates(modulus)[IF algo = "const" THEN W - Pad ELSE W]
           [Begun(algo, eta, f, g, d, e, modulus)]
           = Begun(algo, bat.eta, UpdatedFG(bat.u, bat.v), UpdatedFG(bat.q, bat.r),
                   UpdatedDE(bat.u, bat.v), UpdatedDE(bat.q, bat.r), modulus)
<1> DEFINE b == bat
           a == algo
           M == modulus
           h == b.eta
           U == Signed(b.u)
           V == Signed(b.v)
           Q == Signed(b.q)
           R == Signed(b.r)
           ff == UpdatedFG(b.u, b.v)
           gg == UpdatedFG(b.q, b.r)
           dd == UpdatedDE(b.u, b.v)
           ee == UpdatedDE(b.q, b.r)
           s == Begun(a, eta, f, g, d, e, M)
           n == BatchSteps(a, b)
           t == Iterates(M)[n][s]
           y == Begun(a, h, ff, gg, dd, ee, M)
<1>1. /\ b \in Bat /\ a \in {"const", "var"} /\ M \in Nat \ {0} /\ Odd(M)
      /\ d \in Int /\ e \in Int /\ f \in Int /\ g \in Int
  BY InvariantBatch
<1>2. /\ ff \in Int /\ gg \in Int /\ dd \in Int /\ ee \in Int
      /\ Base * ff = U * f + V * g /\ Base * gg = Q * f + R * g
      /\ Same(M, Base * dd, U * d + V * e) /\ Same(M, Base * ee, Q * d + R * e)
  <2>1. LET ff1 == UpdatedFG(bat.u, bat.v)
            gg1 == UpdatedFG(bat.q, bat.r)
            dd1 == UpdatedDE(bat.u, bat.v)
            ee1 == UpdatedDE(bat.q, bat.r)
        IN  /\ ff1 \in Int /\ gg1 \in Int /\ dd1 \in Int /\ ee1 \in Int
            /\ Base * ff1 = Signed(bat.u) * f + Signed(bat.v) * g
            /\ Base * gg1 = Signed(bat.q) * f + Signed(bat.r) * g
            /\ Same(modulus, Base * dd1, Signed(bat.u) * d + Signed(bat.v) * e)
            /\ Same(modulus, Base * ee1, Signed(bat.q) * d + Signed(bat.r) * e)
    BY NextNumbers, Zenon
  <2> QED BY <2>1, Zenon
<1>3. /\ Ahead(a, b) = 0 /\ Scale(a, b) = Base /\ ScaleG(a, b) = Base
      /\ n = IF a = "const" THEN W - Pad ELSE W
  <2>1. Ahead(a, b) = 0 /\ Scale(a, b) = Base /\ ScaleG(a, b) = Base
    BY <1>1, FinishedScale
  <2>2. b.i = (IF a = "const" THEN W ELSE 0) /\ W \in Nat /\ Pad \in Nat
    BY Widths
  <2>3. n = IF a = "const" THEN W - Pad ELSE W
    BY <2>1, <2>2 DEF BatchSteps
  <2> QED BY <2>1, <2>3
<1>4. h \in Int /\ U \in Int /\ V \in Int /\ Q \in Int /\ R \in Int
  BY <1>1, BatTypes
<1>5. Follows(a, b, t)
  BY DEF InStep, InStepFrom, Follows
<1> HIDE DEF n, t, s
<1>6. t.delta2 = IF a = "const" THEN -2 * h - 1 ELSE -2 * (h - 0)
  BY <1>3, <1>5 DEF Follows, FollowsFrom
<1>7. Reaches(M, Base, Base, U, V, Q, R, f, g, d, e, t)
  <2>1. Reaches(M, Scale(a, b), ScaleG(a, b), U, V, Q, R, f, g, d, e, t)
    BY <1>5 DEF Follows, FollowsFrom
  <2> QED BY <1>3, <2>1
<1> HIDE DEF U, V, Q, R, ff, gg, dd, ee, M, h, b, a
<1>8. /\ t \in Numbers(M) /\ Base * t.f = U * f + V * g /\ Base * t.g = Q * f + R * g
      /\ Same(M, Base * t.d, U * d + V * e) /\ Same(M, Base * t.e, Q * d + R * e)
  BY <1>7 DEF Reaches
<1>9. /\ t.f \in Int /\ t.g \in Int /\ t.d \in Int /\ t.e \in Int
      /\ t.d \in 0 .. M - 1 /\ t.e \in 0 .. M - 1
  BY <1>1, <1>8, NumbersAre
<1>10. ASSUME NEW i \in Int, NEW j \in Int, Base * i = Base * j PROVE i = j
  <2>1. Base \in Nat \ {0} /\ Base * i <= Base * j /\ Base * j <= Base * i
    <3>1. Base \in Nat \ {0} /\ Base * i \in Int /\ Base * j \in Int
      BY Widths
    <3> QED BY <1>10, <3>1
  <2>2. i <= j /\ j <= i
    BY <2>1, Unscaled
  <2> QED BY <2>2
<1>11. t.f = ff /\ t.g = gg
  <2>1. Base * t.f = Base * ff /\ Base * t.g = Base * gg
    BY <1>2, <1>8
  <2> QED BY <1>2, <1>9, <1>10, <2>1
<1>12. ASSUME NEW i \in 0 .. M - 1, NEW j \in Int, NEW k \in Int, Same(M, Base * i, k), Same(M, Base * j, k)
       PROVE  i = j % M
  <2>1. i \in Int /\ M \in Int /\ Base = Pow2[W] /\ W \in Nat /\ Base \in Int
    BY <1>1, Widths
  <2> DEFINE i1 == Base * i
             j1 == Base * j
  <2>2. i1 \in Int /\ j1 \in Int
    BY <2>1
  <2>3. Same(M, i1, k) /\ Same(M, j1, k)
    BY <1>12
  <2> HIDE DEF i1, j1
  <2>4. Same(M, k, j1)
    BY <2>1, <2>2, <2>3, SameSym
  <2>5. Same(M, i1, j1)
    BY <2>1, <2>2, <2>3, <2>4, SameTrans
  <2>6. Same(M, Pow2[W] * i, Pow2[W] * j)
    BY <2>1, <2>5 DEF i1, j1
  <2>7. Same(M, i, j)
    BY <1>1, <2>1, <2>6, SameUnscaled
  <2> QED BY <1>1, <2>7, Reduced
<1>13. t.d = dd % M /\ t.e = ee % M
  <2> DEFINE k1 == U * d + V * e
             k2 == Q * d + R * e
  <2>1. k1 \in Int /\ k2 \in Int
    BY <1>1, <1>4
  <2>2. Same(M, Base * t.d, k1) /\ Same(M, Base * t.e, k2) /\ Same(M, Base * dd, k1) /\ Same(M, Base * ee, k2)
    BY <1>2, <1>8
  <2> HIDE DEF k1, k2
  <2>3. t.d = dd % M
    BY <1>2, <1>9, <1>12, <2>1, <2>2
  <2>4. t.e = ee % M
    BY <1>2, <1>9, <1>12, <2>1, <2>2
  <2> QED BY <2>3, <2>4
<1>14. /\ y \in Numbers(M) /\ y.f = ff /\ y.g = gg /\ y.d = dd % M /\ y.e = ee % M
       /\ y.delta2 = IF a = "const" THEN -2 * h - 1 ELSE -2 * h
  BY <1>1, <1>2, <1>4, BegunIs
<1> HIDE DEF y
<1>15. t.delta2 = y.delta2
  <2>1. h - 0 = h
    BY <1>4
  <2> QED BY <1>6, <1>14, <2>1
<1>16. t = y
  BY <1>1, <1>8, <1>11, <1>13, <1>14, <1>15, NumbersEqual
<1> QED
  BY <1>3, <1>16 DEF t, n, s, y, U, V, Q, R, ff, gg, dd, ee, M, h, b, a

(* What Divsteps sees of a call.                                              *)
LEMMA SeenIs ==
  [delta2 |-> IF algo = "const" THEN -2 * eta - 1 ELSE -2 * eta,
   f |-> f, g |-> g, d |-> d % modulus, e |-> e % modulus]
    = Begun(algo, eta, f, g, d, e, modulus)
  BY DEF Begun

LEMMA BatchRefines ==
  ASSUME IInv, InStep, pc = "batch", bat.i = IF algo = "const" THEN W ELSE 0,
         NEW l, NEW loop,
         NextBatch(UpdatedFG(bat.u, bat.v), UpdatedFG(bat.q, bat.r), l, loop)
  PROVE  D!AbsBatch
<1> DEFINE n == IF algo = "const" THEN W - Pad ELSE W
           s == Begun(algo, eta, f, g, d, e, modulus)
           t == Begun(algo', eta', f', g', d', e', modulus')
<1>1. Iterates(modulus)[n][s] = t
  <2>1. /\ algo' = algo /\ modulus' = modulus /\ eta' = bat.eta
        /\ f' = UpdatedFG(bat.u, bat.v) /\ g' = UpdatedFG(bat.q, bat.r)
        /\ d' = UpdatedDE(bat.u, bat.v) /\ e' = UpdatedDE(bat.q, bat.r)
    BY Zenon DEF NextBatch
  <2> QED BY <2>1, BatchIsDivsteps
<1>2. n \in Nat /\ n \in {W, W - Pad}
  BY Widths
<1>3. s \in Numbers(modulus) /\ modulus \in Nat \ {0} /\ Odd(modulus)
  BY InvariantBatch, BegunIs
<1> HIDE DEF n, s, t
<1>4. t = D!Divstepped(n, s, modulus)
  BY <1>1, <1>2, <1>3, DivstepsAre
<1>5. UNCHANGED <<modulus, x, result>>
  BY DEF NextBatch
<1> QED
  BY <1>2, <1>4, <1>5 DEF D!AbsBatch, s, t, Begun

(* A call has made its batches only when g is 0.                              *)
Enough == pc = "normalize" => g = 0

LEMMA NormalizeRefines ==
  ASSUME IInv, result = -1, g = 0, Normalize
  PROVE  D!AbsAnswer
<1>1. /\ result' = Normalized(d, f, modulus)
      /\ UNCHANGED <<algo, modulus, x, d, e, f, g, eta>>
  BY DEF Normalize
<1>2. /\ d \in Int /\ f \in Int /\ modulus \in Nat \ {0} /\ -2 * modulus < d /\ d < modulus
  BY TypeIs DEF IInv, Ranges
<1> DEFINE M == modulus
           r == d % M
           n == Normalized(d, f, M)
           k == IF f < 0 THEN -d ELSE d
           j == IF f < 0 THEN -r ELSE r
<1>3. n \in 0 .. M - 1 /\ Same(M, n, k)
  BY <1>2, NormalizedIs
<1>4. r \in Int /\ Same(M, r, d)
  BY <1>2, ModSame
<1>5. k \in Int /\ j \in Int /\ M \in Int
  BY <1>2, <1>4
<1>6. Same(M, j, k)
  <2> HIDE DEF r, M
  <2>1. Same(M, -r, -d)
    BY <1>2, <1>4, <1>5, SameScale
  <2> QED BY <1>4, <2>1
<1> HIDE DEF n, k, j, r
<1>7. n = k % M
  BY <1>2, <1>3, <1>5, Reduced
<1>8. k % M = j % M
  BY <1>2, <1>5, <1>6, SameMod
<1>9. result' = (IF f < 0 THEN -(d % modulus) ELSE d % modulus) % modulus
  BY <1>1, <1>7, <1>8 DEF n, j, r
<1> QED
  BY <1>1, <1>9 DEF D!AbsAnswer

(* Nothing is stored before the end.                                          *)
Unanswered == pc # "done" => result = -1

LEMMA InitRefines ==
  ASSUME Init
  PROVE  D!AbsInit
<1>1. /\ algo \in {"const", "var"} /\ modulus \in Moduli /\ x \in 0 .. modulus - 1
      /\ d = 0 /\ e = 1 /\ f = modulus /\ g = x /\ eta = -1 /\ result = -1
  BY DEF Init
<1>2. modulus \in Nat \ {0} /\ modulus > 2
  BY <1>1, ModulusIs
<1>3. d % modulus = 0 /\ e % modulus = 1
  BY <1>1, <1>2, SmallMod
<1> DEFINE h == IF algo = "const" THEN -2 * eta - 1 ELSE -2 * eta
<1>4. h \in {1, 2}
  <2>1. eta \in Int /\ eta + 1 = 0
    BY <1>1
  <2>2. h = IF algo = "const" THEN 1 ELSE 2
    BY <2>1
  <2> QED BY <2>2
<1> HIDE DEF h
<1>5. [delta2 |-> h, f |-> f, g |-> g, d |-> d % modulus, e |-> e % modulus]
        = [delta2 |-> h, f |-> modulus, g |-> x, d |-> 0, e |-> 1]
  BY <1>1, <1>3
<1> QED
  BY <1>1, <1>4, <1>5 DEF D!AbsInit, h

LEMMA NextRefines ==
  ASSUME IInv, InStep, Unanswered, Enough, [Next]_vars
  PROVE  [D!AbsNext]_(D!absVars) /\ Unanswered'
<1>1. CASE UNCHANGED vars
  <2>1. UNCHANGED <<algo, modulus, x, d, e, f, g, eta, pc, result>>
    BY <1>1 DEF vars
  <2> QED BY <2>1 DEF D!absVars, Unanswered
<1>2. CASE Divstep \/ ShiftZeros \/ SwapAndCancel \/ CancelBits
  <2>1. UNCHANGED <<algo, modulus, x, d, e, f, g, eta, pc, result>>
    BY <1>2 DEF Divstep, ShiftZeros, SwapAndCancel, CancelBits, Within
  <2> QED BY <2>1 DEF D!absVars, Unanswered
<1>3. ASSUME NEW l, NEW loop, pc = "batch", bat.i = IF algo = "const" THEN W ELSE 0,
             NextBatch(UpdatedFG(bat.u, bat.v), UpdatedFG(bat.q, bat.r), l, loop)
      PROVE  D!AbsBatch /\ Unanswered'
  <2>1. D!AbsBatch
    BY <1>3, BatchRefines
  <2>2. result' = result /\ result = -1
    BY <1>3 DEF NextBatch, Unanswered
  <2> QED BY <2>1, <2>2 DEF Unanswered
<1>4. CASE UpdateConst
  <2> DEFINE loop == round + 1 < Rounds
  <2>1. /\ pc = "batch" /\ algo = "const" /\ bat.i = W
        /\ NextBatch(UpdatedFG(bat.u, bat.v), UpdatedFG(bat.q, bat.r), len, loop)
    BY <1>4 DEF UpdateConst, Batching
  <2> HIDE DEF loop
  <2> QED BY <1>3, <2>1 DEF D!AbsNext
<1>5. CASE UpdateVar
  <2>1. PICK l \in 1 .. Limbs, loop \in BOOLEAN :
          NextBatch(UpdatedFG(bat.u, bat.v), UpdatedFG(bat.q, bat.r), l, loop)
    BY <1>5, UpdateVarIs
  <2>2. pc = "batch" /\ algo = "var" /\ bat.i = 0
    BY <1>5, UpdateVarIs
  <2> QED BY <1>3, <2>1, <2>2 DEF D!AbsNext
<1>6. CASE Normalize
  <2>1. pc = "normalize" /\ pc' = "done"
    BY <1>6 DEF Normalize
  <2>2. D!AbsAnswer
    BY <1>6, <2>1, NormalizeRefines DEF Unanswered, Enough
  <2> QED BY <2>1, <2>2 DEF D!AbsNext, Unanswered
<1> QED
  BY <1>1, <1>2, <1>4, <1>5, <1>6 DEF Next

-------------------------------------------------------------------------------
(* The answer.                                                                *)

(* An odd number that divides a multiple by a power of two divides.           *)
LEMMA OddDivides ==
  ASSUME NEW c \in Int, Odd(c), NEW k \in Nat, NEW y \in Int, Divides(c, Pow2[k] * y)
  PROVE  Divides(c, y)
<1> DEFINE p == Pow2[k]
           py == p * y
<1>1. p \in Int /\ py \in Int
  BY Pow2Type
<1>2. PICK z \in Int : py = c * z
  BY <1>1, DividesIs
<1>3. PICK i \in Int : Divides(p, i * c - 1)
  BY OddInverse
<1>4. PICK j \in Int : i * c - 1 = p * j
  <2>1. i * c - 1 \in Int
    OBVIOUS
  <2> QED BY <1>1, <1>3, <2>1, DividesIs
<1> HIDE DEF p
<1> DEFINE ic == i * c
           pj == p * j
<1>5. ic \in Int /\ pj \in Int /\ ic = pj + 1
  BY <1>1, <1>4
<1>6. ic * y = c * (i * y) /\ pj * y = j * py /\ j * (c * z) = c * (j * z)
  BY <1>1
<1>7. (pj + 1) * y = pj * y + y
  <2> HIDE DEF pj
  <2> QED BY <1>5
<1> DEFINE y1 == i * y
           y2 == j * z
           z1 == c * y1
           z2 == c * y2
<1>8. y1 \in Int /\ y2 \in Int /\ z1 \in Int /\ z2 \in Int
  <2>1. y1 \in Int /\ y2 \in Int
    OBVIOUS
  <2> HIDE DEF y1, y2
  <2> QED BY <2>1
<1>9. z1 = z2 + y
  BY <1>2, <1>5, <1>6, <1>7
<1>10. c * (y1 - y2) = z1 - z2 /\ y1 - y2 \in Int
  <2> HIDE DEF y1, y2
  <2> QED BY <1>8
<1> HIDE DEF z1, z2, y1, y2
<1>11. y = c * (y1 - y2)
  BY <1>8, <1>9, <1>10
<1> QED
  BY <1>10, <1>11, DividesIs

(* The matrix of k divsteps takes F and G to ff and gg.                       *)
Applied(U, V, Q, R, k, F, G, ff, gg) ==
  /\ U \in Int /\ V \in Int /\ Q \in Int /\ R \in Int /\ k \in Nat /\ U * R - V * Q = Pow2[k]
  /\ F \in Int /\ G \in Int /\ ff \in Int /\ gg \in Int
  /\ Base * ff = U * F + V * G /\ Base * gg = Q * F + R * G

(* What divides the new f and g divided the old ones.                         *)
LEMMA DividesBefore ==
  ASSUME NEW c \in Int, Odd(c), NEW k, NEW U, NEW V, NEW Q, NEW R, NEW F, NEW G, NEW ff, NEW gg,
         Applied(U, V, Q, R, k, F, G, ff, gg), Divides(c, ff), Divides(c, gg)
  PROVE  Divides(c, F) /\ Divides(c, G)
<1>0. /\ U \in Int /\ V \in Int /\ Q \in Int /\ R \in Int /\ k \in Nat /\ U * R - V * Q = Pow2[k]
      /\ F \in Int /\ G \in Int /\ ff \in Int /\ gg \in Int
      /\ Base * ff = U * F + V * G /\ Base * gg = Q * F + R * G
  BY DEF Applied
<1>1. PICK i \in Int : ff = c * i
  BY <1>0, DividesIs
<1>2. PICK j \in Int : gg = c * j
  BY <1>0, DividesIs
<1> DEFINE p == Pow2[k]
           A == U * F + V * G
           B == Q * F + R * G
           y1 == R * A - V * B
           y2 == U * B - Q * A
           z1 == Base * (R * i - V * j)
           z2 == Base * (U * j - Q * i)
           pf == p * F
           pg == p * G
<1>3. Base \in Int /\ p \in Int /\ pf \in Int /\ pg \in Int
  BY <1>0, Widths, Pow2Type
<1>4. A \in Int /\ B \in Int /\ A = c * (Base * i) /\ B = c * (Base * j)
  <2>1. Base * (c * i) = c * (Base * i) /\ Base * (c * j) = c * (Base * j)
    BY <1>3
  <2> QED BY <1>0, <1>1, <1>2, <2>1
<1>5. y1 = (U * R - V * Q) * F /\ y2 = (U * R - V * Q) * G
  <2>1. R * A = (U * R) * F + (V * R) * G /\ V * B = (V * Q) * F + (V * R) * G
    BY <1>0
  <2>2. U * B = (U * Q) * F + (U * R) * G /\ Q * A = (U * Q) * F + (V * Q) * G
    BY <1>0
  <2>3. (U * R - V * Q) * F = (U * R) * F - (V * Q) * F /\ (U * R - V * Q) * G = (U * R) * G - (V * Q) * G
    BY <1>0
  <2> DEFINE n1 == (U * R) * F
             n2 == (V * R) * G
             n3 == (V * Q) * F
             n4 == (U * Q) * F
             n5 == (U * R) * G
             n6 == (V * Q) * G
  <2>4. n1 \in Int /\ n2 \in Int /\ n3 \in Int /\ n4 \in Int /\ n5 \in Int /\ n6 \in Int
    BY <1>0
  <2>5. y1 = (n1 + n2) - (n3 + n2) /\ y2 = (n4 + n5) - (n4 + n6)
    BY <2>1, <2>2
  <2>6. (U * R - V * Q) * F = n1 - n3 /\ (U * R - V * Q) * G = n5 - n6
    BY <2>3
  <2> HIDE DEF n1, n2, n3, n4, n5, n6, y1, y2
  <2> QED BY <2>4, <2>5, <2>6
<1>6. pf = y1 /\ pg = y2
  <2> HIDE DEF y1, y2
  <2> QED BY <1>0, <1>5
<1>7. y1 = c * z1 /\ y2 = c * z2 /\ z1 \in Int /\ z2 \in Int
  <2>1. R * (c * (Base * i)) - V * (c * (Base * j)) = c * (Base * (R * i - V * j))
    BY <1>0, <1>3
  <2>2. U * (c * (Base * j)) - Q * (c * (Base * i)) = c * (Base * (U * j - Q * i))
    BY <1>0, <1>3
  <2> HIDE DEF A, B
  <2> QED BY <1>0, <1>3, <1>4, <2>1, <2>2
<1> HIDE DEF y1, y2, z1, z2, p
<1>8. Divides(c, pf) /\ Divides(c, pg)
  <2>1. pf = c * z1 /\ pg = c * z2
    BY <1>6, <1>7
  <2> HIDE DEF pf, pg
  <2> QED BY <1>3, <1>7, <2>1, DividesIs
<1> QED
  BY <1>0, <1>8, OddDivides DEF p, pf, pg

(* The new d (or e) is what the new f (or g) needs.                           *)
LEMMA AnswerRow ==
  ASSUME NEW M \in Nat \ {0}, Odd(M), NEW X \in Int, NEW U \in Int, NEW V \in Int,
         NEW D0 \in Int, NEW E0 \in Int, NEW F \in Int, NEW G \in Int,
         NEW dd \in Int, NEW ff \in Int,
         Same(M, D0 * X, F), Same(M, E0 * X, G),
         Base * ff = U * F + V * G, Same(M, Base * dd, U * D0 + V * E0)
  PROVE  Same(M, dd * X, ff)
<1>1. PICK k1 \in Int : D0 * X = F + M * k1
  BY DEF Same
<1>2. PICK k2 \in Int : E0 * X = G + M * k2
  BY DEF Same
<1>3. PICK k3 \in Int : Base * dd = (U * D0 + V * E0) + M * k3
  BY DEF Same
<1>4. Base \in Int /\ M \in Int /\ Base = Pow2[W] /\ W \in Nat
  BY Widths
<1> DEFINE n == dd * X
           k == (U * k1 + V * k2) + k3 * X
<1>5. n \in Int /\ k \in Int
  OBVIOUS
<1>6. Base * n = (Base * dd) * X
  BY <1>4
<1>7. ((U * D0 + V * E0) + M * k3) * X = (U * (D0 * X) + V * (E0 * X)) + M * (k3 * X)
  BY <1>4
<1>8. U * (F + M * k1) + V * (G + M * k2) = (U * F + V * G) + M * (U * k1 + V * k2)
  BY <1>4
<1>9. M * k = M * (U * k1 + V * k2) + M * (k3 * X)
  BY <1>4
<1> DEFINE n1 == M * (U * k1 + V * k2)
           n2 == M * (k3 * X)
           n3 == U * F + V * G
<1>10. n1 \in Int /\ n2 \in Int /\ n3 \in Int
  BY <1>4
<1>11. Base * n = (n3 + n1) + n2 /\ M * k = n1 + n2 /\ Base * ff = n3
  BY <1>1, <1>2, <1>3, <1>6, <1>7, <1>8, <1>9
<1> HIDE DEF n, k, n1, n2, n3
<1>12. Base * n = Base * ff + M * k
  BY <1>10, <1>11
<1>13. Same(M, Base * n, Base * ff)
  BY <1>5, <1>12 DEF Same
<1>14. Same(M, Pow2[W] * n, Pow2[W] * ff)
  BY <1>4, <1>13
<1> QED
  BY <1>4, <1>5, <1>14, SameUnscaled DEF n

(* What holds of the answer's numbers between batches.                        *)
Coefficients == Same(modulus, d * x, f) /\ Same(modulus, e * x, g)

CommonDivisors ==
  \A c \in Int : Odd(c) /\ Divides(c, f) /\ Divides(c, g) => Divides(c, modulus) /\ Divides(c, x)

ZeroKept == x = 0 => f = modulus /\ g = 0 /\ d = 0

Finished == /\ pc = "normalize" /\ algo = "var" => g = 0
            /\ pc = "done" => g = 0 /\ result = Normalized(d, f, modulus)

AInv == Odd(f) /\ Coefficients /\ CommonDivisors /\ ZeroKept /\ Finished

LEMMA AnswerInit ==
  ASSUME Init
  PROVE  AInv
<1>1. /\ modulus \in Moduli /\ x \in 0 .. modulus - 1
      /\ d = 0 /\ e = 1 /\ f = modulus /\ g = x /\ pc = "batch"
  BY DEF Init
<1>2. modulus \in Int /\ Odd(modulus) /\ x \in Int
  BY <1>1, ModulusIs
<1>3. Same(modulus, d * x, f)
  <2>1. d * x = f + modulus * (-1) /\ -1 \in Int
    BY <1>1, <1>2
  <2> QED BY <2>1 DEF Same
<1>4. Same(modulus, e * x, g)
  <2>1. e * x = g + modulus * 0 /\ 0 \in Int
    BY <1>1, <1>2
  <2> QED BY <2>1 DEF Same
<1> QED
  BY <1>1, <1>2, <1>3, <1>4 DEF AInv, Coefficients, CommonDivisors, ZeroKept, Finished

(* With nothing in g a batch only halves e: f, g and d stay.                  *)
LEMMA ZeroBatch ==
  ASSUME IInv, InStep, pc = "batch", bat.i = IF algo = "const" THEN W ELSE 0,
         f = modulus, g = 0, d = 0
  PROVE  /\ UpdatedFG(bat.u, bat.v) = modulus /\ UpdatedFG(bat.q, bat.r) = 0
         /\ UpdatedDE(bat.u, bat.v) = 0
<1> DEFINE b == bat
           M == modulus
           U == Signed(b.u)
           V == Signed(b.v)
           ff == UpdatedFG(b.u, b.v)
           gg == UpdatedFG(b.q, b.r)
           dd == UpdatedDE(b.u, b.v)
           ee == UpdatedDE(b.q, b.r)
           s == Begun(algo, eta, f, g, d, e, M)
           n == IF algo = "const" THEN W - Pad ELSE W
           t == Iterates(M)[n][s]
           y == Begun(algo, b.eta, ff, gg, dd, ee, M)
           o == 0
<1>1. /\ b \in Bat /\ M \in Nat \ {0} /\ M \in Int /\ Odd(M) /\ Tracked(algo, b)
      /\ modulus \in Moduli /\ algo \in {"const", "var"}
      /\ d \in Int /\ e \in Int /\ f \in Int /\ g \in Int /\ eta \in Int /\ b.eta \in Int
      /\ U \in Int /\ V \in Int
  BY InvariantBatch, BatTypes, TypeIs DEF IInv
<1>2. /\ ff \in Int /\ gg \in Int /\ dd \in Int /\ ee \in Int /\ Base * ff = U * f + V * g
  <2>1. LET ff1 == UpdatedFG(bat.u, bat.v)
            gg1 == UpdatedFG(bat.q, bat.r)
            dd1 == UpdatedDE(bat.u, bat.v)
            ee1 == UpdatedDE(bat.q, bat.r)
        IN  /\ ff1 \in Int /\ gg1 \in Int /\ dd1 \in Int /\ ee1 \in Int
            /\ Base * ff1 = Signed(bat.u) * f + Signed(bat.v) * g
    BY NextNumbers, Zenon
  <2> QED BY <2>1, Zenon
<1>3. t = y
  BY BatchIsDivsteps
<1>4. s \in Numbers(M) /\ s.f = M /\ s.g = 0
  BY <1>1, BegunIs
<1>5. y.f = ff /\ y.g = gg
  BY <1>1, <1>2, BegunIs
<1>6. n \in Nat /\ Base \in Nat \ {0} /\ Base \in Int
  BY Widths
<1> HIDE DEF n, s, y, t
<1>7. Ran(M, s, o, n, t)
  <2>1. s.g + o * s.f = 0 /\ o \in Nat
    BY <1>1, <1>4
  <2>2. o < Pow2[n] /\ \A j \in Nat : o < Pow2[j]
    BY <1>6, Pow2Type
  <2>3. Divides(Pow2[n], 0)
    <3>1. 0 = 0 + Pow2[n] * 0 /\ 0 \in Int
      BY <1>6, Pow2Type
    <3> QED BY <3>1 DEF Divides, Same
  <2> HIDE DEF o, M
  <2>4. Cancels(s, o, n)
    BY <1>1, <1>4, <2>1, <2>2, <2>3 DEF Cancels
  <2> QED BY <1>1, <1>4, <1>6, <2>1, <2>4, RunsOn DEF t
<1>8. t.f = M /\ Pow2[n] * t.g = 0
  <2>1. t.f = s.f /\ Pow2[n] * t.g = s.g + o * s.f
    BY <1>7 DEF Ran
  <2>2. s.g + o * s.f = 0
    BY <1>1, <1>4
  <2> QED BY <1>4, <2>1, <2>2
<1> HIDE DEF ff, gg, dd, ee, U, V, M, b
<1>9. ff = M /\ gg = 0
  <2>1. ff = M /\ Pow2[n] * gg = 0
    BY <1>3, <1>5, <1>8
  <2>2. Pow2[n] \in Nat \ {0}
    BY <1>6, Pow2Type
  <2> QED BY <1>2, <2>1, <2>2
<1>10. U = Base
  <2>1. M * U = M * Base
    <3>1. U * f + V * g = M * U /\ Base * ff = M * Base
      BY <1>1, <1>6, <1>9 DEF M
    <3> QED BY <1>2, <3>1
  <2>2. M * U \in Int /\ M * Base \in Int
    BY <1>1, <1>6
  <2>3. M * U <= M * Base /\ M * Base <= M * U
    BY <2>1, <2>2
  <2>4. U <= Base /\ Base <= U
    BY <1>1, <1>6, <2>3, Unscaled
  <2> QED BY <1>1, <1>6, <2>4
<1>11. V = 0
  <2>1. /\ Fits(U, V, Signed(b.q), Signed(b.r), Scale(algo, b), ScaleG(algo, b), Determinant(algo, b))
        /\ Scale(algo, b) = Base
    <3>1. b.i = IF algo = "const" THEN W ELSE 0
      BY DEF b
    <3> QED BY <1>1, <3>1, TrackedParts, FinishedScale DEF U, V
  <2>2. Abs(U) + Abs(V) <= Base
    BY <2>1 DEF Fits
  <2> QED BY <1>1, <1>6, <1>10, <2>2 DEF Abs
<1>12. dd = 0
  <2> DEFINE c == U * d + V * e
             start == (IF d < 0 THEN U ELSE 0) + (IF e < 0 THEN V ELSE 0)
             m == start - ((InverseOfModulus * (c % Base) + start) % Base)
  <2>1. dd = (c + M * m) \div Base
    BY DEF dd, UpdatedDE, U, V, M
  <2>2. c = 0 /\ start = 0
    BY <1>1, <1>6, <1>10, <1>11
  <2>3. 0 % Base = 0 /\ 0 \div Base = 0
    BY <1>6, SmallMod
  <2>4. InverseOfModulus \in Int
    BY <1>1, InverseOfModulusIs
  <2> HIDE DEF c, start
  <2>5. InverseOfModulus * (c % Base) + start = 0
    BY <2>2, <2>3, <2>4
  <2>6. m = 0
    BY <2>2, <2>3, <2>5
  <2> HIDE DEF m
  <2>7. c + M * m = 0
    BY <1>1, <2>2, <2>6
  <2> QED BY <2>1, <2>3, <2>7
<1> QED
  BY <1>9, <1>12 DEF ff, gg, dd, M, b

LEMMA AnswerBatch ==
  ASSUME IInv, InStep, AInv, pc = "batch", bat.i = IF algo = "const" THEN W ELSE 0,
         NEW l, NEW loop \in BOOLEAN,
         NextBatch(UpdatedFG(bat.u, bat.v), UpdatedFG(bat.q, bat.r), l, loop),
         algo = "var" /\ ~loop => UpdatedFG(bat.q, bat.r) = 0
  PROVE  AInv'
<1> DEFINE b == bat
           a == algo
           M == modulus
           X == x
           U == Signed(b.u)
           V == Signed(b.v)
           Q == Signed(b.q)
           R == Signed(b.r)
           ff == UpdatedFG(b.u, b.v)
           gg == UpdatedFG(b.q, b.r)
           dd == UpdatedDE(b.u, b.v)
           ee == UpdatedDE(b.q, b.r)
<1>1. /\ b \in Bat /\ M \in Nat \ {0} /\ Odd(M) /\ Tracked(a, b) /\ X \in Int
      /\ d \in Int /\ e \in Int /\ f \in Int /\ g \in Int /\ x \in 0 .. M - 1
      /\ a \in {"const", "var"} /\ M > 2
  BY InvariantBatch, ModulusIs DEF IInv, TypeOK
<1>2. /\ ff \in Int /\ gg \in Int /\ dd \in Int /\ ee \in Int /\ Odd(ff)
      /\ Base * ff = U * f + V * g /\ Base * gg = Q * f + R * g
      /\ Same(M, Base * dd, U * d + V * e) /\ Same(M, Base * ee, Q * d + R * e)
      /\ -M < ff /\ ff <= M
  <2>1. LET ff1 == UpdatedFG(bat.u, bat.v)
            gg1 == UpdatedFG(bat.q, bat.r)
            dd1 == UpdatedDE(bat.u, bat.v)
            ee1 == UpdatedDE(bat.q, bat.r)
        IN  /\ ff1 \in Int /\ gg1 \in Int /\ dd1 \in Int /\ ee1 \in Int /\ Odd(ff1)
            /\ Base * ff1 = Signed(bat.u) * f + Signed(bat.v) * g
            /\ Base * gg1 = Signed(bat.q) * f + Signed(bat.r) * g
            /\ Same(modulus, Base * dd1, Signed(bat.u) * d + Signed(bat.v) * e)
            /\ Same(modulus, Base * ee1, Signed(bat.q) * d + Signed(bat.r) * e)
            /\ -modulus < ff1 /\ ff1 <= modulus
    BY NextNumbers, Zenon
  <2> QED BY <2>1, Zenon
<1>3. /\ f' = ff /\ g' = gg /\ d' = dd /\ e' = ee /\ modulus' = M /\ x' = X /\ algo' = a
      /\ pc' = IF loop THEN "batch" ELSE "normalize"
  BY Zenon DEF NextBatch
<1>4. /\ U \in Int /\ V \in Int /\ Q \in Int /\ R \in Int /\ b.i \in Nat /\ W - b.i \in Nat /\ b.i + Pad \in Nat
  BY <1>1, BatTypes
<1>5. PICK k \in Nat : U * R - V * Q = Pow2[k]
  <2>1. Fits(U, V, Q, R, Scale(a, b), ScaleG(a, b), Determinant(a, b))
    BY <1>1, TrackedParts
  <2>2. U * R - V * Q = Pow2[IF a = "const" THEN b.i + Pad ELSE W - b.i]
    BY <2>1 DEF Fits, Determinant
  <2>3. (IF a = "const" THEN b.i + Pad ELSE W - b.i) \in Nat
    BY <1>4
  <2> QED BY <2>2, <2>3
<1>6. Abs(U) + Abs(V) <= Base
  <2>1. Fits(U, V, Q, R, Scale(a, b), ScaleG(a, b), Determinant(a, b)) /\ Scale(a, b) = Base
    BY <1>1, TrackedParts, FinishedScale
  <2> QED BY <2>1 DEF Fits
<1>7. /\ Odd(f) /\ Same(M, d * X, f) /\ Same(M, e * X, g) /\ CommonDivisors /\ ZeroKept
  BY DEF AInv, Coefficients
<1> HIDE DEF U, V, Q, R, b, a, M, X, ff, gg, dd, ee
<1>8. Coefficients'
  <2>1. Same(M, dd * X, ff)
    BY <1>1, <1>2, <1>4, <1>7, AnswerRow
  <2>2. Same(M, ee * X, gg)
    BY <1>1, <1>2, <1>4, <1>7, AnswerRow
  <2> QED BY <1>3, <2>1, <2>2 DEF Coefficients
<1>9. CommonDivisors'
  <2>1. ASSUME NEW c \in Int, Odd(c), Divides(c, ff), Divides(c, gg)
        PROVE  Divides(c, M) /\ Divides(c, X)
    <3> DEFINE F == f
               G == g
    <3>1. /\ c \in Int /\ Odd(c) /\ k \in Nat /\ U \in Int /\ V \in Int /\ Q \in Int /\ R \in Int
          /\ U * R - V * Q = Pow2[k] /\ F \in Int /\ G \in Int /\ ff \in Int /\ gg \in Int
          /\ Base * ff = U * F + V * G /\ Base * gg = Q * F + R * G
          /\ Divides(c, ff) /\ Divides(c, gg)
      BY <1>1, <1>2, <1>4, <1>5, <2>1
    <3> HIDE DEF F, G
    <3>2. Applied(U, V, Q, R, k, F, G, ff, gg)
      BY <3>1 DEF Applied
    <3>3. Divides(c, F) /\ Divides(c, G)
      BY <3>1, <3>2, DividesBefore
    <3>4. Divides(c, f) /\ Divides(c, g)
      BY <3>3 DEF F, G
    <3> QED BY <1>7, <2>1, <3>4 DEF CommonDivisors, M, X
  <2> QED BY <1>3, <2>1 DEF CommonDivisors
<1>10. ZeroKept'
  <2>1. SUFFICES ASSUME X = 0 PROVE ff = M /\ gg = 0 /\ dd = 0
    BY <1>3 DEF ZeroKept
  <2>2. f = M /\ g = 0 /\ d = 0
    BY <1>7, <2>1 DEF ZeroKept, M, X
  <2> QED BY <2>2, ZeroBatch DEF ff, gg, dd, b, M
<1>11. Finished'
  <2>1. (a = "var" /\ ~loop => gg = 0) /\ pc' # "done"
    BY <1>3 DEF a, gg, b
  <2> QED BY <1>3, <2>1 DEF Finished
<1> QED
  BY <1>2, <1>3, <1>8, <1>9, <1>10, <1>11 DEF AInv

LEMMA AnswerEnough ==
  ASSUME IInv, AInv, RoundsSuffice
  PROVE  Enough
<1>1. algo \in {"const", "var"}
  BY DEF IInv, TypeOK
<1> QED
  BY <1>1 DEF AInv, Finished, RoundsSuffice, Enough

LEMMA AnswerNext ==
  ASSUME IInv, InStep, AInv, RoundsSuffice, [Next]_vars
  PROVE  AInv'
<1>1. CASE UNCHANGED <<algo, modulus, x, d, e, f, g, pc, result>>
  <2>1. Coefficients' /\ CommonDivisors' /\ ZeroKept' /\ Finished' /\ Odd(f)'
    BY <1>1 DEF AInv, Coefficients, CommonDivisors, ZeroKept, Finished
  <2> QED BY <2>1 DEF AInv
<1>2. CASE UNCHANGED vars
  BY <1>1, <1>2 DEF vars
<1>3. CASE Divstep \/ ShiftZeros \/ SwapAndCancel \/ CancelBits
  BY <1>1, <1>3 DEF Divstep, ShiftZeros, SwapAndCancel, CancelBits, Within
<1>4. CASE UpdateConst
  <2> DEFINE loop == round + 1 < Rounds
  <2>1. /\ pc = "batch" /\ algo = "const" /\ bat.i = W /\ loop \in BOOLEAN
        /\ NextBatch(UpdatedFG(bat.u, bat.v), UpdatedFG(bat.q, bat.r), len, loop)
    BY <1>4 DEF UpdateConst, Batching
  <2> HIDE DEF loop
  <2> QED BY <2>1, AnswerBatch
<1>5. CASE UpdateVar
  <2>1. PICK l \in 1 .. Limbs, loop \in BOOLEAN :
          /\ NextBatch(UpdatedFG(bat.u, bat.v), UpdatedFG(bat.q, bat.r), l, loop)
          /\ ~loop => UpdatedFG(bat.q, bat.r) = 0
    BY <1>5, UpdateVarIs
  <2>2. pc = "batch" /\ algo = "var" /\ bat.i = IF algo = "const" THEN W ELSE 0
    BY <1>5, UpdateVarIs
  <2> QED BY <2>1, <2>2, AnswerBatch
<1>6. CASE Normalize
  <2>1. /\ pc = "normalize" /\ pc' = "done" /\ result' = Normalized(d, f, modulus)
        /\ UNCHANGED <<algo, modulus, x, d, e, f, g>>
    BY <1>6 DEF Normalize
  <2>2. g = 0
    BY <2>1, AnswerEnough DEF Enough
  <2>3. Coefficients' /\ CommonDivisors' /\ ZeroKept' /\ Odd(f)'
    BY <2>1 DEF AInv, Coefficients, CommonDivisors, ZeroKept
  <2>4. Finished'
    BY <2>1, <2>2 DEF Finished
  <2> QED BY <2>3, <2>4 DEF AInv
<1> QED
  BY <1>2, <1>3, <1>4, <1>5, <1>6 DEF Next

(* With g = 0 the greatest common divisor is in f.                            *)
LEMMA OneOrAll ==
  ASSUME NEW M \in Nat, M > 2, \A k \in 2 .. M - 1 : M % k # 0, NEW X \in 0 .. M - 1,
         NEW F \in Int, -M < F, F <= M, Odd(F), Divides(F, M), Divides(F, X)
  PROVE  F = 1 \/ F = -1 \/ (X = 0 /\ F = M)
<1> DEFINE n == IF F < 0 THEN -F ELSE F
<1>1. n \in Nat /\ n <= M /\ M \in Int /\ X \in Int
  OBVIOUS
<1>2. F # 0
  <2>1. 0 % 2 = 0
    OBVIOUS
  <2> QED BY <2>1 DEF Odd
<1>3. n >= 1 /\ n \in Nat \ {0} /\ n \in Int
  BY <1>1, <1>2
<1>4. ASSUME NEW y \in Int, Divides(F, y) PROVE Divides(n, y)
  <2>1. PICK j \in Int : y = F * j
    BY <1>4, DividesIs
  <2>2. y = n * j \/ y = n * (-j)
    BY <2>1
  <2>3. -j \in Int
    OBVIOUS
  <2> QED BY <1>3, <2>2, <2>3, DividesIs
<1> HIDE DEF n
<1>5. Divides(n, M) /\ Divides(n, X)
  BY <1>1, <1>4
<1>6. n = 1 \/ n = M
  <2>1. M % n = 0
    BY <1>1, <1>3, <1>5, DividesMod
  <2>2. n \notin 2 .. M - 1
    BY <2>1
  <2> QED BY <1>1, <1>3, <2>2
<1>7. CASE n = 1
  BY <1>7 DEF n
<1>8. CASE n = M
  <2>1. F = M
    BY <1>8 DEF n
  <2>2. X % M = 0
    BY <1>1, <1>3, <1>5, <1>8, DividesMod
  <2>3. X % M = X
    BY <1>3, <1>8, SmallMod
  <2> QED BY <2>1, <2>2, <2>3
<1> QED
  BY <1>6, <1>7, <1>8

LEMMA AnswerIsInverse ==
  ASSUME PrimeModuli, IInv, AInv, g = 0
  PROVE  /\ (Abs(f) = 1 /\ x # 0) \/ (x = 0 /\ d = 0 /\ f = modulus)
         /\ Normalized(d, f, modulus) \in 0 .. modulus - 1
         /\ IF x = 0 THEN Normalized(d, f, modulus) = 0
                     ELSE (Normalized(d, f, modulus) * x) % modulus = 1
<1> DEFINE M == modulus
           n == Normalized(d, f, M)
<1>1. /\ M \in Moduli /\ M \in Nat /\ M \in Nat \ {0} /\ M \in Int /\ M > 2 /\ x \in 0 .. M - 1 /\ x \in Int
      /\ d \in Int /\ f \in Int /\ -2 * M < d /\ d < M /\ -M < f /\ f <= M
  BY TypeIs, ModulusIs DEF IInv, TypeOK, Ranges
<1>2. \A k \in 2 .. M - 1 : M % k # 0
  BY <1>1 DEF PrimeModuli
<1>3. Odd(f) /\ Same(M, d * x, f) /\ CommonDivisors /\ ZeroKept
  BY DEF AInv, Coefficients
<1>4. Divides(f, M) /\ Divides(f, x)
  <2>1. f = f * 1 /\ 0 = f * 0 /\ 1 \in Int /\ 0 \in Int
    BY <1>1
  <2>2. Divides(f, f)
    BY <1>1, <2>1, DividesIs
  <2> DEFINE o == 0
  <2>3. o \in Int /\ \E k \in Int : o = f * k
    BY <2>1
  <2> HIDE DEF o
  <2>4. Divides(f, o)
    BY <1>1, <2>3, DividesIs
  <2>5. Divides(f, g)
    BY <2>4 DEF o
  <2> QED BY <1>1, <1>3, <2>2, <2>5 DEF CommonDivisors
<1>5. f = 1 \/ f = -1 \/ (x = 0 /\ f = M)
  <2> DEFINE F == f
             X == x
  <2>1. /\ F \in Int /\ -M < F /\ F <= M /\ Odd(F) /\ Divides(F, M) /\ Divides(F, X) /\ X \in 0 .. M - 1
        /\ M \in Nat /\ M > 2 /\ \A k \in 2 .. M - 1 : M % k # 0
    BY <1>1, <1>2, <1>3, <1>4
  <2> HIDE DEF F, X, M
  <2>2. F = 1 \/ F = -1 \/ (X = 0 /\ F = M)
    BY <2>1, OneOrAll
  <2> QED BY <2>2 DEF F, X
<1>6. x = 0 => f = M /\ d = 0
  BY <1>3 DEF ZeroKept
<1>7. (Abs(f) = 1 /\ x # 0) \/ (x = 0 /\ d = 0 /\ f = M)
  BY <1>1, <1>5, <1>6 DEF Abs
<1>10. n \in 0 .. M - 1
  BY <1>1, NormalizedIs
<1>8. CASE x = 0
  <2>1. n = 0
    BY <1>1, <1>6, <1>8 DEF Normalized
  <2> QED BY <1>7, <1>8, <1>10, <2>1
<1>9. CASE x # 0
  <2> DEFINE k == IF f < 0 THEN -d ELSE d
             j == IF f < 0 THEN -f ELSE f
             dx == d * x
             nx == n * x
             kx == k * x
  <2>1. n \in 0 .. M - 1 /\ Same(M, n, k)
    BY <1>1, NormalizedIs
  <2>2. j = 1
    BY <1>5, <1>9
  <2>3. k \in Int /\ j \in Int /\ dx \in Int /\ kx \in Int /\ n \in Int
        /\ kx = IF f < 0 THEN -dx ELSE dx
    BY <1>1, <2>1
  <2>4. Same(M, kx, j)
    <3>1. Same(M, dx, f)
      BY <1>3
    <3> HIDE DEF dx, kx, M
    <3>2. Same(M, -dx, -f)
      BY <1>1, <2>3, <3>1, SameScale
    <3> QED BY <2>3, <3>1, <3>2 DEF j
  <2> HIDE DEF n, k, j, dx, M
  <2>5. Same(M, nx, kx) /\ nx \in Int
    <3> DEFINE X == x
    <3>1. X \in Int /\ M \in Int /\ n \in Int /\ k \in Int /\ Same(M, n, k)
      BY <1>1, <2>1, <2>3
    <3> HIDE DEF X
    <3>2. Same(M, n * X, k * X)
      BY <3>1, SameScale
    <3>3. n * X \in Int
      BY <3>1
    <3> QED BY <3>2, <3>3 DEF X
  <2> HIDE DEF nx, kx
  <2>6. Same(M, nx, j)
    BY <1>1, <2>3, <2>4, <2>5, SameTrans
  <2>7. nx % M = j % M
    BY <1>1, <2>3, <2>5, <2>6, SameMod
  <2>8. j % M = 1
    BY <1>1, <2>2, SmallMod
  <2>9. (n * x) % M = 1
    BY <2>7, <2>8 DEF nx
  <2> QED BY <1>7, <1>9, <1>10, <2>9 DEF n, M
<1> QED
  BY <1>8, <1>9

LEMMA AnswerResult ==
  ASSUME PrimeModuli, IInv, AInv, RoundsSuffice
  PROVE  ResultIsInverse
<1>1. ASSUME pc = "normalize"
      PROVE  g = 0 /\ (Abs(f) = 1 \/ (x = 0 /\ d = 0 /\ Abs(f) = modulus))
  <2>1. g = 0
    BY <1>1, AnswerEnough DEF Enough
  <2>2. modulus \in Nat
    BY TypeIs DEF IInv
  <2>3. f = modulus => Abs(f) = modulus
    BY <2>2 DEF Abs
  <2> QED BY <2>1, <2>3, AnswerIsInverse
<1>2. ASSUME pc = "done"
      PROVE  /\ result \in 0 .. modulus - 1
             /\ IF x = 0 THEN result = 0 ELSE (result * x) % modulus = 1
  <2>1. g = 0 /\ result = Normalized(d, f, modulus)
    BY <1>2 DEF AInv, Finished
  <2> QED BY <2>1, AnswerIsInverse
<1> QED
  BY <1>1, <1>2 DEF ResultIsInverse

RInv == IInv /\ InStep /\ Unanswered /\ AInv

LEMMA RefinementInit == Init => RInv /\ D!AbsInit
<1>1. Init => Unanswered
  BY DEF Init, Unanswered
<1> QED
  BY <1>1, InvariantInit, InStepBegins, AnswerInit, InitRefines DEF RInv

LEMMA RefinementNext == RInv /\ RoundsSuffice /\ [Next]_vars => RInv' /\ [D!AbsNext]_(D!absVars)
<1> SUFFICES ASSUME RInv, RoundsSuffice, [Next]_vars PROVE RInv' /\ [D!AbsNext]_(D!absVars)
  OBVIOUS
<1>1. IInv /\ InStep /\ Unanswered /\ AInv
  BY DEF RInv
<1>2. IInv' /\ InStep'
  BY <1>1, InvariantNext, InStepNext
<1>3. AInv'
  BY <1>1, AnswerNext
<1>4. Enough
  BY <1>1, AnswerEnough
<1>5. [D!AbsNext]_(D!absVars) /\ Unanswered'
  BY <1>1, <1>4, NextRefines
<1> QED
  BY <1>2, <1>3, <1>5 DEF RInv

(* Batches of words, with zeros skipped and bits cancelled several at a time, *)
(* do to f, g, d, e and delta what that many divsteps on whole integers do,   *)
(* for every limb width and every odd modulus, and the answer is d with the   *)
(* sign of f, provided that the batches of the call suffice to bring g to 0   *)
(* (modinv64_impl.h lines 496-505 and 566).                                   *)
THEOREM DivstepsImplemented == Spec /\ []RoundsSuffice => ImplementsDivsteps
<1>1. Init => RInv /\ D!AbsInit
  BY RefinementInit
<1>2. RInv /\ RoundsSuffice /\ [Next]_vars => RInv' /\ [D!AbsNext]_(D!absVars)
  BY RefinementNext
<1> QED
  BY <1>1, <1>2, PTL DEF Spec, ImplementsDivsteps, D!AbsSpec

(* Modulo a prime the batches of a call, as long as they suffice, end with    *)
(* |f| = 1, or with d = 0 when x was 0, and what is stored is the inverse of  *)
(* x, or 0 (modinv64_impl.h line 460).                                        *)
THEOREM InverseStored ==
  ASSUME PrimeModuli
  PROVE  Spec /\ []RoundsSuffice => []ResultIsInverse
<1>1. Init => RInv
  BY RefinementInit
<1>2. RInv /\ RoundsSuffice /\ [Next]_vars => RInv'
  BY RefinementNext
<1>3. RInv /\ RoundsSuffice => ResultIsInverse
  BY AnswerResult DEF RInv
<1> QED
  BY <1>1, <1>2, <1>3, PTL DEF Spec
===============================================================================
