----------------------------- MODULE EcPointProofs -----------------------------
(* Proofs of what EcPointProps states, for every prime field, every curve     *)
(* over it and every Montgomery form.                                         *)
EXTENDS EcPointProps, Arithmetic

-------------------------------------------------------------------------------
(* Congruence, kept apart from the remainders it is made of.                  *)

Cong(m, a, b) == a % m = b % m

LEMMA CongRefl ==
  ASSUME NEW m, NEW a
  PROVE  Cong(m, a, a)
BY DEF Cong

LEMMA CongSym ==
  ASSUME NEW m, NEW a, NEW b, Cong(m, a, b)
  PROVE  Cong(m, b, a)
BY DEF Cong

LEMMA CongTrans ==
  ASSUME NEW m, NEW a, NEW b, NEW c, Cong(m, a, b), Cong(m, b, c)
  PROVE  Cong(m, a, c)
BY DEF Cong

LEMMA CongWitness ==
  ASSUME NEW m \in Nat \ {0}, NEW a \in Int, NEW b \in Int, Cong(m, a, b)
  PROVE  \E k \in Int : a = b + m * k
BY CongruentOnlyIf DEF Cong

LEMMA CongFrom ==
  ASSUME NEW m \in Nat \ {0}, NEW a \in Int, NEW b \in Int, NEW k \in Int, a = b + m * k
  PROVE  Cong(m, a, b)
BY CongruentIf DEF Cong

LEMMA CongAdd ==
  ASSUME NEW m \in Nat \ {0}, NEW a \in Int, NEW b \in Int, NEW c \in Int, NEW d \in Int,
         Cong(m, a, b), Cong(m, c, d)
  PROVE  Cong(m, a + c, b + d) /\ Cong(m, a - c, b - d)
<1>1. PICK k \in Int : a = b + m * k
  BY CongWitness
<1>2. PICK l \in Int : c = d + m * l
  BY CongWitness
<1>3. k + l \in Int /\ k - l \in Int
  OBVIOUS
<1>4. a + c = (b + d) + m * (k + l) /\ a - c = (b - d) + m * (k - l)
  BY <1>1, <1>2, SMT
<1>5. a + c \in Int /\ b + d \in Int /\ a - c \in Int /\ b - d \in Int
  OBVIOUS
<1> QED
  BY <1>3, <1>4, <1>5, CongFrom

LEMMA CongMul ==
  ASSUME NEW m \in Nat \ {0}, NEW a \in Int, NEW b \in Int, NEW c \in Int, NEW d \in Int,
         Cong(m, a, b), Cong(m, c, d)
  PROVE  Cong(m, a * c, b * d)
<1>1. PICK k \in Int : a = b + m * k
  BY CongWitness
<1>2. PICK l \in Int : c = d + m * l
  BY CongWitness
<1> DEFINE w == b * l + k * d + m * k * l
           ac == a * c
           bd == b * d
<1>3. w \in Int /\ ac \in Int /\ bd \in Int
  OBVIOUS
<1>4. ac = bd + m * w
  BY <1>1, <1>2, SMT
<1> HIDE DEF w, ac, bd
<1>5. Cong(m, ac, bd)
  BY <1>3, <1>4, CongFrom
<1> QED
  BY <1>5 DEF ac, bd

LEMMA CongScale ==
  ASSUME NEW m \in Nat \ {0}, NEW c \in Int, NEW a \in Int, NEW b \in Int, Cong(m, a, b)
  PROVE  /\ Cong(m, c * a, c * b) /\ Cong(m, a * c, b * c)
         /\ Cong(m, c + a, c + b) /\ Cong(m, a + c, b + c)
         /\ Cong(m, c - a, c - b) /\ Cong(m, a - c, b - c)
<1>1. Cong(m, c, c)
  BY CongRefl
<1> QED
  BY <1>1, CongMul, CongAdd

LEMMA CongDifference ==
  ASSUME NEW m \in Nat \ {0}, NEW a \in Int, NEW b \in Int
  PROVE  Cong(m, a - b, 0) <=> Cong(m, a, b)
<1> DEFINE d == a - b
<1>1. d \in Int /\ b + d = a /\ b + 0 = b /\ a - b = d /\ b - b = 0 /\ 0 \in Int
  OBVIOUS
<1> HIDE DEF d
<1>2. ASSUME Cong(m, d, 0) PROVE Cong(m, a, b)
  <2>1. Cong(m, b + d, b + 0)
    BY <1>1, <1>2, CongScale
  <2> QED BY <1>1, <2>1
<1>3. ASSUME Cong(m, a, b) PROVE Cong(m, d, 0)
  <2>1. Cong(m, a - b, b - b)
    BY <1>1, <1>3, CongScale
  <2> QED BY <1>1, <2>1
<1> QED
  BY <1>2, <1>3 DEF d

LEMMA CongMod ==
  ASSUME NEW m \in Nat \ {0}, NEW a \in Int
  PROVE  Cong(m, a % m, a) /\ a % m \in 0 .. m - 1 /\ a % m \in Int
<1>1. a % m \in 0 .. m - 1 /\ a % m \in Int
  BY DivMod
<1> DEFINE r == a % m
<1>2. r \in 0 .. m - 1 /\ r = a % m
  BY <1>1
<1> HIDE DEF r
<1>3. r % m = r
  BY <1>2, SmallMod
<1> QED
  BY <1>1, <1>2, <1>3 DEF Cong

(* Residues that are congruent are the same.                                  *)
LEMMA CongSmall ==
  ASSUME NEW m \in Nat \ {0}, NEW a \in 0 .. m - 1, NEW b \in 0 .. m - 1, Cong(m, a, b)
  PROVE  a = b
BY SmallMod DEF Cong

-------------------------------------------------------------------------------
(* Inverses.                                                                  *)

PrimeField(m) == m \in Nat /\ m >= 5 /\ m % 2 = 1 /\ IsPrimeField(m)

Nonzero(m, a) == ~Cong(m, a, 0)

LEMMA FieldSize ==
  ASSUME NEW m, PrimeField(m)
  PROVE  m \in Nat \ {0} /\ m \in Int /\ m >= 5
BY DEF PrimeField

LEMMA NonzeroRemainder ==
  ASSUME NEW m \in Nat \ {0}, NEW a \in Int
  PROVE  Nonzero(m, a) <=> a % m # 0
BY SmallMod DEF Nonzero, Cong

LEMMA InverseExists ==
  ASSUME NEW m, PrimeField(m), NEW a \in Int, Nonzero(m, a)
  PROVE  \E i \in 1 .. m - 1 : (a * i) % m = 1
<1>0. m \in Nat \ {0} /\ m \in Int
  BY FieldSize
<1> DEFINE r == a % m
<1>1. r \in 0 .. m - 1 /\ r # 0 /\ Cong(m, r, a)
  BY <1>0, CongMod, NonzeroRemainder
<1> HIDE DEF r
<1>2. r \in 1 .. m - 1 /\ r \in Int
  BY <1>0, <1>1
<1>3. PICK i \in 1 .. m - 1 : (r * i) % m = 1
  BY <1>2 DEF PrimeField, IsPrimeField
<1>4. i \in Int
  OBVIOUS
<1>5. Cong(m, r * i, a * i)
  BY <1>0, <1>1, <1>2, <1>4, CongMul, CongRefl
<1> QED
  BY <1>3, <1>5 DEF Cong

LEMMA Cancel ==
  ASSUME NEW m, PrimeField(m), NEW c \in Int, Nonzero(m, c), NEW a \in Int, NEW b \in Int,
         Cong(m, c * a, c * b)
  PROVE  Cong(m, a, b)
<1>0. m \in Nat \ {0} /\ m \in Int /\ m >= 5
  BY FieldSize
<1>1. PICK i \in 1 .. m - 1 : (c * i) % m = 1
  BY InverseExists
<1> DEFINE t == c * i
           ca == c * a
           cb == c * b
<1>2. i \in Int
  OBVIOUS
<1>3. t \in Int /\ ca \in Int /\ cb \in Int /\ Cong(m, ca, cb) /\ i * ca = t * a /\ i * cb = t * b
  BY <1>2, SMT
<1>4. Cong(m, t, 1)
  BY <1>0, <1>1, SmallMod DEF Cong
<1> HIDE DEF t, ca, cb
<1>5. Cong(m, i * ca, i * cb)
  BY <1>0, <1>2, <1>3, CongMul, CongRefl
<1>6. Cong(m, t * a, 1 * a) /\ Cong(m, t * b, 1 * b)
  <2>1. Cong(m, a, a) /\ Cong(m, b, b) /\ 1 \in Int
    BY CongRefl
  <2>2. Cong(m, t * a, 1 * a)
    BY <1>0, <1>3, <1>4, <2>1, CongMul
  <2>3. Cong(m, t * b, 1 * b)
    BY <1>0, <1>3, <1>4, <2>1, CongMul
  <2> QED BY <2>2, <2>3
<1>7. 1 * a = a /\ 1 * b = b
  OBVIOUS
<1>8. Cong(m, a, t * a) /\ Cong(m, t * a, t * b)
  BY <1>3, <1>5, <1>6, <1>7, CongSym
<1> QED
  BY <1>6, <1>7, <1>8, CongTrans

LEMMA NonzeroProduct ==
  ASSUME NEW m, PrimeField(m), NEW a \in Int, NEW b \in Int, Nonzero(m, a), Nonzero(m, b)
  PROVE  Nonzero(m, a * b)
<1> SUFFICES ASSUME Cong(m, a * b, 0)
             PROVE  FALSE
  BY DEF Nonzero
<1>1. a * 0 = 0
  OBVIOUS
<1>2. Cong(m, a * b, a * 0)
  BY <1>1
<1>3. Cong(m, b, 0)
  BY <1>2, Cancel
<1> QED
  BY <1>3 DEF Nonzero

LEMMA CongFactor ==
  ASSUME NEW m, PrimeField(m), NEW c \in Int, Nonzero(m, c), NEW a \in Int, NEW b \in Int
  PROVE  /\ Cong(m, c * a, c * b) <=> Cong(m, a, b)
         /\ Cong(m, c * a, 0) <=> Cong(m, a, 0)
<1>1. \A d \in Int : Cong(m, c * a, c * d) <=> Cong(m, a, d)
  <2> TAKE d \in Int
  <2>1. ASSUME Cong(m, a, d) PROVE Cong(m, c * a, c * d)
    BY <2>1, FieldSize, CongScale
  <2>2. ASSUME Cong(m, c * a, c * d) PROVE Cong(m, a, d)
    BY <2>2, Cancel
  <2> QED BY <2>1, <2>2
<1>2. Cong(m, c * a, c * b) <=> Cong(m, a, b)
  BY <1>1
<1>3. Cong(m, c * a, c * 0) <=> Cong(m, a, 0)
  BY <1>1
<1>4. c * 0 = 0
  OBVIOUS
<1> QED
  BY <1>2, <1>3, <1>4

LEMMA NonzeroSame ==
  ASSUME NEW m, NEW a, NEW b, Nonzero(m, a), Cong(m, a, b)
  PROVE  Nonzero(m, b)
BY CongTrans, CongSym DEF Nonzero

LEMMA NonzeroSmall ==
  ASSUME NEW m, PrimeField(m)
  PROVE  Nonzero(m, 1) /\ Nonzero(m, 2) /\ Nonzero(m, 3) /\ Nonzero(m, 4)
<1>0. m \in Nat \ {0} /\ m \in Int /\ m >= 5
  BY FieldSize
<1>1. \A k \in {1, 2, 3, 4} : k \in 0 .. m - 1 /\ k # 0 /\ k \in Int
  BY <1>0
<1>2. \A k \in {1, 2, 3, 4} : k % m # 0
  BY <1>0, <1>1, SmallMod
<1> QED
  BY <1>0, <1>1, <1>2, NonzeroRemainder

-------------------------------------------------------------------------------
(* Field elements: what a curve in use is like, and the number an element     *)
(* means, whatever the form. Every operation means the one on numbers.        *)

GroupOK ==
  /\ PrimeField(p)
  /\ group.R \in Nat \ {0} /\ Nonzero(p, group.R)
  /\ group.a \in Residue /\ group.b \in Residue
  /\ group.a_is_minus3 \in BOOLEAN
  /\ group.a_is_minus3 => Cong(p, field_decode(group.a), -3)

Unit == BN_mod_inverse(group.R)

Means(s, v) == s \in Int /\ v \in Int /\ Cong(p, s * Unit, v)

LEMMA FieldType ==
  ASSUME GroupOK
  PROVE  PrimeField(p) /\ p \in Nat \ {0} /\ p \in Int /\ p >= 5 /\ p % 2 = 1
BY FieldSize DEF GroupOK, PrimeField

LEMMA ResidueType ==
  ASSUME GroupOK, NEW s \in Residue
  PROVE  s \in 0 .. p - 1 /\ s \in Int /\ s >= 0 /\ s < p
BY FieldType DEF Residue

LEMMA InverseDef ==
  ASSUME GroupOK, NEW n \in Int, Nonzero(p, n)
  PROVE  /\ BN_mod_inverse(n) \in 1 .. p - 1 /\ BN_mod_inverse(n) \in Int
         /\ Cong(p, n * BN_mod_inverse(n), 1)
<1>0. p \in Nat \ {0} /\ p \in Int /\ p >= 5 /\ PrimeField(p)
  BY FieldType
<1>1. \E i \in 1 .. p - 1 : (n * i) % p = 1
  BY <1>0, InverseExists
<1>2. BN_mod_inverse(n) \in 1 .. p - 1 /\ (n * BN_mod_inverse(n)) % p = 1
  BY <1>1 DEF BN_mod_inverse
<1>3. 1 % p = 1
  BY <1>0, SmallMod
<1> QED
  BY <1>0, <1>2, <1>3 DEF Cong

LEMMA UnitDef ==
  ASSUME GroupOK
  PROVE  /\ group.R \in Int /\ Unit \in Int /\ Cong(p, group.R * Unit, 1)
         /\ Nonzero(p, Unit)
<1>1. group.R \in Int /\ Nonzero(p, group.R)
  BY DEF GroupOK
<1>2. Unit \in Int /\ Cong(p, group.R * Unit, 1)
  BY <1>1, InverseDef DEF Unit
<1>3. Nonzero(p, Unit)
  <2> SUFFICES ASSUME Cong(p, Unit, 0)
               PROVE  FALSE
    BY DEF Nonzero
  <2> DEFINE r == group.R
             t == r * Unit
  <2>0. r \in Int /\ Cong(p, t, 1)
    BY <1>1, <1>2
  <2> HIDE DEF r
  <2>1. t = r * Unit /\ r * 0 = 0 /\ Cong(p, r, r) /\ 0 \in Int
    BY <2>0, CongRefl
  <2>2. Cong(p, t, r * 0)
    BY <1>2, <2>0, <2>1, FieldType, CongMul
  <2> HIDE DEF t
  <2>3. Cong(p, 1, 0)
    BY <2>0, <2>1, <2>2, CongSym, CongTrans
  <2> QED
    BY <2>3, FieldType, NonzeroSmall DEF Nonzero
<1> QED
  BY <1>1, <1>2, <1>3

LEMMA MeansCong ==
  ASSUME NEW s, NEW v, NEW w \in Int, Means(s, v), Cong(p, v, w)
  PROVE  Means(s, w)
BY CongTrans DEF Means

LEMMA MeansMod ==
  ASSUME GroupOK, NEW s, NEW v, Means(s, v)
  PROVE  Means(s % p, v) /\ s % p \in Residue
<1> DEFINE r == s % p
<1>0. s \in Int /\ v \in Int /\ Cong(p, s * Unit, v)
  BY DEF Means
<1>1. r \in 0 .. p - 1 /\ r \in Int /\ Cong(p, r, s)
  BY <1>0, FieldType, CongMod
<1> HIDE DEF r
<1>2. Cong(p, r * Unit, s * Unit)
  BY <1>0, <1>1, FieldType, UnitDef, CongMul, CongRefl
<1>3. Means(r, v) /\ r \in Residue
  BY <1>0, <1>1, <1>2, CongTrans DEF Means, Residue
<1> QED
  BY <1>3 DEF r

LEMMA MeansAdd ==
  ASSUME GroupOK, NEW s, NEW v, NEW t, NEW w, Means(s, v), Means(t, w)
  PROVE  Means(s + t, v + w) /\ Means(s - t, v - w)
<1>0. /\ s \in Int /\ v \in Int /\ Cong(p, s * Unit, v) /\ t \in Int /\ w \in Int
      /\ Cong(p, t * Unit, w) /\ Unit \in Int /\ p \in Nat \ {0}
  BY FieldType, UnitDef DEF Means
<1> DEFINE a == s * Unit
           c == t * Unit
           e == (s + t) * Unit
           f == (s - t) * Unit
<1>1. a \in Int /\ c \in Int /\ e = a + c /\ f = a - c /\ Cong(p, a, v) /\ Cong(p, c, w)
  BY <1>0, SMT
<1> HIDE DEF a, c, e, f
<1>2. Cong(p, e, v + w) /\ Cong(p, f, v - w)
  BY <1>0, <1>1, CongAdd
<1>3. s + t \in Int /\ s - t \in Int /\ v + w \in Int /\ v - w \in Int
  BY <1>0
<1> QED
  BY <1>2, <1>3 DEF Means, e, f

LEMMA MeansScale ==
  ASSUME GroupOK, NEW k \in Int, NEW s, NEW v, Means(s, v)
  PROVE  Means(k * s, k * v)
<1>0. /\ s \in Int /\ v \in Int /\ Cong(p, s * Unit, v) /\ Unit \in Int /\ p \in Nat \ {0}
  BY FieldType, UnitDef DEF Means
<1> DEFINE a == s * Unit
           e == (k * s) * Unit
<1>1. a \in Int /\ e = k * a /\ Cong(p, a, v) /\ Cong(p, k, k)
  BY <1>0, SMT, CongRefl
<1> HIDE DEF a, e
<1>2. Cong(p, e, k * v)
  BY <1>0, <1>1, CongMul
<1>3. k * s \in Int /\ k * v \in Int
  BY <1>0
<1> QED
  BY <1>2, <1>3 DEF Means, e

LEMMA MeansMul ==
  ASSUME GroupOK, NEW s, NEW v, NEW t, NEW w, Means(s, v), Means(t, w)
  PROVE  Means(field_mul(s, t), v * w) /\ field_mul(s, t) \in Residue
<1>0. /\ s \in Int /\ v \in Int /\ Cong(p, s * Unit, v) /\ t \in Int /\ w \in Int
      /\ Cong(p, t * Unit, w) /\ Unit \in Int /\ p \in Nat \ {0}
  BY FieldType, UnitDef DEF Means
<1> DEFINE a == s * Unit
           c == t * Unit
           n == s * t * Unit
           vw == v * w
<1>1. a \in Int /\ c \in Int /\ n \in Int /\ vw \in Int /\ n * Unit = a * c
  BY <1>0, SMT
<1>2. Cong(p, a, v) /\ Cong(p, c, w) /\ vw = v * w
  BY <1>0
<1>3. n = s * t * BN_mod_inverse(group.R)
  BY DEF Unit
<1> HIDE DEF a, c, n, vw
<1>4. Cong(p, a * c, vw)
  BY <1>0, <1>1, <1>2, CongMul
<1>5. Means(n, vw)
  BY <1>1, <1>4 DEF Means
<1>6. Means(n % p, vw) /\ n % p \in Residue
  BY <1>5, MeansMod
<1> QED
  BY <1>6, <1>2, <1>3 DEF field_mul

LEMMA MeansSqr ==
  ASSUME GroupOK, NEW s, NEW v, Means(s, v)
  PROVE  Means(field_sqr(s), v * v) /\ field_sqr(s) \in Residue
BY MeansMul DEF field_sqr

LEMMA MeansEncode ==
  ASSUME GroupOK, NEW v \in Int
  PROVE  Means(field_encode(v), v) /\ field_encode(v) \in Residue
<1> DEFINE r == group.R
           s == v * r
           t == r * Unit
<1>0. r \in Int /\ Unit \in Int /\ Cong(p, t, 1) /\ p \in Nat \ {0}
  BY UnitDef, FieldType
<1>1. s \in Int /\ t \in Int /\ s * Unit = t * v /\ 1 * v = v
  BY <1>0, SMT
<1> HIDE DEF r
<1>2. t = r * Unit /\ s = v * r
  OBVIOUS
<1> HIDE DEF s, t
<1>3. Cong(p, t * v, 1 * v)
  <2>1. Cong(p, v, v) /\ 1 \in Int
    BY CongRefl
  <2> QED BY <1>0, <1>1, <2>1, CongMul
<1>4. Means(s, v)
  BY <1>1, <1>3 DEF Means
<1>5. field_encode(v) = s % p
  BY <1>2 DEF field_encode, r
<1> QED
  BY <1>4, <1>5, MeansMod

LEMMA MeansDecode ==
  ASSUME GroupOK, NEW s \in Int
  PROVE  /\ Means(s, field_decode(s)) /\ field_decode(s) \in Residue
         /\ field_decode(s) \in Int
<1> DEFINE t == s * Unit
           v == t % p
<1>0. Unit \in Int /\ p \in Nat \ {0}
  BY UnitDef, FieldType
<1>1. t \in Int
  BY <1>0
<1>2. field_decode(s) = v
  BY DEF field_decode, Unit
<1>3. t = s * Unit
  OBVIOUS
<1> HIDE DEF t
<1>4. v \in Int /\ Cong(p, t, v) /\ v \in Residue
  BY <1>0, <1>1, CongMod, CongSym DEF Residue
<1> HIDE DEF v
<1> QED
  BY <1>2, <1>3, <1>4 DEF Means

(* Two elements are equal exactly if they mean the same number.               *)
LEMMA MeansEq ==
  ASSUME GroupOK, NEW s \in Residue, NEW v, NEW t \in Residue, NEW w,
         Means(s, v), Means(t, w)
  PROVE  s = t <=> Cong(p, v, w)
<1>0. /\ s \in Int /\ v \in Int /\ Cong(p, s * Unit, v) /\ t \in Int /\ w \in Int
      /\ Cong(p, t * Unit, w) /\ Unit \in Int /\ p \in Nat \ {0}
      /\ s \in 0 .. p - 1 /\ t \in 0 .. p - 1 /\ PrimeField(p)
  BY FieldType, ResidueType, UnitDef DEF Means
<1>1. ASSUME s = t PROVE Cong(p, v, w)
  BY <1>0, <1>1, CongSym, CongTrans
<1>2. ASSUME Cong(p, v, w) PROVE s = t
  <2>1. Cong(p, s * Unit, t * Unit)
    BY <1>0, <1>2, CongSym, CongTrans
  <2>2. s * Unit = Unit * s /\ t * Unit = Unit * t
    BY <1>0
  <2>3. Cong(p, Unit * s, Unit * t)
    BY <2>1, <2>2
  <2>4. Cong(p, s, t)
    BY <1>0, <2>3, UnitDef, Cancel
  <2> QED
    BY <1>0, <2>4, CongSmall
<1> QED
  BY <1>1, <1>2

LEMMA MeansDecodeIs ==
  ASSUME GroupOK, NEW s, NEW v \in Residue, Means(s, v)
  PROVE  field_decode(s) = v
<1>0. s \in Int /\ v \in Int /\ Cong(p, s * Unit, v)
  BY DEF Means
<1>1. Cong(p, s * Unit, field_decode(s)) /\ field_decode(s) \in Residue
  BY <1>0, MeansDecode DEF Means
<1>2. Cong(p, field_decode(s), v)
  BY <1>0, <1>1, CongSym, CongTrans
<1> QED
  BY <1>1, <1>2, FieldType, CongSmall DEF Residue

LEMMA MeansZero ==
  ASSUME GroupOK, NEW s \in Residue, NEW v, Means(s, v)
  PROVE  s = 0 <=> ~Nonzero(p, v)
<1>1. 0 * Unit = 0 /\ Cong(p, 0, 0) /\ 0 \in Residue
  BY UnitDef, FieldType, CongRefl DEF Residue
<1>2. Means(0, 0)
  BY <1>1 DEF Means
<1> QED
  BY <1>1, <1>2, MeansEq DEF Nonzero

LEMMA MeansHalve ==
  ASSUME GroupOK, NEW n \in Residue, NEW v \in Int, Means(n, 2 * v)
  PROVE  Means(Halve(n), v) /\ Halve(n) \in Residue
<1> DEFINE h == Halve(n)
<1>0. /\ n \in 0 .. p - 1 /\ n \in Int /\ p \in Nat \ {0} /\ p \in Int /\ p % 2 = 1
      /\ PrimeField(p) /\ Unit \in Int
  BY FieldType, ResidueType, UnitDef
<1>1. /\ h \in 0 .. p - 1 /\ h \in Int
      /\ 2 * h = n \/ 2 * h = n + p
  BY <1>0 DEF Halve
<1> HIDE DEF h
<1>2. Cong(p, 2 * h, n)
  <2>1. 2 * h = n + p * 0 \/ 2 * h = n + p * 1
    BY <1>0, <1>1
  <2>2. 2 * h \in Int /\ 0 \in Int /\ 1 \in Int
    BY <1>1
  <2> DEFINE t == 2 * h
  <2>3. t \in Int /\ (t = n + p * 0 \/ t = n + p * 1)
    BY <2>1, <2>2
  <2> HIDE DEF t
  <2>4. Cong(p, t, n)
    BY <1>0, <2>2, <2>3, CongFrom
  <2> QED BY <2>4 DEF t
<1> DEFINE a == h * Unit
           c == (2 * h) * Unit
           e == 2 * v
           nu == n * Unit
<1>3. a \in Int /\ c \in Int /\ c = 2 * a /\ e \in Int /\ 2 * h \in Int
  BY <1>0, <1>1, SMT
<1>4. Cong(p, c, nu)
  BY <1>0, <1>2, <1>3, CongMul, CongRefl
<1>5. Cong(p, nu, e)
  BY DEF Means
<1> HIDE DEF a, c, nu
<1>6. Cong(p, 2 * a, 2 * v)
  BY <1>3, <1>4, <1>5, CongTrans
<1>7. Cong(p, a, v)
  BY <1>0, <1>3, <1>6, NonzeroSmall, Cancel
<1>8. Means(h, v) /\ h \in Residue
  BY <1>1, <1>7 DEF Means, Residue, a
<1> QED
  BY <1>8 DEF h

(* The curve's coefficients.                                                  *)
A == field_decode(group.a)
B == field_decode(group.b)

LEMMA Coefficients ==
  ASSUME GroupOK
  PROVE  /\ A \in Residue /\ A \in Int /\ Means(group.a, A)
         /\ B \in Residue /\ B \in Int /\ Means(group.b, B)
         /\ group.a \in Int /\ group.b \in Int
         /\ group.a_is_minus3 => Cong(p, A, -3)
<1>1. group.a \in Residue /\ group.b \in Residue
  BY DEF GroupOK
<1>2. group.a \in Int /\ group.b \in Int
  BY <1>1, ResidueType
<1> QED
  BY <1>2, MeansDecode DEF GroupOK, A, B

-------------------------------------------------------------------------------
(* Points. Of an affine point <<x, y>> the Jacobian coordinates with a given  *)
(* z mean x*z^2, y*z^3 and z.                                                 *)

Point == [X : Residue, Y : Residue, Z : Residue, Z_is_one : BOOLEAN]

PointOK(P) == P \in Point /\ (P.Z_is_one => P.Z = field_encode(1))

Stands(P, x, y, z) ==
  /\ x \in Int /\ y \in Int /\ z \in Int /\ Nonzero(p, z)
  /\ Means(P.X, x * z * z) /\ Means(P.Y, y * z * z * z) /\ Means(P.Z, z)
  /\ P.Z_is_one => z = 1

(* The double of a point, before its z is divided out.                        *)
Tangent(x) == 3 * x * x + A
DoubleX(x, y) == Tangent(x) * Tangent(x) - 8 * x * y * y
DoubleY(x, y) == Tangent(x) * (4 * x * y * y - DoubleX(x, y)) - 8 * y * y * y * y

LEMMA PointType ==
  ASSUME GroupOK, NEW P, PointOK(P)
  PROVE  /\ P.X \in Residue /\ P.Y \in Residue /\ P.Z \in Residue /\ P.Z_is_one \in BOOLEAN
         /\ P.X \in Int /\ P.Y \in Int /\ P.Z \in Int
BY ResidueType DEF PointOK, Point

LEMMA PolyType ==
  ASSUME GroupOK, NEW x \in Int, NEW y \in Int
  PROVE  Tangent(x) \in Int /\ DoubleX(x, y) \in Int /\ DoubleY(x, y) \in Int
<1>0. A \in Int
  BY Coefficients
<1>1. Tangent(x) \in Int
  BY <1>0 DEF Tangent
<1>2. DoubleX(x, y) \in Int
  BY <1>1 DEF DoubleX
<1> QED
  BY <1>1, <1>2 DEF DoubleY

LEMMA DblSlope ==
  ASSUME GroupOK, NEW P, PointOK(P), NEW x, NEW y, NEW z, Stands(P, x, y, z), NEW n1,
         n1 = (LET ZZ == field_sqr(P.Z)
               IN IF P.Z_is_one THEN (3 * field_sqr(P.X) + group.a) % p
                  ELSE IF group.a_is_minus3
                       THEN (3 * field_mul((P.X + ZZ) % p, (P.X - ZZ) % p)) % p
                  ELSE (3 * field_sqr(P.X) + field_mul(field_sqr(ZZ), group.a)) % p)
  PROVE  Means(n1, Tangent(x) * (z * z * z * z)) /\ n1 \in Residue
<1> DEFINE xs == x * z * z
           zz == z * z
           ZZ == field_sqr(P.Z)
           XX == field_sqr(P.X)
           l == Tangent(x) * (z * z * z * z)
<1>0. /\ x \in Int /\ z \in Int /\ A \in Int /\ xs \in Int /\ zz \in Int /\ l \in Int
      /\ Means(group.a, A)
  <2>1. x \in Int /\ y \in Int /\ z \in Int
    BY DEF Stands
  <2>2. Tangent(x) \in Int
    BY <2>1, PolyType
  <2> QED BY <2>1, <2>2, Coefficients
<1>1. Means(P.X, xs) /\ Means(P.Z, z) /\ (P.Z_is_one => z = 1)
  BY DEF Stands
<1>2. l = 3 * (xs * xs) + zz * zz * A
  BY <1>0 DEF Tangent
<1>3. CASE P.Z_is_one
  <2>1. n1 = (3 * XX + group.a) % p
    BY <1>3
  <2>2. z = 1
    BY <1>1, <1>3
  <2>3. l = 3 * (xs * xs) + A
    <3>1. zz = 1
      BY <2>2
    <3> HIDE DEF l, xs, zz
    <3> QED BY <1>0, <1>2, <3>1
  <2> HIDE DEF xs, l
  <2>4. Means(XX, xs * xs)
    BY <1>1, MeansSqr
  <2> HIDE DEF XX
  <2>5. Means(3 * XX, 3 * (xs * xs))
    BY <2>4, MeansScale
  <2>6. Means(3 * XX + group.a, l)
    BY <2>5, <2>3, <1>0, MeansAdd
  <2> QED
    BY <2>1, <2>6, MeansMod DEF l
<1>4. CASE ~P.Z_is_one /\ group.a_is_minus3
  <2> DEFINE s == (P.X + ZZ) % p
             t == (P.X - ZZ) % p
  <2>1. n1 = (3 * field_mul(s, t)) % p
    BY <1>4
  <2>2. Cong(p, A, -3)
    BY <1>4, Coefficients
  <2> HIDE DEF xs
  <2>3. Means(ZZ, zz)
    BY <1>1, MeansSqr
  <2> HIDE DEF ZZ, zz
  <2>4. Means(s, xs + zz) /\ Means(t, xs - zz)
    BY <1>1, <2>3, MeansAdd, MeansMod
  <2> HIDE DEF s, t
  <2> DEFINE e == (xs + zz) * (xs - zz)
             f == zz * zz
  <2>5. Means(field_mul(s, t), e)
    BY <2>4, MeansMul
  <2>5a. Means(3 * field_mul(s, t), 3 * e)
    BY <2>5, MeansScale
  <2>6. Means(n1, 3 * e) /\ n1 \in Residue
    BY <2>1, <2>5a, MeansMod
  <2>7. e \in Int /\ f \in Int /\ 3 * e = 3 * (xs * xs) + f * (-3) /\ l = 3 * (xs * xs) + f * A
    <3> HIDE DEF l
    <3> QED BY <1>0, <1>2
  <2> DEFINE g == xs * xs
  <2>8. g \in Int /\ 3 * e = 3 * g + f * (-3) /\ l = 3 * g + f * A
    BY <2>7, <1>0
  <2> HIDE DEF e, f, g, l
  <2>9. Cong(p, f * (-3), f * A)
    <3>1. Cong(p, -3, A) /\ -3 \in Int
      BY <2>2, CongSym
    <3> QED BY <1>0, <2>7, <3>1, FieldType, CongScale
  <2>10. Cong(p, 3 * g + f * (-3), 3 * g + f * A)
    <3> DEFINE a == f * (-3)
               b == f * A
               c == 3 * g
    <3>1. a \in Int /\ b \in Int /\ c \in Int /\ Cong(p, a, b)
      BY <1>0, <2>7, <2>8, <2>9
    <3> HIDE DEF a, b, c
    <3>2. Cong(p, c + a, c + b)
      BY <3>1, FieldType, CongScale
    <3> QED BY <3>2 DEF a, b, c
  <2>11. Means(n1, l)
    BY <1>0, <2>6, <2>8, <2>10, MeansCong
  <2> QED
    BY <2>6, <2>11 DEF l
<1>5. CASE ~P.Z_is_one /\ ~group.a_is_minus3
  <2> DEFINE ZZZZ == field_sqr(ZZ)
  <2>1. n1 = (3 * XX + field_mul(ZZZZ, group.a)) % p
    BY <1>5
  <2> HIDE DEF xs
  <2>2. Means(ZZ, zz) /\ Means(XX, xs * xs)
    BY <1>1, MeansSqr
  <2> HIDE DEF ZZ, zz, XX
  <2>3. Means(ZZZZ, zz * zz)
    BY <2>2, MeansSqr
  <2> HIDE DEF ZZZZ
  <2>4. Means(field_mul(ZZZZ, group.a), zz * zz * A)
    BY <2>3, <1>0, MeansMul
  <2>5. Means(3 * XX, 3 * (xs * xs))
    BY <2>2, MeansScale
  <2> HIDE DEF l
  <2>6. Means(3 * XX + field_mul(ZZZZ, group.a), l)
    BY <2>4, <2>5, <1>2, MeansAdd
  <2>7. Means(n1, l) /\ n1 \in Residue
    BY <2>1, <2>6, MeansMod
  <2> QED BY <2>7 DEF l
<1> QED
  BY <1>3, <1>4, <1>5

LEMMA DblMeans ==
  ASSUME GroupOK, NEW R, NEW P, PointOK(P), ~is_at_infinity(P),
         NEW x, NEW y, NEW z, Stands(P, x, y, z), NEW w, w = z * z * z * z
  PROVE  /\ dbl(R, P) \in Point /\ dbl(R, P).Z_is_one = FALSE
         /\ Means(dbl(R, P).X, DoubleX(x, y) * w * w)
         /\ Means(dbl(R, P).Y, DoubleY(x, y) * w * w * w)
         /\ Means(dbl(R, P).Z, 2 * y * w)
<1> DEFINE n1 == LET ZZ == field_sqr(P.Z)
                 IN IF P.Z_is_one THEN (3 * field_sqr(P.X) + group.a) % p
                    ELSE IF group.a_is_minus3
                         THEN (3 * field_mul((P.X + ZZ) % p, (P.X - ZZ) % p)) % p
                    ELSE (3 * field_sqr(P.X) + field_mul(field_sqr(ZZ), group.a)) % p
           YY == field_sqr(P.Y)
           XYY == field_mul(P.X, YY)
           n2 == (4 * XYY) % p
           NN == field_sqr(n1)
           X == (NN - 2 * n2) % p
           M == field_mul(n1, n2 - X)
           YYYY == field_sqr(YY)
           Y == (M - 8 * YYYY) % p
           YZ == IF P.Z_is_one THEN P.Y ELSE field_mul(P.Y, P.Z)
           Z == (2 * YZ) % p
           D == dbl(R, P)
<1>1. D = [X |-> X, Y |-> Y, Z |-> Z, Z_is_one |-> FALSE]
  BY DEF dbl
<1> DEFINE l == Tangent(x)
           dx == DoubleX(x, y)
           dy == DoubleY(x, y)
           xs == x * z * z
           ys == y * z * z * z
           e2 == 4 * (xs * (ys * ys))
           eX == dx * w * w
           eY == dy * w * w * w
           eZ == 2 * y * w
<1>2. /\ x \in Int /\ y \in Int /\ z \in Int /\ w \in Int
      /\ l \in Int /\ dx \in Int /\ dy \in Int /\ xs \in Int /\ ys \in Int
  <2>1. x \in Int /\ y \in Int /\ z \in Int
    BY DEF Stands
  <2> QED BY <2>1, PolyType
<1>3. Means(P.X, xs) /\ Means(P.Y, ys) /\ Means(P.Z, z) /\ (P.Z_is_one => z = 1)
  BY DEF Stands
<1>4. Means(n1, l * w)
  <2>1. Means(n1, Tangent(x) * (z * z * z * z))
    BY DblSlope
  <2> QED BY <2>1
<1>5. /\ dx = l * l - 8 * x * y * y
      /\ dy = l * (4 * x * y * y - dx) - 8 * y * y * y * y
  BY DEF DoubleX, DoubleY
<1> HIDE DEF n1, D, l, dx, dy
<1>6. e2 = 4 * x * y * y * w * w
  BY <1>2, SMT
<1>7. eX = (l * w) * (l * w) - 2 * e2
  <2> HIDE DEF e2
  <2> QED BY <1>2, <1>5, <1>6, SMT
<1>8. eY = (l * w) * (e2 - eX) - 8 * ((ys * ys) * (ys * ys))
  <2>1. (ys * ys) * (ys * ys) = y * y * y * y * w * w * w
    BY <1>2, SMT
  <2>2. e2 - eX = (4 * x * y * y - dx) * w * w
    <3> HIDE DEF e2
    <3> QED BY <1>2, <1>6, SMT
  <2> DEFINE h == (ys * ys) * (ys * ys)
             t == e2 - eX
             k == 4 * x * y * y - dx
             y4 == y * y * y * y
  <2>3. /\ h = y4 * w * w * w /\ t = k * w * w /\ dy = l * k - 8 * y4
        /\ h \in Int /\ t \in Int /\ k \in Int /\ y4 \in Int
    <3>1. e2 \in Int /\ eX \in Int
      BY <1>2
    <3> HIDE DEF e2, eX
    <3> QED BY <1>2, <1>5, <2>1, <2>2, <3>1, SMT
  <2> HIDE DEF h, t, k, y4
  <2>4. dy * w * w * w = (l * w) * t - 8 * h
    BY <1>2, <2>3, SMT
  <2> QED BY <2>4 DEF h, t
<1>9. eX \in Int /\ eY \in Int /\ eZ \in Int /\ e2 \in Int
  BY <1>2, SMT
<1>10. eZ = 2 * (IF P.Z_is_one THEN ys ELSE ys * z)
  <2>1. CASE P.Z_is_one
    <3>1. z = 1 /\ w = 1 /\ ys = y /\ eZ = 2 * y
      <4>1. z = 1
        BY <1>3, <2>1
      <4>2. w = 1 /\ ys = y
        BY <1>2, <4>1
      <4> HIDE DEF ys
      <4> QED BY <1>2, <4>1, <4>2
    <3> QED BY <2>1, <3>1
  <2>2. CASE ~P.Z_is_one
    <3>1. eZ = 2 * (ys * z)
      BY <1>2, SMT
    <3> QED BY <2>2, <3>1
  <2> QED BY <2>1, <2>2
<1> HIDE DEF xs, ys, eX, eY, eZ
<1>11. Means(YY, ys * ys)
  BY <1>3, MeansSqr
<1>12. Means(XYY, xs * (ys * ys))
  BY <1>3, <1>11, MeansMul
<1> HIDE DEF YY, XYY
<1>13. Means(n2, e2) /\ n2 \in Residue
  BY <1>12, MeansScale, MeansMod
<1> HIDE DEF n2, e2
<1>14. Means(NN, (l * w) * (l * w)) /\ Means(2 * n2, 2 * e2)
  BY <1>4, <1>13, MeansSqr, MeansScale
<1>15. Means(NN - 2 * n2, eX)
  BY <1>14, <1>7, MeansAdd
<1>16. Means(X, eX) /\ X \in Residue
  BY <1>15, MeansMod
<1> HIDE DEF NN, X
<1>17. Means(n2 - X, e2 - eX)
  BY <1>13, <1>16, MeansAdd
<1>18. Means(M, (l * w) * (e2 - eX))
  BY <1>4, <1>17, MeansMul
<1>19. Means(YYYY, (ys * ys) * (ys * ys))
  BY <1>11, MeansSqr DEF YY
<1>20. Means(8 * YYYY, 8 * ((ys * ys) * (ys * ys)))
  BY <1>19, MeansScale
<1> HIDE DEF M, YYYY
<1>21. Means(M - 8 * YYYY, eY)
  BY <1>18, <1>20, <1>8, MeansAdd
<1>22. Means(Y, eY) /\ Y \in Residue
  BY <1>21, MeansMod
<1> HIDE DEF Y
<1>23. Means(YZ, IF P.Z_is_one THEN ys ELSE ys * z)
  BY <1>3, MeansMul
<1> HIDE DEF YZ
<1> DEFINE yz == IF P.Z_is_one THEN ys ELSE ys * z
<1>24. Means(2 * YZ, 2 * yz)
  BY <1>23, MeansScale
<1>25. Means(Z, eZ) /\ Z \in Residue
  BY <1>24, <1>10, MeansMod
<1> HIDE DEF Z, yz
<1>26. D \in Point /\ D.Z_is_one = FALSE /\ D.X = X /\ D.Y = Y /\ D.Z = Z
  BY <1>1, <1>16, <1>22, <1>25 DEF Point
<1> QED
  BY <1>16, <1>22, <1>25, <1>26 DEF D, dx, dy, eX, eY, eZ

(* The sum of two points with different x, before its z is divided out.       *)
ChordX(x1, y1, x2, y2) ==
  (y1 - y2) * (y1 - y2) - (x1 + x2) * ((x1 - x2) * (x1 - x2))
ChordY(x1, y1, x2, y2) ==
  (y1 - y2) * (x1 * ((x1 - x2) * (x1 - x2)) - ChordX(x1, y1, x2, y2))
    - y1 * ((x1 - x2) * (x1 - x2) * (x1 - x2))

LEMMA ScaledMeans ==
  ASSUME GroupOK, NEW P, PointOK(P), NEW Q, PointOK(Q),
         NEW x1, NEW y1, NEW z1, NEW x2, NEW y2, NEW z2,
         Stands(P, x1, y1, z1), Stands(Q, x2, y2, z2), NEW q, q = z1 * z2
  PROVE  /\ Means(Scaled(P, Q)[1], x1 * q * q) /\ Means(Scaled(P, Q)[2], y1 * q * q * q)
         /\ Scaled(P, Q)[1] \in Residue /\ Scaled(P, Q)[2] \in Residue
         /\ Scaled(P, Q) = <<Scaled(P, Q)[1], Scaled(P, Q)[2]>>
<1> DEFINE xs == x1 * z1 * z1
           ys == y1 * z1 * z1 * z1
           zz == z2 * z2
           ex == x1 * q * q
           ey == y1 * q * q * q
           ZZ == field_sqr(Q.Z)
           ZZZ == field_mul(ZZ, Q.Z)
           S == Scaled(P, Q)
<1>1. x1 \in Int /\ y1 \in Int /\ z1 \in Int /\ z2 \in Int /\ q \in Int
  BY DEF Stands
<1>2. /\ Means(P.X, xs) /\ Means(P.Y, ys) /\ Means(Q.Z, z2) /\ (Q.Z_is_one => z2 = 1)
  BY DEF Stands
<1>3. P.X \in Residue /\ P.Y \in Residue
  BY PointType
<1>4. ex = xs * zz /\ ey = ys * (zz * z2)
  BY <1>1, SMT
<1>5. CASE Q.Z_is_one
  <2>1. S = <<P.X, P.Y>>
    BY <1>5 DEF Scaled
  <2>2. ex = xs /\ ey = ys
    <3>1. z2 = 1 /\ q = z1
      BY <1>1, <1>2, <1>5
    <3> QED BY <3>1
  <2> HIDE DEF S, ex, ey, xs, ys
  <2>3. /\ Means(S[1], ex) /\ Means(S[2], ey) /\ S[1] \in Residue /\ S[2] \in Residue
        /\ S = <<S[1], S[2]>>
    BY <2>1, <2>2, <1>2, <1>3
  <2> QED BY <2>3 DEF S, ex, ey
<1>6. CASE ~Q.Z_is_one
  <2> DEFINE u == field_mul(P.X, ZZ)
             v == field_mul(P.Y, ZZZ)
  <2>1. S = <<u, v>>
    BY <1>6 DEF Scaled
  <2> HIDE DEF S, ex, ey, xs, ys
  <2>2. Means(ZZ, zz)
    BY <1>2, MeansSqr
  <2> HIDE DEF ZZ, zz
  <2>3. Means(ZZZ, zz * z2)
    BY <1>2, <2>2, MeansMul
  <2> HIDE DEF ZZZ
  <2>4. Means(u, xs * zz) /\ u \in Residue /\ Means(v, ys * (zz * z2)) /\ v \in Residue
    BY <1>2, <2>2, <2>3, MeansMul
  <2> HIDE DEF u, v
  <2>5. /\ Means(S[1], ex) /\ Means(S[2], ey) /\ S[1] \in Residue /\ S[2] \in Residue
        /\ S = <<S[1], S[2]>>
    BY <2>1, <2>4, <1>4
  <2> QED BY <2>5 DEF S, ex, ey
<1> QED
  BY <1>5, <1>6

LEMMA AddMeans ==
  ASSUME GroupOK, NEW R, NEW P, PointOK(P), NEW Q, PointOK(Q),
         ~is_at_infinity(P), ~is_at_infinity(Q),
         NEW x1, NEW y1, NEW z1, NEW x2, NEW y2, NEW z2,
         Stands(P, x1, y1, z1), Stands(Q, x2, y2, z2),
         NEW r, r = (z1 * z2) * (z1 * z2) * (z1 * z2)
  PROVE  /\ Cong(p, x1, x2) /\ Cong(p, y1, y2) => add(R, P, Q) = dbl(R, P)
         /\ Cong(p, x1, x2) /\ ~Cong(p, y1, y2) => add(R, P, Q) = set_to_infinity(R)
         /\ ~Cong(p, x1, x2) =>
              /\ add(R, P, Q) \in Point /\ add(R, P, Q).Z_is_one = FALSE
              /\ Means(add(R, P, Q).X, ChordX(x1, y1, x2, y2) * r * r)
              /\ Means(add(R, P, Q).Y, ChordY(x1, y1, x2, y2) * r * r * r)
              /\ Means(add(R, P, Q).Z, (x1 - x2) * r)
<1> DEFINE s == Scaled(P, Q)
           t == Scaled(Q, P)
           n5 == (s[1] - t[1]) % p
           n6 == (s[2] - t[2]) % p
           n7 == (s[1] + t[1]) % p
           n8 == (s[2] + t[2]) % p
           ZZ == field_mul(P.Z, Q.Z)
           Z == IF P.Z_is_one /\ Q.Z_is_one THEN n5
                ELSE field_mul(IF P.Z_is_one THEN Q.Z ELSE IF Q.Z_is_one THEN P.Z
                               ELSE ZZ, n5)
           n5sqr == field_sqr(n5)
           n3 == field_mul(n7, n5sqr)
           n6sqr == field_sqr(n6)
           X == (n6sqr - n3) % p
           n5cube == field_mul(n5sqr, n5)
           n32 == (n3 - 2 * X) % p
           M == field_mul(n32, n6)
           N == field_mul(n8, n5cube)
           YY == (M - N) % p
           Y == Halve(YY)
           S == add(R, P, Q)
<1>1. S = IF n5 = 0 THEN IF n6 = 0 THEN dbl(R, P) ELSE set_to_infinity(R)
          ELSE [X |-> X, Z |-> Z, Z_is_one |-> FALSE, Y |-> Y]
  BY DEF add
<1> DEFINE q == z1 * z2
           dx == x1 - x2
           dy == y1 - y2
           sx == x1 + x2
           sy == y1 + y2
           cx == ChordX(x1, y1, x2, y2)
           cy == ChordY(x1, y1, x2, y2)
           e5 == dx * q * q
           e6 == dy * q * q * q
           e7 == sx * q * q
           e8 == sy * q * q * q
           e3 == e7 * (e5 * e5)
           eX == cx * r * r
           eY == cy * r * r * r
           eZ == dx * r
<1>2. /\ x1 \in Int /\ y1 \in Int /\ z1 \in Int /\ x2 \in Int /\ y2 \in Int /\ z2 \in Int
      /\ Nonzero(p, z1) /\ Nonzero(p, z2) /\ Means(P.Z, z1) /\ Means(Q.Z, z2)
      /\ (P.Z_is_one => z1 = 1) /\ (Q.Z_is_one => z2 = 1)
  BY DEF Stands
<1>3. /\ q \in Int /\ q = z1 * z2 /\ q = z2 * z1 /\ r = q * q * q /\ r \in Int
      /\ dx \in Int /\ dy \in Int /\ sx \in Int /\ sy \in Int
  BY <1>2
<1>4. Nonzero(p, q)
  BY <1>2, FieldType, NonzeroProduct
<1>5. /\ Means(s[1], x1 * q * q) /\ Means(s[2], y1 * q * q * q)
      /\ Means(t[1], x2 * q * q) /\ Means(t[2], y2 * q * q * q)
  <2> HIDE DEF q, s, t
  <2>1. Means(s[1], x1 * q * q) /\ Means(s[2], y1 * q * q * q)
    BY <1>3, ScaledMeans DEF s
  <2>2. Means(t[1], x2 * q * q) /\ Means(t[2], y2 * q * q * q)
    BY <1>3, ScaledMeans DEF t
  <2> QED BY <2>1, <2>2
<1>6. /\ cx = dy * dy - sx * (dx * dx)
      /\ cy = dy * (x1 * (dx * dx) - cx) - y1 * (dx * dx * dx)
  BY DEF ChordX, ChordY
<1>7. cx \in Int /\ cy \in Int
  <2> HIDE DEF dx, dy, sx, cx, cy
  <2>1. cx \in Int
    BY <1>3, <1>6
  <2> QED BY <1>2, <1>3, <1>6, <2>1
<1>8. /\ e5 = x1 * q * q - x2 * q * q /\ e7 = x1 * q * q + x2 * q * q
      /\ e6 = y1 * q * q * q - y2 * q * q * q /\ e8 = y1 * q * q * q + y2 * q * q * q
  <2> HIDE DEF q
  <2> QED BY <1>2, <1>3, SMT
<1>9. 2 * x1 = sx + dx /\ 2 * y1 = sy + dy
  BY <1>2
<1> HIDE DEF q, s, t, S
<1>10. e5 \in Int /\ e6 \in Int /\ e7 \in Int /\ e8 \in Int /\ eX \in Int /\ eY \in Int /\ eZ \in Int
  <2> HIDE DEF dx, dy, sx, sy, cx, cy
  <2> QED BY <1>3, <1>7
<1>11. /\ Means(n5, e5) /\ n5 \in Residue /\ Means(n6, e6) /\ n6 \in Residue
       /\ Means(n7, e7) /\ n7 \in Residue /\ Means(n8, e8) /\ n8 \in Residue
  <2> HIDE DEF e5, e6, e7, e8
  <2>1. /\ Means(s[1] - t[1], e5) /\ Means(s[2] - t[2], e6)
        /\ Means(s[1] + t[1], e7) /\ Means(s[2] + t[2], e8)
    BY <1>5, <1>8, MeansAdd
  <2> QED BY <2>1, MeansMod
<1> HIDE DEF n5, n6, n7, n8
<1>12. /\ n5 = 0 <=> Cong(p, x1, x2)
       /\ n6 = 0 <=> Cong(p, y1, y2)
  <2>1. n5 = 0 <=> Cong(p, e5, 0)
    BY <1>11, MeansZero DEF Nonzero
  <2>2. n6 = 0 <=> Cong(p, e6, 0)
    BY <1>11, MeansZero DEF Nonzero
  <2> DEFINE qq == q * q
             qqq == q * q * q
  <2>3. qq \in Int /\ qqq \in Int /\ e5 = qq * dx /\ e6 = qqq * dy /\ qqq = qq * q
    <3> HIDE DEF dx, dy
    <3> QED BY <1>3, SMT
  <2>4. Nonzero(p, qq) /\ Nonzero(p, qqq)
    <3> HIDE DEF qqq
    <3>1. Nonzero(p, qq)
      BY <1>3, <1>4, FieldType, NonzeroProduct
    <3> HIDE DEF qq
    <3> QED BY <1>3, <1>4, <2>3, <3>1, FieldType, NonzeroProduct
  <2> HIDE DEF qq, qqq, e5, e6
  <2>5. Cong(p, e5, 0) <=> Cong(p, dx, 0)
    <3> HIDE DEF dx
    <3> QED BY <1>3, <2>3, <2>4, FieldType, CongFactor
  <2>6. Cong(p, e6, 0) <=> Cong(p, dy, 0)
    <3> HIDE DEF dy
    <3> QED BY <1>3, <2>3, <2>4, FieldType, CongFactor
  <2>7. Cong(p, dx, 0) <=> Cong(p, x1, x2)
    BY <1>2, FieldType, CongDifference
  <2>8. Cong(p, dy, 0) <=> Cong(p, y1, y2)
    BY <1>2, FieldType, CongDifference
  <2> QED BY <2>1, <2>2, <2>5, <2>6, <2>7, <2>8
<1>13. eX = e6 * e6 - e3
  <2> HIDE DEF dx, dy, sx, cx
  <2>1. e3 = sx * (dx * dx) * (r * r)
    BY <1>3, SMT
  <2>2. e6 * e6 = dy * dy * (r * r)
    BY <1>3, SMT
  <2> HIDE DEF e3, e6
  <2> QED BY <1>3, <1>6, <1>7, <2>1, <2>2, SMT
<1>14. 2 * eY = (e3 - 2 * eX) * e6 - e8 * ((e5 * e5) * e5)
  <2> DEFINE k == sx * (dx * dx)
             d3 == dx * dx * dx
             h == x1 * (dx * dx)
  <2>1. k \in Int /\ d3 \in Int /\ h \in Int
    <3> HIDE DEF dx, sx
    <3> QED BY <1>2, <1>3
  <2>2. /\ e3 = k * r * r /\ (e5 * e5) * e5 = d3 * r * r /\ e6 = dy * r /\ e8 = sy * r
        /\ 2 * h = k + d3
    <3> HIDE DEF dx, dy, sx, sy
    <3>1. e3 = k * r * r
      BY <1>3, SMT
    <3>2. (e5 * e5) * e5 = d3 * r * r
      BY <1>3, SMT
    <3>3. e6 = dy * r /\ e8 = sy * r
      BY <1>3, SMT
    <3>4. 2 * h = k + d3
      <4>1. (2 * x1) * (dx * dx) = k + d3
        BY <1>3, <1>9, SMT
      <4>2. (2 * x1) * (dx * dx) = 2 * h
        BY <1>2, <1>3, SMT
      <4> QED BY <4>1, <4>2
    <3> QED BY <3>1, <3>2, <3>3, <3>4
  <2> DEFINE e55 == (e5 * e5) * e5
  <2>3. cx = dy * dy - k /\ cy = dy * (h - cx) - y1 * d3
    BY <1>6
  <2> HIDE DEF dx, dy, sx, sy, cx, cy, k, d3, h, e3, e6, e8
  <2>4. 2 * cy = dy * (k + d3 - 2 * cx) - (sy + dy) * d3
    BY <1>2, <1>3, <1>7, <1>9, <2>1, <2>2, <2>3, SMT
  <2>5. 2 * cy = (k - 2 * cx) * dy - sy * d3
    BY <1>2, <1>3, <1>7, <2>1, <2>4, SMT
  <2>6. (k * r * r - 2 * (cx * r * r)) * (dy * r) - (sy * r) * (d3 * r * r)
          = ((k - 2 * cx) * dy - sy * d3) * (r * r * r)
    BY <1>3, <1>7, <2>1, SMT
  <2>7. 2 * (cy * r * r * r) = (2 * cy) * (r * r * r)
    BY <1>3, <1>7, SMT
  <2> QED BY <2>2, <2>5, <2>6, <2>7
<1>15. eZ = IF P.Z_is_one /\ Q.Z_is_one THEN e5
            ELSE (IF P.Z_is_one THEN z2 ELSE IF Q.Z_is_one THEN z1 ELSE q) * e5
  <2> HIDE DEF dx
  <2>1. eZ = q * e5
    BY <1>3, SMT
  <2> HIDE DEF eZ, e5
  <2>2. /\ P.Z_is_one => q = z2
        /\ Q.Z_is_one => q = z1
        /\ P.Z_is_one /\ Q.Z_is_one => q = 1
    BY <1>2, <1>3
  <2>3. 1 * e5 = e5
    BY <1>10
  <2> QED BY <2>1, <2>2, <2>3
<1> HIDE DEF dx, dy, sx, sy, cx, cy, e5, e6, e7, e8, eX, eY, eZ
<1>16. Means(n5sqr, e5 * e5) /\ Means(n6sqr, e6 * e6)
  BY <1>11, MeansSqr
<1> HIDE DEF n5sqr, n6sqr
<1>17. Means(n3, e3)
  BY <1>11, <1>16, MeansMul
<1>18. Means(n5cube, (e5 * e5) * e5)
  BY <1>11, <1>16, MeansMul
<1> HIDE DEF n3, n5cube, e3
<1>19. Means(n6sqr - n3, eX)
  BY <1>16, <1>17, <1>13, MeansAdd
<1>20. Means(X, eX) /\ X \in Residue
  BY <1>19, MeansMod
<1> HIDE DEF X
<1>21. Means(2 * X, 2 * eX)
  BY <1>20, MeansScale
<1>22. Means(n3 - 2 * X, e3 - 2 * eX)
  BY <1>17, <1>21, MeansAdd
<1>23. Means(n32, e3 - 2 * eX)
  BY <1>22, MeansMod
<1> HIDE DEF n32
<1>24. Means(M, (e3 - 2 * eX) * e6)
  BY <1>11, <1>23, MeansMul
<1>25. Means(N, e8 * ((e5 * e5) * e5))
  BY <1>11, <1>18, MeansMul
<1> HIDE DEF M, N
<1>26. Means(M - N, 2 * eY)
  BY <1>24, <1>25, <1>14, MeansAdd
<1>27. Means(YY, 2 * eY) /\ YY \in Residue
  BY <1>26, MeansMod
<1> HIDE DEF YY
<1>28. Means(Y, eY) /\ Y \in Residue
  BY <1>10, <1>27, MeansHalve
<1>29. Means(ZZ, q)
  BY <1>2, <1>3, MeansMul
<1> HIDE DEF Y, ZZ
<1>30. Means(Z, eZ) /\ Z \in Residue
  <2>1. CASE P.Z_is_one /\ Q.Z_is_one
    BY <1>11, <1>15, <2>1
  <2>2. CASE ~(P.Z_is_one /\ Q.Z_is_one)
    <3> DEFINE V == IF P.Z_is_one THEN Q.Z ELSE IF Q.Z_is_one THEN P.Z ELSE ZZ
               v == IF P.Z_is_one THEN z2 ELSE IF Q.Z_is_one THEN z1 ELSE q
    <3>1. Means(V, v)
      BY <1>2, <1>29
    <3>2. Z = field_mul(V, n5) /\ eZ = v * e5
      BY <1>15, <2>2
    <3> HIDE DEF V, v, Z
    <3> QED BY <1>11, <3>1, <3>2, MeansMul
  <2> QED BY <2>1, <2>2
<1> HIDE DEF Z
<1>31. ASSUME ~Cong(p, x1, x2)
       PROVE  /\ S \in Point /\ S.Z_is_one = FALSE /\ Means(S.X, eX) /\ Means(S.Y, eY)
              /\ Means(S.Z, eZ)
  <2>1. S = [X |-> X, Z |-> Z, Z_is_one |-> FALSE, Y |-> Y]
    BY <1>1, <1>12, <1>31
  <2> QED BY <2>1, <1>20, <1>28, <1>30 DEF Point
<1>32. /\ Cong(p, x1, x2) /\ Cong(p, y1, y2) => S = dbl(R, P)
       /\ Cong(p, x1, x2) /\ ~Cong(p, y1, y2) => S = set_to_infinity(R)
  BY <1>1, <1>12
<1> QED
  BY <1>31, <1>32 DEF S, eX, eY, eZ, cx, cy, dx

-------------------------------------------------------------------------------
(* The affine point of Jacobian coordinates.                                  *)

(* A number that is not encoded stays out of the form when it multiplies an   *)
(* element.                                                                   *)
LEMMA MulByNumber ==
  ASSUME GroupOK, NEW s, NEW v, Means(s, v), NEW k \in Int
  PROVE  Cong(p, field_mul(s, k), v * k) /\ field_mul(s, k) \in Residue
<1> DEFINE a == s * Unit
           n == s * k * Unit
           vk == v * k
<1>0. s \in Int /\ v \in Int /\ Cong(p, a, v) /\ Unit \in Int /\ p \in Nat \ {0}
  BY FieldType, UnitDef DEF Means
<1>1. a \in Int /\ n \in Int /\ n = a * k /\ vk \in Int
  BY <1>0, SMT
<1>2. field_mul(s, k) = n % p
  BY DEF field_mul, Unit
<1> HIDE DEF a, n
<1>3. Cong(p, n, vk)
  BY <1>0, <1>1, CongScale
<1>4. Cong(p, n % p, n) /\ n % p \in Residue
  BY <1>0, <1>1, CongMod DEF Residue
<1> QED
  BY <1>2, <1>3, <1>4, CongTrans

(* z and its inverse i, squared as get_affine does.                           *)
LEMMA InverseSquares ==
  ASSUME GroupOK, NEW z \in Int, NEW i \in Int, Cong(p, z * i, 1), NEW x \in Int
  PROVE  /\ (i * i) % p \in Int /\ (((i * i) % p) * i) % p \in Int
         /\ Cong(p, x * z * z * ((i * i) % p), x)
         /\ Cong(p, x * z * z * z * ((((i * i) % p) * i) % p), x)
         /\ Cong(p, x * ((i * i) % p) * z * z, x)
         /\ Cong(p, x * ((((i * i) % p) * i) % p) * z * z * z, x)
<1>0. p \in Nat \ {0}
  BY FieldType
<1> DEFINE ii == i * i
           j == ii % p
           ji == j * i
           k == ji % p
           iii == ii * i
           t == z * i
<1>1. ii \in Int /\ iii \in Int /\ t \in Int /\ Cong(p, t, 1)
  OBVIOUS
<1>2. j \in Int /\ Cong(p, j, ii)
  <2> HIDE DEF ii
  <2> QED BY <1>0, <1>1, CongMod
<1>3. ji \in Int /\ Cong(p, ji, iii)
  <2> HIDE DEF ii, j
  <2>1. Cong(p, j * i, ii * i)
    BY <1>0, <1>1, <1>2, CongScale
  <2>2. j * i \in Int
    BY <1>2
  <2> QED BY <2>1, <2>2
<1>4. k \in Int /\ Cong(p, k, iii)
  <2> HIDE DEF ji, iii
  <2> QED BY <1>0, <1>1, <1>3, CongMod, CongTrans
<1> DEFINE tt == t * t
           ttt == tt * t
<1>5. tt \in Int /\ ttt \in Int /\ Cong(p, tt, 1) /\ Cong(p, ttt, 1)
  <2> HIDE DEF t
  <2>1. tt \in Int /\ 1 * 1 = 1 /\ 1 \in Int
    BY <1>1
  <2>2. Cong(p, tt, 1)
    <3>1. Cong(p, t * t, 1 * 1)
      BY <1>0, <1>1, <2>1, CongMul
    <3> QED BY <2>1, <3>1
  <2> HIDE DEF tt
  <2>3. Cong(p, tt * t, 1 * 1)
    BY <1>0, <1>1, <2>1, <2>2, CongMul
  <2> QED BY <1>1, <2>1, <2>2, <2>3
<1>6. x * tt \in Int /\ Cong(p, x * tt, x) /\ x * ttt \in Int /\ Cong(p, x * ttt, x)
  <2> HIDE DEF tt, ttt
  <2>1. x * 1 = x /\ 1 \in Int
    OBVIOUS
  <2>2. Cong(p, x * tt, x * 1) /\ Cong(p, x * ttt, x * 1)
    BY <1>0, <1>5, <2>1, CongScale
  <2> QED BY <1>5, <2>1, <2>2
<1> DEFINE a2 == x * z * z
           a3 == x * z * z * z
<1>7. a2 \in Int /\ a3 \in Int /\ a2 * ii = x * tt /\ a3 * iii = x * ttt
  BY SMT
<1> HIDE DEF ii, iii, tt, ttt, t
<1>8. Cong(p, a2 * j, x)
  <2> HIDE DEF a2, j
  <2>1. Cong(p, a2 * j, a2 * ii)
    BY <1>0, <1>1, <1>2, <1>7, CongScale
  <2> QED BY <2>1, <1>6, <1>7, CongTrans
<1>9. Cong(p, a3 * k, x)
  <2> HIDE DEF a3, k
  <2>1. Cong(p, a3 * k, a3 * iii)
    BY <1>0, <1>1, <1>4, <1>7, CongScale
  <2> QED BY <2>1, <1>6, <1>7, CongTrans
<1>10. x * j * z * z = a2 * j /\ x * k * z * z * z = a3 * k
  <2> HIDE DEF j, k
  <2> QED BY <1>2, <1>4, SMT
<1> QED
  BY <1>2, <1>4, <1>8, <1>9, <1>10 DEF ii

LEMMA AffineUnique ==
  ASSUME GroupOK, NEW P, PointOK(P), NEW x \in Residue, NEW y \in Residue, NEW z \in Int,
         Nonzero(p, z),
         Means(P.X, x * z * z), Means(P.Y, y * z * z * z), Means(P.Z, z)
  PROVE  ~is_at_infinity(P) /\ get_affine(P) = <<x, y>>
<1> DEFINE Z == field_decode(P.Z)
           i == BN_mod_inverse(Z)
           j == (i * i) % p
           k == (j * i) % p
           a2 == x * z * z
           a3 == y * z * z * z
<1>0. p \in Nat \ {0} /\ x \in Int /\ y \in Int /\ P.X \in Int /\ P.Y \in Int /\ P.Z \in Residue
      /\ P.Z \in Int
  BY FieldType, ResidueType, PointType
<1>1. ~is_at_infinity(P)
  BY <1>0, MeansZero DEF is_at_infinity
<1>2. Z \in Int /\ Cong(p, Z, z)
  <2>1. Means(P.Z, Z) /\ Z \in Int
    BY <1>0, MeansDecode
  <2> QED BY <1>0, <2>1, MeansEq
<1>3. Nonzero(p, Z)
  BY <1>2, NonzeroSame, CongSym
<1>4. i \in Int /\ Cong(p, Z * i, 1)
  <2> HIDE DEF Z
  <2> QED BY <1>2, <1>3, InverseDef
<1>5. get_affine(P) = IF Z = 1 THEN <<field_decode(P.X), field_decode(P.Y)>>
                      ELSE <<field_mul(P.X, j), field_mul(P.Y, k)>>
  BY DEF get_affine
<1>6. a2 \in Int /\ a3 \in Int /\ Means(P.X, a2) /\ Means(P.Y, a3)
  BY <1>0
<1>7. Cong(p, z * i, 1)
  <2> HIDE DEF Z, i
  <2>1. Cong(p, z, Z)
    BY <1>2, CongSym
  <2>2. Cong(p, z * i, Z * i)
    BY <1>0, <1>2, <1>4, <2>1, CongScale
  <2> QED BY <1>4, <2>2, CongTrans
<1>8. j \in Int /\ k \in Int /\ Cong(p, a2 * j, x) /\ Cong(p, a3 * k, y)
  <2> HIDE DEF i
  <2> QED BY <1>0, <1>4, <1>7, InverseSquares
<1>9. CASE Z = 1
  <2>1. Cong(p, z, 1)
    BY <1>2, <1>9, CongSym
  <2>2. Cong(p, a2, x) /\ Cong(p, a3, y)
    <3> DEFINE zz == z * z
               zzz == zz * z
    <3>1. zz \in Int /\ zzz \in Int /\ a2 = x * zz /\ a3 = y * zzz /\ 1 * 1 = 1 /\ 1 \in Int
          /\ x * 1 = x /\ y * 1 = y
      BY <1>0, SMT
    <3>2. Cong(p, z * z, 1 * 1)
      BY <1>0, <2>1, <3>1, CongMul
    <3> HIDE DEF a2, a3
    <3>3. Cong(p, zz, 1)
      BY <3>1, <3>2
    <3> HIDE DEF zz
    <3>4. Cong(p, zz * z, 1 * 1)
      BY <1>0, <2>1, <3>1, <3>3, CongMul
    <3>5. Cong(p, zzz, 1)
      BY <3>1, <3>4
    <3> HIDE DEF zzz
    <3>6. Cong(p, x * zz, x * 1) /\ Cong(p, y * zzz, y * 1)
      BY <1>0, <3>1, <3>3, <3>5, CongScale
    <3> QED BY <3>1, <3>6
  <2>3. Means(P.X, x) /\ Means(P.Y, y)
    BY <1>0, <1>6, <2>2, MeansCong
  <2>4. field_decode(P.X) = x /\ field_decode(P.Y) = y
    BY <2>3, MeansDecodeIs
  <2> QED BY <1>1, <1>5, <1>9, <2>4
<1>10. CASE Z # 1
  <2> HIDE DEF a2, a3, j, k, Z, i
  <2>1. Cong(p, field_mul(P.X, j), a2 * j) /\ field_mul(P.X, j) \in Residue
    BY <1>6, <1>8, MulByNumber
  <2>2. Cong(p, field_mul(P.Y, k), a3 * k) /\ field_mul(P.Y, k) \in Residue
    BY <1>6, <1>8, MulByNumber
  <2>3. field_mul(P.X, j) = x /\ field_mul(P.Y, k) = y
    BY <1>0, <1>8, <2>1, <2>2, CongTrans, CongSmall DEF Residue
  <2> QED BY <1>1, <1>5, <1>10, <2>3
<1> QED
  BY <1>9, <1>10

LEMMA AffineExists ==
  ASSUME GroupOK, NEW P, PointOK(P), ~is_at_infinity(P)
  PROVE  \E x, y \in Residue, z \in Int : get_affine(P) = <<x, y>> /\ Stands(P, x, y, z)
<1> DEFINE Z == field_decode(P.Z)
           i == BN_mod_inverse(Z)
           j == (i * i) % p
           k == (j * i) % p
           X == field_decode(P.X)
           Y == field_decode(P.Y)
<1>0. /\ p \in Nat \ {0} /\ p >= 5 /\ p \in Int
      /\ P.X \in Int /\ P.Y \in Int /\ P.Z \in Residue /\ P.Z \in Int /\ P.Z # 0
  BY FieldType, PointType DEF is_at_infinity
<1>1. /\ Means(P.Z, Z) /\ Z \in Int /\ Means(P.X, X) /\ X \in Int /\ X \in Residue
      /\ Means(P.Y, Y) /\ Y \in Int /\ Y \in Residue
  BY <1>0, MeansDecode
<1>2. Nonzero(p, Z)
  BY <1>0, <1>1, MeansZero
<1>3. P.Z_is_one => Z = 1
  <2> SUFFICES ASSUME P.Z_is_one PROVE Z = 1
    OBVIOUS
  <2>1. P.Z = field_encode(1) /\ 1 \in Int /\ 1 \in Residue
    BY <1>0 DEF PointOK, Residue
  <2>2. Means(P.Z, 1)
    BY <2>1, MeansEncode
  <2> QED BY <2>1, <2>2, MeansDecodeIs
<1>4. i \in Int /\ Cong(p, Z * i, 1)
  <2> HIDE DEF Z
  <2> QED BY <1>1, <1>2, InverseDef
<1>5. get_affine(P) = IF Z = 1 THEN <<X, Y>>
                      ELSE <<field_mul(P.X, j), field_mul(P.Y, k)>>
  BY DEF get_affine
<1>6. CASE Z = 1
  <2> HIDE DEF X, Y
  <2>1. X = X * 1 * 1 /\ Y = Y * 1 * 1 * 1
    BY <1>1
  <2>2. Stands(P, X, Y, 1)
    BY <1>1, <1>2, <1>6, <2>1 DEF Stands
  <2> QED BY <1>1, <1>5, <1>6, <2>2
<1>7. CASE Z # 1
  <2> DEFINE x == field_mul(P.X, j)
             y == field_mul(P.Y, k)
  <2> HIDE DEF i, Z, X, Y
  <2>1. /\ j \in Int /\ k \in Int
        /\ Cong(p, X * j * Z * Z, X) /\ Cong(p, Y * k * Z * Z * Z, Y)
    BY <1>1, <1>4, InverseSquares
  <2> HIDE DEF j, k
  <2>2. Cong(p, x, X * j) /\ x \in Residue /\ Cong(p, y, Y * k) /\ y \in Residue
    BY <1>1, <2>1, MulByNumber
  <2> HIDE DEF x, y
  <2>3. x \in Int /\ y \in Int
    BY <2>2, ResidueType
  <2> DEFINE xj == X * j
             yk == Y * k
             zz == Z * Z
             zzz == Z * Z * Z
  <2>4. /\ zz \in Int /\ zzz \in Int /\ xj \in Int /\ yk \in Int
        /\ xj * zz = X * j * Z * Z /\ yk * zzz = Y * k * Z * Z * Z
        /\ x * zz = x * Z * Z /\ y * zzz = y * Z * Z * Z
    BY <1>1, <2>1, <2>3, SMT
  <2>5. Cong(p, x, xj) /\ Cong(p, y, yk)
    BY <2>2
  <2> HIDE DEF xj, yk, zz, zzz
  <2>6. Cong(p, x * zz, xj * zz) /\ Cong(p, y * zzz, yk * zzz)
    BY <1>0, <2>3, <2>4, <2>5, CongScale
  <2>7. Cong(p, xj * zz, X) /\ Cong(p, yk * zzz, Y)
    BY <2>1, <2>4
  <2>8. Cong(p, X, x * zz) /\ Cong(p, Y, y * zzz)
    BY <2>6, <2>7, CongTrans, CongSym
  <2>9. x * zz \in Int /\ y * zzz \in Int
    BY <2>3, <2>4
  <2>10. Means(P.X, x * zz) /\ Means(P.Y, y * zzz)
    BY <1>1, <2>8, <2>9, MeansCong
  <2>11. Stands(P, x, y, Z)
    BY <1>1, <1>2, <1>3, <2>3, <2>4, <2>10 DEF Stands
  <2> QED BY <1>1, <1>5, <1>7, <2>2, <2>11 DEF x, y
<1> QED
  BY <1>6, <1>7

(* A point that is set from affine coordinates.                               *)
LEMMA SetAffineMeans ==
  ASSUME GroupOK, NEW x \in Int, NEW y \in Int, NEW P, P = set_Jprojective(x, y, 1)
  PROVE  /\ PointOK(P) /\ ~is_at_infinity(P)
         /\ x % p \in Residue /\ y % p \in Residue
         /\ get_affine(P) = <<x % p, y % p>>
<1> DEFINE xr == x % p
           yr == y % p
<1>0. p \in Nat \ {0} /\ p >= 5 /\ p \in Int /\ PrimeField(p)
  BY FieldType
<1>1. xr \in Residue /\ yr \in Residue /\ xr \in Int /\ yr \in Int
  BY <1>0, CongMod DEF Residue
<1>2. 1 % p = 1 /\ 1 \in Int /\ Nonzero(p, 1)
  BY <1>0, SmallMod, NonzeroSmall
<1>3. P = [X |-> field_encode(xr), Y |-> field_encode(yr), Z |-> field_encode(1), Z_is_one |-> TRUE]
  BY <1>2 DEF set_Jprojective
<1> HIDE DEF xr, yr
<1>4. /\ Means(P.X, xr) /\ Means(P.Y, yr) /\ Means(P.Z, 1)
      /\ P.X \in Residue /\ P.Y \in Residue /\ P.Z \in Residue
  BY <1>1, <1>2, <1>3, MeansEncode
<1>5. PointOK(P)
  <2> DEFINE X == field_encode(xr)
             Y == field_encode(yr)
             Z == field_encode(1)
  <2>1. P = [X |-> X, Y |-> Y, Z |-> Z, Z_is_one |-> TRUE]
    BY <1>3
  <2>2. X \in Residue /\ Y \in Residue /\ Z \in Residue
    BY <1>1, <1>2, MeansEncode
  <2> HIDE DEF X, Y, Z
  <2>3. P.Z = Z
    BY <2>1
  <2>4. \A b \in BOOLEAN : [X |-> X, Y |-> Y, Z |-> Z, Z_is_one |-> b] \in Point
    BY <2>2 DEF Point
  <2>5. P \in Point
    BY <2>1, <2>4, Zenon
  <2> QED BY <2>3, <2>5 DEF PointOK, Z
<1>6. xr = xr * 1 * 1 /\ yr = yr * 1 * 1 * 1
  BY <1>1
<1>7. Means(P.X, xr * 1 * 1) /\ Means(P.Y, yr * 1 * 1 * 1)
  BY <1>4, <1>6
<1>8. ~is_at_infinity(P) /\ get_affine(P) = <<xr, yr>>
  BY <1>1, <1>2, <1>4, <1>5, <1>7, AffineUnique
<1> QED
  BY <1>1, <1>5, <1>8 DEF xr, yr

-------------------------------------------------------------------------------
(* The coordinates that dbl and add compute are those of the law's third      *)
(* point, times the square and the cube of the z they compute.                *)

LEMMA CongSquare ==
  ASSUME NEW m \in Nat \ {0}, NEW a \in Int, NEW b \in Int, Cong(m, a, b)
  PROVE  Cong(m, a * a, b * b)
BY CongMul

LEMMA ChordAlgebra ==
  ASSUME NEW m \in Nat \ {0}, NEW lam \in Int, NEW x1 \in Int, NEW y1 \in Int,
         NEW x2 \in Int, NEW y2 \in Int, NEW x3 \in Int, NEW y3 \in Int,
         NEW dx, dx = x1 - x2,
         Cong(m, lam * dx, y1 - y2), Cong(m, x3, lam * lam - x1 - x2),
         Cong(m, y3, lam * (x1 - x3) - y1)
  PROVE  /\ Cong(m, ChordX(x1, y1, x2, y2), x3 * dx * dx)
         /\ Cong(m, ChordY(x1, y1, x2, y2), y3 * dx * dx * dx)
<1> DEFINE dy == y1 - y2
           sx == x1 + x2
           t == lam * dx
           d2 == dx * dx
           d3 == dx * dx * dx
           h == lam * lam - x1 - x2
           k == lam * (x1 - x3) - y1
           cx == ChordX(x1, y1, x2, y2)
           cy == ChordY(x1, y1, x2, y2)
           e3 == x3 * dx * dx
           f3 == y3 * dx * dx * dx
<1>1. /\ dx \in Int /\ dy \in Int /\ sx \in Int /\ t \in Int /\ d2 \in Int /\ d3 \in Int
      /\ h \in Int /\ k \in Int /\ e3 \in Int /\ f3 \in Int
  BY SMT
<1>2. /\ cx = dy * dy - sx * d2
      /\ cy = dy * (x1 * d2 - cx) - y1 * d3
  BY DEF ChordX, ChordY
<1>3. /\ h * d2 = t * t - sx * d2 /\ e3 = x3 * d2 /\ f3 = y3 * d3
      /\ k * d3 = t * (x1 * d2 - e3) - y1 * d3
  <2> HIDE DEF cx, cy, dy
  <2>1. h * d2 = t * t - sx * d2
    BY <1>1, SMT
  <2>2. e3 = x3 * d2 /\ f3 = y3 * d3
    BY <1>1, SMT
  <2>3. k * d3 = t * (x1 * d2 - e3) - y1 * d3
    BY <1>1, SMT
  <2> QED BY <2>1, <2>2, <2>3
<1>4. Cong(m, t, dy) /\ Cong(m, x3, h) /\ Cong(m, y3, k)
  OBVIOUS
<1> HIDE DEF dy, sx, t, d2, d3, h, k, cx, cy, e3, f3
<1> DEFINE tt == t * t
           ddy == dy * dy
           sd == sx * d2
<1>5a. tt \in Int /\ ddy \in Int /\ sd \in Int /\ cx = ddy - sd /\ h * d2 = tt - sd
  BY <1>1, <1>2, <1>3
<1>5b. Cong(m, t * t, dy * dy)
  BY <1>1, <1>4, CongSquare
<1>5. tt \in Int /\ ddy \in Int /\ sd \in Int /\ cx = ddy - sd /\ h * d2 = tt - sd
      /\ Cong(m, tt, ddy)
  BY <1>5a, <1>5b
<1> HIDE DEF tt, ddy, sd
<1>6. Cong(m, ddy - sd, tt - sd)
  BY <1>5, CongScale, CongSym
<1>7. Cong(m, h * d2, x3 * d2)
  BY <1>1, <1>4, CongScale, CongSym
<1>8. cx \in Int /\ Cong(m, cx, e3)
  BY <1>3, <1>5, <1>6, <1>7, CongTrans
<1> DEFINE u == x1 * d2 - cx
           v == x1 * d2 - e3
           y1d == y1 * d3
<1>9. u \in Int /\ v \in Int /\ y1d \in Int /\ cy = dy * u - y1d /\ k * d3 = t * v - y1d
  BY <1>1, <1>2, <1>3, <1>8
<1>10. Cong(m, u, v)
  <2> DEFINE xd == x1 * d2
  <2>1. xd \in Int
    BY <1>1
  <2> HIDE DEF xd
  <2>2. Cong(m, xd - cx, xd - e3)
    BY <2>1, <1>1, <1>8, CongScale
  <2> QED BY <2>2 DEF xd
<1> HIDE DEF u, v, y1d
<1> DEFINE du == dy * u
           tv == t * v
<1>11. du \in Int /\ tv \in Int /\ cy = du - y1d /\ k * d3 = tv - y1d
  BY <1>1, <1>9
<1>12. Cong(m, du, tv)
  BY <1>1, <1>4, <1>9, <1>10, CongMul, CongSym
<1> HIDE DEF du, tv
<1>13. Cong(m, du - y1d, tv - y1d)
  BY <1>9, <1>11, <1>12, CongScale
<1>14. Cong(m, k * d3, y3 * d3)
  BY <1>1, <1>4, CongScale, CongSym
<1>15. Cong(m, cy, f3)
  BY <1>3, <1>11, <1>13, <1>14, CongTrans
<1> QED
  BY <1>8, <1>15 DEF cx, cy, e3, f3

LEMMA TangentAlgebra ==
  ASSUME GroupOK, NEW lam \in Int, NEW x \in Int, NEW y \in Int, NEW x3 \in Int, NEW y3 \in Int,
         NEW dx, dx = 2 * y,
         Cong(p, lam * dx, Tangent(x)), Cong(p, x3, lam * lam - x - x),
         Cong(p, y3, lam * (x - x3) - y)
  PROVE  /\ Cong(p, DoubleX(x, y), x3 * dx * dx)
         /\ Cong(p, DoubleY(x, y), y3 * dx * dx * dx)
<1> DEFINE l == Tangent(x)
           t == lam * dx
           d2 == dx * dx
           d3 == dx * dx * dx
           h == lam * lam - x - x
           k == lam * (x - x3) - y
           cx == DoubleX(x, y)
           cy == DoubleY(x, y)
           e3 == x3 * dx * dx
           f3 == y3 * dx * dx * dx
           sd == 2 * x * d2
           y1d == y * d3
<1>0. p \in Nat \ {0}
  BY FieldType
<1>1. /\ dx \in Int /\ l \in Int /\ t \in Int /\ d2 \in Int /\ d3 \in Int /\ cx \in Int
      /\ h \in Int /\ k \in Int /\ e3 \in Int /\ f3 \in Int /\ sd \in Int /\ y1d \in Int
  <2>1. l \in Int /\ cx \in Int
    BY PolyType
  <2> QED BY <2>1, SMT
<1>2. /\ cx = l * l - 8 * x * y * y
      /\ cy = l * (4 * x * y * y - cx) - 8 * y * y * y * y
  BY DEF DoubleX, DoubleY
<1>3. d2 = 4 * y * y /\ d3 = 8 * y * y * y
  BY SMT
<1>4. cx = l * l - sd /\ cy = l * (x * d2 - cx) - y1d
  <2> HIDE DEF l, cx, cy, d2, d3
  <2>1. sd = 8 * x * y * y /\ x * d2 = 4 * x * y * y /\ y1d = 8 * y * y * y * y
    BY <1>1, <1>3, SMT
  <2> QED BY <1>2, <2>1
<1>5. /\ h * d2 = t * t - sd /\ e3 = x3 * d2 /\ f3 = y3 * d3
      /\ k * d3 = t * (x * d2 - e3) - y1d
  <2> HIDE DEF cx, cy, l
  <2>0. dx \in Int
    BY <1>1
  <2>1. h * d2 = t * t - sd
    BY <2>0, SMT
  <2>2. e3 = x3 * d2 /\ f3 = y3 * d3
    BY <2>0, SMT
  <2>3. k * d3 = t * (x * d2 - e3) - y1d
    BY <2>0, SMT
  <2> QED BY <2>1, <2>2, <2>3
<1>6. Cong(p, t, l) /\ Cong(p, x3, h) /\ Cong(p, y3, k)
  OBVIOUS
<1> HIDE DEF l, t, d2, d3, h, k, cx, cy, e3, f3, sd, y1d
<1> DEFINE tt == t * t
           ll == l * l
<1>7. tt \in Int /\ ll \in Int /\ cx = ll - sd /\ h * d2 = tt - sd /\ Cong(p, tt, ll)
  BY <1>0, <1>1, <1>4, <1>5, <1>6, CongSquare
<1> HIDE DEF tt, ll
<1>8. Cong(p, ll - sd, tt - sd)
  BY <1>0, <1>1, <1>7, CongScale, CongSym
<1>9. Cong(p, h * d2, x3 * d2)
  BY <1>0, <1>1, <1>6, CongScale, CongSym
<1>10. Cong(p, cx, e3)
  BY <1>5, <1>7, <1>8, <1>9, CongTrans
<1> DEFINE xd == x * d2
           u == xd - cx
           v == xd - e3
<1>11. xd \in Int /\ u \in Int /\ v \in Int /\ cy = l * u - y1d /\ k * d3 = t * v - y1d
  BY <1>1, <1>4, <1>5
<1>12. Cong(p, u, v)
  <2> HIDE DEF xd
  <2> QED BY <1>0, <1>1, <1>10, <1>11, CongScale
<1> HIDE DEF u, v
<1> DEFINE lu == l * u
           tv == t * v
<1>13. lu \in Int /\ tv \in Int /\ cy = lu - y1d /\ k * d3 = tv - y1d
  BY <1>1, <1>11
<1>14. Cong(p, lu, tv)
  BY <1>0, <1>1, <1>6, <1>11, <1>12, CongMul, CongSym
<1> HIDE DEF lu, tv
<1>15. Cong(p, lu - y1d, tv - y1d)
  BY <1>0, <1>1, <1>13, <1>14, CongScale
<1>16. Cong(p, k * d3, y3 * d3)
  BY <1>0, <1>1, <1>6, CongScale, CongSym
<1>17. Cong(p, cy, f3)
  BY <1>5, <1>13, <1>15, <1>16, CongTrans
<1> QED
  BY <1>10, <1>17 DEF cx, cy, e3, f3

-------------------------------------------------------------------------------
(* The third point of a chord or a tangent is on the curve: the line meets    *)
(* the cubic in x1, x2 and x3 = lam^2 - x1 - x2.                              *)

CubicAt(x) == x * x * x + A * x + B
OnCurve(x, y) == Cong(p, y * y, CubicAt(x))

\* The line through <<x1, y1>> of slope lam
LineAt(lam, x1, y1, x) == lam * (x - x1) + y1

\* What is left of the cubic less the line's square when the factors are taken out
Linear(lam, x1, y1, x2) ==
  A - 2 * lam * (y1 - lam * x1) - x1 * x2 - (x1 + x2) * (lam * lam - x1 - x2)
Constant(lam, x1, y1, x2) ==
  B - (y1 - lam * x1) * (y1 - lam * x1) + x1 * x2 * (lam * lam - x1 - x2)

Gap(lam, x1, y1, x) == CubicAt(x) - LineAt(lam, x1, y1, x) * LineAt(lam, x1, y1, x)
Factors(lam, x1, y1, x2, x3, x) ==
  (x - x1) * (x - x2) * (x - x3) + (Linear(lam, x1, y1, x2) * x + Constant(lam, x1, y1, x2))

LEMMA LineMeetsCurve ==
  ASSUME GroupOK, NEW lam \in Int, NEW x1 \in Int, NEW y1 \in Int, NEW x2 \in Int, NEW x \in Int,
         NEW x3, x3 = lam * lam - x1 - x2
  PROVE  Gap(lam, x1, y1, x) = Factors(lam, x1, y1, x2, x3, x)
<1> DEFINE m0 == y1 - lam * x1
           a == A
           b == B
           s == lam * lam
           u == a - 2 * lam * m0 - x1 * x2 - (x1 + x2) * x3
           v == b - m0 * m0 + x1 * x2 * x3
           ln == lam * x + m0
<1>0. a \in Int /\ b \in Int
  BY Coefficients
<1>1. u = Linear(lam, x1, y1, x2) /\ v = Constant(lam, x1, y1, x2)
  BY DEF Linear, Constant
<1>2. ln = LineAt(lam, x1, y1, x) /\ CubicAt(x) = x * x * x + a * x + b
  <2>1. CubicAt(x) = x * x * x + a * x + b
    BY DEF CubicAt
  <2>2. lam * x + (y1 - lam * x1) = lam * (x - x1) + y1
    BY SMT
  <2> QED BY <2>1, <2>2 DEF LineAt
<1> HIDE DEF a, b
<1>3. m0 \in Int /\ s \in Int /\ x3 \in Int /\ s = x1 + x2 + x3 /\ ln \in Int
  BY SMT
<1>4. ln * ln = s * x * x + 2 * lam * m0 * x + m0 * m0
  <2> HIDE DEF m0
  <2> QED BY <1>3, SMT
<1>5. u * x + v = a * x - 2 * lam * m0 * x - x1 * x2 * x - (x1 + x2) * x3 * x + b - m0 * m0
                    + x1 * x2 * x3
  <2> HIDE DEF m0
  <2> QED BY <1>0, <1>3, SMT
<1>6. (x - x1) * (x - x2) * (x - x3)
        = x * x * x - (x1 + x2 + x3) * x * x + x1 * x2 * x + (x1 + x2) * x3 * x - x1 * x2 * x3
  <2> HIDE DEF m0, s
  <2> QED BY <1>3, SMT
<1> DEFINE lmx == 2 * lam * m0 * x
           mm == m0 * m0
           ax == a * x
           c1 == x1 * x2 * x
           c2 == (x1 + x2) * x3 * x
           c3 == x1 * x2 * x3
           sxx == s * x * x
           xxx == x * x * x
           uv == u * x + v
           prod == (x - x1) * (x - x2) * (x - x3)
           lsq == ln * ln
<1>7. /\ lmx \in Int /\ mm \in Int /\ ax \in Int /\ c1 \in Int /\ c2 \in Int /\ c3 \in Int
      /\ sxx \in Int /\ xxx \in Int
  <2> HIDE DEF m0, s
  <2> QED BY <1>0, <1>3, SMT
<1>8. /\ lsq = sxx + lmx + mm /\ uv = ax - lmx - c1 - c2 + b - mm + c3
      /\ prod = xxx - sxx + c1 + c2 - c3
  BY <1>3, <1>4, <1>5, <1>6
<1> HIDE DEF lmx, mm, ax, c1, c2, c3, sxx, xxx, uv, prod, lsq
<1>9. xxx + ax + b - lsq = prod + uv
  BY <1>0, <1>7, <1>8
<1>10. CubicAt(x) = xxx + ax + b
  BY <1>2 DEF xxx, ax
<1> HIDE DEF u, v, ln
<1>11. Gap(lam, x1, y1, x) = (xxx + ax + b) - lsq
  <2>1. Gap(lam, x1, y1, x) = CubicAt(x) - ln * ln
    BY <1>2, Zenon DEF Gap
  <2>2. lsq = ln * ln
    BY DEF lsq
  <2> QED BY <1>10, <2>1, <2>2, Zenon
<1>12. Factors(lam, x1, y1, x2, x3, x) = prod + uv
  BY <1>1 DEF uv, prod, Factors
<1> QED
  BY <1>0, <1>7, <1>8, <1>9, <1>11, <1>12

LEMMA LineType ==
  ASSUME GroupOK, NEW lam \in Int, NEW x1 \in Int, NEW y1 \in Int, NEW x2 \in Int
  PROVE  /\ Linear(lam, x1, y1, x2) \in Int /\ Constant(lam, x1, y1, x2) \in Int
         /\ CubicAt(x1) \in Int /\ LineAt(lam, x1, y1, x2) \in Int
<1> DEFINE a == A
           b == B
<1>0. a \in Int /\ b \in Int
  BY Coefficients
<1>1. /\ Linear(lam, x1, y1, x2)
           = a - 2 * lam * (y1 - lam * x1) - x1 * x2 - (x1 + x2) * (lam * lam - x1 - x2)
      /\ Constant(lam, x1, y1, x2)
           = b - (y1 - lam * x1) * (y1 - lam * x1) + x1 * x2 * (lam * lam - x1 - x2)
      /\ CubicAt(x1) = x1 * x1 * x1 + a * x1 + b
      /\ LineAt(lam, x1, y1, x2) = lam * (x2 - x1) + y1
  BY DEF Linear, Constant, CubicAt, LineAt
<1> HIDE DEF a, b
<1> QED
  BY <1>0, <1>1

(* A line that leaves nothing of the cubic meets it a third time.             *)
LEMMA ThirdOnCurve ==
  ASSUME GroupOK, NEW lam \in Int, NEW x1 \in Int, NEW y1 \in Int, NEW x2 \in Int,
         NEW x3, x3 = lam * lam - x1 - x2, NEW y3, y3 = lam * (x1 - x3) - y1,
         Cong(p, Linear(lam, x1, y1, x2), 0), Cong(p, Constant(lam, x1, y1, x2), 0)
  PROVE  OnCurve(x3, y3)
<1> DEFINE u == Linear(lam, x1, y1, x2)
           v == Constant(lam, x1, y1, x2)
           ln == LineAt(lam, x1, y1, x3)
           c == CubicAt(x3)
<1>0. p \in Nat \ {0} /\ x3 \in Int /\ y3 \in Int
  BY FieldType, SMT
<1>1. u \in Int /\ v \in Int /\ ln \in Int /\ c \in Int
  BY <1>0, LineType
<1>2. ln = -y3
  BY <1>0, SMT DEF LineAt
<1>3. c - ln * ln = (x3 - x1) * (x3 - x2) * (x3 - x3) + (u * x3 + v)
  <2>1. Gap(lam, x1, y1, x3) = Factors(lam, x1, y1, x2, x3, x3)
    BY <1>0, LineMeetsCurve
  <2> QED BY <2>1 DEF Gap, Factors
<1> HIDE DEF u, v, ln, c
<1>4. c - y3 * y3 = u * x3 + v
  <2>1. ln * ln = y3 * y3
    BY <1>0, <1>2
  <2>2. (x3 - x1) * (x3 - x2) * (x3 - x3) = 0
    <3>1. x3 - x3 = 0 /\ \A k \in Int : k * 0 = 0
      BY <1>0
    <3>2. (x3 - x1) * (x3 - x2) \in Int
      BY <1>0
    <3> QED BY <3>1, <3>2
  <2>3. u * x3 + v \in Int
    BY <1>0, <1>1
  <2> QED BY <1>3, <2>1, <2>2, <2>3
<1>5. Cong(p, u, 0) /\ Cong(p, v, 0)
  BY DEF u, v
<1>6. Cong(p, u * x3, 0)
  <2>1. 0 * x3 = 0 /\ 0 \in Int
    BY <1>0
  <2>2. Cong(p, u * x3, 0 * x3)
    BY <1>0, <1>1, <1>5, <2>1, CongScale
  <2> QED BY <2>1, <2>2
<1> DEFINE ux == u * x3
           yy == y3 * y3
<1>7. ux \in Int /\ yy \in Int /\ 0 + 0 = 0 /\ 0 \in Int /\ c - yy = ux + v /\ Cong(p, ux, 0)
  BY <1>0, <1>1, <1>4, <1>6
<1> HIDE DEF ux, yy
<1>8. Cong(p, ux + v, 0 + 0)
  BY <1>0, <1>1, <1>5, <1>7, CongAdd
<1>9. Cong(p, c - yy, 0)
  BY <1>7, <1>8
<1>10. Cong(p, yy, c)
  BY <1>0, <1>1, <1>7, <1>9, CongDifference, CongSym
<1> QED
  BY <1>10 DEF OnCurve, yy, c

(* A point of the curve on the line leaves the linear part 0 at its x.        *)
LEMMA MeetsAtPoint ==
  ASSUME GroupOK, NEW lam \in Int, NEW x1 \in Int, NEW y1 \in Int, NEW x2 \in Int,
         NEW x \in {x1, x2}, NEW y \in Int, OnCurve(x, y), Cong(p, LineAt(lam, x1, y1, x), y)
  PROVE  Cong(p, Linear(lam, x1, y1, x2) * x + Constant(lam, x1, y1, x2), 0)
<1> DEFINE x3 == lam * lam - x1 - x2
           ln == LineAt(lam, x1, y1, x)
           c == CubicAt(x)
           u == Linear(lam, x1, y1, x2)
           v == Constant(lam, x1, y1, x2)
           uv == u * x + v
           ll == ln * ln
           yy == y * y
<1>0. p \in Nat \ {0} /\ x \in Int /\ x3 \in Int
  BY FieldType
<1>1. ln \in Int /\ c \in Int /\ u \in Int /\ v \in Int
  BY <1>0, LineType
<1>2. Gap(lam, x1, y1, x) = Factors(lam, x1, y1, x2, x3, x)
  BY <1>0, LineMeetsCurve
<1>3. Gap(lam, x1, y1, x) = c - ll
  BY DEF Gap
<1>4. Factors(lam, x1, y1, x2, x3, x) = (x - x1) * (x - x2) * (x - x3) + uv
  BY DEF Factors
<1>5. Cong(p, ln, y) /\ Cong(p, yy, c)
  BY DEF OnCurve
<1> HIDE DEF ln, c, u, v, x3
<1>6. (x - x1) * (x - x2) * (x - x3) = 0
  <2> DEFINE a == x - x1
             b == x - x2
             d == x - x3
  <2>1. a \in Int /\ b \in Int /\ d \in Int /\ (a = 0 \/ b = 0)
    BY <1>0
  <2> HIDE DEF a, b, d
  <2>2. a * b * d = 0
    BY <2>1
  <2> QED BY <2>2 DEF a, b, d
<1>7. uv \in Int /\ ll \in Int /\ yy \in Int
  BY <1>0, <1>1
<1>8. Cong(p, ll, yy)
  BY <1>0, <1>1, <1>5, CongMul
<1> HIDE DEF uv, ll, yy
<1>9. uv = c - ll
  <2>1. c - ll = 0 + uv
    BY <1>2, <1>3, <1>4, <1>6
  <2> QED BY <1>1, <1>7, <2>1
<1>10. Cong(p, c - ll, 0)
  <2>1. Cong(p, c, ll)
    BY <1>5, <1>8, CongSym, CongTrans
  <2> QED BY <1>0, <1>1, <1>7, <2>1, CongDifference
<1> QED
  BY <1>9, <1>10 DEF uv, u, v

LEMMA OnCurveSame ==
  ASSUME GroupOK, NEW x \in Int, NEW y \in Int, NEW xx \in Int, NEW yy \in Int,
         Cong(p, x, xx), Cong(p, y, yy)
  PROVE  OnCurve(x, y) <=> OnCurve(xx, yy)
<1> DEFINE sx == x * x
           sxx == xx * xx
           cx == sx * x
           cxx == sxx * xx
           ax == A * x
           axx == A * xx
<1>0. p \in Nat \ {0} /\ A \in Int /\ B \in Int
  BY FieldType, Coefficients
<1>1. Cong(p, y * y, yy * yy)
  BY <1>0, CongMul
<1>2. sx \in Int /\ sxx \in Int /\ Cong(p, sx, sxx)
  BY <1>0, CongMul
<1>3. cx \in Int /\ cxx \in Int /\ Cong(p, cx, cxx)
  <2> HIDE DEF sx, sxx
  <2>1. Cong(p, sx * x, sxx * xx)
    BY <1>0, <1>2, CongMul
  <2>2. sx * x \in Int /\ sxx * xx \in Int
    BY <1>2
  <2> QED BY <2>1, <2>2
<1>4. ax \in Int /\ axx \in Int /\ Cong(p, ax, axx)
  <2> DEFINE a == A
  <2>1. a \in Int
    BY <1>0
  <2> HIDE DEF a
  <2>2. Cong(p, a * x, a * xx)
    BY <1>0, <2>1, CongScale
  <2>3. a * x \in Int /\ a * xx \in Int
    BY <2>1
  <2> QED BY <2>2, <2>3 DEF a
<1>5. CubicAt(x) = cx + ax + B /\ CubicAt(xx) = cxx + axx + B
  BY DEF CubicAt
<1> HIDE DEF cx, cxx, ax, axx
<1>6. Cong(p, cx + ax, cxx + axx)
  BY <1>0, <1>3, <1>4, CongAdd
<1>7. Cong(p, CubicAt(x), CubicAt(xx))
  <2> DEFINE a == cx + ax
             b == cxx + axx
  <2>1. a \in Int /\ b \in Int /\ Cong(p, a, b) /\ CubicAt(x) = a + B /\ CubicAt(xx) = b + B
    BY <1>3, <1>4, <1>5, <1>6
  <2> HIDE DEF a, b
  <2> QED BY <1>0, <2>1, CongScale
<1> QED
  BY <1>1, <1>7, CongSym, CongTrans DEF OnCurve

(* The reduced third point of a line that leaves nothing of the cubic.        *)
LEMMA ReducedThird ==
  ASSUME GroupOK, NEW lam \in Int, NEW x1 \in Int, NEW y1 \in Int, NEW x2 \in Int,
         NEW x3 \in Int, NEW y3 \in Int,
         Cong(p, x3, lam * lam - x1 - x2), Cong(p, y3, lam * (x1 - x3) - y1),
         Cong(p, Linear(lam, x1, y1, x2), 0), Cong(p, Constant(lam, x1, y1, x2), 0)
  PROVE  OnCurve(x3, y3)
<1> DEFINE X == lam * lam - x1 - x2
           Y == lam * (x1 - X) - y1
           k == lam * (x1 - x3)
           l == lam * (x1 - X)
<1>0. p \in Nat \ {0} /\ X \in Int /\ Y \in Int /\ Cong(p, x3, X) /\ l \in Int /\ k \in Int
  BY FieldType
<1>1. OnCurve(X, Y)
  BY ThirdOnCurve
<1>2. Cong(p, y3, Y)
  <2> HIDE DEF X
  <2>1. Cong(p, x1 - x3, x1 - X)
    BY <1>0, CongScale
  <2>2. x1 - x3 \in Int /\ x1 - X \in Int
    BY <1>0
  <2>3. Cong(p, k, l)
    BY <1>0, <2>1, <2>2, CongScale
  <2> HIDE DEF k, l
  <2>4. Cong(p, k - y1, l - y1)
    BY <1>0, <2>3, CongScale
  <2> QED BY <2>4, CongTrans DEF k, l
<1> HIDE DEF X, Y
<1> QED
  BY <1>0, <1>1, <1>2, OnCurveSame

LEMMA ChordOnCurve ==
  ASSUME GroupOK, NEW lam \in Int, NEW x1 \in Int, NEW y1 \in Int, NEW x2 \in Int, NEW y2 \in Int,
         NEW x3 \in Int, NEW y3 \in Int, OnCurve(x1, y1), OnCurve(x2, y2), ~Cong(p, x1, x2),
         Cong(p, lam * (x1 - x2), y1 - y2),
         Cong(p, x3, lam * lam - x1 - x2), Cong(p, y3, lam * (x1 - x3) - y1)
  PROVE  OnCurve(x3, y3)
<1> DEFINE u == Linear(lam, x1, y1, x2)
           v == Constant(lam, x1, y1, x2)
           dx == x1 - x2
           dy == y1 - y2
           t == lam * dx
<1>0. p \in Nat \ {0} /\ u \in Int /\ v \in Int /\ dx \in Int /\ dy \in Int /\ t \in Int /\ PrimeField(p)
      /\ Cong(p, t, dy)
  <2>1. u \in Int /\ v \in Int
    BY LineType
  <2>2. dx \in Int /\ dy \in Int /\ t \in Int /\ Cong(p, t, dy)
    OBVIOUS
  <2> QED BY <2>1, <2>2, FieldType
<1>1. Cong(p, u * x1 + v, 0)
  <2>1. LineAt(lam, x1, y1, x1) = y1
    BY DEF LineAt
  <2> QED BY <2>1, CongRefl, MeetsAtPoint
<1>2. Cong(p, u * x2 + v, 0)
  <2>1. LineAt(lam, x1, y1, x2) = y1 - t /\ y2 = y1 - dy
    BY SMT DEF LineAt
  <2> HIDE DEF t, dy
  <2>2. Cong(p, y1 - t, y1 - dy)
    BY <1>0, CongScale
  <2> QED BY <2>1, <2>2, MeetsAtPoint
<1>3. Nonzero(p, dx)
  BY <1>0, CongDifference DEF Nonzero
<1> DEFINE ux1 == u * x1
           ux2 == u * x2
<1>4. ux1 \in Int /\ ux2 \in Int
  <2> HIDE DEF u
  <2> QED BY <1>0
<1>5. dx * u = (ux1 + v) - (ux2 + v)
  <2> HIDE DEF u, v
  <2> QED BY <1>0, SMT
<1> HIDE DEF u, v, dx
<1>6. Cong(p, ux1 + v, 0) /\ Cong(p, ux2 + v, 0)
  BY <1>1, <1>2
<1> HIDE DEF ux1, ux2
<1>7. Cong(p, dx * u, 0)
  <2> DEFINE a == ux1 + v
             b == ux2 + v
  <2>1. a \in Int /\ b \in Int /\ dx * u = a - b /\ Cong(p, a, b)
    BY <1>0, <1>4, <1>5, <1>6, CongSym, CongTrans
  <2> HIDE DEF a, b
  <2> QED BY <1>0, <2>1, CongDifference
<1>8. Cong(p, u, 0)
  BY <1>0, <1>3, <1>7, CongFactor
<1>9. Cong(p, v, 0)
  <2>1. Cong(p, ux1, 0)
    <3>1. 0 * x1 = 0 /\ 0 \in Int
      OBVIOUS
    <3>2. Cong(p, u * x1, 0 * x1)
      BY <1>0, <1>8, <3>1, CongScale
    <3> QED BY <3>1, <3>2 DEF ux1
  <2>2. 0 + v = v /\ 0 \in Int
    BY <1>0
  <2>3. Cong(p, ux1 + v, 0 + v)
    BY <1>0, <1>4, <2>1, <2>2, CongScale
  <2> QED BY <1>6, <2>2, <2>3, CongSym, CongTrans
<1> QED
  BY <1>8, <1>9, ReducedThird DEF u, v

LEMMA TangentOnCurve ==
  ASSUME GroupOK, NEW lam \in Int, NEW x1 \in Int, NEW y1 \in Int, NEW x3 \in Int, NEW y3 \in Int,
         OnCurve(x1, y1), Cong(p, lam * (2 * y1), Tangent(x1)),
         Cong(p, x3, lam * lam - x1 - x1), Cong(p, y3, lam * (x1 - x3) - y1)
  PROVE  OnCurve(x3, y3)
<1> DEFINE u == Linear(lam, x1, y1, x1)
           v == Constant(lam, x1, y1, x1)
           t == lam * (2 * y1)
           l == Tangent(x1)
           a == A
           ux1 == u * x1
<1>0. p \in Nat \ {0} /\ u \in Int /\ v \in Int /\ l \in Int /\ a \in Int /\ t \in Int
      /\ PrimeField(p) /\ Cong(p, t, l)
  <2>1. u \in Int /\ v \in Int /\ l \in Int
    BY LineType, PolyType
  <2>2. t \in Int /\ Cong(p, t, l)
    OBVIOUS
  <2> QED BY <2>1, <2>2, FieldType, Coefficients
<1>1. Cong(p, u * x1 + v, 0)
  <2>1. LineAt(lam, x1, y1, x1) = y1
    BY DEF LineAt
  <2> QED BY <2>1, CongRefl, MeetsAtPoint
<1>2. u = l - t
  <2>1. /\ u = a - 2 * lam * (y1 - lam * x1) - x1 * x1 - (x1 + x1) * (lam * lam - x1 - x1)
        /\ l = 3 * x1 * x1 + a
    BY DEF Linear, Tangent
  <2> HIDE DEF u, l, a
  <2> QED BY <1>0, <2>1, SMT
<1> HIDE DEF u, v, l, t
<1>3. Cong(p, u, 0)
  <2>1. Cong(p, l, t)
    BY <1>0, CongSym
  <2> QED BY <1>0, <1>2, <2>1, CongDifference
<1>4. Cong(p, v, 0)
  <2>1. ux1 \in Int /\ Cong(p, ux1 + v, 0)
    BY <1>0, <1>1
  <2>2. Cong(p, ux1, 0)
    <3>1. 0 * x1 = 0 /\ 0 \in Int
      OBVIOUS
    <3>2. Cong(p, u * x1, 0 * x1)
      BY <1>0, <1>3, <3>1, CongScale
    <3> QED BY <3>1, <3>2 DEF ux1
  <2> HIDE DEF ux1
  <2>3. 0 + v = v /\ 0 \in Int
    BY <1>0
  <2>4. Cong(p, ux1 + v, 0 + v)
    BY <1>0, <2>1, <2>2, <2>3, CongScale
  <2> QED BY <2>1, <2>3, <2>4, CongSym, CongTrans
<1> QED
  BY <1>3, <1>4, ReducedThird DEF u, v

(* Two points of the curve with one x are opposite or the same.               *)
LEMMA SameX ==
  ASSUME GroupOK, NEW x1 \in Int, NEW y1 \in Int, NEW x2 \in Int, NEW y2 \in Int,
         OnCurve(x1, y1), OnCurve(x2, y2), Cong(p, x1, x2)
  PROVE  Cong(p, y1, y2) \/ Cong(p, y1 + y2, 0)
<1> DEFINE a == y1 - y2
           b == y1 + y2
           s == y1 * y1
           t == y2 * y2
<1>0. p \in Nat \ {0} /\ PrimeField(p) /\ a \in Int /\ b \in Int /\ s \in Int /\ t \in Int
  BY FieldType
<1>1. OnCurve(x1, y2)
  BY CongRefl, OnCurveSame
<1>2. Cong(p, s, t)
  BY <1>1, CongSym, CongTrans DEF OnCurve
<1>3. a * b = s - t
  BY SMT
<1> HIDE DEF s, t
<1>4. Cong(p, a * b, 0)
  BY <1>0, <1>2, <1>3, CongDifference
<1>5. Cong(p, a, 0) <=> Cong(p, y1, y2)
  BY <1>0, CongDifference
<1> HIDE DEF a
<1>6. CASE Nonzero(p, a)
  <2> HIDE DEF b
  <2>1. Cong(p, b, 0)
    BY <1>0, <1>4, <1>6, CongFactor
  <2> QED BY <2>1 DEF b
<1>7. CASE ~Nonzero(p, a)
  BY <1>5, <1>7 DEF Nonzero
<1> QED
  BY <1>6, <1>7

LEMMA OppositeOnCurve ==
  ASSUME GroupOK, NEW x \in Int, NEW y \in Int, OnCurve(x, y)
  PROVE  OnCurve(x, -y)
<1>1. (-y) * (-y) = y * y
  BY SMT
<1> QED
  BY <1>1 DEF OnCurve

(* Residues whose sum is 0 in the field are opposite, and one of them is odd. *)
LEMMA OppositeResidues ==
  ASSUME GroupOK, NEW a \in Residue, NEW b \in Residue, Cong(p, a + b, 0)
  PROVE  a + b = p \/ (a = 0 /\ b = 0)
<1>0. p \in Nat \ {0} /\ p \in Int /\ a \in 0 .. p - 1 /\ b \in 0 .. p - 1 /\ a \in Int /\ b \in Int
  BY FieldType, ResidueType
<1> DEFINE s == a + b
<1>1. s \in Int /\ 0 <= s /\ s <= 2 * p - 2 /\ Cong(p, s, 0)
  BY <1>0
<1> HIDE DEF s
<1>2. PICK k \in Int : s = 0 + p * k
  <2>1. 0 \in Int
    OBVIOUS
  <2> QED BY <1>0, <1>1, <2>1, CongWitness
<1>3. s = 0 \/ s = p
  <2>1. CASE s < p
    <3>1. s \in 0 .. p - 1 /\ 0 \in 0 .. p - 1
      BY <1>0, <1>1, <2>1
    <3> QED BY <1>0, <1>1, <3>1, CongSmall
  <2>2. CASE s >= p
    <3> DEFINE r == s - p
    <3>1. r \in 0 .. p - 1 /\ 0 \in 0 .. p - 1 /\ s = r + p * 1 /\ r \in Int /\ 1 \in Int
      BY <1>0, <1>1, <2>2
    <3>2. Cong(p, s, r)
      BY <1>0, <1>1, <3>1, CongFrom
    <3>3. Cong(p, r, 0)
      BY <1>1, <3>2, CongSym, CongTrans
    <3>4. r = 0
      <4> HIDE DEF r
      <4> QED BY <1>0, <3>1, <3>3, CongSmall
    <3> QED BY <1>0, <1>1, <3>4
  <2> QED BY <1>0, <1>1, <2>1, <2>2
<1> QED
  BY <1>0, <1>3 DEF s

LEMMA ParityDecides ==
  ASSUME GroupOK, NEW x \in Int, NEW a \in Residue, NEW b \in Residue,
         OnCurve(x, a), OnCurve(x, b), a % 2 = b % 2
  PROVE  a = b
<1>0. p \in Nat \ {0} /\ p \in Int /\ p % 2 = 1 /\ a \in 0 .. p - 1 /\ b \in 0 .. p - 1
      /\ a \in Int /\ b \in Int
  BY FieldType, ResidueType
<1>1. CASE Cong(p, a, b)
  BY <1>0, <1>1, CongSmall
<1>2. CASE Cong(p, a + b, 0)
  <2>1. a + b = p \/ (a = 0 /\ b = 0)
    BY <1>2, OppositeResidues
  <2> QED BY <1>0, <2>1
<1> QED
  BY <1>0, <1>1, <1>2, SameX, CongRefl

-------------------------------------------------------------------------------
(* The law of CurveLaw on the curve in use.                                   *)

LEMMA EquationIs == Equation.p = p /\ Equation.a = A /\ Equation.b = B
BY DEF Equation, A, B

\* A point of the law's curve
OnLaw(S) == S = Infinity \/ \E x, y \in Residue : S = <<x, y>> /\ OnCurve(x, y)

LEMMA PairIsFinite ==
  ASSUME GroupOK, NEW x \in Int, NEW y \in Int
  PROVE  <<x, y>> # Infinity
BY InfinityAssumption

LEMMA OnLawCurveIs ==
  ASSUME GroupOK, NEW x \in Int, NEW y \in Int
  PROVE  L!OnLawCurve(Equation, <<x, y>>) <=> OnCurve(x, y)
<1>1. <<x, y>> # Infinity
  BY PairIsFinite
<1>2. L!OnLawCurve(Equation, <<x, y>>) <=> (y * y) % p = (x * x * x + A * x + B) % p
  BY <1>1, EquationIs DEF L!OnLawCurve, L!Cubic
<1> QED
  BY <1>2 DEF OnCurve, Cong, CubicAt

LEMMA OnLawIs ==
  ASSUME GroupOK, NEW S
  PROVE  S \in L!LawCurve(Equation) <=> OnLaw(S)
<1>1. L!LawCurve(Equation)
        = {Infinity} \cup {P \in Residue \X Residue : L!OnLawCurve(Equation, P)}
  BY EquationIs DEF L!LawCurve, Residue
<1>2. \A x, y \in Residue : x \in Int /\ y \in Int
  BY ResidueType
<1>3. \A x, y \in Residue : L!OnLawCurve(Equation, <<x, y>>) <=> OnCurve(x, y)
  BY <1>2, OnLawCurveIs
<1>4. S \in Residue \X Residue <=> \E x, y \in Residue : S = <<x, y>>
  OBVIOUS
<1> QED
  BY <1>1, <1>3, <1>4 DEF OnLaw

LEMMA QuotientDef ==
  ASSUME GroupOK, NEW n \in Int, NEW d \in Int, Nonzero(p, d),
         NEW q, q = L!Quotient(Equation, n, d)
  PROVE  q \in Residue /\ q \in Int /\ Cong(p, q * d, n)
<1>0. p \in Nat \ {0} /\ PrimeField(p)
  BY FieldType
<1>1. PICK i \in 1 .. p - 1 : (d * i) % p = 1
  BY <1>0, InverseExists
<1> DEFINE t == d * i
           ni == n * i
           k == ni % p
           kd == k * d
<1>2. i \in Int /\ t \in Int /\ ni \in Int /\ ni * d = n * t /\ n * 1 = n
  BY <1>0, SMT
<1>3. Cong(p, t, 1)
  BY <1>0, <1>1, FieldType, SmallMod DEF Cong
<1> HIDE DEF t, ni
<1>4. k \in Residue /\ k \in Int /\ Cong(p, k, ni)
  BY <1>0, <1>2, CongMod DEF Residue
<1> HIDE DEF k
<1>5. kd \in Int
  BY <1>4
<1>6. Cong(p, k * d, ni * d)
  BY <1>0, <1>2, <1>4, CongScale
<1>7. Cong(p, n * t, n * 1)
  <2>1. 1 \in Int
    OBVIOUS
  <2> QED BY <1>0, <1>2, <1>3, <2>1, CongScale
<1>8. Cong(p, kd, n)
  BY <1>2, <1>6, <1>7, CongTrans
<1>9. \A j \in Residue : (j * d - n) % p = 0 <=> Cong(p, j * d, n)
  <2> TAKE j \in Residue
  <2> DEFINE jd == j * d
  <2>1. jd \in Int /\ jd - n \in Int
    BY ResidueType
  <2> HIDE DEF jd
  <2>2. (jd - n) % p = 0 <=> Cong(p, jd - n, 0)
    BY <1>0, <2>1, NonzeroRemainder DEF Nonzero
  <2>3. Cong(p, jd - n, 0) <=> Cong(p, jd, n)
    BY <1>0, <2>1, CongDifference
  <2> QED BY <2>2, <2>3 DEF jd
<1>10. \E j \in Residue : (j * d - n) % p = 0
  BY <1>4, <1>8, <1>9
<1>11. q = CHOOSE j \in Residue : (j * d - n) % p = 0
  BY EquationIs DEF L!Quotient, Residue
<1>12. q \in Residue /\ (q * d - n) % p = 0
  BY <1>10, <1>11
<1> QED
  BY <1>9, <1>12, ResidueType

LEMMA ThirdDef ==
  ASSUME GroupOK, NEW lam \in Int, NEW x1 \in Int, NEW y1 \in Int, NEW x2 \in Int, NEW y2 \in Int
  PROVE  \E x3, y3 \in Residue :
           /\ L!ThirdPoint(Equation, lam, <<x1, y1>>, <<x2, y2>>) = <<x3, y3>>
           /\ Cong(p, x3, lam * lam - x1 - x2)
           /\ Cong(p, y3, lam * (x1 - x3) - y1)
<1> DEFINE a == lam * lam - x1 - x2
           x3 == a % p
           b == lam * (x1 - x3) - y1
           y3 == b % p
<1>1. L!ThirdPoint(Equation, lam, <<x1, y1>>, <<x2, y2>>) = <<x3, y3>>
  BY EquationIs DEF L!ThirdPoint
<1>2. a \in Int
  OBVIOUS
<1>3. x3 \in Residue /\ x3 \in Int /\ Cong(p, x3, a)
  <2> HIDE DEF a
  <2> QED BY <1>2, FieldType, CongMod DEF Residue
<1>4. b \in Int
  <2> HIDE DEF x3
  <2> QED BY <1>3
<1>5. y3 \in Residue /\ Cong(p, y3, b)
  <2> HIDE DEF b
  <2> QED BY <1>4, FieldType, CongMod DEF Residue
<1> HIDE DEF x3, y3
<1> QED
  BY <1>1, <1>3, <1>5

-------------------------------------------------------------------------------
(* dbl, add and invert do what the law says to the affine points.             *)

LEMMA AffineFinite ==
  ASSUME GroupOK, NEW P, PointOK(P), NEW x \in Residue, NEW y \in Residue, NEW z \in Int,
         Nonzero(p, z),
         Means(P.X, x * z * z), Means(P.Y, y * z * z * z), Means(P.Z, z)
  PROVE  Affine(P) = <<x, y>> /\ ~is_at_infinity(P)
BY AffineUnique DEF Affine

LEMMA AffineSplit ==
  ASSUME GroupOK, NEW P, PointOK(P)
  PROVE  \/ is_at_infinity(P) /\ Affine(P) = Infinity
         \/ ~is_at_infinity(P) /\ \E x, y \in Residue, z \in Int :
              Affine(P) = <<x, y>> /\ Stands(P, x, y, z)
BY AffineExists DEF Affine

LEMMA InfinityAffine ==
  ASSUME GroupOK, NEW R, PointOK(R)
  PROVE  PointOK(set_to_infinity(R)) /\ Affine(set_to_infinity(R)) = Infinity
<1> DEFINE S == set_to_infinity(R)
<1>1. R \in Point /\ 0 \in Residue
  BY FieldType DEF PointOK, Residue
<1>3. S \in Point
  BY <1>1 DEF set_to_infinity, Point
<1>4. S.Z = 0 /\ S.Z_is_one = FALSE
  BY <1>1 DEF set_to_infinity, Point
<1> QED
  BY <1>3, <1>4 DEF S, PointOK, Affine, is_at_infinity

\* The numbers cx, cy and dx that the coordinates mean, r taken out of them
Scales(D, cx, cy, dx, r) ==
  Means(D.X, cx * r * r) /\ Means(D.Y, cy * r * r * r) /\ Means(D.Z, dx * r)

\* cx and cy are those of an affine point
DividesTo(cx, cy, dx, x3, y3) ==
  Cong(p, cx, x3 * dx * dx) /\ Cong(p, cy, y3 * dx * dx * dx)

(* From the third point's equations to the affine point of the coordinates.   *)
LEMMA ThirdAffine ==
  ASSUME GroupOK, NEW D, D \in Point, ~D.Z_is_one,
         NEW cx \in Int, NEW cy \in Int, NEW dx \in Int, NEW r \in Int,
         NEW x3 \in Residue, NEW y3 \in Residue,
         Nonzero(p, dx), Nonzero(p, r),
         DividesTo(cx, cy, dx, x3, y3), Scales(D, cx, cy, dx, r)
  PROVE  PointOK(D) /\ ~is_at_infinity(D) /\ Affine(D) = <<x3, y3>>
<1> DEFINE z == dx * r
           e == x3 * dx * dx
           f == y3 * dx * dx * dx
           rr == r * r
           rrr == r * r * r
<1>0. p \in Nat \ {0} /\ x3 \in Int /\ y3 \in Int /\ z \in Int /\ Nonzero(p, z)
  BY FieldType, ResidueType, NonzeroProduct
<1>1. /\ e \in Int /\ f \in Int /\ rr \in Int /\ rrr \in Int
      /\ cx * r * r = cx * rr /\ cy * r * r * r = cy * rrr
      /\ x3 * z * z = e * rr /\ y3 * z * z * z = f * rrr
  BY <1>0, SMT
<1>2. Cong(p, cx, e) /\ Cong(p, cy, f)
  BY DEF DividesTo
<1>3. Means(D.X, cx * rr) /\ Means(D.Y, cy * rrr) /\ Means(D.Z, z)
  BY <1>1 DEF Scales
<1> HIDE DEF z, e, f, rr, rrr
<1>4. e * rr \in Int /\ f * rrr \in Int
  BY <1>1
<1>5. Cong(p, cx * rr, e * rr) /\ Cong(p, cy * rrr, f * rrr)
  BY <1>0, <1>1, <1>2, CongScale
<1>6. Means(D.X, e * rr) /\ Means(D.Y, f * rrr)
  BY <1>3, <1>4, <1>5, MeansCong
<1>7. Means(D.X, x3 * z * z) /\ Means(D.Y, y3 * z * z * z)
  BY <1>1, <1>6
<1>8. PointOK(D)
  BY DEF PointOK
<1> QED
  BY <1>0, <1>3, <1>7, <1>8, AffineFinite

LEMMA DblAffine ==
  ASSUME GroupOK, NEW R, PointOK(R), NEW P, PointOK(P)
  PROVE  /\ PointOK(dbl(R, P))
         /\ Affine(dbl(R, P)) = L!Sum(Equation, Affine(P), Affine(P))
         /\ OnLaw(Affine(P)) => OnLaw(Affine(dbl(R, P)))
<1> DEFINE D == dbl(R, P)
<1>1. CASE is_at_infinity(P)
  <2>1. D = set_to_infinity(R)
    BY <1>1 DEF dbl
  <2>2. Affine(P) = Infinity
    BY <1>1 DEF Affine
  <2>3. L!Sum(Equation, Affine(P), Affine(P)) = Infinity
    BY <2>2 DEF L!Sum
  <2> HIDE DEF D
  <2>4. PointOK(D) /\ Affine(D) = Infinity
    BY <2>1, InfinityAffine
  <2> QED BY <2>3, <2>4 DEF D, OnLaw
<1>2. CASE ~is_at_infinity(P)
  <2>0. PICK x \in Residue, y \in Residue, z \in Int :
          Affine(P) = <<x, y>> /\ Stands(P, x, y, z)
    BY <1>2, AffineSplit
  <2> DEFINE w == z * z * z * z
             cx == DoubleX(x, y)
             cy == DoubleY(x, y)
             dx == 2 * y
             l == Tangent(x)
  <2>1. p \in Nat \ {0} /\ PrimeField(p) /\ x \in Int /\ y \in Int /\ Nonzero(p, z)
    BY <2>0, FieldType, ResidueType DEF Stands
  <2>2. w \in Int /\ Nonzero(p, w)
    <3> DEFINE zz == z * z
               zzz == zz * z
    <3>1. zz \in Int /\ zzz \in Int /\ Nonzero(p, zz)
      BY <2>1, NonzeroProduct
    <3>2. w = zzz * z /\ w \in Int
      BY SMT
    <3> HIDE DEF zz
    <3>3. Nonzero(p, zzz)
      BY <2>1, <3>1, NonzeroProduct
    <3> HIDE DEF zzz, w
    <3>4. Nonzero(p, zzz * z)
      BY <2>1, <3>1, <3>3, NonzeroProduct
    <3> QED BY <3>2, <3>4
  <2>3. cx \in Int /\ cy \in Int /\ l \in Int /\ dx \in Int
    BY <2>1, PolyType
  <2>4. /\ D \in Point /\ D.Z_is_one = FALSE
        /\ Means(D.X, cx * w * w) /\ Means(D.Y, cy * w * w * w) /\ Means(D.Z, dx * w)
    <3> HIDE DEF w
    <3>1. /\ dbl(R, P) \in Point /\ dbl(R, P).Z_is_one = FALSE
          /\ Means(dbl(R, P).X, DoubleX(x, y) * w * w)
          /\ Means(dbl(R, P).Y, DoubleY(x, y) * w * w * w)
          /\ Means(dbl(R, P).Z, 2 * y * w)
      BY <1>2, <2>0, DblMeans DEF w
    <3> QED BY <3>1
  <2>5. y + y = dx /\ <<x, y>> # Infinity
    BY <2>1, PairIsFinite
  <2>6. L!Sum(Equation, <<x, y>>, <<x, y>>)
          = IF (y + y) % p = 0 THEN Infinity
            ELSE L!ThirdPoint(Equation, L!Quotient(Equation, 3 * x * x + A, 2 * y),
                              <<x, y>>, <<x, y>>)
    BY <2>5, EquationIs DEF L!Sum
  <2>7. L!Sum(Equation, Affine(P), Affine(P))
          = IF ~Nonzero(p, dx) THEN Infinity
            ELSE L!ThirdPoint(Equation, L!Quotient(Equation, l, dx), <<x, y>>, <<x, y>>)
    <3>1. (y + y) % p = 0 <=> ~Nonzero(p, dx)
      <4>1. y + y = dx
        BY <2>5
      <4> HIDE DEF dx
      <4> QED BY <2>1, <2>3, <4>1, NonzeroRemainder
    <3>2. l = 3 * x * x + A
      BY DEF Tangent
    <3> QED BY <2>0, <2>6, <3>1, <3>2
  <2>8. CASE ~Nonzero(p, dx)
    <3>1. Cong(p, dx * w, 0)
      <4> HIDE DEF dx, w
      <4>1. 0 * w = 0 /\ 0 \in Int
        BY <2>2
      <4>2. Cong(p, dx * w, 0 * w)
        BY <2>1, <2>2, <2>3, <2>8, <4>1, CongScale DEF Nonzero
      <4> QED BY <4>1, <4>2
    <3> HIDE DEF D, w, dx
    <3>2. PointOK(D) /\ D.Z \in Residue
      BY <2>4 DEF PointOK, Point
    <3>3. D.Z = 0
      BY <2>4, <3>1, <3>2, MeansZero DEF Nonzero
    <3>4. Affine(D) = Infinity
      BY <3>3 DEF Affine, is_at_infinity
    <3> QED BY <2>7, <2>8, <3>2, <3>4 DEF D, OnLaw
  <2>9. CASE Nonzero(p, dx)
    <3> DEFINE lam == L!Quotient(Equation, l, dx)
    <3>1. lam \in Int /\ Cong(p, lam * dx, l)
      <4> HIDE DEF l, dx
      <4> QED BY <2>3, <2>9, QuotientDef
    <3> HIDE DEF lam, D
    <3>2. PICK x3 \in Residue, y3 \in Residue :
            /\ L!ThirdPoint(Equation, lam, <<x, y>>, <<x, y>>) = <<x3, y3>>
            /\ Cong(p, x3, lam * lam - x - x)
            /\ Cong(p, y3, lam * (x - x3) - y)
      BY <2>1, <3>1, ThirdDef
    <3>3. x3 \in Int /\ y3 \in Int
      BY ResidueType
    <3>4. DividesTo(cx, cy, dx, x3, y3)
      BY <2>1, <3>1, <3>2, <3>3, TangentAlgebra DEF DividesTo
    <3>5. PointOK(D) /\ Affine(D) = <<x3, y3>>
      <4> HIDE DEF cx, cy, dx, w
      <4>1. Scales(D, cx, cy, dx, w)
        BY <2>4 DEF Scales
      <4>2. D \in Point /\ ~D.Z_is_one
        BY <2>4
      <4>3. cx \in Int /\ cy \in Int /\ dx \in Int /\ w \in Int /\ Nonzero(p, w)
        BY <2>2, <2>3
      <4> QED BY <2>9, <3>4, <4>1, <4>2, <4>3, ThirdAffine
    <3>6. L!Sum(Equation, Affine(P), Affine(P)) = <<x3, y3>>
      BY <2>7, <2>9, <3>2 DEF lam
    <3>7. ASSUME OnLaw(Affine(P)) PROVE OnCurve(x3, y3)
      <4>1. OnCurve(x, y)
        <5>1. PICK xx \in Residue, yy \in Residue : <<x, y>> = <<xx, yy>> /\ OnCurve(xx, yy)
          BY <2>0, <2>5, <3>7 DEF OnLaw
        <5>2. x = xx /\ y = yy
          BY <5>1
        <5> QED BY <5>1, <5>2
      <4> QED BY <2>1, <3>1, <3>2, <3>3, <4>1, TangentOnCurve
    <3> QED BY <3>5, <3>6, <3>7 DEF D, OnLaw
  <2> QED BY <2>8, <2>9
<1> QED
  BY <1>1, <1>2

LEMMA OnLawPair ==
  ASSUME GroupOK, NEW x \in Residue, NEW y \in Residue
  PROVE  OnLaw(<<x, y>>) <=> OnCurve(x, y)
<1>1. <<x, y>> # Infinity
  BY PairIsFinite, ResidueType
<1>2. ASSUME OnLaw(<<x, y>>) PROVE OnCurve(x, y)
  <2>1. PICK xx \in Residue, yy \in Residue : <<x, y>> = <<xx, yy>> /\ OnCurve(xx, yy)
    BY <1>1, <1>2 DEF OnLaw
  <2>2. x = xx /\ y = yy
    BY <2>1
  <2> QED BY <2>1, <2>2
<1>3. ASSUME OnCurve(x, y) PROVE OnLaw(<<x, y>>)
  BY <1>3 DEF OnLaw
<1> QED
  BY <1>2, <1>3

LEMMA AddAffine ==
  ASSUME GroupOK, NEW R, PointOK(R), NEW P, PointOK(P), NEW Q, PointOK(Q),
         OnLaw(Affine(P)), OnLaw(Affine(Q))
  PROVE  /\ PointOK(add(R, P, Q))
         /\ Affine(add(R, P, Q)) = L!Sum(Equation, Affine(P), Affine(Q))
         /\ OnLaw(Affine(add(R, P, Q)))
<1> DEFINE D == add(R, P, Q)
<1>1. CASE is_at_infinity(P)
  <2>1. D = Q
    BY <1>1 DEF add
  <2>2. Affine(P) = Infinity
    BY <1>1 DEF Affine
  <2>3. L!Sum(Equation, Affine(P), Affine(Q)) = Affine(Q)
    BY <2>2 DEF L!Sum
  <2> QED BY <2>1, <2>3
<1>2. CASE ~is_at_infinity(P) /\ is_at_infinity(Q)
  <2>1. D = P
    BY <1>2 DEF add
  <2>2. Affine(Q) = Infinity
    BY <1>2 DEF Affine
  <2>3. L!Sum(Equation, Affine(P), Affine(Q)) = Affine(P)
    BY <2>2 DEF L!Sum
  <2> QED BY <2>1, <2>3
<1>3. CASE ~is_at_infinity(P) /\ ~is_at_infinity(Q)
  <2>1. PICK x1 \in Residue, y1 \in Residue, z1 \in Int :
          Affine(P) = <<x1, y1>> /\ Stands(P, x1, y1, z1)
    BY <1>3, AffineSplit
  <2>2. PICK x2 \in Residue, y2 \in Residue, z2 \in Int :
          Affine(Q) = <<x2, y2>> /\ Stands(Q, x2, y2, z2)
    BY <1>3, AffineSplit
  <2> DEFINE q == z1 * z2
             r == q * q * q
             dx == x1 - x2
             cx == ChordX(x1, y1, x2, y2)
             cy == ChordY(x1, y1, x2, y2)
  <2>3. /\ p \in Nat \ {0} /\ PrimeField(p) /\ x1 \in Int /\ y1 \in Int /\ x2 \in Int /\ y2 \in Int
        /\ Nonzero(p, z1) /\ Nonzero(p, z2) /\ dx \in Int
    BY <2>1, <2>2, FieldType, ResidueType DEF Stands
  <2>4. OnCurve(x1, y1) /\ OnCurve(x2, y2)
    BY <2>1, <2>2, OnLawPair
  <2>5. r \in Int /\ Nonzero(p, r)
    <3> DEFINE qq == q * q
    <3>1. q \in Int /\ qq \in Int /\ Nonzero(p, q)
      BY <2>3, NonzeroProduct
    <3> HIDE DEF q
    <3>2. Nonzero(p, qq)
      BY <2>3, <3>1, NonzeroProduct
    <3>3. r = qq * q /\ r \in Int
      BY <3>1
    <3> HIDE DEF qq, r
    <3>4. Nonzero(p, qq * q)
      BY <2>3, <3>1, <3>2, NonzeroProduct
    <3> QED BY <3>3, <3>4
  <2>6. /\ Cong(p, x1, x2) /\ Cong(p, y1, y2) => D = dbl(R, P)
        /\ Cong(p, x1, x2) /\ ~Cong(p, y1, y2) => D = set_to_infinity(R)
        /\ ~Cong(p, x1, x2) =>
             /\ D \in Point /\ ~D.Z_is_one
             /\ Means(D.X, cx * r * r) /\ Means(D.Y, cy * r * r * r) /\ Means(D.Z, dx * r)
    <3> HIDE DEF r
    <3>1. /\ Cong(p, x1, x2) /\ Cong(p, y1, y2) => add(R, P, Q) = dbl(R, P)
          /\ Cong(p, x1, x2) /\ ~Cong(p, y1, y2) => add(R, P, Q) = set_to_infinity(R)
          /\ ~Cong(p, x1, x2) =>
               /\ add(R, P, Q) \in Point /\ add(R, P, Q).Z_is_one = FALSE
               /\ Means(add(R, P, Q).X, ChordX(x1, y1, x2, y2) * r * r)
               /\ Means(add(R, P, Q).Y, ChordY(x1, y1, x2, y2) * r * r * r)
               /\ Means(add(R, P, Q).Z, (x1 - x2) * r)
      BY <1>3, <2>1, <2>2, AddMeans DEF r
    <3> QED BY <3>1
  <2>7. <<x1, y1>> # Infinity /\ <<x2, y2>> # Infinity
    BY <2>3, PairIsFinite
  <2>8. L!Sum(Equation, Affine(P), Affine(Q))
          = IF x1 # x2
            THEN L!ThirdPoint(Equation, L!Quotient(Equation, y2 - y1, x2 - x1),
                              <<x1, y1>>, <<x2, y2>>)
            ELSE IF (y1 + y2) % p = 0 THEN Infinity
            ELSE L!ThirdPoint(Equation, L!Quotient(Equation, 3 * x1 * x1 + A, 2 * y1),
                              <<x1, y1>>, <<x2, y2>>)
    BY <2>1, <2>2, <2>7, EquationIs DEF L!Sum
  <2>9. Cong(p, x1, x2) => x1 = x2
    BY <2>3, CongSmall DEF Residue
  <2>10. CASE Cong(p, x1, x2) /\ Cong(p, y1, y2)
    <3>1. x1 = x2 /\ y1 = y2
      BY <2>3, <2>10, CongSmall DEF Residue
    <3>2. D = dbl(R, P) /\ Affine(Q) = Affine(P)
      BY <2>1, <2>2, <2>6, <2>10, <3>1
    <3> HIDE DEF D
    <3>3. PointOK(D) /\ Affine(D) = L!Sum(Equation, Affine(P), Affine(P)) /\ OnLaw(Affine(D))
      BY <3>2, DblAffine
    <3> QED BY <3>2, <3>3 DEF D
  <2>11. CASE Cong(p, x1, x2) /\ ~Cong(p, y1, y2)
    <3>1. Cong(p, y1 + y2, 0)
      BY <2>3, <2>4, <2>11, SameX
    <3>2. (y1 + y2) % p = 0
      <4> DEFINE s == y1 + y2
      <4>1. s \in Int /\ Cong(p, s, 0)
        BY <2>3, <3>1
      <4> HIDE DEF s
      <4>2. s % p = 0
        BY <2>3, <4>1, NonzeroRemainder DEF Nonzero
      <4> QED BY <4>2 DEF s
    <3>3. L!Sum(Equation, Affine(P), Affine(Q)) = Infinity
      BY <2>8, <2>9, <2>11, <3>2
    <3>4. D = set_to_infinity(R)
      BY <2>6, <2>11
    <3> HIDE DEF D
    <3>5. PointOK(D) /\ Affine(D) = Infinity
      BY <3>4, InfinityAffine
    <3> QED BY <3>3, <3>5 DEF D, OnLaw
  <2>12. CASE ~Cong(p, x1, x2)
    <3> DEFINE ex == x2 - x1
               ey == y2 - y1
               lam == L!Quotient(Equation, ey, ex)
    <3>1. ex \in Int /\ ey \in Int /\ Nonzero(p, ex) /\ Nonzero(p, dx)
      <4>1. ~Cong(p, x2, x1)
        BY <2>12, CongSym
      <4>2. Cong(p, x2 - x1, 0) <=> Cong(p, x2, x1)
        BY <2>3, CongDifference
      <4>3. Cong(p, x1 - x2, 0) <=> Cong(p, x1, x2)
        BY <2>3, CongDifference
      <4>4. ex \in Int /\ ey \in Int
        BY <2>3
      <4> QED BY <2>12, <4>1, <4>2, <4>3, <4>4 DEF Nonzero
    <3>2. lam \in Int /\ Cong(p, lam * ex, ey)
      <4> HIDE DEF ex, ey
      <4> QED BY <3>1, QuotientDef
    <3> HIDE DEF lam, D
    <3>3. Cong(p, lam * dx, y1 - y2)
      <4> DEFINE t == lam * ex
                 mt == lam * dx
      <4>1. t \in Int /\ mt \in Int /\ mt = 0 - t /\ y1 - y2 = 0 - ey /\ Cong(p, t, ey) /\ 0 \in Int
        BY <2>3, <3>1, <3>2, SMT
      <4> HIDE DEF t, mt, ex, ey
      <4>2. Cong(p, 0 - t, 0 - ey)
        BY <2>3, <3>1, <4>1, CongScale
      <4> QED BY <4>1, <4>2 DEF mt
    <3>4. PICK x3 \in Residue, y3 \in Residue :
            /\ L!ThirdPoint(Equation, lam, <<x1, y1>>, <<x2, y2>>) = <<x3, y3>>
            /\ Cong(p, x3, lam * lam - x1 - x2)
            /\ Cong(p, y3, lam * (x1 - x3) - y1)
      BY <2>3, <3>2, ThirdDef
    <3>5. x3 \in Int /\ y3 \in Int
      BY ResidueType
    <3>6. DividesTo(cx, cy, dx, x3, y3)
      BY <2>3, <3>2, <3>3, <3>4, <3>5, ChordAlgebra DEF DividesTo
    <3>7. cx \in Int /\ cy \in Int
      BY <2>3 DEF ChordX, ChordY
    <3>8. PointOK(D) /\ Affine(D) = <<x3, y3>>
      <4>0. D \in Point /\ ~D.Z_is_one
        BY <2>6, <2>12
      <4> HIDE DEF cx, cy, dx, r
      <4>1. Scales(D, cx, cy, dx, r)
        BY <2>6, <2>12 DEF Scales
      <4>2. r \in Int /\ Nonzero(p, r) /\ dx \in Int /\ Nonzero(p, dx)
        BY <2>3, <2>5, <3>1
      <4> QED BY <3>6, <3>7, <4>0, <4>1, <4>2, ThirdAffine
    <3>9. L!Sum(Equation, Affine(P), Affine(Q)) = <<x3, y3>>
      <4>1. x1 # x2
        BY <2>12, CongRefl
      <4> QED BY <2>8, <3>4, <4>1 DEF lam
    <3>10. OnCurve(x3, y3)
      BY <2>3, <2>4, <2>12, <3>2, <3>3, <3>4, <3>5, ChordOnCurve
    <3>11. OnLaw(<<x3, y3>>)
      BY <3>10 DEF OnLaw
    <3> QED BY <3>8, <3>9, <3>11 DEF D
  <2> QED BY <2>10, <2>11, <2>12
<1> QED
  BY <1>1, <1>2, <1>3

LEMMA NegatedResidue ==
  ASSUME GroupOK, NEW y \in Residue
  PROVE  (-y) % p \in Residue /\ Cong(p, (-y) % p, -y)
<1>1. -y \in Int /\ p \in Nat \ {0}
  BY ResidueType, FieldType
<1> QED
  BY <1>1, CongMod DEF Residue

LEMMA InvertAffine ==
  ASSUME GroupOK, NEW P, PointOK(P), OnLaw(Affine(P))
  PROVE  /\ PointOK(invert(P)) /\ Affine(invert(P)) = L!Opposite(Equation, Affine(P))
         /\ OnLaw(Affine(invert(P)))
<1> DEFINE S == invert(P)
<1>1. CASE is_at_infinity(P)
  <2>1. S = P /\ Affine(P) = Infinity
    BY <1>1 DEF invert, Affine
  <2>2. L!Opposite(Equation, Affine(P)) = Affine(P)
    BY <2>1 DEF L!Opposite
  <2> QED BY <2>1, <2>2
<1>2. CASE ~is_at_infinity(P)
  <2>1. PICK x \in Residue, y \in Residue, z \in Int :
          Affine(P) = <<x, y>> /\ Stands(P, x, y, z)
    BY <1>2, AffineSplit
  <2> DEFINE ny == (-y) % p
             zzz == z * z * z
             e == y * z * z * z
             f == ny * z * z * z
             ye == x * z * z
  <2>2. /\ p \in Nat \ {0} /\ p \in Int /\ PrimeField(p) /\ x \in Int /\ y \in Int /\ Nonzero(p, z)
        /\ P.Y \in Residue /\ P.Y \in 0 .. p - 1 /\ P.Y \in Int
    BY <2>1, FieldType, ResidueType, PointType DEF Stands
  <2>3. ny \in Residue /\ ny \in Int /\ Cong(p, ny, -y)
    BY NegatedResidue, ResidueType
  <2>4. /\ Means(P.X, ye) /\ Means(P.Y, e) /\ Means(P.Z, z)
        /\ (P.Z_is_one => z = 1)
    BY <2>1 DEF Stands
  <2>5. L!Opposite(Equation, Affine(P)) = <<x, ny>>
    <3>1. <<x, y>> # Infinity
      BY <2>2, PairIsFinite
    <3> QED BY <2>1, <3>1, EquationIs DEF L!Opposite
  <2>6. OnCurve(x, ny)
    <3> HIDE DEF ny
    <3>1. OnCurve(x, -y) /\ -y \in Int
      BY <2>1, <2>2, OnLawPair, OppositeOnCurve
    <3>2. Cong(p, x, x) /\ Cong(p, -y, ny)
      BY <2>3, CongRefl, CongSym
    <3> QED BY <2>2, <2>3, <3>1, <3>2, OnCurveSame
  <2> HIDE DEF ny
  <2>7. /\ zzz \in Int /\ e \in Int /\ f \in Int /\ -e = (-y) * zzz /\ f = ny * zzz /\ e = zzz * y
    BY <2>2, <2>3, SMT
  <2>8. Nonzero(p, zzz)
    <3> DEFINE zz == z * z
    <3>1. zz \in Int /\ Nonzero(p, zz) /\ zzz = zz * z
      BY <2>2, NonzeroProduct
    <3> HIDE DEF zz, zzz
    <3>2. Nonzero(p, zz * z)
      BY <2>2, <3>1, NonzeroProduct
    <3> QED BY <3>1, <3>2
  <2>9. Cong(p, -e, f)
    <3> HIDE DEF e, f, zzz
    <3>1. -y \in Int /\ Cong(p, -y, ny)
      BY <2>2, <2>3, CongSym
    <3>2. Cong(p, (-y) * zzz, ny * zzz)
      BY <2>2, <2>3, <2>7, <3>1, CongScale
    <3> QED BY <2>7, <3>2
  <2>10. CASE P.Y = 0
    <3>1. S = P
      BY <2>10 DEF invert
    <3>2. y = 0
      <4> HIDE DEF e, zzz
      <4>1. Cong(p, zzz * y, 0)
        BY <2>2, <2>4, <2>7, <2>10, MeansZero DEF Nonzero
      <4>2. Cong(p, y, 0)
        BY <2>2, <2>7, <2>8, <4>1, CongFactor
      <4>3. 0 \in 0 .. p - 1 /\ y \in 0 .. p - 1
        BY <2>2, ResidueType
      <4> QED BY <2>2, <4>2, <4>3, CongSmall
    <3>3. ny = y
      <4> HIDE DEF ny
      <4>1. \A n \in Int : -n = 0 - n /\ -n \in Int
        OBVIOUS
      <4>2. -y \in Int /\ -y = 0 - y
        BY <2>2, <4>1
      <4>3. 0 - y = y
        BY <3>2
      <4>4. Cong(p, ny, y)
        BY <2>3, <4>2, <4>3
      <4>5. ny \in 0 .. p - 1 /\ y \in 0 .. p - 1
        BY <2>3, ResidueType
      <4> QED BY <2>2, <4>4, <4>5, CongSmall
    <3> QED BY <2>1, <2>5, <3>1, <3>3
  <2>11. CASE P.Y # 0
    <3> DEFINE Y == p - P.Y
    <3>1. S = [P EXCEPT !.Y = Y]
      BY <1>2, <2>11 DEF invert
    <3>2. Y \in Residue /\ Y \in Int
      BY <2>2, <2>11 DEF Residue
    <3>3. Means(Y, f)
      <4> HIDE DEF e, f
      <4>1. Cong(p, p * Unit, 0)
        <5>1. Unit \in Int /\ p * Unit \in Int /\ p * Unit = 0 + p * Unit /\ 0 \in Int
          BY <2>2, UnitDef
        <5> QED BY <2>2, <5>1, CongFrom
      <4>2. Means(p, 0)
        BY <2>2, <4>1 DEF Means
      <4>3. Means(Y, 0 - e)
        BY <2>4, <4>2, MeansAdd
      <4>4. 0 - e = -e
        BY <2>7
      <4> QED BY <2>7, <2>9, <4>3, <4>4, MeansCong
    <3> HIDE DEF Y, S
    <3>4. P \in Point /\ (P.Z_is_one => P.Z = field_encode(1))
      BY DEF PointOK
    <3>5. /\ S \in Point /\ S.X = P.X /\ S.Y = Y /\ S.Z = P.Z /\ S.Z_is_one = P.Z_is_one
      BY <3>1, <3>2, <3>4 DEF Point
    <3>6. PointOK(S)
      BY <3>4, <3>5 DEF PointOK
    <3>7. Means(S.X, x * z * z) /\ Means(S.Y, ny * z * z * z) /\ Means(S.Z, z)
      BY <2>4, <3>3, <3>5
    <3>8. Affine(S) = <<x, ny>>
      BY <2>2, <2>3, <3>6, <3>7, AffineFinite
    <3> QED BY <2>3, <2>5, <2>6, <3>6, <3>8, OnLawPair DEF S
  <2> QED BY <2>10, <2>11
<1> QED
  BY <1>1, <1>2

(* make_affine leaves the affine point.                                       *)
LEMMA MakeAffineAffine ==
  ASSUME GroupOK, NEW P, PointOK(P)
  PROVE  PointOK(make_affine(P)) /\ Affine(make_affine(P)) = Affine(P)
<1> DEFINE S == make_affine(P)
<1>1. CASE P.Z_is_one \/ is_at_infinity(P)
  <2>1. S = P
    BY <1>1 DEF make_affine
  <2> QED BY <2>1
<1>2. CASE ~(P.Z_is_one \/ is_at_infinity(P))
  <2>1. PICK x \in Residue, y \in Residue, z \in Int :
          Affine(P) = <<x, y>> /\ Stands(P, x, y, z)
    BY <1>2, AffineSplit
  <2>2. get_affine(P) = <<x, y>>
    BY <1>2, <2>1 DEF Affine
  <2>3. S = set_Jprojective(x, y, 1)
    BY <1>2, <2>2 DEF make_affine
  <2> HIDE DEF S
  <2>4. x \in 0 .. p - 1 /\ y \in 0 .. p - 1 /\ x \in Int /\ y \in Int /\ p \in Nat \ {0}
    BY ResidueType, FieldType
  <2>5. x % p = x /\ y % p = y
    BY <2>4, SmallMod
  <2>6. PointOK(S) /\ ~is_at_infinity(S) /\ get_affine(S) = <<x, y>>
    BY <2>3, <2>4, <2>5, SetAffineMeans
  <2> QED BY <2>1, <2>6 DEF S, Affine
<1> QED
  BY <1>1, <1>2

(* Two points with one inversion. Each inverse of z is divided out of tmp,    *)
(* which means the inverse of the product.                                    *)
LEMMA DividedOut ==
  ASSUME GroupOK, NEW P, PointOK(P), ~is_at_infinity(P), NEW i, NEW v,
         NEW x \in Residue, NEW y \in Residue, NEW z \in Int,
         Affine(P) = <<x, y>>, Stands(P, x, y, z), Means(i, v), Cong(p, z * v, 1),
         NEW S,
         S = [X |-> field_mul(P.X, field_sqr(i)), Y |-> field_mul(P.Y, field_mul(field_sqr(i), i)),
              Z |-> field_encode(1), Z_is_one |-> TRUE]
  PROVE  PointOK(S) /\ Affine(S) = Affine(P)
<1> DEFINE ii == field_sqr(i)
           iii == field_mul(ii, i)
           X == field_mul(P.X, ii)
           Y == field_mul(P.Y, iii)
           Z == field_encode(1)
           xs == x * z * z
           ys == y * z * z * z
           t == z * v
           e == xs * (v * v)
           f == ys * (v * v * v)
<1>0. /\ p \in Nat \ {0} /\ x \in Int /\ y \in Int /\ z \in Int /\ v \in Int /\ 1 \in Int
      /\ Means(P.X, xs) /\ Means(P.Y, ys)
  BY FieldType, ResidueType DEF Stands, Means
<1>1. Means(ii, v * v) /\ Means(iii, v * v * v)
  <2>1. Means(ii, v * v)
    BY MeansSqr
  <2> HIDE DEF ii
  <2>2. Means(iii, v * v * v)
    BY <2>1, MeansMul
  <2> QED BY <2>1, <2>2
<1>2. t \in Int /\ xs \in Int /\ ys \in Int /\ e \in Int /\ f \in Int /\ Cong(p, t, 1)
  BY <1>0
<1>3. Means(X, e) /\ X \in Residue /\ Means(Y, f) /\ Y \in Residue
  <2> HIDE DEF ii, iii, xs, ys
  <2> QED BY <1>0, <1>1, MeansMul
<1>4. Means(Z, 1) /\ Z \in Residue
  BY <1>0, MeansEncode
<1>5. S = [X |-> X, Y |-> Y, Z |-> Z, Z_is_one |-> TRUE]
  OBVIOUS
<1>6. Cong(p, e, x) /\ Cong(p, f, y)
  <2> DEFINE tt == t * t
             ttt == tt * t
  <2>1. e = x * tt /\ f = y * ttt /\ 1 * 1 = 1 /\ x * 1 = x /\ y * 1 = y
    BY <1>0, SMT
  <2> HIDE DEF t, e, f
  <2>2a. tt \in Int
    BY <1>2
  <2>2b. Cong(p, t * t, 1 * 1)
    BY <1>0, <1>2, CongMul
  <2>2. tt \in Int /\ Cong(p, t * t, 1 * 1)
    BY <2>2a, <2>2b
  <2>3. Cong(p, tt, 1)
    BY <2>1, <2>2
  <2> HIDE DEF tt
  <2>4a. ttt \in Int
    BY <1>2, <2>2
  <2>4b. Cong(p, tt * t, 1 * 1)
    BY <1>0, <1>2, <2>2, <2>3, CongMul
  <2>4. ttt \in Int /\ Cong(p, tt * t, 1 * 1)
    BY <2>4a, <2>4b
  <2>5. Cong(p, ttt, 1)
    BY <2>1, <2>4
  <2> HIDE DEF ttt
  <2>6. Cong(p, x * tt, x * 1) /\ Cong(p, y * ttt, y * 1)
    BY <1>0, <2>2, <2>3, <2>4, <2>5, CongScale
  <2> QED BY <2>1, <2>6
<1> HIDE DEF X, Y, Z, e, f
<1>7. Means(X, x) /\ Means(Y, y)
  BY <1>0, <1>3, <1>6, MeansCong
<1>8. S.X = X /\ S.Y = Y /\ S.Z = Z
  BY <1>5
<1>9. PointOK(S)
  <2>1. \A b \in BOOLEAN : [X |-> X, Y |-> Y, Z |-> Z, Z_is_one |-> b] \in Point
    BY <1>3, <1>4 DEF Point
  <2>2. S \in Point
    BY <1>5, <2>1, Zenon
  <2> QED BY <1>8, <2>2 DEF PointOK, Z
<1>10. x = x * 1 * 1 /\ y = y * 1 * 1 * 1
  BY <1>0
<1>11. Means(S.X, x * 1 * 1) /\ Means(S.Y, y * 1 * 1 * 1) /\ Means(S.Z, 1)
  BY <1>4, <1>7, <1>8, <1>10
<1>12. Affine(S) = <<x, y>>
  BY <1>0, <1>9, <1>11, FieldType, NonzeroSmall, AffineFinite
<1> QED
  BY <1>9, <1>12

LEMMA InverseOfProduct ==
  ASSUME GroupOK, NEW s, NEW v, Means(s, v), Nonzero(p, v), NEW t,
         t = field_encode(field_encode(BN_mod_inverse(s)))
  PROVE  \E w \in Int : Means(t, w) /\ Cong(p, v * w, 1)
<1> DEFINE i == BN_mod_inverse(s)
           e == field_encode(i)
           r == group.R
           w == field_decode(t)
           su == s * Unit
           ru == r * Unit
           si == s * i
           er == e * r
<1>0. p \in Nat \ {0} /\ s \in Int /\ v \in Int /\ Unit \in Int /\ Cong(p, su, v) /\ 1 \in Int
  BY FieldType, UnitDef DEF Means
<1>1. r \in Int /\ Cong(p, ru, 1)
  BY UnitDef
<1>2. Nonzero(p, s)
  <2> SUFFICES ASSUME Cong(p, s, 0) PROVE FALSE
    BY DEF Nonzero
  <2>1. 0 * Unit = 0 /\ 0 \in Int
    BY <1>0
  <2>2. Cong(p, s * Unit, 0 * Unit)
    BY <1>0, <2>1, CongScale
  <2>3. Cong(p, v, 0)
    BY <1>0, <2>1, <2>2, CongSym, CongTrans
  <2> QED BY <2>3 DEF Nonzero
<1>3. i \in Int /\ Cong(p, si, 1)
  BY <1>0, <1>2, InverseDef
<1>4. Means(e, i) /\ e \in Residue /\ e \in Int
  BY <1>3, MeansEncode, ResidueType
<1> HIDE DEF i
<1>5. t = field_encode(e)
  BY DEF e, i
<1> HIDE DEF e, r
<1>6. Means(t, e) /\ t \in Residue /\ t \in Int
  BY <1>4, <1>5, MeansEncode, ResidueType
<1>7. Cong(p, e * Unit, i)
  BY <1>4 DEF Means
<1> DEFINE eu == e * Unit
           ve == v * e
<1>8. /\ su \in Int /\ ru \in Int /\ si \in Int /\ eu \in Int /\ ve \in Int
      /\ su * e = s * eu
  BY <1>0, <1>1, <1>3, <1>4, SMT
<1>9. Cong(p, eu, i)
  BY <1>7
<1> HIDE DEF su, si, eu
<1>10. Cong(p, v * e, su * e)
  BY <1>0, <1>4, <1>8, CongScale, CongSym
<1>11. Cong(p, s * eu, s * i)
  BY <1>0, <1>3, <1>8, <1>9, CongScale
<1>12. Cong(p, ve, 1)
  <2>1. Cong(p, s * i, 1)
    BY <1>3 DEF si
  <2> QED BY <1>8, <1>10, <1>11, <2>1, CongTrans
<1> QED
  BY <1>4, <1>6, <1>12

\* One point of the batch, with the inverse of its Z
WithInverse(S, i) ==
  IF S.Z = 0 THEN S
  ELSE [X |-> field_mul(S.X, field_sqr(i)), Y |-> field_mul(S.Y, field_mul(field_sqr(i), i)),
        Z |-> field_encode(1), Z_is_one |-> TRUE]

(* A point, or 1 in place of one at infinity, has a nonzero Z.                *)
LEMMA FactorMeans ==
  ASSUME GroupOK, NEW P, PointOK(P), NEW f, f = IF P.Z = 0 THEN field_encode(1) ELSE P.Z
  PROVE  \E z \in Int :
           /\ Means(f, z) /\ Nonzero(p, z)
           /\ ~is_at_infinity(P) =>
                \E x, y \in Residue : Affine(P) = <<x, y>> /\ Stands(P, x, y, z)
<1>1. CASE is_at_infinity(P)
  <2>1. f = field_encode(1) /\ 1 \in Int
    BY <1>1 DEF is_at_infinity
  <2>2. Means(f, 1) /\ Nonzero(p, 1)
    BY <2>1, MeansEncode, FieldType, NonzeroSmall
  <2> QED BY <1>1, <2>1, <2>2
<1>2. CASE ~is_at_infinity(P)
  <2>1. PICK x \in Residue, y \in Residue, z \in Int :
          Affine(P) = <<x, y>> /\ Stands(P, x, y, z)
    BY <1>2, AffineSplit
  <2>2. f = P.Z
    BY <1>2 DEF is_at_infinity
  <2>3. Means(f, z) /\ Nonzero(p, z)
    BY <2>1, <2>2 DEF Stands
  <2> QED BY <2>1, <2>3
<1> QED
  BY <1>1, <1>2

LEMMA WithInverseAffine ==
  ASSUME GroupOK, NEW P, PointOK(P), NEW z, NEW i, NEW v, Means(i, v), Cong(p, z * v, 1),
         ~is_at_infinity(P) =>
           \E x, y \in Residue : Affine(P) = <<x, y>> /\ Stands(P, x, y, z)
  PROVE  PointOK(WithInverse(P, i)) /\ Affine(WithInverse(P, i)) = Affine(P)
<1> DEFINE S == WithInverse(P, i)
<1>1. CASE is_at_infinity(P)
  <2>1. S = P
    BY <1>1 DEF WithInverse, is_at_infinity
  <2> QED BY <2>1
<1>2. CASE ~is_at_infinity(P)
  <2>1. PICK x \in Residue, y \in Residue : Affine(P) = <<x, y>> /\ Stands(P, x, y, z)
    BY <1>2
  <2>2. z \in Int
    BY <2>1 DEF Stands
  <2>3. S = [X |-> field_mul(P.X, field_sqr(i)),
             Y |-> field_mul(P.Y, field_mul(field_sqr(i), i)),
             Z |-> field_encode(1), Z_is_one |-> TRUE]
    BY <1>2 DEF WithInverse, is_at_infinity
  <2> HIDE DEF S
  <2>4. PointOK(S) /\ Affine(S) = Affine(P)
    BY <1>2, <2>1, <2>2, <2>3, DividedOut
  <2> QED BY <2>4 DEF S
<1> QED
  BY <1>1, <1>2

(* points_make_affine leaves both affine points.                              *)
LEMMA BatchAffine ==
  ASSUME GroupOK, NEW P, PointOK(P), NEW Q, PointOK(Q),
         NEW both, both = points_make_affine(P, Q)
  PROVE  /\ PointOK(both[1]) /\ Affine(both[1]) = Affine(P)
         /\ PointOK(both[2]) /\ Affine(both[2]) = Affine(Q)
<1> DEFINE f0 == IF P.Z = 0 THEN field_encode(1) ELSE P.Z
           g1 == IF Q.Z = 0 THEN field_encode(1) ELSE Q.Z
           f1 == IF Q.Z = 0 THEN f0 ELSE field_mul(f0, Q.Z)
           t == field_encode(field_encode(BN_mod_inverse(f1)))
           i == IF Q.Z = 0 THEN t ELSE field_mul(t, Q.Z)
           j == field_mul(f0, t)
<1>0. PrimeField(p) /\ p \in Nat \ {0} /\ 1 \in Int
  BY FieldType
<1>1. PICK z \in Int :
        /\ Means(f0, z) /\ Nonzero(p, z)
        /\ ~is_at_infinity(P) =>
             \E x, y \in Residue : Affine(P) = <<x, y>> /\ Stands(P, x, y, z)
  BY FactorMeans
<1>2. PICK u \in Int :
        /\ Means(g1, u) /\ Nonzero(p, u)
        /\ ~is_at_infinity(Q) =>
             \E x, y \in Residue : Affine(Q) = <<x, y>> /\ Stands(Q, x, y, u)
  BY FactorMeans
<1>3. both = <<WithInverse(P, i), WithInverse(Q, j)>>
  BY DEF points_make_affine, WithInverse
<1>4. both[1] = WithInverse(P, i) /\ both[2] = WithInverse(Q, j)
  BY <1>3
<1> HIDE DEF f0, g1
<1>5. CASE is_at_infinity(Q)
  <2>1. Q.Z = 0
    BY <1>5 DEF is_at_infinity
  <2>2. f1 = f0 /\ i = t
    BY <2>1
  <2>3. Means(f1, z)
    BY <1>1, <2>2
  <2> HIDE DEF f1
  <2>4. PICK w \in Int : Means(t, w) /\ Cong(p, z * w, 1)
    BY <1>1, <2>3, InverseOfProduct
  <2> HIDE DEF t
  <2>5. PointOK(WithInverse(P, t)) /\ Affine(WithInverse(P, t)) = Affine(P)
    BY <1>1, <2>4, WithInverseAffine
  <2>6. WithInverse(Q, j) = Q
    BY <2>1 DEF WithInverse
  <2> HIDE DEF i, j
  <2> QED BY <1>4, <2>2, <2>5, <2>6
<1>6. CASE ~is_at_infinity(Q)
  <2>1. Q.Z # 0
    BY <1>6 DEF is_at_infinity
  <2>2. f1 = field_mul(f0, Q.Z) /\ i = field_mul(t, Q.Z) /\ g1 = Q.Z
    BY <2>1 DEF g1
  <2> DEFINE v == z * u
  <2>3. Means(f1, v) /\ Nonzero(p, v)
    <3>1. Means(Q.Z, u)
      BY <1>2, <2>2
    <3>2. Means(field_mul(f0, Q.Z), z * u)
      BY <1>1, <3>1, MeansMul
    <3>3. Nonzero(p, z * u)
      BY <1>0, <1>1, <1>2, NonzeroProduct
    <3> QED BY <2>2, <3>2, <3>3
  <2> HIDE DEF f1, v
  <2>4. PICK w \in Int : Means(t, w) /\ Cong(p, v * w, 1)
    BY <2>3, InverseOfProduct
  <2> HIDE DEF t
  <2> DEFINE a == w * u
             b == z * w
  <2>5. Means(i, a) /\ Means(j, b)
    <3>1. Means(Q.Z, u)
      BY <1>2, <2>2
    <3>2. Means(field_mul(t, Q.Z), w * u) /\ Means(field_mul(f0, t), z * w)
      BY <1>1, <2>4, <3>1, MeansMul
    <3> QED BY <2>2, <3>2
  <2>6. z * a = v * w /\ u * b = v * w
    BY <1>1, <1>2, SMT DEF v
  <2>7. Cong(p, z * a, 1) /\ Cong(p, u * b, 1)
    BY <2>4, <2>6
  <2> HIDE DEF i, j, a, b
  <2>8. PointOK(WithInverse(P, i)) /\ Affine(WithInverse(P, i)) = Affine(P)
    BY <1>1, <2>5, <2>7, WithInverseAffine
  <2>9. PointOK(WithInverse(Q, j)) /\ Affine(WithInverse(Q, j)) = Affine(Q)
    BY <1>2, <2>5, <2>7, WithInverseAffine
  <2> QED BY <1>4, <2>8, <2>9
<1> QED
  BY <1>5, <1>6

-------------------------------------------------------------------------------
(* The functions that only answer.                                            *)

LEMMA Powers4 ==
  ASSUME GroupOK, NEW z \in Int, Nonzero(p, z), NEW zz, zz = z * z, NEW w, w = zz * zz
  PROVE  /\ zz \in Int /\ w \in Int /\ w * zz \in Int
         /\ Nonzero(p, zz) /\ Nonzero(p, w) /\ Nonzero(p, w * zz)
<1>1. PrimeField(p)
  BY FieldType
<1>2. zz \in Int /\ Nonzero(p, zz)
  BY <1>1, NonzeroProduct
<1>3. w \in Int /\ Nonzero(p, w)
  BY <1>1, <1>2, NonzeroProduct
<1>4. w * zz \in Int
  BY <1>2, <1>3
<1>5. Nonzero(p, w * zz)
  BY <1>1, <1>2, <1>3, NonzeroProduct
<1> QED
  BY <1>2, <1>3, <1>4, <1>5

\* The linear and the constant coefficient of is_on_curve
SlopeOf(P) ==
  IF P.Z_is_one THEN group.a
  ELSE IF group.a_is_minus3 THEN -3 * field_sqr(field_sqr(P.Z))
  ELSE field_mul(field_sqr(field_sqr(P.Z)), group.a)
ConstOf(P) ==
  IF P.Z_is_one THEN group.b
  ELSE field_mul(group.b, field_mul(field_sqr(field_sqr(P.Z)), field_sqr(P.Z)))

LEMMA CoefficientsMean ==
  ASSUME GroupOK, NEW P, PointOK(P), NEW x, NEW y, NEW z, Stands(P, x, y, z),
         NEW zz, zz = z * z, NEW w, w = zz * zz
  PROVE  Means(SlopeOf(P), A * w) /\ Means(ConstOf(P), B * (w * zz))
<1> DEFINE ZZ == field_sqr(P.Z)
           Z4 == field_sqr(ZZ)
           u == w * zz
<1>1. z \in Int /\ Nonzero(p, z) /\ Means(P.Z, z) /\ (P.Z_is_one => z = 1)
  BY DEF Stands
<1>2. zz \in Int /\ w \in Int /\ u \in Int
  BY <1>1, Powers4
<1>3. /\ A \in Int /\ B \in Int /\ Means(group.a, A) /\ Means(group.b, B)
      /\ group.a_is_minus3 => Cong(p, A, -3)
  BY Coefficients
<1>4. Means(ZZ, zz)
  BY <1>1, MeansSqr
<1> HIDE DEF ZZ
<1>5. Means(Z4, w)
  BY <1>4, MeansSqr
<1> HIDE DEF Z4
<1>6. CASE P.Z_is_one
  <2>1. zz = 1 /\ w = 1 /\ u = 1
    BY <1>1, <1>6
  <2> HIDE DEF u
  <2>2. A * w = A /\ B * u = B
    BY <1>3, <2>1
  <2>3. SlopeOf(P) = group.a /\ ConstOf(P) = group.b
    BY <1>6 DEF SlopeOf, ConstOf
  <2> QED BY <1>3, <2>2, <2>3 DEF u
<1>7. CASE ~P.Z_is_one
  <2>1. Means(ConstOf(P), B * u)
    <3>1. ConstOf(P) = field_mul(group.b, field_mul(Z4, ZZ))
      BY <1>7 DEF ConstOf, ZZ, Z4
    <3>2. Means(field_mul(Z4, ZZ), u)
      BY <1>4, <1>5, MeansMul
    <3> HIDE DEF u
    <3> QED BY <1>3, <3>1, <3>2, MeansMul
  <2>2. Means(SlopeOf(P), A * w)
    <3>1. CASE group.a_is_minus3
      <4> DEFINE n == -3
                 s == n * Z4
                 e == n * w
                 f == A * w
      <4>1. n \in Int /\ Z4 \in Int /\ e \in Int /\ f \in Int
        BY <1>2, <1>3, <1>5 DEF Means
      <4>2. Cong(p, n, A)
        BY <1>3, <3>1, CongSym
      <4>3. SlopeOf(P) = s
        <5>1. SlopeOf(P) = -3 * Z4
          BY <1>7, <3>1 DEF SlopeOf, ZZ, Z4
        <5>2. -3 * Z4 = n * Z4
          BY <4>1
        <5> QED BY <5>1, <5>2
      <4> HIDE DEF n
      <4>4. Means(s, e)
        BY <1>5, <4>1, MeansScale
      <4>5. Cong(p, e, f)
        BY <1>2, <1>3, <4>1, <4>2, FieldType, CongScale
      <4> HIDE DEF s, e
      <4>6. Means(s, f)
        BY <4>1, <4>4, <4>5, MeansCong
      <4> QED BY <4>3, <4>6
    <3>2. CASE ~group.a_is_minus3
      <4>1. SlopeOf(P) = field_mul(Z4, group.a)
        BY <1>7, <3>2 DEF SlopeOf, ZZ, Z4
      <4>2. Means(field_mul(Z4, group.a), w * A)
        BY <1>3, <1>5, MeansMul
      <4>3. w * A = A * w
        BY <1>2, <1>3
      <4> QED BY <4>1, <4>2, <4>3
    <3> QED BY <3>1, <3>2
  <2> QED BY <2>1, <2>2
<1> QED
  BY <1>6, <1>7

(* is_on_curve decides the affine equation in any coordinates: both of its    *)
(* sides are z^6 times those of the equation.                                 *)
LEMMA IsOnCurve ==
  ASSUME GroupOK, NEW P, PointOK(P)
  PROVE  is_on_curve(P) <=> OnLaw(Affine(P))
<1>1. CASE is_at_infinity(P)
  BY <1>1 DEF is_on_curve, Affine, OnLaw
<1>2. CASE ~is_at_infinity(P)
  <2>1. PICK x \in Residue, y \in Residue, z \in Int :
          Affine(P) = <<x, y>> /\ Stands(P, x, y, z)
    BY <1>2, AffineSplit
  <2> DEFINE zz == z * z
             w == zz * zz
             u == w * zz
             xs == x * z * z
             ys == y * z * z * z
             l == field_sqr(P.Y)
             s == SlopeOf(P)
             c == ConstOf(P)
             m == (field_sqr(P.X) + s) % p
             r == (field_mul(m, P.X) + c) % p
  <2>2. /\ x \in Int /\ y \in Int /\ z \in Int /\ Nonzero(p, z) /\ PrimeField(p)
        /\ A \in Int /\ B \in Int /\ Means(P.X, xs) /\ Means(P.Y, ys)
    BY <2>1, ResidueType, FieldType, Coefficients DEF Stands
  <2>3. is_on_curve(P) <=> l = r
    BY <1>2 DEF is_on_curve, SlopeOf, ConstOf
  <2>4. zz \in Int /\ w \in Int /\ u \in Int /\ Nonzero(p, u)
    BY <2>2, Powers4
  <2>5. Means(s, A * w) /\ Means(c, B * u)
    BY <2>1, CoefficientsMean
  <2> DEFINE e == ys * ys
             g == xs * xs + A * w
             f == g * xs + B * u
             yy == y * y
             cu == CubicAt(x)
  <2>6. /\ yy \in Int /\ cu \in Int /\ u * yy = e /\ u * cu = f
    <3>1. yy \in Int /\ cu \in Int
      BY <2>2 DEF CubicAt
    <3>2. u * yy = e
      BY <2>2, SMT
    <3>3. u * cu = f
      <4>1. xs = x * zz
        BY <2>2, <2>4, SMT
      <4> HIDE DEF xs
      <4>2. w = zz * zz /\ u = zz * zz * zz
        BY <2>4
      <4> HIDE DEF zz, w, u
      <4> QED BY <2>2, <2>4, <4>1, <4>2, SMT DEF CubicAt
    <3> QED BY <3>1, <3>2, <3>3
  <2> HIDE DEF xs, ys, zz, w, u, s, c
  <2>7. Means(l, e) /\ l \in Residue
    BY <2>2, MeansSqr
  <2>8. Means(field_sqr(P.X), xs * xs)
    BY <2>2, MeansSqr
  <2>9. Means(field_sqr(P.X) + s, g)
    BY <2>5, <2>8, MeansAdd
  <2>10. Means(m, g)
    BY <2>9, MeansMod
  <2> HIDE DEF m, g
  <2>11. Means(field_mul(m, P.X), g * xs)
    BY <2>2, <2>10, MeansMul
  <2>12. Means(field_mul(m, P.X) + c, f)
    BY <2>5, <2>11, MeansAdd
  <2>13. Means(r, f) /\ r \in Residue
    BY <2>12, MeansMod
  <2> HIDE DEF l, r, e, f
  <2>14. l = r <=> Cong(p, e, f)
    BY <2>7, <2>13, MeansEq
  <2> HIDE DEF yy, cu
  <2>15. Cong(p, u * yy, u * cu) <=> Cong(p, yy, cu)
    BY <2>2, <2>4, <2>6, CongFactor
  <2>16. OnLaw(Affine(P)) <=> Cong(p, yy, cu)
    BY <2>1, OnLawPair DEF OnCurve, yy, cu
  <2> QED BY <2>3, <2>6, <2>14, <2>15, <2>16
<1> QED
  BY <1>1, <1>2

(* cmp compares affine points without an inversion.                           *)
LEMMA CmpIs ==
  ASSUME GroupOK, NEW P, PointOK(P), NEW Q, PointOK(Q)
  PROVE  cmp(P, Q) = 0 <=> Affine(P) = Affine(Q)
<1>1. CASE is_at_infinity(P) \/ is_at_infinity(Q)
  <2>1. cmp(P, Q) = 0 <=> is_at_infinity(P) /\ is_at_infinity(Q)
    BY <1>1 DEF cmp
  <2>2. \A S : PointOK(S) => (is_at_infinity(S) <=> Affine(S) = Infinity)
    <3> SUFFICES ASSUME NEW S, PointOK(S)
                 PROVE  is_at_infinity(S) <=> Affine(S) = Infinity
      OBVIOUS
    <3> QED BY AffineSplit, PairIsFinite, ResidueType
  <2> QED BY <1>1, <2>1, <2>2
<1>2. CASE ~is_at_infinity(P) /\ ~is_at_infinity(Q)
  <2>1. PICK x1 \in Residue, y1 \in Residue, z1 \in Int :
          Affine(P) = <<x1, y1>> /\ Stands(P, x1, y1, z1)
    BY <1>2, AffineSplit
  <2>2. PICK x2 \in Residue, y2 \in Residue, z2 \in Int :
          Affine(Q) = <<x2, y2>> /\ Stands(Q, x2, y2, z2)
    BY <1>2, AffineSplit
  <2> DEFINE s == Scaled(P, Q)
             t == Scaled(Q, P)
             q == z1 * z2
             qq == q * q
             qqq == qq * q
  <2>3. /\ x1 \in Int /\ y1 \in Int /\ z1 \in Int /\ x2 \in Int /\ y2 \in Int /\ z2 \in Int
        /\ Nonzero(p, z1) /\ Nonzero(p, z2) /\ PrimeField(p) /\ p \in Nat \ {0}
    BY <2>1, <2>2, ResidueType, FieldType DEF Stands
  <2>4. q \in Int /\ Nonzero(p, q) /\ q = z2 * z1
    BY <2>3, NonzeroProduct
  <2>5. /\ Means(s[1], x1 * q * q) /\ Means(s[2], y1 * q * q * q)
        /\ s[1] \in Residue /\ s[2] \in Residue /\ s = <<s[1], s[2]>>
    BY <2>1, <2>2, ScaledMeans
  <2>6. /\ Means(t[1], x2 * q * q) /\ Means(t[2], y2 * q * q * q)
        /\ t[1] \in Residue /\ t[2] \in Residue /\ t = <<t[1], t[2]>>
    BY <2>1, <2>2, <2>4, ScaledMeans
  <2>7. cmp(P, Q) = 0 <=> s = t
    BY <1>2 DEF cmp
  <2> HIDE DEF s, t, q
  <2>8. s = t <=> s[1] = t[1] /\ s[2] = t[2]
    BY <2>5, <2>6
  <2>9. qq \in Int /\ Nonzero(p, qq)
    BY <2>3, <2>4, NonzeroProduct
  <2>10. qqq \in Int /\ Nonzero(p, qqq)
    <3> HIDE DEF qq
    <3> QED BY <2>3, <2>4, <2>9, NonzeroProduct
  <2>11. /\ x1 * q * q = qq * x1 /\ x2 * q * q = qq * x2
         /\ y1 * q * q * q = qqq * y1 /\ y2 * q * q * q = qqq * y2
    BY <2>3, <2>4, SMT
  <2> HIDE DEF qq, qqq
  <2>12. s[1] = t[1] <=> Cong(p, qq * x1, qq * x2)
    BY <2>5, <2>6, <2>11, MeansEq
  <2>13. s[2] = t[2] <=> Cong(p, qqq * y1, qqq * y2)
    BY <2>5, <2>6, <2>11, MeansEq
  <2>14. /\ Cong(p, qq * x1, qq * x2) <=> Cong(p, x1, x2)
         /\ Cong(p, qqq * y1, qqq * y2) <=> Cong(p, y1, y2)
    BY <2>3, <2>9, <2>10, CongFactor
  <2>15. (Cong(p, x1, x2) <=> x1 = x2) /\ (Cong(p, y1, y2) <=> y1 = y2)
    BY <2>3, CongRefl, CongSmall DEF Residue
  <2> QED BY <2>1, <2>2, <2>7, <2>8, <2>12, <2>13, <2>14, <2>15
<1> QED
  BY <1>1, <1>2

-------------------------------------------------------------------------------
(* Octet strings.                                                             *)

LEMMA StringParts ==
  /\ \A s : Len(<<s>>) = 1 /\ <<s>>[1] = s
  /\ \A s, x : Len(<<s, x>>) = 2 /\ <<s, x>>[1] = s /\ <<s, x>>[2] = x
  /\ \A s, x, y : /\ Len(<<s, x, y>>) = 3 /\ <<s, x, y>>[1] = s
                  /\ <<s, x, y>>[2] = x /\ <<s, x, y>>[3] = y
OBVIOUS

LEMMA ParityBit ==
  ASSUME GroupOK, NEW y \in Residue
  PROVE  y \in Int /\ y % 2 \in {0, 1}
BY ResidueType

(* point2oct gives one of the strings of the affine point.                    *)
LEMMA OctetsOf ==
  ASSUME GroupOK, NEW P, PointOK(P), NEW form \in {2, 4, 6}
  PROVE  point2oct(P, form) \in L!Octets(Affine(P))
<1>1. CASE is_at_infinity(P)
  <2>1. point2oct(P, form) = <<0>> /\ Affine(P) = Infinity
    BY <1>1 DEF point2oct, Affine
  <2> QED BY <2>1 DEF L!Octets
<1>2. CASE ~is_at_infinity(P)
  <2>1. PICK x \in Residue, y \in Residue : Affine(P) = <<x, y>>
    BY <1>2, AffineSplit
  <2>2. get_affine(P) = <<x, y>>
    BY <1>2, <2>1 DEF Affine
  <2>3. x \in Int /\ y \in Int /\ y % 2 \in {0, 1}
    BY ParityBit
  <2>4. <<x, y>> # Infinity
    BY <2>3, PairIsFinite
  <2>5. L!Octets(<<x, y>>) = {<<2 + (y % 2), x>>, <<4, x, y>>, <<6 + (y % 2), x, y>>}
    BY <2>4 DEF L!Octets
  <2> DEFINE tag == IF form \in {2, 6} /\ y % 2 = 1 THEN form + 1 ELSE form
  <2>6. point2oct(P, form) = IF form = 2 THEN <<tag, x>> ELSE <<tag, x, y>>
    BY <1>2, <2>2 DEF point2oct
  <2>7. form \in {2, 6} => tag = form + (y % 2)
    BY <2>3
  <2>8. form = 4 => tag = 4
    OBVIOUS
  <2> HIDE DEF tag
  <2> QED BY <2>1, <2>5, <2>6, <2>7, <2>8
<1> QED
  BY <1>1, <1>2

(* The roots that set_compressed_coordinates may meet are the y of the curve. *)
LEMMA RootsAre ==
  ASSUME GroupOK, NEW x \in Residue, NEW y
  PROVE  y \in Roots(x) <=> y \in Residue /\ OnCurve(x, y)
<1> DEFINE ax == IF group.a_is_minus3 THEN -3 * x ELSE A * x
           c == x * x * x + ax + B
           d == x * x * x + A * x + B
<1>1. y \in Roots(x) <=> y \in Residue /\ (y * y - c) % p = 0
  BY DEF Roots, A, B, Residue
<1>2. /\ p \in Nat \ {0} /\ x \in Int /\ A \in Int /\ B \in Int
      /\ group.a_is_minus3 => Cong(p, A, -3)
  BY FieldType, ResidueType, Coefficients
<1>3. ax \in Int /\ Cong(p, ax, A * x)
  <2>1. CASE group.a_is_minus3
    <3> DEFINE n == -3
    <3>1. n \in Int /\ ax = n * x /\ Cong(p, n, A)
      BY <1>2, <2>1, CongSym
    <3> HIDE DEF n
    <3>2. Cong(p, n * x, A * x)
      BY <1>2, <3>1, CongScale
    <3>3. n * x \in Int
      BY <1>2, <3>1
    <3> HIDE DEF ax
    <3> QED BY <3>1, <3>2, <3>3
  <2>2. CASE ~group.a_is_minus3
    BY <1>2, <2>2, CongRefl
  <2> QED BY <2>1, <2>2
<1> HIDE DEF ax
<1>4. SUFFICES ASSUME y \in Residue PROVE (y * y - c) % p = 0 <=> OnCurve(x, y)
  BY <1>1
<1>5. y \in Int
  BY <1>4, ResidueType
<1> DEFINE yy == y * y
           xxx == x * x * x
           u == A * x
<1>6. yy \in Int /\ xxx \in Int /\ u \in Int /\ c \in Int /\ d \in Int /\ yy - c \in Int
  BY <1>2, <1>3, <1>5
<1>7. Cong(p, c, d)
  <2>0. Cong(p, ax, u)
    BY <1>3
  <2> HIDE DEF xxx, u
  <2>1. Cong(p, xxx + ax, xxx + u)
    BY <1>2, <1>3, <1>6, <2>0, CongScale
  <2> DEFINE v == xxx + ax
             w == xxx + u
  <2>1a. v \in Int /\ w \in Int
    BY <1>3, <1>6
  <2>2. v \in Int /\ w \in Int /\ Cong(p, v, w)
    BY <2>1, <2>1a
  <2> HIDE DEF v, w
  <2>3. Cong(p, v + B, w + B)
    BY <1>2, <2>2, CongScale
  <2> QED BY <2>3 DEF v, w, xxx, u
<1>8. OnCurve(x, y) <=> Cong(p, yy, d)
  BY DEF OnCurve, CubicAt
<1> HIDE DEF yy, c, d
<1>9. Cong(p, yy - c, 0) <=> Cong(p, yy, c)
  BY <1>2, <1>6, CongDifference
<1>10. Cong(p, yy, c) <=> Cong(p, yy, d)
  BY <1>7, CongTrans, CongSym
<1>11. (yy - c) % p = 0 <=> Cong(p, yy - c, 0)
  <2> DEFINE e == yy - c
  <2>1. e \in Int
    BY <1>6
  <2> HIDE DEF e
  <2>2. e % p = 0 <=> Cong(p, e, 0)
    BY <1>2, <2>1, NonzeroRemainder DEF Nonzero
  <2> QED BY <2>2 DEF e
<1> QED
  BY <1>8, <1>9, <1>10, <1>11 DEF yy

(* The other root has the other parity.                                       *)
LEMMA OtherRoot ==
  ASSUME GroupOK, NEW x \in Residue, NEW y \in Residue, y # 0, OnCurve(x, y)
  PROVE  p - y \in Residue /\ OnCurve(x, p - y) /\ (p - y) % 2 # y % 2
<1> DEFINE r == p - y
           n == -y
<1>1. p \in Nat \ {0} /\ p \in Int /\ p % 2 = 1 /\ x \in Int /\ y \in Int /\ y >= 0 /\ y < p
  BY FieldType, ResidueType
<1>2. r \in Residue /\ r \in Int
  BY <1>1 DEF Residue
<1>3. r % 2 # y % 2
  BY <1>1
<1>4. n \in Int /\ r = n + p * 1 /\ 1 \in Int
  BY <1>1
<1>5. OnCurve(x, n)
  BY <1>1, OppositeOnCurve
<1> HIDE DEF r, n
<1>6. Cong(p, n, r) /\ Cong(p, x, x)
  BY <1>1, <1>2, <1>4, CongFrom, CongSym, CongRefl
<1>7. OnCurve(x, r)
  BY <1>1, <1>2, <1>4, <1>5, <1>6, OnCurveSame
<1> QED
  BY <1>2, <1>3, <1>7 DEF r

(* Whichever root it meets, set_compressed_coordinates gives the point of the *)
(* curve whose y has the parity asked for.                                    *)
LEMMA CompressedIs ==
  ASSUME GroupOK, NEW x \in Residue, NEW y_bit \in {0, 1}
  PROVE  /\ \A P \in set_compressed(x, y_bit) :
              \E y \in Residue : /\ OnCurve(x, y) /\ y % 2 = y_bit
                                 /\ P = set_Jprojective(x, y, 1)
         /\ \A y \in Residue : OnCurve(x, y) /\ y % 2 = y_bit => set_compressed(x, y_bit) # {}
<1>1. x % p = x
  BY FieldType, ResidueType, SmallMod
<1>2. set_compressed(x, y_bit)
        = {set_Jprojective(x, IF y % 2 = y_bit THEN y ELSE p - y, 1) :
             y \in {root \in Roots(x) : root % 2 = y_bit \/ root # 0}}
  BY <1>1 DEF set_compressed
<1>3. ASSUME NEW P \in set_compressed(x, y_bit)
      PROVE  \E y \in Residue : /\ OnCurve(x, y) /\ y % 2 = y_bit
                                /\ P = set_Jprojective(x, y, 1)
  <2>1. PICK r \in Roots(x) :
          /\ r % 2 = y_bit \/ r # 0
          /\ P = set_Jprojective(x, IF r % 2 = y_bit THEN r ELSE p - r, 1)
    BY <1>2, <1>3
  <2>2. r \in Residue /\ OnCurve(x, r) /\ r % 2 \in {0, 1}
    BY RootsAre, ParityBit
  <2>3. CASE r % 2 = y_bit
    BY <2>1, <2>2, <2>3
  <2>4. CASE r % 2 # y_bit
    <3>1. p - r \in Residue /\ OnCurve(x, p - r) /\ (p - r) % 2 # r % 2
      BY <2>1, <2>2, <2>4, OtherRoot
    <3>2. (p - r) % 2 \in {0, 1}
      BY <3>1, ParityBit
    <3>3. (p - r) % 2 = y_bit
      BY <2>2, <2>4, <3>1, <3>2
    <3>4. P = set_Jprojective(x, p - r, 1)
      BY <2>1, <2>4
    <3> QED BY <3>1, <3>3, <3>4
  <2> QED BY <2>3, <2>4
<1>4. ASSUME NEW y \in Residue, OnCurve(x, y), y % 2 = y_bit
      PROVE  set_compressed(x, y_bit) # {}
  <2>1. y \in Roots(x)
    BY <1>4, RootsAre
  <2>2. y \in {root \in Roots(x) : root % 2 = y_bit \/ root # 0}
    BY <1>4, <2>1
  <2>3. set_Jprojective(x, IF y % 2 = y_bit THEN y ELSE p - y, 1) \in set_compressed(x, y_bit)
    BY <1>2, <2>2
  <2> QED BY <2>3
<1> QED
  BY <1>3, <1>4

LEMMA SetAffine2 ==
  ASSUME GroupOK, NEW x \in Residue, NEW y \in Residue, NEW P, P = set_Jprojective(x, y, 1)
  PROVE  PointOK(P) /\ Affine(P) = <<x, y>>
<1>1. x \in Int /\ y \in Int /\ x % p = x /\ y % p = y
  BY FieldType, ResidueType, SmallMod
<1> QED
  BY <1>1, SetAffineMeans DEF Affine

LEMMA NewPointIs ==
  ASSUME GroupOK
  PROVE  PointOK(NewPoint) /\ Affine(NewPoint) = Infinity /\ is_at_infinity(NewPoint)
<1>1. 0 \in Residue
  BY FieldType DEF Residue
<1>2. \A b \in BOOLEAN : [X |-> 0, Y |-> 0, Z |-> 0, Z_is_one |-> b] \in Point
  BY <1>1 DEF Point
<1>3. NewPoint = [X |-> 0, Y |-> 0, Z |-> 0, Z_is_one |-> FALSE]
  BY DEF NewPoint
<1>4. NewPoint \in Point
  BY <1>2, <1>3, Zenon
<1>5. ~NewPoint.Z_is_one /\ NewPoint.Z = 0
  BY <1>3
<1> QED
  BY <1>4, <1>5 DEF PointOK, Affine, is_at_infinity

LEMMA DecodedCases ==
  /\ Decoded(<<0>>) = {set_to_infinity(NewPoint)}
  /\ Decoded(<<>>) = {}
  /\ \A s : s # 0 => Decoded(<<s>>) = {}
  /\ \A s, x : Decoded(<<s, x>>)
                 = IF s \in {2, 3} /\ x < p THEN set_compressed(x, s % 2) ELSE {}
  /\ \A s, x, y : Decoded(<<s, x, y>>)
                    = IF (s = 4 \/ s = 6 + (y % 2)) /\ x < p /\ y < p
                      THEN {set_Jprojective(x, y, 1)} ELSE {}
<1>1. Decoded(<<0>>) = {set_to_infinity(NewPoint)}
  BY DEF Decoded
<1>2. Decoded(<<>>) = {}
  <2>1. Len(<<>>) = 0 /\ <<>> # <<0>>
    OBVIOUS
  <2> QED BY <2>1 DEF Decoded
<1>3. ASSUME NEW s, s # 0 PROVE Decoded(<<s>>) = {}
  <2>1. <<s>> # <<0>> /\ Len(<<s>>) = 1
    BY <1>3, StringParts
  <2> QED BY <2>1 DEF Decoded
<1>4. ASSUME NEW s, NEW x
      PROVE  Decoded(<<s, x>>)
               = IF s \in {2, 3} /\ x < p THEN set_compressed(x, s % 2) ELSE {}
  <2> DEFINE buf == <<s, x>>
  <2>1. Len(buf) = 2 /\ buf[1] = s /\ buf[2] = x /\ buf # <<0>>
    BY StringParts
  <2> HIDE DEF buf
  <2>2. Decoded(buf) = IF s \in {2, 3} /\ x < p THEN set_compressed(x, s % 2) ELSE {}
    BY <2>1 DEF Decoded
  <2> QED BY <2>2 DEF buf
<1>5. ASSUME NEW s, NEW x, NEW y
      PROVE  Decoded(<<s, x, y>>)
               = IF (s = 4 \/ s = 6 + (y % 2)) /\ x < p /\ y < p
                 THEN {set_Jprojective(x, y, 1)} ELSE {}
  <2> DEFINE buf == <<s, x, y>>
  <2>1. Len(buf) = 3 /\ buf[1] = s /\ buf[2] = x /\ buf[3] = y /\ buf # <<0>>
    BY StringParts
  <2> HIDE DEF buf
  <2>2. TagFits(buf) <=> s = 4 \/ s = 6 + (y % 2)
    BY <2>1 DEF TagFits
  <2>3. Decoded(buf) = IF (s = 4 \/ s = 6 + (y % 2)) /\ x < p /\ y < p
                       THEN {set_Jprojective(x, y, 1)} ELSE {}
    BY <2>1, <2>2 DEF Decoded
  <2> QED BY <2>3 DEF buf
<1> QED
  BY <1>1, <1>2, <1>3, <1>4, <1>5

(* Every string of a point of the curve decodes, and to that point alone.     *)
LEMMA OctetsDecode ==
  ASSUME GroupOK, NEW S, OnLaw(S), NEW buf \in L!Octets(S)
  PROVE  Decoded(buf) # {} /\ \A P \in Decoded(buf) : PointOK(P) /\ Affine(P) = S
<1>1. CASE S = Infinity
  <2>1. buf = <<0>>
    BY <1>1 DEF L!Octets
  <2>2. Decoded(buf) = {set_to_infinity(NewPoint)}
    BY <2>1, DecodedCases
  <2>3. PointOK(set_to_infinity(NewPoint)) /\ Affine(set_to_infinity(NewPoint)) = Infinity
    BY NewPointIs, InfinityAffine
  <2> QED BY <1>1, <2>2, <2>3
<1>2. CASE S # Infinity
  <2>1. PICK x \in Residue, y \in Residue : S = <<x, y>> /\ OnCurve(x, y)
    BY <1>2 DEF OnLaw
  <2>2. x < p /\ y < p /\ y % 2 \in {0, 1} /\ y \in Int
    BY ResidueType, ParityBit
  <2>3. S[1] = x /\ S[2] = y
    BY <2>1
  <2>4. buf \in {<<2 + (y % 2), x>>, <<4, x, y>>, <<6 + (y % 2), x, y>>}
    BY <1>2, <2>3 DEF L!Octets
  <2>5. CASE buf = <<2 + (y % 2), x>>
    <3> DEFINE s == 2 + (y % 2)
    <3>1. s \in {2, 3} /\ s % 2 = y % 2
      BY <2>2
    <3> HIDE DEF s
    <3>2. Decoded(<<s, x>>) = set_compressed(x, s % 2)
      BY <2>2, <3>1, DecodedCases
    <3>3. Decoded(buf) = set_compressed(x, y % 2)
      BY <2>5, <3>1, <3>2 DEF s
    <3>4. Decoded(buf) # {}
      BY <2>1, <2>2, <3>3, CompressedIs
    <3>5. ASSUME NEW P \in Decoded(buf) PROVE PointOK(P) /\ Affine(P) = S
      <4>1. PICK r \in Residue :
              OnCurve(x, r) /\ r % 2 = y % 2 /\ P = set_Jprojective(x, r, 1)
        BY <2>2, <3>3, CompressedIs
      <4>2. r = y
        BY <2>1, <4>1, ResidueType, ParityDecides
      <4> QED BY <2>1, <4>1, <4>2, SetAffine2
    <3> QED BY <3>4, <3>5
  <2>6. CASE buf \in {<<4, x, y>>, <<6 + (y % 2), x, y>>}
    <3>1. Decoded(buf) = {set_Jprojective(x, y, 1)}
      BY <2>2, <2>6, DecodedCases
    <3> QED BY <2>1, <3>1, SetAffine2
  <2> QED BY <2>4, <2>5, <2>6
<1> QED
  BY <1>1, <1>2

(* What oct2point decodes has reduced coordinates, and the string is one of   *)
(* its strings.                                                               *)
LEMMA DecodedPoint ==
  ASSUME GroupOK, NEW buf \in Buffers, NEW P \in Decoded(buf)
  PROVE  PointOK(P) /\ buf \in L!Octets(Affine(P))
<1>0. /\ p \in Nat \ {0} /\ p \in Int
      /\ \A x \in Coordinates : x < p => x \in Residue
  <2>1. p \in Nat \ {0} /\ p \in Int /\ Excess \in Int
    BY FieldType, InputsAssumption
  <2> QED BY <2>1 DEF Coordinates, Residue
<1>1. CASE buf \in {<<s>> : s \in 0 .. 8} \cup {<<>>}
  <2>1. buf = <<0>>
    BY <1>1, DecodedCases
  <2>2. P = set_to_infinity(NewPoint)
    BY <2>1, DecodedCases
  <2>3. PointOK(P) /\ Affine(P) = Infinity
    BY <2>2, NewPointIs, InfinityAffine
  <2> QED BY <2>1, <2>3 DEF L!Octets
<1>2. CASE buf \in {<<s, x>> : s \in 0 .. 8, x \in Coordinates}
  <2>1. PICK s \in 0 .. 8, x \in Coordinates : buf = <<s, x>>
    BY <1>2
  <2>2. s \in {2, 3} /\ x < p /\ P \in set_compressed(x, s % 2)
    BY <2>1, DecodedCases
  <2>3. x \in Residue /\ s % 2 \in {0, 1} /\ s = 2 + (s % 2)
    BY <1>0, <2>1, <2>2
  <2> DEFINE bit == s % 2
  <2>3a. bit \in {0, 1} /\ P \in set_compressed(x, bit) /\ s = 2 + bit
    BY <2>2, <2>3
  <2> HIDE DEF bit
  <2>4. PICK y \in Residue :
          OnCurve(x, y) /\ y % 2 = bit /\ P = set_Jprojective(x, y, 1)
    BY <2>3, <2>3a, CompressedIs
  <2>5. PointOK(P) /\ Affine(P) = <<x, y>>
    BY <2>3, <2>4, SetAffine2
  <2>6. <<x, y>> # Infinity
    BY <2>3, ResidueType, PairIsFinite
  <2>7. buf = <<2 + (y % 2), x>>
    BY <2>1, <2>3a, <2>4
  <2>8. <<2 + (y % 2), x>> \in L!Octets(<<x, y>>)
    BY <2>6 DEF L!Octets
  <2> QED BY <2>5, <2>7, <2>8
<1>3. CASE buf \in {<<s, x, y>> : s \in 0 .. 8, x \in Coordinates, y \in Coordinates}
  <2>1. PICK s \in 0 .. 8, x \in Coordinates, y \in Coordinates : buf = <<s, x, y>>
    BY <1>3
  <2>2. /\ s = 4 \/ s = 6 + (y % 2)
        /\ x < p /\ y < p /\ P = set_Jprojective(x, y, 1)
    BY <2>1, DecodedCases
  <2>3. x \in Residue /\ y \in Residue
    BY <1>0, <2>1, <2>2
  <2>4. PointOK(P) /\ Affine(P) = <<x, y>>
    BY <2>2, <2>3, SetAffine2
  <2>5. <<x, y>> # Infinity
    BY <2>3, ResidueType, PairIsFinite
  <2>6. buf \in L!Octets(<<x, y>>)
    BY <2>1, <2>2, <2>5 DEF L!Octets
  <2> QED BY <2>4, <2>6
<1> QED
  BY <1>1, <1>2, <1>3 DEF Buffers

(* What a string stands for: the point of the curve it decodes to, if any.    *)
LEMMA FromOctetsIs ==
  ASSUME GroupOK, NEW buf \in Buffers
  PROVE  /\ Decoded(buf) = {} => L!FromOctets(Equation, buf) = Undefined
         /\ \A P \in Decoded(buf) :
              L!FromOctets(Equation, buf)
                = IF OnLaw(Affine(P)) THEN Affine(P) ELSE Undefined
<1> DEFINE Fits(S) == OnLaw(S) /\ buf \in L!Octets(S)
<1>1. L!FromOctets(Equation, buf)
        = IF \E S \in L!LawCurve(Equation) : buf \in L!Octets(S)
          THEN CHOOSE S \in L!LawCurve(Equation) : buf \in L!Octets(S)
          ELSE Undefined
  BY DEF L!FromOctets
<1>2. \A S : S \in L!LawCurve(Equation) <=> OnLaw(S)
  BY OnLawIs
<1>3. CASE Decoded(buf) = {}
  <2>1. ~\E S \in L!LawCurve(Equation) : buf \in L!Octets(S)
    BY <1>2, <1>3, OctetsDecode
  <2> QED BY <1>1, <1>3, <2>1
<1>4. ASSUME NEW P \in Decoded(buf)
      PROVE  L!FromOctets(Equation, buf) = IF OnLaw(Affine(P)) THEN Affine(P) ELSE Undefined
  <2>1. buf \in L!Octets(Affine(P))
    BY <1>4, DecodedPoint
  <2>2. \A S \in L!LawCurve(Equation) : buf \in L!Octets(S) => S = Affine(P)
    BY <1>2, <1>4, OctetsDecode
  <2>3. CASE OnLaw(Affine(P))
    <3>1. Affine(P) \in L!LawCurve(Equation)
      BY <1>2, <2>3
    <3> QED BY <1>1, <2>1, <2>2, <2>3, <3>1
  <2>4. CASE ~OnLaw(Affine(P))
    <3>1. ~\E S \in L!LawCurve(Equation) : buf \in L!Octets(S)
      BY <1>2, <2>2, <2>4
    <3> QED BY <1>1, <2>4, <3>1
  <2> QED BY <2>3, <2>4
<1> QED
  BY <1>3, <1>4

-------------------------------------------------------------------------------
(* A group that set_curve accepts and check_discriminant passes.              *)

LEMMA DecodeEncoded ==
  ASSUME PrimeField(p), group.R \in Nat \ {0}, Nonzero(p, group.R), NEW n \in Int
  PROVE  Cong(p, field_decode(field_encode(n)), n)
<1> DEFINE r == group.R
           i == BN_mod_inverse(r)
           nr == n * r
           e == nr % p
           ri == r * i
<1>0. p \in Nat \ {0} /\ r \in Int
  BY FieldSize
<1>1. i \in Int /\ Cong(p, ri, 1)
  <2>1. \E k \in 1 .. p - 1 : (r * k) % p = 1
    BY <1>0, InverseExists
  <2>2. i \in 1 .. p - 1 /\ (r * i) % p = 1
    BY <2>1 DEF BN_mod_inverse
  <2>3. p >= 5 /\ p \in Int
    BY FieldSize
  <2>4. 1 % p = 1
    BY <1>0, <2>3, SmallMod
  <2> QED BY <2>2, <2>3, <2>4 DEF Cong
<1> HIDE DEF i
<1>2. nr \in Int /\ ri \in Int
  BY <1>0, <1>1
<1>3. e \in Int /\ Cong(p, e, nr)
  <2> HIDE DEF nr
  <2> QED BY <1>0, <1>2, CongMod
<1>4. field_encode(n) = e
  BY DEF field_encode
<1>5. field_decode(e) = (e * i) % p
  BY DEF field_decode, i
<1> HIDE DEF e
<1> DEFINE ei == e * i
<1>6. ei \in Int /\ nr * i = n * ri
  BY <1>0, <1>1, <1>3, SMT
<1>7. Cong(p, ei % p, ei)
  <2> HIDE DEF ei
  <2> QED BY <1>0, <1>6, CongMod
<1>8. Cong(p, e * i, nr * i)
  <2> HIDE DEF nr
  <2> QED BY <1>0, <1>1, <1>2, <1>3, CongScale
<1>9. Cong(p, n * ri, n * 1)
  <2> HIDE DEF ri
  <2>1. 1 \in Int
    OBVIOUS
  <2> QED BY <1>0, <1>1, <1>2, <2>1, CongScale
<1>10. n * 1 = n
  OBVIOUS
<1>11. Cong(p, nr * i, n)
  BY <1>6, <1>9, <1>10
<1>12. Cong(p, ei, n)
  BY <1>8, <1>11, CongTrans
<1>13. Cong(p, ei % p, n)
  BY <1>7, <1>12, CongTrans
<1> QED
  BY <1>4, <1>5, <1>13

\* A coefficient that is not refused
SmoothPair(a, b) ==
  IF a = 0 THEN b # 0 ELSE b = 0 \/ Nonzero(p, 4 * a * a * a + 27 * b * b)

(* A double root x of the cubic makes a = -3*x^2 and b = 2*x^3, of which the  *)
(* discriminant is 0.                                                         *)
LEMMA NoDoubleRoot ==
  ASSUME GroupOK, NEW a \in Residue, NEW b \in Residue, NEW x \in Int, SmoothPair(a, b),
         Cong(p, x * x * x + a * x + b, 0), Cong(p, 3 * x * x + a, 0)
  PROVE  FALSE
<1> DEFINE s == x * x
           u == 0 - 3 * s
           v == 2 * (x * s)
           f == x * x * x + a * x + b
           g == 3 * x * x + a
<1>0. /\ p \in Nat \ {0} /\ PrimeField(p) /\ a \in Int /\ b \in Int /\ 0 \in Int
      /\ a \in 0 .. p - 1 /\ b \in 0 .. p - 1 /\ 0 \in 0 .. p - 1
      /\ Nonzero(p, 2) /\ Nonzero(p, 3) /\ 2 \in Int /\ 3 \in Int
  BY FieldType, ResidueType, NonzeroSmall
<1>1. /\ s \in Int /\ x * s \in Int /\ u \in Int /\ v \in Int /\ f \in Int /\ g \in Int
      /\ 3 * s \in Int /\ x * g \in Int
  BY <1>0
<1>2. a - u = g /\ b - v = f - x * g
  BY <1>0, SMT
<1>3. Cong(p, f, 0) /\ Cong(p, g, 0)
  OBVIOUS
<1> HIDE DEF f, g
<1>4. Cong(p, a, u)
  <2>1. Cong(p, a - u, 0)
    BY <1>2, <1>3
  <2> HIDE DEF u
  <2> QED BY <1>0, <1>1, <2>1, CongDifference
<1>5. Cong(p, b, v)
  <2> DEFINE xg == x * g
             z == x * 0
  <2>1. xg \in Int /\ z \in Int /\ z = 0
    BY <1>1
  <2>2. Cong(p, x * g, x * 0)
    BY <1>0, <1>1, <1>3, CongScale
  <2>3. Cong(p, xg, 0)
    BY <2>1, <2>2
  <2> HIDE DEF xg, z
  <2>4. Cong(p, f - xg, 0 - 0)
    BY <1>0, <1>1, <1>3, <2>1, <2>3, CongAdd
  <2>5. 0 - 0 = 0 /\ b - v = f - xg
    BY <1>2 DEF xg
  <2>6. Cong(p, b - v, 0)
    BY <2>4, <2>5
  <2> HIDE DEF v
  <2> QED BY <1>0, <1>1, <2>6, CongDifference
<1>6. Nonzero(p, x) => Nonzero(p, s) /\ Nonzero(p, 3 * s) /\ Nonzero(p, v)
  <2> SUFFICES ASSUME Nonzero(p, x) PROVE Nonzero(p, s) /\ Nonzero(p, 3 * s) /\ Nonzero(p, v)
    OBVIOUS
  <2>1. Nonzero(p, s)
    BY <1>0, NonzeroProduct
  <2> HIDE DEF s
  <2>2. Nonzero(p, 3 * s) /\ Nonzero(p, x * s)
    BY <1>0, <1>1, <2>1, NonzeroProduct
  <2> DEFINE xs == x * s
  <2>3. xs \in Int /\ Nonzero(p, xs)
    BY <1>1, <2>2
  <2> HIDE DEF xs
  <2>4. Nonzero(p, 2 * xs)
    BY <1>0, <2>3, NonzeroProduct
  <2> QED BY <2>1, <2>2, <2>4 DEF xs
<1>7. ~Nonzero(p, x) => Cong(p, s, 0) /\ Cong(p, 3 * s, 0) /\ Cong(p, v, 0)
  <2> SUFFICES ASSUME Cong(p, x, 0) PROVE Cong(p, s, 0) /\ Cong(p, 3 * s, 0) /\ Cong(p, v, 0)
    BY DEF Nonzero
  <2> DEFINE c == 3 * x
             d == 2 * s
  <2>1. /\ s = x * x /\ 3 * s = c * x /\ v = d * x /\ c \in Int /\ d \in Int
        /\ x * 0 = 0 /\ c * 0 = 0 /\ d * 0 = 0
    BY <1>1, SMT
  <2> HIDE DEF c, d, s, v
  <2>2. Cong(p, x * x, x * 0) /\ Cong(p, c * x, c * 0) /\ Cong(p, d * x, d * 0)
    BY <1>0, <2>1, CongScale
  <2> QED BY <2>1, <2>2
<1>8. CASE a = 0
  <2>1. b # 0
    BY <1>8 DEF SmoothPair
  <2>2. Cong(p, 3 * s, 0)
    <3> DEFINE t == 3 * s
    <3>1. t \in Int /\ a - t = u
      BY <1>1, <1>8
    <3>2. Cong(p, a, 0)
      BY <1>8, CongRefl
    <3>3. Cong(p, u, 0)
      BY <1>4, <3>2, CongSym, CongTrans
    <3> HIDE DEF t, u
    <3>4. Cong(p, a - t, 0)
      BY <3>1, <3>3
    <3>5. Cong(p, a, t)
      BY <1>0, <3>1, <3>4, CongDifference
    <3>6. Cong(p, t, 0)
      BY <3>2, <3>5, CongSym, CongTrans
    <3> QED BY <3>6 DEF t
  <2>3. ~Nonzero(p, x)
    BY <1>6, <2>2 DEF Nonzero
  <2>4. Cong(p, b, 0)
    BY <1>5, <1>7, <2>3, CongTrans
  <2> QED BY <1>0, <2>1, <2>4, CongSmall
<1>9. CASE a # 0 /\ b = 0
  <2>1. Cong(p, v, 0)
    BY <1>5, <1>9, CongSym
  <2>2. ~Nonzero(p, x)
    BY <1>6, <2>1 DEF Nonzero
  <2> DEFINE t == 3 * s
  <2>3. t \in Int /\ Cong(p, t, 0) /\ 0 - t = u
    BY <1>1, <1>7, <2>2
  <2> HIDE DEF t, u
  <2>4. Cong(p, 0 - t, 0 - 0)
    BY <1>0, <2>3, CongScale
  <2>4a. 0 - 0 = 0
    OBVIOUS
  <2>5. Cong(p, u, 0)
    BY <2>3, <2>4, <2>4a
  <2>6. Cong(p, a, 0)
    BY <1>4, <2>5, CongTrans
  <2> QED BY <1>0, <1>9, <2>6, CongSmall
<1>10. CASE a # 0 /\ b # 0
  <2> DEFINE a2 == a * a
             a3 == a2 * a
             u2 == u * u
             u3 == u2 * u
             b2 == b * b
             v2 == v * v
             q == 4 * a * a * a + 27 * b * b
  <2>1. Nonzero(p, q)
    BY <1>10 DEF SmoothPair
  <2>2. /\ a2 \in Int /\ a3 \in Int /\ b2 \in Int /\ u2 \in Int /\ u3 \in Int /\ v2 \in Int
        /\ q = 4 * a3 + 27 * b2
    <3> HIDE DEF u, v
    <3> QED BY <1>0, <1>1
  <2>3. 4 * u3 + 27 * v2 = 0
    BY <1>0, SMT
  <2> HIDE DEF u, v
  <2>4. Cong(p, a2, u2) /\ Cong(p, b2, v2)
    BY <1>0, <1>1, <1>4, <1>5, CongSquare
  <2> HIDE DEF a2, u2, b2, v2
  <2>5. Cong(p, a3, u3)
    BY <1>0, <1>1, <1>4, <2>2, <2>4, CongMul
  <2> HIDE DEF a3, u3, q
  <2>6. Cong(p, 4 * a3, 4 * u3) /\ Cong(p, 27 * b2, 27 * v2)
    <3>1. 4 \in Int /\ 27 \in Int
      OBVIOUS
    <3> QED BY <1>0, <2>2, <2>4, <2>5, <3>1, CongScale
  <2> DEFINE c == 4 * a3
             d == 4 * u3
             e == 27 * b2
             h == 27 * v2
  <2>7. c \in Int /\ d \in Int /\ e \in Int /\ h \in Int
    BY <2>2
  <2>8. Cong(p, c, d) /\ Cong(p, e, h) /\ q = c + e /\ d + h = 0
    BY <2>2, <2>3, <2>6
  <2> HIDE DEF c, d, e, h
  <2>9. Cong(p, c + e, d + h)
    BY <1>0, <2>7, <2>8, CongAdd
  <2>10. Cong(p, q, 0)
    BY <2>8, <2>9
  <2> QED BY <2>1, <2>10 DEF Nonzero
<1> QED
  BY <1>8, <1>9, <1>10

(* Init leaves a group whose field has inverses and whose curve is smooth.    *)
LEMMA GroupFromInit ==
  ASSUME NEW c \in Inputs, CheckDiscriminant(c), group = SetCurve(c)
  PROVE  GroupOK /\ L!Smooth(Equation)
<1> DEFINE a == c.a % c.p
           b == c.b % c.p
<1>1. /\ c.p \in Nat /\ c.a \in Int /\ c.b \in Int /\ c.R \in Nat \ {0}
      /\ c.p >= 4 /\ c.p % 2 = 1 /\ IsPrimeField(c.p) /\ c.R % c.p # 0
  BY InputsAssumption DEF CheckDiscriminant
<1>2. /\ p = c.p /\ group.R = c.R /\ group.a = (c.a * c.R) % c.p
      /\ group.b = (c.b * c.R) % c.p
      /\ group.a_is_minus3 = ((c.a % c.p) + 3 = c.p)
  BY DEF SetCurve, p
<1>3. PrimeField(p)
  <2>1. c.p >= 5
    BY <1>1
  <2> QED BY <1>1, <1>2, <2>1 DEF PrimeField
<1>4. /\ p \in Nat \ {0} /\ p \in Int /\ group.R \in Nat \ {0} /\ group.R \in Int
      /\ Nonzero(p, group.R)
  <2>1. p \in Nat \ {0} /\ p \in Int
    BY <1>3, FieldSize
  <2>2. group.R \in Nat \ {0} /\ group.R \in Int
    BY <1>1, <1>2
  <2> QED BY <1>1, <1>2, <2>1, <2>2, NonzeroRemainder
<1>5. group.a = field_encode(c.a) /\ group.b = field_encode(c.b)
  BY <1>2 DEF field_encode
<1>6. \A n \in Int : Cong(p, field_decode(field_encode(n)), n)
  BY <1>3, <1>4, DecodeEncoded
<1>7. /\ Cong(p, c.a, a) /\ Cong(p, c.b, b) /\ a \in Residue /\ b \in Residue
      /\ a \in Int /\ b \in Int
  <2>1. \A n \in Int : Cong(p, n % p, n) /\ n % p \in 0 .. p - 1 /\ n % p \in Int
    BY <1>4, CongMod
  <2> QED BY <1>1, <1>2, <2>1, CongSym DEF Residue
<1>8. group.a \in Residue /\ group.b \in Residue
  <2>1. \A n \in Int : n % p \in 0 .. p - 1
    BY <1>4, CongMod
  <2>2. c.a * group.R \in Int /\ c.b * group.R \in Int
    BY <1>1, <1>4
  <2> QED BY <1>5, <2>1, <2>2 DEF field_encode, Residue
<1>9. Cong(p, field_decode(group.a), a) /\ Cong(p, field_decode(group.b), b)
  BY <1>1, <1>5, <1>6, <1>7, CongTrans
<1>10. GroupOK
  <2>1. ASSUME group.a_is_minus3 PROVE Cong(p, field_decode(group.a), -3)
    <3>0. -3 \in Int /\ 1 \in Int
      OBVIOUS
    <3>1. a + 3 = p
      BY <1>2, <2>1
    <3> HIDE DEF a
    <3>2. a = -3 + p * 1
      BY <1>4, <1>7, <3>1
    <3>3. Cong(p, a, -3)
      BY <1>4, <1>7, <3>0, <3>2, CongFrom
    <3> QED BY <1>9, <3>3, CongTrans
  <2>2. group.a_is_minus3 \in BOOLEAN
    BY <1>2
  <2> QED BY <1>3, <1>4, <1>8, <2>1, <2>2 DEF GroupOK
<1>11. A = a /\ B = b
  <2>1. A \in Residue /\ B \in Residue
    BY <1>10, Coefficients
  <2>2. Cong(p, A, a) /\ Cong(p, B, b)
    BY <1>9 DEF A, B
  <2> HIDE DEF a, b
  <2> QED BY <1>4, <1>7, <2>1, <2>2, CongSmall DEF Residue
<1>12. SmoothPair(a, b)
  <2>1. IF a = 0 THEN b # 0
        ELSE b = 0 \/ (4 * a * a * a + 27 * b * b) % p # 0
    BY <1>2 DEF CheckDiscriminant
  <2> HIDE DEF a, b
  <2> DEFINE q == 4 * a * a * a + 27 * b * b
  <2>2. q \in Int
    BY <1>7
  <2> HIDE DEF q
  <2>3. Nonzero(p, q) <=> q % p # 0
    BY <1>4, <2>2, NonzeroRemainder
  <2> QED BY <2>1, <2>3 DEF q, SmoothPair
<1> HIDE DEF a, b
<1>13. ASSUME NEW x \in 0 .. p - 1
       PROVE  ~(L!Cubic(Equation, x) = 0 /\ (3 * x * x + Equation.a) % p = 0)
  <2> DEFINE f == x * x * x + a * x + b
             g == 3 * x * x + a
  <2>1. x \in Int
    BY <1>4
  <2>2. f \in Int /\ g \in Int
    BY <1>7, <2>1
  <2>3. L!Cubic(Equation, x) = f % p /\ 3 * x * x + Equation.a = g
    BY <1>11, EquationIs DEF L!Cubic
  <2>4. ~(Cong(p, f, 0) /\ Cong(p, g, 0))
    BY <1>7, <1>10, <1>12, <2>1, NoDoubleRoot
  <2> HIDE DEF f, g
  <2>5. (f % p = 0 <=> Cong(p, f, 0)) /\ (g % p = 0 <=> Cong(p, g, 0))
    BY <1>4, <2>2, NonzeroRemainder DEF Nonzero
  <2> QED BY <2>3, <2>4, <2>5
<1> QED
  BY <1>10, <1>13, EquationIs DEF L!Smooth

-------------------------------------------------------------------------------
(* The invariant: the group set_curve made, points with reduced coordinates   *)
(* and an honest flag, and on the curve those in use.                         *)

Typed(ps, gd) ==
  ps \in [Regs -> Point] /\ gd \subseteq Regs /\ \A r \in Regs : PointOK(ps[r])

Sound(ps, gd) == \A r \in gd : OnLaw(Affine(ps[r]))

IInv == GroupOK /\ Typed(pts, good) /\ Sound(pts, good)

HeldOf(ps, gd) == [r \in Regs |-> IF r \in gd THEN Affine(ps[r]) ELSE Undefined]

LEMMA TypeIs == TypeOK <=> Typed(pts, good)
<1>1. [X : Residue, Y : Residue, Z : Residue, Z_is_one : BOOLEAN] = Point
  BY DEF Point
<1>2. TypeOK <=> /\ pts \in [Regs -> Point] /\ good \subseteq Regs
                 /\ \A r \in Regs : pts[r].Z_is_one => pts[r].Z = field_encode(1)
  BY <1>1 DEF TypeOK
<1>3. pts \in [Regs -> Point] => \A r \in Regs : pts[r] \in Point
  OBVIOUS
<1> QED
  BY <1>2, <1>3 DEF Typed, PointOK

(* The group never changes, so that what is said of the variables after a     *)
(* step can be said of their values in the group as it is.                    *)
LEMMA Frame ==
  ASSUME group' = group, NEW ps, ps = pts', NEW gd, gd = good'
  PROVE  /\ GroupOK' <=> GroupOK
         /\ Typed(pts, good)' <=> Typed(ps, gd)
         /\ Sound(pts, good)' <=> Sound(ps, gd)
         /\ Equation' = Equation
         /\ Held' = HeldOf(ps, gd)
<1>1. p' = p /\ Residue' = Residue
  BY DEF p, Residue
<1>2. \A n : field_decode(n)' = field_decode(n)
  BY DEF field_decode, BN_mod_inverse, p
<1>3. A' = A /\ B' = B
  BY DEF A, B, field_decode, BN_mod_inverse, p
<1>4. GroupOK' = GroupOK
  <2>1. field_decode(group.a)' = field_decode(group.a)
    BY DEF field_decode, BN_mod_inverse, p
  <2>2. PrimeField(p)' = PrimeField(p) /\ Nonzero(p, group.R)' = Nonzero(p, group.R)
    BY DEF PrimeField, IsPrimeField, Nonzero, Cong, p
  <2>3. Cong(p, field_decode(group.a), -3)' = Cong(p, field_decode(group.a), -3)
    BY <1>1, <2>1 DEF Cong
  <2> QED BY <1>1, <2>2, <2>3 DEF GroupOK
<1>5. Typed(pts, good)' = Typed(ps, gd)
  BY <1>1 DEF Typed, Point, PointOK, field_encode, p
<1>6. \A r : Affine(pts[r])' = Affine(ps[r])
  BY DEF Affine, get_affine, is_at_infinity, field_decode, field_mul, BN_mod_inverse, p
<1>7. \A S : OnLaw(S)' = OnLaw(S)
  <2>1. \A x, y : OnCurve(x, y)' = OnCurve(x, y)
    BY <1>1, <1>3 DEF OnCurve, CubicAt, Cong
  <2> QED BY <1>1, <2>1 DEF OnLaw
<1>8. Sound(pts, good)' = Sound(ps, gd)
  <2>1. \A r : OnLaw(Affine(pts[r]))' = OnLaw(Affine(ps[r]))
    BY <1>1, <1>3, <1>6 DEF OnLaw, OnCurve, CubicAt, Cong
  <2> QED BY <2>1 DEF Sound
<1>9. Equation' = Equation
  BY DEF Equation, field_decode, BN_mod_inverse, p
<1>10. Held' = HeldOf(ps, gd)
  BY <1>6 DEF Held, HeldOf
<1> QED
  BY <1>4, <1>5, <1>8, <1>9, <1>10

\* What a call may come to: points and flags as they must be, and on the
\* affine points what CurveLaw says of the call
Outcome(ps, gd, cl) ==
  /\ Typed(ps, gd) /\ Sound(ps, gd)
  /\ \/ /\ cl.fn # "make_affine" /\ cl.r \in Regs
        /\ HeldOf(ps, gd) = [Held EXCEPT ![cl.r] = L!Meaning(Equation, cl)]
     \/ /\ cl.fn = "make_affine"
        /\ HeldOf(ps, gd) \in {Held, [r \in Regs |-> Undefined]}

LEMMA HeldIs ==
  ASSUME IInv
  PROVE  /\ Held = HeldOf(pts, good) /\ good \subseteq Regs
         /\ \A r \in good : Held[r] = Affine(pts[r]) /\ OnLaw(Affine(pts[r]))
         /\ \A r \in Regs : PointOK(pts[r])
         /\ pts \in [Regs -> Point]
BY DEF IInv, Typed, Sound, Held, HeldOf

(* One case of a call that assigns.                                           *)
LEMMA Assigned ==
  ASSUME IInv, NEW r \in Regs, NEW P, PointOK(P), OnLaw(Affine(P)),
         NEW ps, ps = [pts EXCEPT ![r] = P], NEW gd, gd = good \cup {r},
         NEW cl, cl.fn # "make_affine", cl.r = r, Affine(P) = L!Meaning(Equation, cl)
  PROVE  Outcome(ps, gd, cl)
<1>1. P \in Point
  BY DEF PointOK
<1>2. ps \in [Regs -> Point] /\ ps[r] = P /\ \A s \in Regs \ {r} : ps[s] = pts[s]
  BY <1>1, HeldIs
<1>3. \A s \in Regs : PointOK(ps[s])
  BY <1>2, HeldIs
<1>4. Typed(ps, gd)
  BY <1>2, <1>3, HeldIs DEF Typed
<1>5. Sound(ps, gd)
  BY <1>2, HeldIs DEF Sound
<1>6. HeldOf(ps, gd) = [Held EXCEPT ![r] = Affine(P)]
  BY <1>2 DEF Held, HeldOf
<1>7. HeldOf(ps, gd) = [Held EXCEPT ![cl.r] = L!Meaning(Equation, cl)]
  BY <1>6
<1> QED
  BY <1>4, <1>5, <1>7 DEF Outcome

LEMMA CopyStep ==
  ASSUME IInv, NEW ps, ps = pts', NEW gd, gd = good', NEW cl, cl = call', Copy
  PROVE  Outcome(ps, gd, cl)
<1>1. PICK r \in Regs, a \in good :
        /\ ps = [pts EXCEPT ![r] = pts[a]] /\ gd = good \cup {r}
        /\ cl = [fn |-> "copy", r |-> r, a |-> a]
  BY DEF Copy, Write
<1>2. L!Meaning(Equation, cl) = Held[a] /\ cl.fn # "make_affine" /\ cl.r = r
  BY <1>1 DEF L!Meaning
<1>3. PointOK(pts[a]) /\ OnLaw(Affine(pts[a])) /\ Affine(pts[a]) = Held[a]
  BY HeldIs
<1> QED
  BY <1>1, <1>2, <1>3, Assigned

LEMMA SetToInfinityStep ==
  ASSUME IInv, NEW ps, ps = pts', NEW gd, gd = good', NEW cl, cl = call', SetToInfinity
  PROVE  Outcome(ps, gd, cl)
<1>1. PICK r \in Regs :
        /\ ps = [pts EXCEPT ![r] = set_to_infinity(pts[r])] /\ gd = good \cup {r}
        /\ cl = [fn |-> "set_to_infinity", r |-> r]
  BY DEF SetToInfinity, Write
<1>2. L!Meaning(Equation, cl) = Infinity /\ cl.fn # "make_affine" /\ cl.r = r
  BY <1>1 DEF L!Meaning
<1>3. PointOK(pts[r])
  BY HeldIs
<1>4. PointOK(set_to_infinity(pts[r])) /\ Affine(set_to_infinity(pts[r])) = Infinity
  BY <1>3, InfinityAffine DEF IInv
<1> QED
  BY <1>1, <1>2, <1>4, Assigned DEF OnLaw

LEMMA SetAffineStep ==
  ASSUME IInv, NEW ps, ps = pts', NEW gd, gd = good', NEW cl, cl = call', SetAffine
  PROVE  Outcome(ps, gd, cl)
<1>1. PICK r \in Regs, x \in 0 .. p - 1, y \in 0 .. p - 1 :
        /\ is_on_curve(set_Jprojective(x + p, y - p, 1))
        /\ ps = [pts EXCEPT ![r] = set_Jprojective(x + p, y - p, 1)] /\ gd = good \cup {r}
        /\ cl = [fn |-> "set_affine", r |-> r, x |-> x + p, y |-> y - p]
  BY DEF SetAffine, Write
<1> DEFINE P == set_Jprojective(x + p, y - p, 1)
           u == x + p
           v == y - p
<1>2. u \in Int /\ v \in Int
  BY FieldType DEF IInv
<1>3. L!Meaning(Equation, cl) = <<u % p, v % p>> /\ cl.fn # "make_affine" /\ cl.r = r
  BY <1>1, EquationIs DEF L!Meaning
<1>4. P = set_Jprojective(u, v, 1)
  OBVIOUS
<1> HIDE DEF u, v, P
<1>5. PointOK(P) /\ Affine(P) = <<u % p, v % p>>
  BY <1>2, <1>4, SetAffineMeans DEF IInv, Affine
<1>6. OnLaw(Affine(P))
  BY <1>1, <1>5, IsOnCurve DEF P, IInv
<1> QED
  BY <1>1, <1>3, <1>5, <1>6, Assigned DEF P

LEMMA AddStep ==
  ASSUME IInv, NEW ps, ps = pts', NEW gd, gd = good', NEW cl, cl = call', Add
  PROVE  Outcome(ps, gd, cl)
<1>1. PICK r \in Regs, a \in good, b \in good :
        /\ ps = [pts EXCEPT ![r] = IF a = b THEN dbl(pts[r], pts[a])
                                   ELSE add(pts[r], pts[a], pts[b])]
        /\ gd = good \cup {r}
        /\ cl = [fn |-> "add", r |-> r, a |-> a, b |-> b]
  BY DEF Add, Write
<1> DEFINE P == IF a = b THEN dbl(pts[r], pts[a]) ELSE add(pts[r], pts[a], pts[b])
<1>2. /\ L!Meaning(Equation, cl) = L!Sum(Equation, Held[a], Held[b])
      /\ cl.fn # "make_affine" /\ cl.r = r
  BY <1>1 DEF L!Meaning
<1>3. /\ PointOK(pts[r]) /\ PointOK(pts[a]) /\ PointOK(pts[b])
      /\ OnLaw(Affine(pts[a])) /\ OnLaw(Affine(pts[b]))
      /\ Held[a] = Affine(pts[a]) /\ Held[b] = Affine(pts[b])
  BY HeldIs
<1>4. /\ PointOK(P) /\ OnLaw(Affine(P))
      /\ Affine(P) = L!Sum(Equation, Affine(pts[a]), Affine(pts[b]))
  <2>1. CASE a = b
    <3>1. P = dbl(pts[r], pts[a])
      BY <2>1
    <3> HIDE DEF P
    <3> QED BY <1>3, <2>1, <3>1, DblAffine DEF IInv
  <2>2. CASE a # b
    <3>1. P = add(pts[r], pts[a], pts[b])
      BY <2>2
    <3> HIDE DEF P
    <3> QED BY <1>3, <3>1, AddAffine DEF IInv
  <2> QED BY <2>1, <2>2
<1>5. ps = [pts EXCEPT ![r] = P]
  BY <1>1
<1> HIDE DEF P
<1> QED
  BY <1>1, <1>2, <1>3, <1>4, <1>5, Assigned

LEMMA DblStep ==
  ASSUME IInv, NEW ps, ps = pts', NEW gd, gd = good', NEW cl, cl = call', Dbl
  PROVE  Outcome(ps, gd, cl)
<1>1. PICK r \in Regs, a \in good :
        /\ ps = [pts EXCEPT ![r] = dbl(pts[r], pts[a])] /\ gd = good \cup {r}
        /\ cl = [fn |-> "dbl", r |-> r, a |-> a]
  BY DEF Dbl, Write
<1>2. /\ L!Meaning(Equation, cl) = L!Sum(Equation, Held[a], Held[a])
      /\ cl.fn # "make_affine" /\ cl.r = r
  BY <1>1 DEF L!Meaning
<1>3. /\ PointOK(pts[r]) /\ PointOK(pts[a]) /\ OnLaw(Affine(pts[a]))
      /\ Held[a] = Affine(pts[a])
  BY HeldIs
<1> DEFINE P == dbl(pts[r], pts[a])
<1>4. /\ PointOK(P) /\ OnLaw(Affine(P))
      /\ Affine(P) = L!Sum(Equation, Affine(pts[a]), Affine(pts[a]))
  BY <1>3, DblAffine DEF IInv
<1>5. ps = [pts EXCEPT ![r] = P]
  BY <1>1
<1> HIDE DEF P
<1> QED
  BY <1>1, <1>2, <1>3, <1>4, <1>5, Assigned

LEMMA InvertStep ==
  ASSUME IInv, NEW ps, ps = pts', NEW gd, gd = good', NEW cl, cl = call', Invert
  PROVE  Outcome(ps, gd, cl)
<1>1. PICK r \in good :
        /\ ps = [pts EXCEPT ![r] = invert(pts[r])] /\ gd = good \cup {r}
        /\ cl = [fn |-> "invert", r |-> r]
  BY DEF Invert, Write
<1>2. /\ L!Meaning(Equation, cl) = L!Opposite(Equation, Held[r])
      /\ cl.fn # "make_affine" /\ cl.r = r
  BY <1>1 DEF L!Meaning
<1>3. r \in Regs /\ PointOK(pts[r]) /\ OnLaw(Affine(pts[r])) /\ Held[r] = Affine(pts[r])
  BY HeldIs
<1> DEFINE P == invert(pts[r])
<1>4. /\ PointOK(P) /\ OnLaw(Affine(P))
      /\ Affine(P) = L!Opposite(Equation, Affine(pts[r]))
  BY <1>3, InvertAffine DEF IInv
<1>5. ps = [pts EXCEPT ![r] = P]
  BY <1>1
<1> HIDE DEF P
<1> QED
  BY <1>1, <1>2, <1>3, <1>4, <1>5, Assigned

\* Points that are made affine, and the flags of use, leave what is held
LEMMA SameHeld ==
  ASSUME IInv, NEW ps, ps \in [Regs -> Point], \A s \in Regs : PointOK(ps[s]),
         \A s \in good : Affine(ps[s]) = Affine(pts[s]),
         NEW cl, cl.fn = "make_affine"
  PROVE  Outcome(ps, good, cl)
<1>1. Typed(ps, good) /\ Sound(ps, good)
  BY HeldIs DEF Typed, Sound
<1>2. HeldOf(ps, good) = HeldOf(pts, good)
  BY DEF HeldOf
<1>3. HeldOf(ps, good) = Held
  BY <1>2, HeldIs
<1> QED
  BY <1>1, <1>3 DEF Outcome

LEMMA MakeAffineStep ==
  ASSUME IInv, NEW ps, ps = pts', NEW gd, gd = good', NEW cl, cl = call', MakeAffine
  PROVE  Outcome(ps, gd, cl)
<1>1. PICK r \in good :
        /\ ps = [pts EXCEPT ![r] = make_affine(pts[r])] /\ gd = good \cup {r}
        /\ cl = [fn |-> "make_affine"]
  BY DEF MakeAffine, Write
<1>2. gd = good /\ cl.fn = "make_affine"
  BY <1>1
<1> DEFINE P == make_affine(pts[r])
<1>3. r \in Regs /\ PointOK(pts[r])
  BY HeldIs
<1>4. PointOK(P) /\ Affine(P) = Affine(pts[r])
  BY <1>3, MakeAffineAffine DEF IInv
<1>5. ps = [pts EXCEPT ![r] = P]
  BY <1>1
<1> HIDE DEF P
<1>6. P \in Point
  BY <1>4 DEF PointOK
<1>7. ps \in [Regs -> Point] /\ ps[r] = P /\ \A s \in Regs \ {r} : ps[s] = pts[s]
  BY <1>3, <1>5, <1>6, HeldIs
<1>8. \A s \in Regs : PointOK(ps[s]) /\ Affine(ps[s]) = Affine(pts[s])
  BY <1>4, <1>7, HeldIs
<1>9. \A s \in good : Affine(ps[s]) = Affine(pts[s])
  BY <1>8, HeldIs
<1>10. Outcome(ps, good, cl)
  BY <1>2, <1>7, <1>8, <1>9, SameHeld
<1> QED
  BY <1>2, <1>10

LEMMA PointsMakeAffineStep ==
  ASSUME IInv, NEW ps, ps = pts', NEW gd, gd = good', NEW cl, cl = call', PointsMakeAffine
  PROVE  Outcome(ps, gd, cl)
<1>1. PICK r \in good, s \in good :
        /\ r # s
        /\ ps = [pts EXCEPT ![r] = points_make_affine(pts[r], pts[s])[1],
                            ![s] = points_make_affine(pts[r], pts[s])[2]]
        /\ cl = [fn |-> "make_affine"]
        /\ gd = good
  BY DEF PointsMakeAffine
<1> DEFINE both == points_make_affine(pts[r], pts[s])
           P == both[1]
           Q == both[2]
<1>2. r \in Regs /\ s \in Regs /\ PointOK(pts[r]) /\ PointOK(pts[s])
  BY HeldIs
<1>3. /\ PointOK(P) /\ Affine(P) = Affine(pts[r])
      /\ PointOK(Q) /\ Affine(Q) = Affine(pts[s])
  BY <1>2, BatchAffine DEF IInv
<1>4. ps = [pts EXCEPT ![r] = P, ![s] = Q]
  BY <1>1
<1> HIDE DEF P, Q, both
<1>5. P \in Point /\ Q \in Point
  BY <1>3 DEF PointOK
<1>6. /\ ps \in [Regs -> Point] /\ ps[r] = P /\ ps[s] = Q
      /\ \A t \in Regs \ {r, s} : ps[t] = pts[t]
  BY <1>1, <1>2, <1>4, <1>5, HeldIs
<1>7. \A t \in Regs : PointOK(ps[t]) /\ Affine(ps[t]) = Affine(pts[t])
  BY <1>3, <1>6, HeldIs
<1>8. \A t \in good : Affine(ps[t]) = Affine(pts[t])
  BY <1>7, HeldIs
<1>9. cl.fn = "make_affine"
  BY <1>1
<1>10. Outcome(ps, good, cl)
  BY <1>6, <1>7, <1>8, <1>9, SameHeld
<1> QED
  BY <1>1, <1>10

LEMMA PointsMakeAffineFailsStep ==
  ASSUME IInv, NEW ps, ps = pts', NEW gd, gd = good', NEW cl, cl = call',
         PointsMakeAffineFails
  PROVE  Outcome(ps, gd, cl)
<1>1. ps = [r \in Regs |-> NewPoint] /\ gd = {} /\ cl = [fn |-> "make_affine"]
  BY DEF PointsMakeAffineFails
<1>2. PointOK(NewPoint) /\ NewPoint \in Point
  BY NewPointIs DEF IInv, PointOK
<1>3. Typed(ps, gd) /\ Sound(ps, gd)
  BY <1>1, <1>2 DEF Typed, Sound
<1>4. HeldOf(ps, gd) = [r \in Regs |-> Undefined]
  BY <1>1 DEF HeldOf
<1>5. cl.fn = "make_affine"
  BY <1>1
<1> QED
  BY <1>3, <1>4, <1>5 DEF Outcome

(* A call that fails, or of which nothing is known to be of use.              *)
LEMMA Lost ==
  ASSUME IInv, NEW r \in Regs, NEW P, PointOK(P),
         NEW ps, ps = [pts EXCEPT ![r] = P], NEW gd, gd = good \ {r},
         NEW cl, cl.fn # "make_affine", cl.r = r, Undefined = L!Meaning(Equation, cl)
  PROVE  Outcome(ps, gd, cl)
<1>1. P \in Point
  BY DEF PointOK
<1>2. ps \in [Regs -> Point] /\ ps[r] = P /\ \A s \in Regs \ {r} : ps[s] = pts[s]
  BY <1>1, HeldIs
<1>3. \A s \in Regs : PointOK(ps[s])
  BY <1>2, HeldIs
<1>4. Typed(ps, gd)
  BY <1>2, <1>3, HeldIs DEF Typed
<1>5. Sound(ps, gd)
  BY <1>2, HeldIs DEF Sound
<1>6. HeldOf(ps, gd) = [Held EXCEPT ![r] = Undefined]
  BY <1>2 DEF Held, HeldOf
<1>7. HeldOf(ps, gd) = [Held EXCEPT ![cl.r] = L!Meaning(Equation, cl)]
  BY <1>6
<1> QED
  BY <1>4, <1>5, <1>7 DEF Outcome

LEMMA RenewStep ==
  ASSUME IInv, NEW ps, ps = pts', NEW gd, gd = good', NEW cl, cl = call', Renew
  PROVE  Outcome(ps, gd, cl)
<1>1. PICK r \in Regs :
        /\ ps = [pts EXCEPT ![r] = NewPoint] /\ gd = good \ {r}
        /\ cl = [fn |-> "new", r |-> r]
  BY DEF Renew
<1>2. L!Meaning(Equation, cl) = Undefined /\ cl.fn # "make_affine" /\ cl.r = r
  BY <1>1 DEF L!Meaning
<1>3. PointOK(NewPoint)
  BY NewPointIs DEF IInv
<1> QED
  BY <1>1, <1>2, <1>3, Lost

LEMMA Oct2PointStep ==
  ASSUME IInv, NEW ps, ps = pts', NEW gd, gd = good', NEW cl, cl = call', Oct2Point
  PROVE  Outcome(ps, gd, cl)
<1>1. PICK r \in Regs, buf \in Buffers :
        /\ cl = [fn |-> "oct2point", r |-> r, buf |-> buf]
        /\ IF Decoded(buf) = {} THEN gd = good \ {r} /\ ps = pts
           ELSE \E P \in Decoded(buf) :
                  IF is_on_curve(P)
                  THEN ps = [pts EXCEPT ![r] = P] /\ gd = good \cup {r}
                  ELSE ps = [pts EXCEPT ![r] = P] /\ gd = good \ {r}
  BY DEF Oct2Point, Write
<1>2. /\ L!Meaning(Equation, cl) = L!FromOctets(Equation, buf)
      /\ cl.fn # "make_affine" /\ cl.r = r
  BY <1>1 DEF L!Meaning
<1>3. CASE Decoded(buf) = {}
  <2>1. L!FromOctets(Equation, buf) = Undefined
    BY <1>3, FromOctetsIs DEF IInv
  <2>2. PointOK(pts[r]) /\ ps = [pts EXCEPT ![r] = pts[r]] /\ gd = good \ {r}
    BY <1>1, <1>3, HeldIs
  <2> QED BY <1>2, <2>1, <2>2, Lost
<1>4. CASE Decoded(buf) # {}
  <2>1. PICK P \in Decoded(buf) :
          IF is_on_curve(P)
          THEN ps = [pts EXCEPT ![r] = P] /\ gd = good \cup {r}
          ELSE ps = [pts EXCEPT ![r] = P] /\ gd = good \ {r}
    BY <1>1, <1>4
  <2>2. PointOK(P)
    BY <2>1, DecodedPoint DEF IInv
  <2>3. L!FromOctets(Equation, buf) = IF OnLaw(Affine(P)) THEN Affine(P) ELSE Undefined
    BY <2>1, FromOctetsIs DEF IInv
  <2>4. is_on_curve(P) <=> OnLaw(Affine(P))
    BY <2>2, IsOnCurve DEF IInv
  <2>5. CASE is_on_curve(P)
    BY <1>2, <2>1, <2>2, <2>3, <2>4, <2>5, Assigned
  <2>6. CASE ~is_on_curve(P)
    BY <1>2, <2>1, <2>2, <2>3, <2>4, <2>6, Lost
  <2> QED BY <2>5, <2>6
<1> QED
  BY <1>3, <1>4

LEMMA EveryStep ==
  ASSUME IInv, Next, NEW ps, ps = pts', NEW gd, gd = good', NEW cl, cl = call'
  PROVE  Outcome(ps, gd, cl) /\ group' = group
<1>1. CASE Renew
  BY <1>1, RenewStep DEF Next
<1>2. CASE Copy
  BY <1>2, CopyStep DEF Next
<1>3. CASE SetToInfinity
  BY <1>3, SetToInfinityStep DEF Next
<1>4. CASE SetAffine
  BY <1>4, SetAffineStep DEF Next
<1>5. CASE Add
  BY <1>5, AddStep DEF Next
<1>6. CASE Dbl
  BY <1>6, DblStep DEF Next
<1>7. CASE Invert
  BY <1>7, InvertStep DEF Next
<1>8. CASE MakeAffine
  BY <1>8, MakeAffineStep DEF Next
<1>9. CASE PointsMakeAffine
  BY <1>9, PointsMakeAffineStep DEF Next
<1>10. CASE PointsMakeAffineFails
  BY <1>10, PointsMakeAffineFailsStep DEF Next
<1>11. CASE Oct2Point
  BY <1>11, Oct2PointStep DEF Next
<1> QED
  BY <1>1, <1>2, <1>3, <1>4, <1>5, <1>6, <1>7, <1>8, <1>9, <1>10, <1>11 DEF Next

-------------------------------------------------------------------------------
(* The theorems.                                                              *)

LEMMA InvInit ==
  ASSUME Init
  PROVE  IInv /\ L!LawInit
<1>1. PICK c \in Inputs : CheckDiscriminant(c) /\ group = SetCurve(c)
  BY DEF Init
<1>2. GroupOK /\ L!Smooth(Equation)
  BY <1>1, GroupFromInit
<1>3. pts = [r \in Regs |-> NewPoint] /\ good = {} /\ call = [fn |-> "new"]
  BY DEF Init
<1>4. PointOK(NewPoint) /\ NewPoint \in Point
  BY <1>2, NewPointIs DEF PointOK
<1>5. Typed(pts, good) /\ Sound(pts, good)
  BY <1>3, <1>4 DEF Typed, Sound
<1>6. Held = [r \in Regs |-> Undefined]
  BY <1>3 DEF Held
<1> QED
  BY <1>2, <1>3, <1>5, <1>6 DEF IInv, L!LawInit

LEMMA InvNext ==
  ASSUME IInv, [Next]_vars
  PROVE  IInv' /\ [L!LawNext]_L!lawVars
<1>1. CASE Next
  <2>1. PICK ps, gd, cl : ps = pts' /\ gd = good' /\ cl = call'
    OBVIOUS
  <2>2. Outcome(ps, gd, cl) /\ group' = group
    BY <1>1, <2>1, EveryStep
  <2>3. /\ GroupOK' <=> GroupOK
        /\ Typed(pts, good)' <=> Typed(ps, gd)
        /\ Sound(pts, good)' <=> Sound(ps, gd)
        /\ Equation' = Equation
        /\ Held' = HeldOf(ps, gd)
    BY <2>1, <2>2, Frame
  <2>4. IInv'
    BY <2>2, <2>3 DEF IInv, Outcome
  <2>5. CASE cl.fn = "make_affine"
    <3>1. Held' \in {Held, [r \in Regs |-> Undefined]}
      BY <2>2, <2>3, <2>5 DEF Outcome
    <3>2. L!LawNext
      BY <2>1, <2>3, <2>5, <3>1 DEF L!LawNext, L!Normalise
    <3> QED BY <2>4, <3>2
  <2>6. CASE cl.fn # "make_affine"
    <3>1. cl.r \in Regs /\ Held' = [Held EXCEPT ![cl.r] = L!Meaning(Equation, cl)]
      BY <2>2, <2>3, <2>6 DEF Outcome
    <3>2. L!LawNext
      BY <2>1, <2>3, <2>6, <3>1 DEF L!LawNext, L!Assign
    <3> QED BY <2>4, <3>2
  <2> QED BY <2>5, <2>6
<1>2. CASE UNCHANGED vars
  <2>1. PICK ps, gd : ps = pts' /\ gd = good'
    OBVIOUS
  <2>2. group' = group /\ ps = pts /\ gd = good /\ call' = call
    BY <1>2, <2>1 DEF vars
  <2>3. /\ GroupOK' <=> GroupOK
        /\ Typed(pts, good)' <=> Typed(ps, gd)
        /\ Sound(pts, good)' <=> Sound(ps, gd)
        /\ Equation' = Equation
        /\ Held' = HeldOf(ps, gd)
    BY <2>1, <2>2, Frame
  <2>4. IInv' /\ Held' = Held
    BY <2>2, <2>3, HeldIs DEF IInv
  <2> QED BY <2>2, <2>3, <2>4 DEF L!lawVars
<1> QED
  BY <1>1, <1>2

THEOREM Invariant == Spec => []IInv
<1>1. Init => IInv
  BY InvInit
<1>2. IInv /\ [Next]_vars => IInv'
  BY InvNext
<1> QED
  BY <1>1, <1>2, PTL DEF Spec

(* Coordinates stay reduced, and no flag Z_is_one lies.                       *)
THEOREM TypeCorrect == Spec => []TypeOK
<1>1. IInv => TypeOK
  BY TypeIs DEF IInv
<1> QED
  BY <1>1, Invariant, PTL

(* In every reachable state cmp, is_on_curve and point2oct answer as the      *)
(* affine points would, and what point2oct writes decodes to the same point.  *)
THEOREM AnswersCorrect == Spec => []AnswersMatch
<1>1. ASSUME IInv PROVE AnswersMatch
  <2>1. GroupOK
    BY <1>1 DEF IInv
  <2>2. \A r \in good : /\ PointOK(pts[r]) /\ Held[r] = Affine(pts[r])
                        /\ OnLaw(Affine(pts[r]))
    BY <1>1, HeldIs
  <2>3. \A r, s \in good : cmp(pts[r], pts[s]) = 0 <=> Held[r] = Held[s]
    BY <2>1, <2>2, CmpIs
  <2>4. ASSUME NEW r \in good
        PROVE  is_on_curve(pts[r]) /\ L!OnLawCurve(Equation, Held[r])
    <3>1. is_on_curve(pts[r])
      BY <2>1, <2>2, IsOnCurve
    <3>2. L!OnLawCurve(Equation, Affine(pts[r]))
      <4>1. Affine(pts[r]) \in L!LawCurve(Equation)
        BY <2>1, <2>2, OnLawIs
      <4>2. L!OnLawCurve(Equation, Infinity)
        BY DEF L!OnLawCurve
      <4> QED BY <4>1, <4>2 DEF L!LawCurve
    <3> QED BY <2>2, <3>1, <3>2
  <2>5. ASSUME NEW r \in good, NEW form \in {2, 4, 6}
        PROVE  LET buf == point2oct(pts[r], form)
               IN /\ buf \in L!Octets(Held[r])
                  /\ Decoded(buf) # {}
                  /\ \A P \in Decoded(buf) : Affine(P) = Held[r]
    <3> DEFINE buf == point2oct(pts[r], form)
    <3>1. buf \in L!Octets(Affine(pts[r]))
      BY <2>1, <2>2, OctetsOf
    <3> HIDE DEF buf
    <3>2. Decoded(buf) # {} /\ \A P \in Decoded(buf) : Affine(P) = Affine(pts[r])
      BY <2>1, <2>2, <3>1, OctetsDecode
    <3>3. /\ buf \in L!Octets(Held[r]) /\ Decoded(buf) # {}
          /\ \A P \in Decoded(buf) : Affine(P) = Held[r]
      BY <2>2, <3>1, <3>2
    <3> QED BY <3>3 DEF buf
  <2> QED BY <2>3, <2>4, <2>5 DEF AnswersMatch
<1>2. IInv => AnswersMatch
  BY <1>1
<1> QED
  BY <1>2, Invariant, PTL

(* Whatever the special case, the coordinates and the form of the field       *)
(* elements, every call of ecp_smpl.c and ecp_oct.c does on the affine points *)
(* what the chord and tangent law says.                                       *)
THEOREM PointsImplementLaw == Spec => ImplementsLaw
<1>1. Init => L!LawInit
  BY InvInit
<1>2. IInv /\ [Next]_vars => [L!LawNext]_L!lawVars
  BY InvNext
<1> QED
  BY <1>1, <1>2, Invariant, PTL DEF Spec, ImplementsLaw, L!LawSpec
===============================================================================
