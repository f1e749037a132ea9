---------------------------- MODULE EcdsaFlowProofs ----------------------------
(* Proofs about EcdsaFlow, for every group of prime order, every key, width of *)
(* a byte and set of digests.                                                 *)
EXTENDS EcdsaFlowProps, Arithmetic, FiniteSetTheorems

-------------------------------------------------------------------------------
(* Facts about the equation of EcdsaLaw, for every group of prime order.      *)

LEMMA OrderType == Order \in Nat \ {0} /\ Order \in Int /\ Order > 2
  BY OrderAssumption

(* Every scalar but 0 has the inverse that BN_mod_inverse computes.           *)
LEMMA InvertDef ==
  ASSUME NEW k \in 1 .. Order - 1
  PROVE  Invert(k) \in 1 .. Order - 1 /\ Invert(k) \in Int /\ (Invert(k) * k) % Order = 1
<1>1. \E i \in 1 .. Order - 1 : (i * k) % Order = 1
  BY OrderAssumption
<1>2. Invert(k) \in 1 .. Order - 1 /\ (Invert(k) * k) % Order = 1
  BY <1>1 DEF Invert
<1> QED
  BY <1>2, OrderType

LEMMA NonceXType ==
  ASSUME NEW k \in 1 .. Order - 1
  PROVE  NonceX(k) \in 0 .. Order - 1
<1>1. XCoord[k] \in Nat
  BY OrderAssumption
<1>2. XCoord[k] % Order \in 0 .. Order - 1
  <2> DEFINE x == XCoord[k]
  <2>1. x \in Int
    BY <1>1
  <2> HIDE DEF x
  <2>2. x % Order \in 0 .. Order - 1
    BY <2>1, OrderType, DivMod
  <2> QED BY <2>2 DEF x
<1> QED
  BY <1>1, <1>2 DEF NonceX

(* A signature made with any nonce that gives neither an r nor an s of 0 is   *)
(* correct (ecdsa_do_sign).                                                   *)
LEMMA MadeIsCorrect ==
  ASSUME NEW d \in Int, NEW m \in Int, NEW k \in 1 .. Order - 1, NEW s \in Int,
         s = (Invert(k) * (m + NonceX(k) * d)) % Order,
         NonceX(k) # 0, s # 0
  PROVE  Correct(d, m, NonceX(k), s)
<1> DEFINE r == NonceX(k)
           i == Invert(k)
           j == Invert(s)
           e == m + r * d
<1>1. r \in 1 .. Order - 1 /\ r \in Int
  BY NonceXType, OrderType
<1>2. i \in Int /\ (i * k) % Order = 1
  BY InvertDef
<1>3. e \in Int
  <2> HIDE DEF r
  <2> QED BY <1>1
<1>4. s = (i * e) % Order /\ i * e \in Int
  <2>1. s = (i * e) % Order
    OBVIOUS
  <2> HIDE DEF i, e
  <2> QED BY <2>1, <1>2, <1>3
<1>5. s \in 1 .. Order - 1
  <2>1. s \in 0 .. Order - 1
    <3> DEFINE p == i * e
    <3>1. p \in Int /\ s = p % Order
      BY <1>4
    <3> HIDE DEF p
    <3> QED BY <3>1, OrderType, DivMod
  <2> QED BY <2>1, OrderType
<1>6. j \in Int /\ (j * s) % Order = 1
  BY <1>5, InvertDef
<1>7. (j * e) % Order = k
  <2>1. (j * ((i * e) % Order)) % Order = 1
    BY <1>4, <1>6
  <2>2. k \in 0 .. Order - 1
    BY OrderType
  <2> HIDE DEF i, j, e
  <2> QED BY <2>1, <2>2, <1>2, <1>3, <1>6, OrderType, NonceRecovered
<1>8. k # 0 /\ NonceX(k) = r
  BY OrderType
<1> QED
  BY <1>1, <1>5, <1>7, <1>8 DEF Correct

-------------------------------------------------------------------------------
(* Bits.                                                                      *)

LEMMA KeyType ==
  /\ PrivKey \in 1 .. Order - 1 /\ PrivKey \in Int
  /\ ByteBits \in Nat \ {0} /\ ByteBits \in Nat /\ ByteBits \in Int
  /\ NULL \notin Nat
  BY KeyAssumption, OrderType

LEMMA NumBits ==
  ASSUME NEW n \in Nat
  PROVE  /\ BN_num_bits(n) \in Nat /\ HasBits(n, BN_num_bits(n))
         /\ \A b \in Nat : HasBits(n, b) => BN_num_bits(n) = b
<1>1. BN_num_bits(n) = CHOOSE b \in 0 .. n : HasBits(n, b)
  BY DEF BN_num_bits, HasBits
<1>2. \E b \in 0 .. n : HasBits(n, b)
  BY BitsExist
<1>3. BN_num_bits(n) \in 0 .. n /\ HasBits(n, BN_num_bits(n))
  BY <1>1, <1>2
<1> QED
  BY <1>3, BitsOnce

LEMMA OrderBitsType ==
  /\ OrderBits \in Nat \ {0} /\ OrderBits \in Nat /\ OrderBits - 1 \in Nat
  /\ Order < Pow2[OrderBits] /\ Pow2[OrderBits - 1] <= Order
<1>1. OrderBits \in Nat /\ HasBits(Order, OrderBits)
  BY OrderType, NumBits DEF OrderBits
<1>2. OrderBits # 0
  BY <1>1, OrderType, Pow2Def DEF HasBits
<1> QED
  BY <1>1, <1>2 DEF HasBits

(* Whatever the nonce, what is multiplied with has one bit more than the      *)
(* order and is the same point (ecs_ossl.c:147-162).                          *)
LEMMA NonceFixed ==
  ASSUME NEW k \in 1 .. Order - 1
  PROVE  /\ FixedLength(k) \in Nat /\ FixedLength(k) % Order = k
         /\ BN_num_bits(FixedLength(k)) = OrderBits + 1
<1> DEFINE N == OrderBits
           top == Pow2[N]
           a == k + Order
           b == k + 2 * Order
           f == FixedLength(k)
<1>1. k \in Int /\ a \in Nat /\ b \in Nat /\ a < 2 * Order /\ a > Order
  BY OrderType
<1>2. /\ N \in Nat /\ top \in Int /\ Pow2[N + 1] = 2 * top
      /\ Order < top /\ top <= 2 * Order
  <2>1. N \in Nat /\ N - 1 \in Nat /\ (N - 1) + 1 = N
    BY OrderBitsType
  <2>2. top = 2 * Pow2[N - 1] /\ Pow2[N - 1] \in Int /\ top \in Int
    BY <2>1, Pow2Def, Pow2Type
  <2> QED BY <2>1, <2>2, Pow2Def, OrderBitsType, OrderType
<1> DEFINE bits == BN_num_bits(a)
<1>3. f = IF bits > N THEN a ELSE b
  BY DEF FixedLength
<1>4. bits \in Nat /\ HasBits(a, bits)
  BY <1>1, NumBits
<1>5. bits > N => top <= a
  <2>1. SUFFICES ASSUME bits > N PROVE top <= a
    OBVIOUS
  <2>2. bits # 0 /\ bits - 1 \in Nat /\ Pow2[bits - 1] <= a /\ N <= bits - 1
    BY <2>1, <1>2, <1>4 DEF HasBits
  <2>3. CASE N = bits - 1
    BY <2>2, <2>3
  <2>4. CASE N < bits - 1
    <3> DEFINE c == bits - 1
    <3>1. c \in Nat /\ N < c /\ Pow2[c] <= a
      BY <2>2, <2>4
    <3> HIDE DEF c, top
    <3>2. 2 * Pow2[N] <= Pow2[c] /\ Pow2[c] \in Int /\ Pow2[N] >= 1
      BY <1>2, <3>1, Pow2Grows, Pow2Type
    <3> QED BY <3>1, <3>2, <1>1, <1>2 DEF top
  <2> QED BY <2>2, <2>3, <2>4, <1>2
<1>6. bits <= N => a < top
  <2>1. SUFFICES ASSUME bits <= N PROVE a < top
    OBVIOUS
  <2>2. a < Pow2[bits] /\ Pow2[bits] \in Int
    BY <1>4, Pow2Type DEF HasBits
  <2>3. CASE bits = N
    BY <2>2, <2>3
  <2>4. CASE bits < N
    <3> HIDE DEF bits, top
    <3>1. 2 * Pow2[bits] <= Pow2[N] /\ Pow2[bits] >= 1
      BY <2>4, <1>2, <1>4, Pow2Grows, Pow2Type
    <3> QED BY <2>2, <3>1, <1>1, <1>2 DEF top
  <2> QED BY <2>1, <2>3, <2>4, <1>2, <1>4
<1> HIDE DEF bits, top, N
<1>7. f \in Nat /\ top <= f /\ f < 2 * top
  <2>1. CASE bits > N
    <3>1. f = a /\ top <= a
      BY <2>1, <1>3, <1>5
    <3> HIDE DEF f, a
    <3> QED BY <3>1, <1>1, <1>2, OrderType
  <2>2. CASE ~(bits > N)
    <3>1. f = b /\ bits <= N
      BY <2>2, <1>2, <1>3, <1>4
    <3>2. a < top
      BY <3>1, <1>6
    <3>3. b = a + Order /\ b > 2 * Order
      BY <1>1, OrderType
    <3> HIDE DEF f, a, b
    <3> QED BY <3>1, <3>2, <3>3, <1>1, <1>2, OrderType
  <2> QED BY <2>1, <2>2
<1>8. HasBits(f, N + 1)
  <2>1. (N + 1) - 1 = N /\ N + 1 \in Nat /\ N + 1 # 0
    BY <1>2
  <2> QED BY <1>2, <1>7, <2>1 DEF HasBits, top
<1>9. f % Order = k
  <2>1. k \in 0 .. Order - 1 /\ a = Order * 1 + k /\ b = Order * 2 + k
    BY OrderType
  <2> DEFINE one == 1
             two == 2
  <2>2. one \in Int /\ two \in Int /\ a = Order * one + k /\ b = Order * two + k
    BY <2>1
  <2> HIDE DEF a, b, one, two
  <2>3. a % Order = k /\ b % Order = k
    BY <2>1, <2>2, <1>1, OrderType, DivUnique
  <2> HIDE DEF f
  <2> QED BY <2>3, <1>3
<1>10. N + 1 \in Nat
  BY <1>2
<1> QED
  BY <1>7, <1>8, <1>9, <1>10, NumBits DEF N

-------------------------------------------------------------------------------
(* Digests.                                                                   *)

Radix == Pow2[ByteBits]
Byte == 0 .. Radix - 1

LEMMA RadixType == Radix \in Nat \ {0} /\ Radix \in Int /\ Byte \subseteq Nat
  BY KeyType, Pow2Type DEF Radix, Byte

(* f is the number that the first bytes of d are, one after the other.        *)
Reads(f, d) ==
  /\ f \in [0 .. Len(d) -> Nat] /\ f[0] = 0
  /\ \A i \in 1 .. Len(d) : f[i] = f[i - 1] * Radix + d[i]

LEMMA Readable ==
  ASSUME NEW d \in Seq(Byte)
  PROVE  \E f : Reads(f, d)
<1> DEFINE n == Len(d)
           next(i, x) == x * Radix + IF i \in 1 .. n THEN d[i] ELSE 0
           g == [p \in (Nat \ {0}) \X Nat |-> next(p[1], p[2])]
<1>1. n \in Nat /\ \A i \in 1 .. n : d[i] \in Nat
  <2>1. n \in Nat
    OBVIOUS
  <2>2. ASSUME NEW i \in 1 .. n PROVE d[i] \in Nat
    <3>1. d[i] \in Byte
      OBVIOUS
    <3> QED BY <3>1, RadixType
  <2> QED BY <2>1, <2>2
<1>2. ASSUME NEW i \in Nat \ {0}, NEW x \in Nat
      PROVE  next(i, x) \in Nat
  <2>1. x * Radix \in Nat
    BY RadixType
  <2> HIDE DEF n
  <2> QED BY <2>1, <1>1
<1> HIDE DEF next
<1>3. Makes(g, Nat)
  <2>1. \A p \in (Nat \ {0}) \X Nat : next(p[1], p[2]) \in Nat
    BY <1>2
  <2> QED BY <2>1 DEF Makes
<1>4. \A i \in Nat \ {0}, x \in Nat : g[<<i, x>>] = next(i, x)
  OBVIOUS
<1> DEFINE zero == 0
<1>5. zero \in Nat
  OBVIOUS
<1> HIDE DEF g, n, zero
<1>6. PICK f \in [0 .. n -> Nat] : Builds(f, n, zero, g)
  BY <1>1, <1>3, <1>5, Built
<1>7. ASSUME NEW i \in 1 .. n
      PROVE  f[i] = f[i - 1] * Radix + d[i]
  <2>1. i \in Nat \ {0} /\ f[i - 1] \in Nat
    BY <1>1
  <2>2. f[i] = g[<<i, f[i - 1]>>]
    BY <1>6 DEF Builds
  <2>3. f[i] = next(i, f[i - 1])
    BY <2>1, <2>2, <1>4
  <2> QED BY <2>3 DEF next
<1>8. f[0] = 0
  BY <1>6 DEF Builds, zero
<1>9. Reads(f, d)
  BY <1>7, <1>8 DEF Reads, n
<1> QED
  BY <1>9

LEMMA ReadOnce ==
  ASSUME NEW d, NEW f, NEW h, Len(d) \in Nat, Reads(f, d), NEW m \in 0 .. Len(d),
         h[0] = 0, \A i \in 1 .. m : h[i] = h[i - 1] * Radix + d[i]
  PROVE  h[m] = f[m]
<1> DEFINE S == {i \in Nat : i <= m => h[i] = f[i]}
<1>1. 0 \in S
  BY DEF Reads
<1>2. ASSUME NEW i \in Nat, i \in S
      PROVE  i + 1 \in S
  <2>1. SUFFICES ASSUME i + 1 <= m PROVE h[i + 1] = f[i + 1]
    OBVIOUS
  <2>2. i + 1 \in 1 .. m /\ i + 1 \in 1 .. Len(d) /\ (i + 1) - 1 = i /\ h[i] = f[i]
    BY <1>2, <2>1
  <2>3. f[i + 1] = f[i] * Radix + d[i + 1] /\ h[i + 1] = h[i] * Radix + d[i + 1]
    BY <2>2 DEF Reads
  <2> QED BY <2>2, <2>3
<1> HIDE DEF S
<1>3. Nat \subseteq S
  BY <1>1, <1>2, SetInduction
<1>4. m \in Nat
  OBVIOUS
<1> QED
  BY <1>3, <1>4 DEF S

LEMMA ValueRead ==
  ASSUME NEW d \in Seq(Byte), NEW f, Reads(f, d)
  PROVE  BN_bin2bn(d) = f[Len(d)]
<1> DEFINE n == Len(d)
           Body(v) == [i \in 0 .. Len(d) |->
                         IF i = 0 THEN 0 ELSE v[i - 1] * Pow2[ByteBits] + d[i]]
           g == CHOOSE v : v = Body(v)
<1>1. n \in Nat /\ f \in [0 .. n -> Nat]
  BY DEF Reads
<1>2. f = Body(f)
  <2>1. \A i \in 0 .. n : f[i] = IF i = 0 THEN 0 ELSE f[i - 1] * Pow2[ByteBits] + d[i]
    BY <1>1 DEF Reads, Radix
  <2> QED BY <1>1, <2>1
<1>3. BN_bin2bn(d) = g[n]
  BY DEF BN_bin2bn
<1>4. g = Body(g)
  <2> HIDE DEF Body
  <2> QED BY <1>2
<1> HIDE DEF g
<1>5. g[0] = 0 /\ \A i \in 1 .. n : g[i] = g[i - 1] * Radix + d[i]
  <2>1. \A i \in 0 .. n : g[i] = IF i = 0 THEN 0 ELSE g[i - 1] * Pow2[ByteBits] + d[i]
    BY <1>4
  <2>2. g[0] = 0
    BY <1>1, <2>1
  <2>3. \A i \in 1 .. n : i \in 0 .. n /\ i # 0
    BY <1>1
  <2> HIDE DEF n
  <2> QED BY <2>1, <2>2, <2>3 DEF Radix
<1>6. g[n] = f[n]
  <2>1. n \in 0 .. Len(d)
    BY <1>1
  <2> HIDE DEF n
  <2> QED BY <2>1, <1>1, <1>5, ReadOnce DEF n
<1> QED
  BY <1>3, <1>6

(* The first bytes alone, and what is left of the whole without the last ones. *)
LEMMA PrefixRead ==
  ASSUME NEW d \in Seq(Byte), NEW f, Reads(f, d), NEW m \in 0 .. Len(d)
  PROVE  BN_bin2bn(SubSeq(d, 1, m)) = f[m]
<1> DEFINE e == SubSeq(d, 1, m)
<1>1. Len(d) \in Nat /\ m \in Nat /\ e \in Seq(Byte) /\ Len(e) = m
      /\ \A i \in 1 .. m : e[i] = d[i]
  OBVIOUS
<1> HIDE DEF e
<1>2. PICK h : Reads(h, e)
  BY <1>1, Readable
<1>3. BN_bin2bn(e) = h[m]
  BY <1>1, <1>2, ValueRead
<1>4. h[0] = 0 /\ \A i \in 1 .. m : h[i] = h[i - 1] * Radix + d[i]
  BY <1>1, <1>2 DEF Reads
<1>5. h[m] = f[m]
  BY <1>1, <1>4, ReadOnce
<1> QED
  BY <1>3, <1>5 DEF e

LEMMA BytesDropped ==
  ASSUME NEW d \in Seq(Byte), NEW f, Reads(f, d), NEW m \in 0 .. Len(d), NEW c \in Nat,
         m + c <= Len(d)
  PROVE  f[m + c] \div Pow2[ByteBits * c] = f[m]
<1> DEFINE S == {x \in Nat : m + x <= Len(d) => f[m + x] \div Pow2[ByteBits * x] = f[m]}
<1>0. Len(d) \in Nat /\ m \in Nat
  OBVIOUS
<1>1. 0 \in S
  <2>1. m + 0 = m /\ ByteBits * 0 = 0 /\ Pow2[0] = 1 /\ f[m] \in Nat
    <3>1. f[m] \in Nat
      BY DEF Reads
    <3> QED BY <3>1, <1>0, KeyType, Pow2Def
  <2>2. f[m] \div 1 = f[m]
    BY <2>1
  <2> QED BY <2>1, <2>2
<1>2. ASSUME NEW x \in Nat, x \in S
      PROVE  x + 1 \in S
  <2>1. SUFFICES ASSUME m + (x + 1) <= Len(d)
                 PROVE  f[m + (x + 1)] \div Pow2[ByteBits * (x + 1)] = f[m]
    OBVIOUS
  <2> DEFINE a == f[m + x]
             b == f[m + (x + 1)]
             y == d[m + (x + 1)]
             p == Pow2[ByteBits * x]
  <2>2. m + (x + 1) \in 1 .. Len(d) /\ (m + (x + 1)) - 1 = m + x /\ m + x \in 0 .. Len(d)
        /\ m + (x + 1) \in 0 .. Len(d)
    BY <1>0, <2>1
  <2>3. a \div p = f[m]
    BY <1>0, <1>2, <2>1
  <2>4. a \in Nat /\ b \in Nat /\ y \in Byte /\ b = a * Radix + y
    <3>1. a \in Nat /\ b \in Nat /\ b = a * Radix + y
      BY <2>2 DEF Reads
    <3>2. y \in Byte
      BY <2>2
    <3> QED BY <3>1, <3>2
  <2>5. ByteBits * x \in Nat /\ p \in Nat \ {0}
        /\ Pow2[ByteBits * (x + 1)] = Radix * p
    <3>1. ByteBits * x \in Nat /\ ByteBits * (x + 1) = ByteBits + ByteBits * x
      BY KeyType
    <3> DEFINE z == ByteBits * x
    <3>2. z \in Nat /\ ByteBits * (x + 1) = ByteBits + z
      BY <3>1
    <3> HIDE DEF z
    <3>3. Pow2[ByteBits + z] = Radix * Pow2[z] /\ Pow2[z] \in Nat \ {0}
      BY <3>2, KeyType, Pow2Add, Pow2Type DEF Radix
    <3> QED BY <3>1, <3>2, <3>3 DEF z
  <2> HIDE DEF a, b, y, p
  <2>6. b \div Radix = a
    <3>1. b = Radix * a + y /\ y \in 0 .. Radix - 1 /\ b \in Int /\ a \in Int
      BY <2>4, RadixType DEF Byte
    <3> QED BY <3>1, RadixType, DivUnique
  <2>7. (b \div Radix) \div p = b \div (Radix * p)
    <3>1. b \in Int
      BY <2>4
    <3> QED BY <3>1, <2>5, RadixType, DivDiv
  <2> QED BY <2>3, <2>5, <2>6, <2>7 DEF b
<1> HIDE DEF S
<1>3. c \in S
  BY <1>1, <1>2, SetInduction
<1> QED
  BY <1>3 DEF S

(* What is signed or verified is the leading bits of the digest, as many as    *)
(* the order has (ecs_ossl.c:289-302, 425-437).                               *)
LEMMA TruncatedIsLeading ==
  ASSUME NEW d \in Digests
  PROVE  Truncated(d) = Leading(d) /\ Truncated(d) \in Nat
<1> DEFINE n == Len(d)
           B == ByteBits
           N == OrderBits
           len == IF B * n > N THEN (N + B - 1) \div B ELSE n
           m == BN_bin2bn(SubSeq(d, 1, len))
           rest == N % B
<1>1. d \in Seq(Byte)
  BY KeyAssumption DEF Byte, Radix
<1>2. /\ n \in Nat /\ N \in Nat /\ N >= 1 /\ B \in Nat \ {0} /\ B \in Int
      /\ B * n \in Nat /\ n * B = B * n
  BY <1>1, KeyType, OrderBitsType
<1>3. PICK f : Reads(f, d)
  BY <1>1, Readable
<1>4. f \in [0 .. n -> Nat]
  BY <1>3 DEF Reads
<1>5. BN_bin2bn(d) = f[n]
  BY <1>1, <1>3, ValueRead
<1>6. Truncated(d) = IF B * len > N THEN m \div Pow2[B - rest] ELSE m
  BY DEF Truncated
<1>7. Leading(d) = IF n * B <= N THEN f[n] ELSE f[n] \div Pow2[n * B - N]
  BY <1>5 DEF Leading
<1>8. CASE B * n <= N
  <2>1. len = n /\ ~(B * n > N)
    BY <1>2, <1>8
  <2>2. SubSeq(d, 1, n) = d
    BY <1>1
  <2>3. n \in 0 .. Len(d) /\ f[n] \in Nat
    BY <1>2, <1>4
  <2>4. Truncated(d) = f[n]
    BY <2>1, <2>2, <1>5, <1>6
  <2>5. Leading(d) = f[n]
    BY <1>2, <1>7, <1>8
  <2> QED BY <2>3, <2>4, <2>5
<1>9. CASE B * n > N
  <2> DEFINE q == N \div B
             e == B * len - N
             c == n - len
  <2>1. N = B * q + rest /\ q \in Int /\ rest \in 0 .. B - 1
    <3>1. N \in Int
      BY <1>2
    <3> HIDE DEF N, B
    <3> QED BY <3>1, <1>2, DivMod
  <2>2. len = (N + B - 1) \div B
    BY <1>9
  <2> HIDE DEF q, rest, len, n, N, B
  <2>3. /\ rest = 0 => len = q
        /\ rest # 0 => len = q + 1
    <3> DEFINE a == N + B - 1
               u == rest - 1
               v == B - 1
               p == q + 1
    <3>1. CASE rest = 0
      <4>1. a = B * q + v /\ v \in 0 .. B - 1 /\ a \in Int
        BY <3>1, <2>1, <1>2
      <4> HIDE DEF a, v
      <4>2. a \div B = q
        BY <4>1, <2>1, <1>2, DivUnique
      <4> QED BY <4>2, <2>2, <3>1 DEF a
    <3>2. CASE rest # 0
      <4>1. a = B * p + u /\ u \in 0 .. B - 1 /\ a \in Int /\ p \in Int
        <5>1. B * (q + 1) = B * q + B
          BY <2>1, <1>2, SMT
        <5> QED BY <5>1, <3>2, <2>1, <1>2
      <4> HIDE DEF a, u, p
      <4>2. a \div B = p
        BY <4>1, <1>2, DivUnique
      <4> QED BY <4>2, <2>2, <3>2 DEF a, p
    <3> QED BY <3>1, <3>2
  <2>4. /\ rest = 0 => e = 0
        /\ rest # 0 => e = B - rest
        /\ e \in Nat /\ len \in Int
    <3>1. B * (q + 1) = B * q + B /\ B * q \in Int
      BY <2>1, <1>2, SMT
    <3> QED BY <2>1, <2>3, <3>1, <1>2
  <2>5. len \in 0 .. n
    <3>1. len >= 0
      <4>1. B * len >= 1
        BY <2>4, <1>2
      <4>2. ASSUME len < 0 PROVE FALSE
        <5>1. -len > 0 /\ B * (-len) > 0 /\ B * len = -(B * (-len))
          BY <4>2, <2>4, <1>2, SMT
        <5> QED BY <5>1, <4>1, <2>4, <1>2
      <4> QED BY <4>2, <2>4
    <3>2. len <= n
      <4>1. ASSUME len >= n + 1 PROVE FALSE
        <5>1. B * len >= B * (n + 1) /\ B * (n + 1) = B * n + B
          <6>1. B * len - B * (n + 1) = B * (len - (n + 1)) /\ B * (len - (n + 1)) >= 0
            BY <4>1, <2>4, <1>2, SMT
          <6> QED BY <6>1, <2>4, <1>2, SMT
        <5>2. B * len < N + B
          BY <2>1, <2>4, <1>2
        <5>3. B * n > N
          BY <1>9
        <5> QED BY <5>1, <5>2, <5>3, <2>4, <1>2
      <4> QED BY <4>1, <2>4, <1>2
    <3> QED BY <3>1, <3>2, <2>4
  <2>6. m = f[len] /\ f[len] \in Nat
    <3>1. len \in 0 .. Len(d)
      BY <2>5 DEF n
    <3> QED BY <3>1, <1>1, <1>3, PrefixRead DEF Reads
  <2>7. c \in Nat /\ len + c = n /\ n * B - N = B * c + e /\ B * c \in Nat
    <3>1. c \in Nat /\ len + c = n
      BY <2>4, <2>5, <1>2
    <3>2. B * n = B * len + B * c /\ B * c \in Nat
      BY <3>1, <2>4, <1>2, SMT
    <3> QED BY <3>1, <3>2, <2>4, <1>2
  <2>8. f[n] \div Pow2[B * c] = f[len]
    <3>1. len \in 0 .. Len(d) /\ len + c <= Len(d)
      BY <2>5, <2>7, <1>2 DEF n
    <3> HIDE DEF c
    <3> QED BY <3>1, <1>1, <1>3, <2>7, BytesDropped DEF B
  <2>9. f[len] \div Pow2[e] = f[n] \div Pow2[n * B - N]
    <3> DEFINE x == Pow2[B * c]
               y == Pow2[e]
               z == B * c
    <3>1. x \in Nat \ {0} /\ y \in Nat \ {0}
      <4> HIDE DEF e
      <4>1. y \in Nat \ {0}
        BY <2>4, Pow2Type
      <4>2. z \in Nat
        BY <2>7
      <4> HIDE DEF z
      <4>3. Pow2[z] \in Nat \ {0}
        BY <4>2, Pow2Type
      <4> QED BY <4>1, <4>3 DEF z
    <3>2. Pow2[n * B - N] = x * y
      <4>1. z \in Nat /\ n * B - N = z + e
        BY <2>7
      <4> HIDE DEF z, e
      <4>2. Pow2[z + e] = Pow2[z] * Pow2[e]
        BY <4>1, <2>4, Pow2Add
      <4> QED BY <4>1, <4>2 DEF z
    <3>3. f[n] \in Int
      BY <1>2, <1>4
    <3> DEFINE g == f[n]
    <3> HIDE DEF x, y, g
    <3>4. (g \div x) \div y = g \div (x * y)
      BY <3>1, <3>3, DivDiv DEF g
    <3> QED BY <3>2, <3>4, <2>8 DEF x, y, g
  <2>10. Truncated(d) = f[len] \div Pow2[e]
    <3>1. CASE rest = 0
      <4>1. ~(B * len > N) /\ e = 0 /\ Pow2[e] = 1
        BY <3>1, <2>4, <1>2, Pow2Def
      <4> HIDE DEF m, e
      <4>2. Truncated(d) = f[len]
        BY <4>1, <1>6, <2>6
      <4>3. f[len] \div 1 = f[len]
        BY <2>6
      <4> QED BY <4>1, <4>2, <4>3
    <3>2. CASE rest # 0
      <4>1. B * len > N /\ e = B - rest
        BY <3>2, <2>1, <2>4, <1>2
      <4> HIDE DEF m, e
      <4> QED BY <4>1, <1>6, <2>6
    <3> QED BY <3>1, <3>2
  <2>11. Leading(d) = f[n] \div Pow2[n * B - N]
    BY <1>2, <1>7, <1>9
  <2>12. f[len] \div Pow2[e] \in Nat
    <3> DEFINE x == f[len]
               y == Pow2[e]
    <3>1. x \in Nat /\ y \in Nat \ {0}
      <4> HIDE DEF e
      <4> QED BY <2>4, <2>6, Pow2Type
    <3> HIDE DEF x, y
    <3>2. x \div y \in Nat
      BY <3>1
    <3> QED BY <3>2 DEF x, y
  <2> QED BY <2>9, <2>10, <2>11, <2>12
<1> QED
  BY <1>2, <1>8, <1>9

-------------------------------------------------------------------------------
(* Verdicts.                                                                  *)

(* The two factors of ecdsa_do_verify lead to the point of the equation       *)
(* (ecs_ossl.c:439-455).                                                      *)
LEMMA SamePoint ==
  ASSUME NEW m \in Int, NEW r \in Int, NEW j \in Int, NEW d \in Int
  PROVE  (((m * j) % Order) + ((r * j) % Order) * d) % Order = (j * (m + r * d)) % Order
<1> DEFINE x == m * j
           y == r * j
           z == y * d
           w == (y % Order) * d
           v == x % Order
<1>1. x \in Int /\ y \in Int /\ z \in Int
  BY ProductType
<1>2. j * (m + r * d) = x + z
  <2>1. j * (m + r * d) = m * j + (r * j) * d
    BY SMT
  <2> QED BY <2>1
<1>3. ((m * j) % Order) + ((r * j) % Order) * d = v + w
  OBVIOUS
<1>4. w \in Int /\ w % Order = z % Order
  <2> HIDE DEF x, y
  <2>1. y % Order \in Int
    BY <1>1, OrderType, DivMod
  <2>2. ((y % Order) * d) % Order = (y * d) % Order
    BY <1>1, OrderType, ModMul
  <2> QED BY <2>1, <2>2, ProductType
<1> HIDE DEF x, y, z, w
<1>5. (v + w) % Order = (x + w) % Order
  BY <1>1, <1>4, OrderType, ModAdd
<1>6. (x + w) % Order = (x + (w % Order)) % Order /\ (x + z) % Order = (x + (z % Order)) % Order
  BY <1>1, <1>4, OrderType, ModAdd
<1> HIDE DEF v
<1> QED
  BY <1>2, <1>3, <1>4, <1>5, <1>6

(* Its point is infinity where the equation leads there.                      *)
LEMMA InfinitePoint ==
  ASSUME NEW s \in 1 .. Order - 1, NEW z \in Int
  PROVE  (Invert(s) * z) % Order = 0 <=> z % Order = 0
<1> DEFINE j == Invert(s)
           t == z % Order
           v == j * t
           u == j * z
<1>1. j \in Int /\ s \in Int /\ (j * s) % Order = 1 /\ j * s = s * j
  BY InvertDef, OrderType
<1>2. t \in 0 .. Order - 1 /\ t \in Int
  BY OrderType, DivMod
<1>3. u % Order = v % Order
  <2> HIDE DEF j
  <2> QED BY <1>1, OrderType, ModMul
<1>4. t = 0 => v = 0 /\ v % Order = 0
  <2> HIDE DEF t, j
  <2>1. t = 0 => v = 0
    BY <1>1
  <2>2. 0 % Order = 0
    BY OrderType
  <2> QED BY <2>1, <2>2
<1>5. v % Order = 0 => t = 0
  <2> HIDE DEF t, j
  <2> QED BY <1>1, <1>2, OrderType, NoZeroDivisors
<1> HIDE DEF u, v, t
<1>6. u % Order = 0 <=> t = 0
  BY <1>3, <1>4, <1>5
<1> QED
  BY <1>6 DEF u, t

LEMMA VerifiesCorrect ==
  ASSUME NEW d \in Digests, NEW r, NEW s
  PROVE  /\ do_verify(d, r, s) = 1 <=> Correct(PrivKey, Leading(d), r, s)
         /\ ~Correct(PrivKey, Leading(d), r, s) =>
              do_verify(d, r, s) = IF LeadsToInfinity(d, r, s) THEN -1 ELSE 0
<1> DEFINE m == Truncated(d)
           j == Invert(s)
           u1 == (m * j) % Order
           u2 == (r * j) % Order
           point == (u1 + u2 * PrivKey) % Order
           R == (j * (m + r * PrivKey)) % Order
<1>1. m = Leading(d) /\ m \in Int
  BY TruncatedIsLeading
<1> HIDE DEF m
<1>2. CASE InRange(r) /\ InRange(s)
  <2>1. r \in Int /\ j \in Int
    BY <1>2, OrderType, InvertDef DEF InRange
  <2>2. point = R
    <3> HIDE DEF j
    <3> QED BY <2>1, <1>1, KeyType, SamePoint
  <2>3. do_verify(d, r, s) = IF point = 0 THEN -1
                             ELSE IF XCoord[point] % Order = r THEN 1 ELSE 0
    BY <1>2 DEF do_verify, m
  <2>4. Correct(PrivKey, m, r, s) <=> R # 0 /\ XCoord[R] % Order = r
    BY <1>2 DEF Correct, InRange, NonceX
  <2>5. R = 0 <=> LeadsToInfinity(d, r, s)
    <3> DEFINE z == m + r * PrivKey
    <3>1. z \in Int
      BY <2>1, <1>1, KeyType, ProductType
    <3> HIDE DEF z
    <3>2. (j * z) % Order = 0 <=> z % Order = 0
      BY <1>2, <3>1, InfinitePoint DEF InRange
    <3> QED BY <1>1, <1>2, <3>2 DEF LeadsToInfinity, z
  <2> HIDE DEF point, R
  <2> QED BY <2>2, <2>3, <2>4, <2>5, <1>1
<1>3. CASE ~(InRange(r) /\ InRange(s))
  <2>1. do_verify(d, r, s) = 0
    BY <1>3 DEF do_verify
  <2>2. ~Correct(PrivKey, m, r, s)
    BY <1>3 DEF Correct, InRange
  <2>3. ~LeadsToInfinity(d, r, s)
    BY <1>3 DEF LeadsToInfinity
  <2> QED BY <2>1, <2>2, <2>3, <1>1
<1> QED
  BY <1>2, <1>3

LEMMA VerdictIsRight ==
  ASSUME NEW d \in Digests, NEW sg, NEW form, NEW failure \in Failures
  PROVE  /\ Verdict(d, sg, form, failure) = 1 <=>
              Correct(PrivKey, Leading(d), sg[1], sg[2]) /\ form = "der" /\ failure = "none"
         /\ form = "der" /\ failure = "none" /\ ~Correct(PrivKey, Leading(d), sg[1], sg[2]) =>
              Verdict(d, sg, form, failure) = IF LeadsToInfinity(d, sg[1], sg[2]) THEN -1 ELSE 0
         /\ form # "der" \/ failure = "no_memory" => Verdict(d, sg, form, failure) = -1
<1> DEFINE answer == do_verify(d, sg[1], sg[2])
           right == Correct(PrivKey, Leading(d), sg[1], sg[2])
           infinite == LeadsToInfinity(d, sg[1], sg[2])
           verdict == Verdict(d, sg, form, failure)
<1>1. (answer = 1 <=> right) /\ (~right => answer = IF infinite THEN -1 ELSE 0)
  BY VerifiesCorrect
<1>2. verdict = IF failure = "no_memory" \/ form # "der" THEN -1
                ELSE IF failure = "no_method_data" THEN 0 ELSE answer
  BY DEF Verdict
<1>3. failure \in {"none", "no_method_data", "no_memory"}
  BY DEF Failures

<1> HIDE DEF answer, right, infinite, verdict
<1>4. /\ verdict = 1 <=> right /\ form = "der" /\ failure = "none"
      /\ form = "der" /\ failure = "none" /\ ~right => verdict = IF infinite THEN -1 ELSE 0
      /\ form # "der" \/ failure = "no_memory" => verdict = -1
  <2>1. CASE failure = "no_memory" \/ form # "der"
    <3>1. verdict = -1 /\ -1 # 1
      BY <1>2, <2>1
    <3> QED BY <2>1, <3>1
  <2>2. CASE failure = "no_method_data" /\ form = "der"
    <3>1. verdict = 0 /\ 0 # 1
      BY <1>2, <2>2
    <3> QED BY <2>2, <3>1
  <2>3. CASE failure = "none" /\ form = "der"
    <3>1. verdict = answer
      BY <1>2, <2>3
    <3> QED BY <1>1, <2>3, <3>1
  <2> QED BY <1>3, <2>1, <2>2, <2>3
<1> QED
  BY <1>4 DEF right, infinite, verdict

-------------------------------------------------------------------------------
(* The heap.                                                                  *)

Count == Len(Names)
Rank(q) == CHOOSE n \in 1 .. Count : Names[n] = q

LEMMA PointersAre ==
  /\ Count = 16 /\ Count \in Nat
  /\ {"sig", "sig_r", "sig_s", "ctx", "order", "tmp", "m", "kinv", "k", "r", "setup_order",
      "X", "point", "setup_ctx", "kept_kinv", "kept_r"} = Pointers
<1>1. Count = 16
  BY DEF Count, Names
<1>2. /\ Names[1] = "sig" /\ Names[2] = "sig_r" /\ Names[3] = "sig_s" /\ Names[4] = "ctx"
      /\ Names[5] = "order" /\ Names[6] = "tmp" /\ Names[7] = "m" /\ Names[8] = "kinv"
      /\ Names[9] = "k" /\ Names[10] = "r" /\ Names[11] = "setup_order" /\ Names[12] = "X"
      /\ Names[13] = "point" /\ Names[14] = "setup_ctx" /\ Names[15] = "kept_kinv"
      /\ Names[16] = "kept_r"
  BY DEF Names
<1>3. Pointers = {Names[n] : n \in 1 .. 16}
  BY <1>1 DEF Pointers, Count
<1>4. 1 .. 16 = {1, 2, 3, 4, 5, 6, 7, 8, 9, 10, 11, 12, 13, 14, 15, 16}
  OBVIOUS
<1> QED
  BY <1>1, <1>2, <1>3, <1>4

LEMMA RankType ==
  ASSUME NEW q \in Pointers
  PROVE  Rank(q) \in 1 .. Count /\ Names[Rank(q)] = q
<1>1. \E n \in 1 .. Count : Names[n] = q
  BY DEF Pointers, Count
<1> QED
  BY <1>1 DEF Rank

(* Of a finite set of numbers, one has exactly n smaller ones.                *)
LEMMA NthSmallest ==
  ASSUME NEW F, F \subseteq Nat, IsFiniteSet(F), NEW n \in Nat, n < Cardinality(F)
  PROVE  \E a \in F : Cardinality({b \in F : b < a}) = n
<1> DEFINE Below(a) == {b \in F : b < a}
           S == {i \in Nat : i < Cardinality(F) => \E a \in F : Cardinality(Below(a)) = i}
<1>2. \A a : Below(a) \subseteq F /\ IsFiniteSet(Below(a)) /\ Cardinality(Below(a)) \in Nat
  <2>1. \A a : Below(a) \subseteq F
    OBVIOUS
  <2> HIDE DEF Below
  <2> QED BY <2>1, FS_Subset, FS_CardinalityType
<1>3. Cardinality(F) \in Nat
  BY FS_CardinalityType
<1>4. 0 \in S
  <2>1. SUFFICES ASSUME 0 < Cardinality(F) PROVE \E a \in F : Cardinality(Below(a)) = 0
    OBVIOUS
  <2>2. F # {}
    BY <2>1, FS_EmptySet
  <2>3. PICK a \in F : \A b \in F : a <= b
    <3> HIDE DEF Below, S
    <3> QED BY <2>2, LeastNumber
  <2>4. Below(a) = {}
    <3>1. \A b \in F : b \in Nat /\ a \in Nat /\ ~(b < a)
      BY <2>3
    <3> QED BY <3>1
  <2> QED BY <2>4, FS_EmptySet
<1>5. ASSUME NEW i \in Nat, i \in S
      PROVE  i + 1 \in S
  <2>1. SUFFICES ASSUME i + 1 < Cardinality(F)
                 PROVE  \E a \in F : Cardinality(Below(a)) = i + 1
    OBVIOUS
  <2>2. PICK a \in F : Cardinality(Below(a)) = i
    BY <1>3, <1>5, <2>1
  <2> DEFINE Above == {b \in F : a < b}
             Upto == Below(a) \cup {a}
  <2>3. Cardinality(Upto) = i + 1
    <3>1. a \notin Below(a)
      OBVIOUS
    <3> HIDE DEF Below
    <3> QED BY <3>1, <1>2, <2>2, FS_AddElement
  <2>4. Above # {}
    <3>1. SUFFICES ASSUME Above = {} PROVE FALSE
      OBVIOUS
    <3>2. F = Upto
      <4>1. \A b \in F : b \in Nat /\ a \in Nat /\ ~(a < b)
        BY <3>1
      <4>2. \A b \in F : b < a \/ b = a
        BY <4>1
      <4> QED BY <4>2
    <3> HIDE DEF Upto
    <3> QED BY <3>2, <2>1, <2>3
  <2>5. PICK c \in Above : \A b \in Above : c <= b
    <3>1. Above \subseteq Nat
      OBVIOUS
    <3> HIDE DEF Above, S, Below
    <3> QED BY <2>4, <3>1, LeastNumber
  <2>6. Below(c) = Upto
    <3>1. c \in F /\ a < c /\ \A b \in F : a < b => c <= b
      BY <2>5
    <3>2. ASSUME NEW b \in F PROVE b < c <=> b < a \/ b = a
      <4>1. a \in Nat /\ b \in Nat /\ c \in Nat
        BY <3>1
      <4>2. a < b => c <= b
        BY <3>1
      <4> QED BY <4>1, <4>2, <3>1
    <3> QED BY <3>1, <3>2
  <2>7. c \in F
    OBVIOUS
  <2> HIDE DEF Below, Upto
  <2> QED BY <2>3, <2>6, <2>7
<1>6. n \in S
  <2> HIDE DEF S
  <2> QED BY <1>4, <1>5, SetInduction
<1> QED
  BY <1>6

(* What the heap and the pointers are like between any two steps.             *)
LocType == loc \in [Pointers -> Addresses \cup {NULL}]
Distinct == \A p, q \in Held : loc[p] = loc[q] => p = q
Owned == LocType /\ Distinct /\ DOMAIN heap = {loc[q] : q \in Held}

LEMMA AddressesAre ==
  /\ Addresses \subseteq Nat /\ NULL \notin Addresses
  /\ IsFiniteSet(Addresses) /\ Cardinality(Addresses) = 2 * Count
<1> DEFINE lo == 1
           hi == 2 * Count
<1>1. lo \in Int /\ hi \in Int /\ Addresses = lo .. hi /\ hi - lo + 1 = 2 * Count /\ ~(lo > hi)
  BY PointersAre DEF Addresses, Count
<1>2. Addresses \subseteq Nat
  BY <1>1
<1> HIDE DEF lo, hi
<1>3. IsFiniteSet(lo .. hi) /\ Cardinality(lo .. hi) = hi - lo + 1
  BY <1>1, FS_Interval
<1> QED
  BY <1>1, <1>2, <1>3, KeyType

LEMMA EnoughFree ==
  ASSUME Owned
  PROVE  /\ IsFiniteSet(Free(heap)) /\ Free(heap) \subseteq Addresses
         /\ Cardinality(Free(heap)) >= Count
<1> DEFINE S == {n \in 1 .. Count : loc[Names[n]] # NULL}
           D == DOMAIN heap
           f == [n \in S |-> loc[Names[n]]]
           lo == 1
<1>1. Count \in Int /\ lo \in Int /\ Count - lo + 1 = Count /\ ~(lo > Count) /\ 1 .. Count = lo .. Count
  BY PointersAre
<1>2. IsFiniteSet(1 .. Count) /\ Cardinality(1 .. Count) = Count
  <2> HIDE DEF lo
  <2>1. IsFiniteSet(lo .. Count) /\ Cardinality(lo .. Count) = Count
    BY <1>1, FS_Interval
  <2> QED BY <1>1, <2>1
<1>3. IsFiniteSet(S) /\ Cardinality(S) <= Count /\ Cardinality(S) \in Nat
  <2>1. S \in SUBSET (1 .. Count)
    OBVIOUS
  <2> HIDE DEF S
  <2> QED BY <1>2, <2>1, FS_Subset, FS_CardinalityType
<1>4. f \in Surjection(S, D)
  <2>1. \A n \in S : loc[Names[n]] \in D
    BY DEF Owned, Held, Pointers, Count
  <2>2. \A a \in D : \E n \in S : loc[Names[n]] = a
    BY DEF Owned, Held, Pointers, Count
  <2> HIDE DEF S, D
  <2> QED BY <2>1, <2>2 DEF Surjection
<1>5. IsFiniteSet(D) /\ Cardinality(D) <= Cardinality(S)
  <2> HIDE DEF f, S, D
  <2> QED BY <1>3, <1>4, FS_Surjection
<1> DEFINE I == Addresses \cap D
<1>6. IsFiniteSet(I) /\ Cardinality(I) <= Cardinality(D) /\ Cardinality(I) \in Nat /\ Cardinality(D) \in Nat
  <2>1. I \in SUBSET D
    OBVIOUS
  <2> HIDE DEF I, D
  <2> QED BY <1>5, <2>1, FS_Subset, FS_CardinalityType
<1>7. Free(heap) = Addresses \ D
  BY DEF Free
<1>8. IsFiniteSet(Addresses \ D)
      /\ Cardinality(Addresses \ D) = Cardinality(Addresses) - Cardinality(I)
  <2> HIDE DEF D
  <2> QED BY AddressesAre, FS_Difference
<1> HIDE DEF I, D
<1> QED
  BY <1>1, <1>3, <1>5, <1>6, <1>7, <1>8, AddressesAre

(* Objects asked for together get addresses of their own.                     *)
LEMMA FreshAddresses ==
  ASSUME Owned
  PROVE  /\ \A q \in Pointers : Address(heap, q) \in Free(heap)
         /\ \A p, q \in Pointers : Address(heap, p) = Address(heap, q) => p = q
<1> DEFINE F == Free(heap)
           Below(a) == {b \in F : b < a}
<1>1. ASSUME NEW q \in Pointers
      PROVE  /\ Address(heap, q) \in F
             /\ Cardinality(Below(Address(heap, q))) = Rank(q) - 1
  <2> DEFINE n == Rank(q) - 1
  <2>1. n \in Nat /\ n < Count
    BY RankType, PointersAre
  <2>2. F \subseteq Nat /\ IsFiniteSet(F) /\ Cardinality(F) \in Nat /\ n < Cardinality(F)
    <3>1. Cardinality(F) \in Nat /\ Cardinality(F) >= Count /\ IsFiniteSet(F)
      BY EnoughFree, FS_CardinalityType
    <3>2. F \subseteq Nat
      BY EnoughFree, AddressesAre
    <3> HIDE DEF F, n
    <3> QED BY <2>1, <3>1, <3>2, PointersAre
  <2>3. Address(heap, q) = CHOOSE a \in F : Cardinality(Below(a)) = n
    BY DEF Address, Rank, Count
  <2> HIDE DEF F, n
  <2>4. \E a \in F : Cardinality(Below(a)) = n
    BY <2>1, <2>2, NthSmallest
  <2> QED BY <2>3, <2>4 DEF n
<1>2. ASSUME NEW p \in Pointers, NEW q \in Pointers, Address(heap, p) = Address(heap, q)
      PROVE  p = q
  <2>1. Rank(p) - 1 = Rank(q) - 1
    BY <1>1, <1>2
  <2>2. Rank(p) = Rank(q)
    BY <2>1, RankType, PointersAre
  <2> QED BY <2>2, RankType
<1> QED
  BY <1>1, <1>2

(* What a pointer points to.                                                  *)
Val(q) == heap[loc[q]]

(* Every pointer outside ptrs, and what it points to, stays.                  *)
Kept(ptrs) ==
  \A q \in Pointers \ ptrs : /\ loc'[q] = loc[q]
                             /\ loc[q] # NULL => heap'[loc[q]] = heap[loc[q]]

LEMMA KeptVal ==
  ASSUME NEW ptrs, Kept(ptrs), NEW q \in Pointers \ ptrs
  PROVE  loc'[q] = loc[q] /\ (loc[q] # NULL => Val(q)' = Val(q))
  BY DEF Kept, Val

LEMMA Allocated ==
  ASSUME Owned, NEW ptrs, ptrs \subseteq Pointers, \A q \in ptrs : loc[q] = NULL, Alloc(ptrs)
  PROVE  Owned' /\ Kept(ptrs) /\ \A q \in ptrs : loc'[q] # NULL
<1> DEFINE addr(q) == Address(heap, q)
           fresh == {addr(q) : q \in ptrs}
<1>1. /\ heap' = [a \in DOMAIN heap \cup fresh |-> IF a \in fresh THEN 0 ELSE heap[a]]
      /\ loc' = [q \in Pointers |-> IF q \in ptrs THEN addr(q) ELSE loc[q]]
  BY DEF Alloc
<1>2. /\ \A q \in Pointers : addr(q) \in Addresses /\ addr(q) \notin DOMAIN heap /\ addr(q) # NULL
      /\ \A p, q \in Pointers : addr(p) = addr(q) => p = q
  BY FreshAddresses, AddressesAre DEF Free
<1> HIDE DEF addr
<1>3. /\ loc \in [Pointers -> Addresses \cup {NULL}]
      /\ \A p, q \in Held : loc[p] = loc[q] => p = q
      /\ DOMAIN heap = {loc[q] : q \in Held}
  BY DEF Owned, LocType, Distinct
<1>4. LocType'
  BY <1>1, <1>2, <1>3 DEF LocType
<1>5. Held' = Held \cup ptrs
  BY <1>1, <1>2 DEF Held
<1>6. \A q \in Pointers : loc'[q] = IF q \in ptrs THEN addr(q) ELSE loc[q]
  BY <1>1
<1>7. \A q \in Held : loc[q] \in DOMAIN heap /\ q \notin ptrs /\ q \in Pointers
  BY <1>3 DEF Held
<1>8. Distinct'
  <2> SUFFICES ASSUME NEW p \in Held \cup ptrs, NEW q \in Held \cup ptrs, loc'[p] = loc'[q]
               PROVE  p = q
    BY <1>5 DEF Distinct
  <2> QED BY <1>2, <1>3, <1>6, <1>7
<1>9. DOMAIN heap' = {loc'[q] : q \in Held'}
  <2>1. DOMAIN heap' = DOMAIN heap \cup fresh
    BY <1>1
  <2>2. {loc'[q] : q \in Held'} = {loc'[q] : q \in Held} \cup {loc'[q] : q \in ptrs}
    BY <1>5
  <2>3. \A q \in Held : loc'[q] = loc[q]
    BY <1>6, <1>7
  <2>4. \A q \in ptrs : loc'[q] = addr(q)
    BY <1>6
  <2>5. {loc'[q] : q \in Held} = DOMAIN heap /\ {loc'[q] : q \in ptrs} = fresh
    BY <1>3, <2>3, <2>4
  <2> QED BY <2>1, <2>2, <2>5
<1>10. Kept(ptrs)
  <2> SUFFICES ASSUME NEW q \in Pointers \ ptrs
               PROVE  loc'[q] = loc[q] /\ (loc[q] # NULL => heap'[loc[q]] = heap[loc[q]])
    BY DEF Kept
  <2>1. loc'[q] = loc[q]
    BY <1>6
  <2>2. ASSUME loc[q] # NULL PROVE heap'[loc[q]] = heap[loc[q]]
    <3>1. loc[q] \in DOMAIN heap
      BY <1>7, <2>2 DEF Held
    <3>2. loc[q] \notin fresh
      BY <3>1, <1>2
    <3> QED BY <1>1, <3>1, <3>2
  <2> QED BY <2>1, <2>2
<1> QED
  BY <1>2, <1>4, <1>6, <1>8, <1>9, <1>10 DEF Owned

LEMMA NoFault ==
  ASSUME Owned, NEW ptrs, ptrs \subseteq Pointers, NoteFault(ptrs), ~fault
  PROVE  ~fault'
<1>1. Doomed(ptrs) \subseteq Held /\ Dead(ptrs) \subseteq DOMAIN heap
  BY DEF Doomed, Dead, Held, Owned
<1>2. \A p, q \in Doomed(ptrs) : loc[p] = loc[q] => p = q
  BY <1>1 DEF Owned, Distinct
<1> QED
  BY <1>1, <1>2 DEF NoteFault

LEMMA Freed ==
  ASSUME Owned, NEW ptrs, ptrs \subseteq Pointers, heap' = Without(ptrs), loc' = Cleared(ptrs)
  PROVE  Owned' /\ Kept(ptrs) /\ \A q \in ptrs : loc'[q] = NULL
<1>1. /\ loc \in [Pointers -> Addresses \cup {NULL}]
      /\ \A p, q \in Held : loc[p] = loc[q] => p = q
      /\ DOMAIN heap = {loc[q] : q \in Held}
  BY DEF Owned, LocType, Distinct
<1>2. \A q \in Pointers : loc'[q] = IF q \in ptrs THEN NULL ELSE loc[q]
  BY DEF Cleared
<1>3. LocType'
  BY <1>1 DEF LocType, Cleared
<1>4. Held' = Held \ ptrs
  BY <1>2 DEF Held
<1>5. Distinct'
  BY <1>1, <1>2, <1>4 DEF Distinct, Held
<1>6. heap' = [a \in DOMAIN heap \ Dead(ptrs) |-> heap[a]]
  BY DEF Without
<1>7. ASSUME NEW q \in Held \ ptrs
      PROVE  loc'[q] = loc[q] /\ loc[q] \in DOMAIN heap \ Dead(ptrs)
  BY <1>1, <1>2 DEF Held, Dead, Doomed
<1>8. DOMAIN heap' = {loc'[q] : q \in Held'}
  <2>1. DOMAIN heap' = DOMAIN heap \ Dead(ptrs)
    BY <1>6
  <2>2. ASSUME NEW a \in DOMAIN heap \ Dead(ptrs)
        PROVE  \E q \in Held \ ptrs : loc'[q] = a
    <3>1. PICK q \in Held : loc[q] = a
      BY <1>1
    <3>2. q \notin ptrs
      BY <3>1 DEF Dead, Doomed, Held
    <3> QED BY <3>1, <3>2, <1>7
  <2> QED BY <2>1, <2>2, <1>4, <1>7
<1>9. Kept(ptrs)
  BY <1>2, <1>6, <1>7 DEF Kept, Held
<1> QED
  BY <1>2, <1>3, <1>5, <1>8, <1>9 DEF Owned

LEMMA Written ==
  ASSUME Owned, NEW p \in Pointers, loc[p] # NULL, NEW v, UNCHANGED loc,
         heap' = [heap EXCEPT ![loc[p]] = v]
  PROVE  Owned' /\ Kept({p}) /\ Val(p)' = v
<1>1. /\ \A q \in Held : loc[p] = loc[q] => p = q
      /\ DOMAIN heap = {loc[q] : q \in Held} /\ p \in Held
  BY DEF Owned, Distinct, Held
<1>2. Held' = Held
  BY DEF Held
<1>3. DOMAIN heap' = DOMAIN heap
  OBVIOUS
<1>4. Owned'
  BY <1>2, <1>3 DEF Owned, LocType, Distinct
<1>5. Val(p)' = v
  BY <1>1 DEF Val
<1>6. Kept({p})
  <2> SUFFICES ASSUME NEW q \in Pointers \ {p}
               PROVE  loc[q] # NULL => heap'[loc[q]] = heap[loc[q]]
    BY DEF Kept
  <2>1. loc[q] # NULL => loc[q] # loc[p] /\ loc[q] \in DOMAIN heap
    BY <1>1 DEF Held
  <2> QED BY <2>1
<1> QED
  BY <1>4, <1>5, <1>6

-------------------------------------------------------------------------------
(* The invariant: what is allocated when, and what it holds.                  *)

SigPtrs == {"sig", "sig_r", "sig_s"}
KeptPtrs == {"kept_kinv", "kept_r"}
SetupLocals == SetupTemporaries \cup {"k", "r"}
SignLocals == {"ctx", "order", "tmp", "m", "kinv"}

Full(ptrs) == \A q \in ptrs : loc[q] # NULL
Clear(ptrs) == \A q \in ptrs : loc[q] = NULL

InSetup == pc \in {"setup", "draw", "invert", "setup_err"}
InSign == pc \in {"values", "sum", "sign_ok", "sign_err"}

Phase ==
  /\ pc \in {"idle", "sign"} \/ InSetup \/ InSign
  /\ Full(SigPtrs) \/ Clear(SigPtrs)
  /\ Full(KeptPtrs) \/ Clear(KeptPtrs)
  /\ pc \in {"idle", "sign"} => Clear(SetupLocals) /\ Clear(SignLocals)
  /\ InSetup /\ ~BySign => Clear(SigPtrs) /\ Clear(SignLocals)
  /\ pc = "setup" => Clear(SetupLocals)
  /\ pc \in {"draw", "invert"} => Full({"k", "r"})
  /\ InSign => BySign /\ Clear(SetupLocals)
  /\ pc = "sign" => BySign /\ Clear(SigPtrs)
  /\ InSign \/ (InSetup /\ BySign) => Full(SigPtrs)
  /\ InSetup /\ BySign => ~Given
  /\ pc # "idle" /\ BySign /\ Given => Full(KeptPtrs)

IsNonce(kinv, r) ==
  \E k \in 1 .. Order - 1 : kinv = Invert(k) /\ r = NonceX(k) /\ NonceX(k) # 0

SumKinv == IF Given THEN "kept_kinv" ELSE "kinv"

Nonces ==
  /\ Full(KeptPtrs) => IsNonce(Val("kept_kinv"), Val("kept_r"))
  /\ pc = "invert" => \E k \in 1 .. Order - 1 :
       Val("k") = FixedLength(k) /\ Val("r") = NonceX(k) /\ NonceX(k) # 0
  /\ pc = "sum" => loc[SumKinv] # NULL /\ IsNonce(Val(SumKinv), Val("sig_r"))

Signed ==
  /\ pc = "sign_ok" => Correct(PrivKey, Leading(req.dgst), Val("sig_r"), Val("sig_s"))
  /\ pc = "idle" /\ req.fn = "sign" =>
       /\ ret = 1 <=> Full(SigPtrs)
       /\ ret = 1 => Correct(PrivKey, Leading(req.dgst), Val("sig_r"), Val("sig_s"))

Asked ==
  /\ req.fn = "sign" => req.dgst \in Digests
  /\ req.fn = "verify" =>
       /\ pc = "idle" /\ req.dgst \in Digests /\ req.failure \in Failures
       /\ ret = Verdict(req.dgst, req.sig, req.form, req.failure)

Inv == ~fault /\ Owned /\ Phase /\ Nonces /\ Signed /\ Asked

LEMMA Groups ==
  /\ SigPtrs \subseteq Pointers /\ KeptPtrs \subseteq Pointers
  /\ SetupLocals \subseteq Pointers /\ SignLocals \subseteq Pointers
  /\ Pointers = SigPtrs \cup KeptPtrs \cup SetupLocals \cup SignLocals
  BY PointersAre DEF SigPtrs, KeptPtrs, SetupLocals, SetupTemporaries, SignLocals

LEMMA InitInv == Init => Inv
<1> SUFFICES ASSUME Init PROVE Inv
  OBVIOUS
<1>1. pc = "idle" /\ req = [fn |-> "none"] /\ ~fault /\ loc = [q \in Pointers |-> NULL]
      /\ heap = << >>
  BY DEF Init
<1>2. \A q \in Pointers : loc[q] = NULL
  BY <1>1
<1>3. Held = {} /\ DOMAIN heap = {}
  BY <1>1, <1>2 DEF Held
<1>4. Owned
  BY <1>1, <1>3 DEF Owned, LocType, Distinct
<1>5. Clear(SigPtrs) /\ Clear(KeptPtrs) /\ Clear(SetupLocals) /\ Clear(SignLocals) /\ ~Full(KeptPtrs)
  BY <1>2, Groups DEF Clear, Full, KeptPtrs
<1>6. req.fn = "none"
  BY <1>1
<1> QED
  BY <1>1, <1>4, <1>5, <1>6 DEF Inv, Phase, InSetup, InSign, Nonces, Signed, Asked

(* Steps that touch neither heap nor pointers.                                *)
LEMMA Same ==
  ASSUME Owned, UNCHANGED <<heap, loc>>
  PROVE  /\ Owned'
         /\ \A ptrs : (Full(ptrs)' <=> Full(ptrs)) /\ (Clear(ptrs)' <=> Clear(ptrs))
         /\ \A q : Val(q)' = Val(q) /\ loc'[q] = loc[q]
  BY DEF Owned, LocType, Distinct, Held, Full, Clear, Val

LEMMA NotBoth ==
  /\ ~(Full(SigPtrs) /\ Clear(SigPtrs)) /\ ~(Full(KeptPtrs) /\ Clear(KeptPtrs))
  /\ loc["sig"] = NULL => ~Full(SigPtrs)
  /\ loc["sig"] # NULL => ~Clear(SigPtrs)
  /\ loc["kept_r"] = NULL => ~Full(KeptPtrs)
  /\ loc["kept_r"] # NULL => ~Clear(KeptPtrs)
  /\ loc["kept_kinv"] = NULL => ~Full(KeptPtrs)
  /\ loc["kept_kinv"] # NULL => ~Clear(KeptPtrs)
  BY DEF Full, Clear, SigPtrs, KeptPtrs

LEMMA CallSetupInv ==
  ASSUME Inv, CallSetup
  PROVE  Inv'
<1>1. /\ pc = "idle" /\ loc["sig"] = NULL /\ req' = [fn |-> "setup"] /\ pc' = "setup"
      /\ UNCHANGED <<heap, loc, fault>>
  BY DEF CallSetup
<1>2. req'.fn = "setup"
  BY <1>1
<1>3. ~fault' /\ Owned'
  BY <1>1, Same DEF Inv
<1>4. Clear(SigPtrs) /\ Clear(SetupLocals) /\ Clear(SignLocals) /\ (Full(KeptPtrs) \/ Clear(KeptPtrs))
  BY <1>1, NotBoth DEF Inv, Phase
<1>5. Clear(SigPtrs)' /\ Clear(SetupLocals)' /\ Clear(SignLocals)' /\ (Full(KeptPtrs) \/ Clear(KeptPtrs))'
  BY <1>1, <1>4, Same DEF Inv
<1>6. Phase'
  BY <1>1, <1>2, <1>5 DEF Phase, InSetup, InSign, BySign
<1>7. Nonces'
  BY <1>1, Same DEF Inv, Nonces
<1> QED
  BY <1>1, <1>2, <1>3, <1>6, <1>7 DEF Inv, Signed, Asked

LEMMA CallSignInv ==
  ASSUME Inv, NEW dgst \in Digests, NEW given \in SUBSET KeptPtrs, CallSign(dgst, given)
  PROVE  Inv'
<1>1. /\ pc = "idle" /\ loc["sig"] = NULL /\ pc' = "sign"
      /\ req' = [fn |-> "sign", dgst |-> dgst, given |-> given]
      /\ \A q \in given : loc[q] # NULL
      /\ UNCHANGED <<heap, loc, fault>>
  BY DEF CallSign
<1>2. req'.fn = "sign" /\ req'.dgst = dgst /\ req'.given = given
  BY <1>1
<1>3. ~fault' /\ Owned'
  BY <1>1, Same DEF Inv
<1>4. Clear(SigPtrs) /\ Clear(SetupLocals) /\ Clear(SignLocals) /\ (Full(KeptPtrs) \/ Clear(KeptPtrs))
  BY <1>1, NotBoth DEF Inv, Phase
<1>5. Clear(SigPtrs)' /\ Clear(SetupLocals)' /\ Clear(SignLocals)' /\ (Full(KeptPtrs) \/ Clear(KeptPtrs))'
  BY <1>1, <1>4, Same DEF Inv
<1>6. Given' => Full(KeptPtrs)'
  BY <1>1, <1>2 DEF Given, Full, KeptPtrs
<1>7. Phase'
  BY <1>1, <1>2, <1>5, <1>6 DEF Phase, InSetup, InSign, BySign
<1>8. Nonces'
  BY <1>1, Same DEF Inv, Nonces
<1> QED
  BY <1>1, <1>2, <1>3, <1>7, <1>8 DEF Inv, Signed, Asked

LEMMA SetupRefusedInv ==
  ASSUME Inv, SetupRefused
  PROVE  Inv'
<1>1. /\ pc = "setup" /\ ~BySign /\ pc' = "idle" /\ UNCHANGED <<heap, loc, req, fault>>
  BY DEF SetupRefused
<1>3. ~fault' /\ Owned'
  BY <1>1, Same DEF Inv
<1>4. Clear(SigPtrs) /\ Clear(SetupLocals) /\ Clear(SignLocals) /\ (Full(KeptPtrs) \/ Clear(KeptPtrs))
  BY <1>1 DEF Inv, Phase, InSetup
<1>5. Clear(SigPtrs)' /\ Clear(SetupLocals)' /\ Clear(SignLocals)' /\ (Full(KeptPtrs) \/ Clear(KeptPtrs))'
  BY <1>1, <1>4, Same DEF Inv
<1>6. Phase'
  BY <1>1, <1>5 DEF Phase, InSetup, InSign
<1>7. Nonces'
  BY <1>1, Same DEF Inv, Nonces
<1> QED
  BY <1>1, <1>3, <1>6, <1>7 DEF Inv, Signed, Asked, BySign

LEMMA SetupFailsInv ==
  ASSUME Inv, SetupFails
  PROVE  Inv'
<1>1. pc \in {"draw", "invert"} /\ pc' = "setup_err" /\ UNCHANGED <<heap, loc, req, ret, fault>>
  BY DEF SetupFails
<1>3. ~fault' /\ Owned'
  BY <1>1, Same DEF Inv
<1>6. Phase'
  <2>1. \A ptrs : (Full(ptrs)' <=> Full(ptrs)) /\ (Clear(ptrs)' <=> Clear(ptrs))
    BY <1>1, Same DEF Inv
  <2>2. BySign' = BySign /\ Given' = Given
    BY <1>1 DEF BySign, Given
  <2> QED BY <1>1, <2>1, <2>2 DEF Inv, Phase, InSetup, InSign
<1>7. Nonces'
  BY <1>1, Same DEF Inv, Nonces
<1> QED
  BY <1>1, <1>3, <1>6, <1>7 DEF Inv, Signed, Asked

LEMMA SignRefusedInv ==
  ASSUME Inv, SignRefused
  PROVE  Inv'
<1>1. pc = "sign" /\ pc' = "idle" /\ ret' = 0 /\ UNCHANGED <<heap, loc, req, fault>>
  BY DEF SignRefused
<1>3. ~fault' /\ Owned'
  BY <1>1, Same DEF Inv
<1>4. \A ptrs : (Full(ptrs)' <=> Full(ptrs)) /\ (Clear(ptrs)' <=> Clear(ptrs))
  BY <1>1, Same DEF Inv
<1>5. Clear(SigPtrs) /\ Clear(SetupLocals) /\ Clear(SignLocals) /\ (Full(KeptPtrs) \/ Clear(KeptPtrs))
      /\ BySign
  BY <1>1 DEF Inv, Phase
<1>6. Phase'
  BY <1>1, <1>4, <1>5 DEF Phase, InSetup, InSign
<1>7. Nonces'
  BY <1>1, Same DEF Inv, Nonces
<1>8. Signed'
  BY <1>1, <1>4, <1>5, NotBoth DEF Signed
<1> QED
  BY <1>1, <1>3, <1>5, <1>6, <1>7, <1>8 DEF Inv, Asked, BySign

LEMMA SignFailsInv ==
  ASSUME Inv, SignFails
  PROVE  Inv'
<1>1. pc \in {"values", "sum"} /\ pc' = "sign_err" /\ UNCHANGED <<heap, loc, req, ret, fault>>
  BY DEF SignFails
<1>3. ~fault' /\ Owned'
  BY <1>1, Same DEF Inv
<1>6. Phase'
  <2>1. \A ptrs : (Full(ptrs)' <=> Full(ptrs)) /\ (Clear(ptrs)' <=> Clear(ptrs))
    BY <1>1, Same DEF Inv
  <2>2. BySign' = BySign /\ Given' = Given
    BY <1>1 DEF BySign, Given
  <2> QED BY <1>1, <2>1, <2>2 DEF Inv, Phase, InSetup, InSign
<1>7. Nonces'
  BY <1>1, Same DEF Inv, Nonces
<1> QED
  BY <1>1, <1>3, <1>6, <1>7 DEF Inv, Signed, Asked

LEMMA VerifyInv ==
  ASSUME Inv, NEW dgst \in Digests, NEW sg, NEW form, NEW failure \in Failures,
         Verify(dgst, sg, form, failure)
  PROVE  Inv'
<1>1. /\ pc = "idle" /\ ret' = Verdict(dgst, sg, form, failure)
      /\ req' = [fn |-> "verify", dgst |-> dgst, sig |-> sg, form |-> form, failure |-> failure]
      /\ UNCHANGED <<heap, loc, pc, fault>>
  BY DEF Verify
<1>2. /\ req'.fn = "verify" /\ req'.dgst = dgst /\ req'.sig = sg /\ req'.form = form
      /\ req'.failure = failure
  BY <1>1
<1>3. ~fault' /\ Owned'
  BY <1>1, Same DEF Inv
<1>4. \A ptrs : (Full(ptrs)' <=> Full(ptrs)) /\ (Clear(ptrs)' <=> Clear(ptrs))
  BY <1>1, Same DEF Inv
<1>6. Phase'
  BY <1>1, <1>4 DEF Inv, Phase, InSetup, InSign
<1>7. Nonces'
  BY <1>1, Same DEF Inv, Nonces
<1> QED
  BY <1>1, <1>2, <1>3, <1>6, <1>7 DEF Inv, Signed, Asked

(* What a step keeps.                                                         *)
LEMMA Stays ==
  ASSUME NEW changed, Kept(changed), NEW ptrs, ptrs \subseteq Pointers, ptrs \cap changed = {}
  PROVE  (Full(ptrs)' <=> Full(ptrs)) /\ (Clear(ptrs)' <=> Clear(ptrs))
<1>1. \A q \in ptrs : loc'[q] = loc[q]
  BY DEF Kept
<1> QED
  BY <1>1 DEF Full, Clear

LEMMA Among ==
  /\ \A p \in SigPtrs, q \in KeptPtrs : p # q
  /\ SigPtrs \cap KeptPtrs = {} /\ SigPtrs \cap SetupLocals = {} /\ SigPtrs \cap SignLocals = {}
  /\ KeptPtrs \cap SetupLocals = {} /\ KeptPtrs \cap SignLocals = {}
  /\ SetupLocals \cap SignLocals = {}
  /\ {"k", "r"} \subseteq SetupLocals
  /\ "sig_r" \in SigPtrs /\ "sig_s" \in SigPtrs /\ "kept_kinv" \in KeptPtrs
  /\ "kept_r" \in KeptPtrs /\ "kinv" \in SignLocals
  BY DEF SigPtrs, KeptPtrs, SetupLocals, SetupTemporaries, SignLocals

(* The values a caller set up, in a step that does not touch them.            *)
LEMMA KeptNonce ==
  ASSUME NEW changed, Kept(changed), changed \cap KeptPtrs = {},
         Full(KeptPtrs) => IsNonce(Val("kept_kinv"), Val("kept_r"))
  PROVE  Full(KeptPtrs)' => IsNonce(Val("kept_kinv"), Val("kept_r"))'
<1> SUFFICES ASSUME Full(KeptPtrs)' PROVE IsNonce(Val("kept_kinv"), Val("kept_r"))'
  OBVIOUS
<1>1. Full(KeptPtrs)
  BY Stays, Groups
<1>2. loc["kept_kinv"] # NULL /\ loc["kept_r"] # NULL
  BY <1>1 DEF Full, KeptPtrs
<1>3. "kept_kinv" \in Pointers \ changed /\ "kept_r" \in Pointers \ changed
  BY Among, Groups
<1>4. Val("kept_kinv")' = Val("kept_kinv") /\ Val("kept_r")' = Val("kept_r")
  BY <1>2, <1>3, KeptVal
<1> QED
  BY <1>1, <1>4 DEF IsNonce

LEMMA SetupAllocInv ==
  ASSUME Inv, NEW missing \in SUBSET {"k", "r", "setup_order", "X", "point"}, SetupAlloc(missing)
  PROVE  Inv'
<1> DEFINE new == (SetupTemporaries \cup {"k", "r"})
                  \ (missing \cup (IF BySign THEN {"setup_ctx"} ELSE {})
                             \cup (IF missing # {} THEN {"point"} ELSE {}))
<1>1. /\ pc = "setup" /\ Alloc(new) /\ pc' = IF missing = {} THEN "draw" ELSE "setup_err"
      /\ UNCHANGED <<req, ret, fault>>
  BY DEF SetupAlloc
<1>2. new \subseteq SetupLocals /\ (missing = {} => {"k", "r"} \subseteq new)
  BY DEF SetupLocals, SetupTemporaries
<1> HIDE DEF new
<1>3. Clear(SetupLocals)
  BY <1>1 DEF Inv, Phase
<1>4. Owned' /\ Kept(new) /\ \A q \in new : loc'[q] # NULL
  <2>1. new \subseteq Pointers /\ \A q \in new : loc[q] = NULL
    BY <1>2, <1>3, Groups DEF Clear
  <2> QED BY <2>1, <1>1, Allocated DEF Inv
<1>5. /\ Full(SigPtrs)' <=> Full(SigPtrs)
      /\ Clear(SigPtrs)' <=> Clear(SigPtrs)
      /\ Full(KeptPtrs)' <=> Full(KeptPtrs)
      /\ Clear(KeptPtrs)' <=> Clear(KeptPtrs)
      /\ Clear(SignLocals)' <=> Clear(SignLocals)
  <2>1. new \cap SigPtrs = {} /\ new \cap KeptPtrs = {} /\ new \cap SignLocals = {}
    BY <1>2, Among
  <2> QED BY <2>1, <1>4, Stays, Groups
<1>6. pc' = "draw" => Full({"k", "r"})'
  BY <1>1, <1>2, <1>4 DEF Full
<1>7. BySign' = BySign /\ Given' = Given
  BY <1>1 DEF BySign, Given
<1>8. Phase'
  BY <1>1, <1>5, <1>6, <1>7 DEF Inv, Phase, InSetup, InSign
<1>9. Full(KeptPtrs)' => IsNonce(Val("kept_kinv"), Val("kept_r"))'
  <2>1. new \cap KeptPtrs = {}
    BY <1>2, Among
  <2> QED BY <2>1, <1>4, KeptNonce DEF Inv, Nonces
<1> QED
  BY <1>1, <1>4, <1>8, <1>9 DEF Inv, Nonces, Signed, Asked

LEMMA DrawNonceInv ==
  ASSUME Inv, NEW k \in 1 .. Order - 1, DrawNonce(k)
  PROVE  Inv'
<1> DEFINE f == FixedLength(k)
           r == XCoord[f % Order] % Order
<1>1. /\ pc = "draw" /\ heap' = [heap EXCEPT ![loc["k"]] = f, ![loc["r"]] = r]
      /\ pc' = IF r = 0 THEN "draw" ELSE "invert"
      /\ UNCHANGED <<loc, req, ret, fault>>
  BY DEF DrawNonce
<1>2. r = NonceX(k)
  BY NonceFixed DEF NonceX
<1> HIDE DEF f, r
<1>3. /\ Full({"k", "r"})
      /\ \A p, q \in Held : loc[p] = loc[q] => p = q
      /\ DOMAIN heap = {loc[q] : q \in Held}
  BY <1>1 DEF Inv, Phase, Owned, Distinct
<1>4. /\ "k" \in Held /\ "r" \in Held /\ loc["k"] # loc["r"]
      /\ loc["k"] \in DOMAIN heap /\ loc["r"] \in DOMAIN heap
      /\ "k" \in Pointers /\ "r" \in Pointers
  BY <1>3, PointersAre DEF Full, Held
<1>5. Val("k")' = f /\ Val("r")' = r
  BY <1>1, <1>4 DEF Val
<1>6. Kept({"k", "r"})
  <2> SUFFICES ASSUME NEW q \in Pointers \ {"k", "r"}
               PROVE  loc'[q] = loc[q] /\ (loc[q] # NULL => heap'[loc[q]] = heap[loc[q]])
    BY DEF Kept
  <2>1. loc[q] # NULL => loc[q] # loc["k"] /\ loc[q] # loc["r"] /\ loc[q] \in DOMAIN heap
    BY <1>3, <1>4 DEF Held
  <2> QED BY <1>1, <2>1
<1>7. Owned'
  <2>1. Held' = Held /\ DOMAIN heap' = DOMAIN heap
    BY <1>1 DEF Held
  <2> QED BY <2>1, <1>1 DEF Inv, Owned, LocType, Distinct
<1>8. \A ptrs : (Full(ptrs)' <=> Full(ptrs)) /\ (Clear(ptrs)' <=> Clear(ptrs))
  BY <1>1 DEF Full, Clear
<1>9. BySign' = BySign /\ Given' = Given
  BY <1>1 DEF BySign, Given
<1>10. Phase'
  BY <1>1, <1>8, <1>9 DEF Inv, Phase, InSetup, InSign
<1>11. Full(KeptPtrs)' => IsNonce(Val("kept_kinv"), Val("kept_r"))'
  <2>1. {"k", "r"} \cap KeptPtrs = {}
    BY Among
  <2> QED BY <2>1, <1>6, KeptNonce DEF Inv, Nonces
<1>12. pc' = "invert" => Val("k")' = FixedLength(k) /\ Val("r")' = NonceX(k) /\ NonceX(k) # 0
  BY <1>1, <1>2, <1>5 DEF f
<1> QED
  BY <1>1, <1>7, <1>10, <1>11, <1>12 DEF Inv, Nonces, Signed, Asked

LEMMA SetupErrInv ==
  ASSUME Inv, SetupErr
  PROVE  Inv'
<1>1. /\ pc = "setup_err" /\ heap' = Without(SetupLocals) /\ NoteFault(SetupLocals)
      /\ loc' = Cleared(SetupLocals) /\ pc' = IF BySign THEN "sign_err" ELSE "idle"
      /\ ret' = IF BySign THEN ret ELSE 0
      /\ req' = req
  BY DEF SetupErr, SetupLocals
<1>2. Owned' /\ Kept(SetupLocals) /\ \A q \in SetupLocals : loc'[q] = NULL
  BY <1>1, Freed, Groups DEF Inv
<1>3. ~fault'
  BY <1>1, NoFault, Groups DEF Inv
<1>4. /\ Full(SigPtrs)' <=> Full(SigPtrs)
      /\ Clear(SigPtrs)' <=> Clear(SigPtrs)
      /\ Full(KeptPtrs)' <=> Full(KeptPtrs)
      /\ Clear(KeptPtrs)' <=> Clear(KeptPtrs)
      /\ Clear(SignLocals)' <=> Clear(SignLocals)
      /\ Clear(SetupLocals)'
  <2>1. Clear(SetupLocals)'
    BY <1>2 DEF Clear
  <2> QED BY <2>1, <1>2, Stays, Groups, Among
<1>5. BySign' = BySign /\ Given' = Given
  BY <1>1 DEF BySign, Given
<1>6. Phase'
  BY <1>1, <1>4, <1>5 DEF Inv, Phase, InSetup, InSign
<1>7. Full(KeptPtrs)' => IsNonce(Val("kept_kinv"), Val("kept_r"))'
  <2>1. SetupLocals \cap KeptPtrs = {}
    BY Among
  <2> QED BY <2>1, <1>2, KeptNonce DEF Inv, Nonces
<1>8. Nonces'
  BY <1>1, <1>7 DEF Nonces
<1>9. Signed'
  BY <1>1 DEF Signed, BySign
<1> QED
  BY <1>1, <1>2, <1>3, <1>6, <1>8, <1>9 DEF Inv, Asked

(* The end of a set-up: the temporaries go, the results k and r replace what  *)
(* a and b held.                                                              *)
LEMMA Moved ==
  ASSUME Owned, Full({"k", "r"}),
         NEW temps, temps \subseteq Pointers, {"k", "r"} \cap temps = {},
         NEW a \in Pointers \ (temps \cup {"k", "r"}),
         NEW b \in Pointers \ (temps \cup {"k", "r"}), a # b, NEW v,
         heap' = [Without(temps \cup {a, b}) EXCEPT ![loc["k"]] = v],
         loc' = [Cleared(temps \cup {"k", "r"}) EXCEPT ![a] = loc["k"], ![b] = loc["r"]]
  PROVE  /\ Owned' /\ Kept(temps \cup {"k", "r", a, b})
         /\ \A q \in temps \cup {"k", "r"} : loc'[q] = NULL
         /\ loc'[a] # NULL /\ loc'[b] # NULL
         /\ Val(a)' = v /\ Val(b)' = Val("r")
<1> DEFINE gone == temps \cup {"k", "r"}
           dead == temps \cup {a, b}
           k == loc["k"]
           r == loc["r"]
<1>1. /\ loc \in [Pointers -> Addresses \cup {NULL}]
      /\ \A p, q \in Held : loc[p] = loc[q] => p = q
      /\ DOMAIN heap = {loc[q] : q \in Held}
  BY DEF Owned, LocType, Distinct
<1>2. /\ "k" \in Held /\ "r" \in Held /\ k # r /\ k # NULL /\ r # NULL
      /\ k \in DOMAIN heap /\ r \in DOMAIN heap
      /\ "k" \notin dead /\ "r" \notin dead
  BY <1>1, PointersAre DEF Full, Held
<1>3. \A q \in Pointers : loc'[q] = IF q = b THEN r ELSE IF q = a THEN k
                                    ELSE IF q \in gone THEN NULL ELSE loc[q]
  BY DEF Cleared
<1>4. LocType'
  <2>1. k \in Addresses \cup {NULL} /\ r \in Addresses \cup {NULL}
    BY <1>1, PointersAre
  <2>2. Cleared(gone) \in [Pointers -> Addresses \cup {NULL}]
    BY <1>1 DEF Cleared
  <2> DEFINE c == Cleared(gone)
  <2>3. loc' = [c EXCEPT ![a] = k, ![b] = r]
    OBVIOUS
  <2> HIDE DEF c, k, r
  <2> QED BY <2>1, <2>2, <2>3 DEF LocType, c
<1> HIDE DEF gone, dead, k, r
<1>5. a \notin gone /\ b \notin gone /\ a \in Pointers /\ b \in Pointers
  BY DEF gone
<1>6. Held' = (Held \ gone) \cup {a, b}
  BY <1>2, <1>3, <1>5 DEF Held
<1>7. ASSUME NEW q \in Held, q \notin gone, q # a, q # b
      PROVE  loc'[q] = loc[q] /\ loc[q] # k /\ loc[q] # r /\ loc[q] # NULL
  <2>1. q # "k" /\ q # "r" /\ q \in Pointers
    BY <1>7 DEF gone, Held
  <2> QED BY <2>1, <1>1, <1>2, <1>3, <1>7 DEF k, r, Held
<1>8. loc'[a] = k /\ loc'[b] = r
  BY <1>3, <1>5
<1>9. Distinct'
  <2> SUFFICES ASSUME NEW p \in Held', NEW q \in Held', loc'[p] = loc'[q]
               PROVE  p = q
    BY DEF Distinct
  <2>1. CASE p = a
    BY <2>1, <1>2, <1>6, <1>7, <1>8
  <2>2. CASE p = b
    BY <2>2, <1>2, <1>6, <1>7, <1>8
  <2>3. CASE q = a \/ q = b
    BY <2>3, <1>2, <1>6, <1>7, <1>8
  <2>4. CASE p # a /\ p # b /\ q # a /\ q # b
    BY <2>4, <1>1, <1>6, <1>7
  <2> QED BY <2>1, <2>2, <2>3, <2>4
<1>10. heap' = [x \in DOMAIN heap \ Dead(dead) |-> IF x = k THEN v ELSE heap[x]]
  BY DEF Without, dead, k
<1>11. ASSUME NEW q \in Held, q \notin dead
       PROVE  loc[q] \in DOMAIN heap \ Dead(dead)
  <2>1. \A p \in dead : loc[p] # NULL => p \in Held
    BY DEF dead, Held
  <2> QED BY <2>1, <1>1, <1>11 DEF Dead, Doomed
<1>12. DOMAIN heap' = {loc'[q] : q \in Held'}
  <2>1. DOMAIN heap' = DOMAIN heap \ Dead(dead)
    BY <1>10
  <2>2. ASSUME NEW x \in DOMAIN heap \ Dead(dead)
        PROVE  \E q \in Held' : loc'[q] = x
    <3>1. PICK q \in Held : loc[q] = x
      BY <1>1
    <3>2. q \notin dead
      BY <3>1 DEF Dead, Doomed, Held
    <3>3. CASE q = "k"
      BY <3>1, <3>3, <1>6, <1>8 DEF k
    <3>4. CASE q = "r"
      BY <3>1, <3>4, <1>6, <1>8 DEF r
    <3>5. CASE q # "k" /\ q # "r"
      <4>1. q \notin gone /\ q # a /\ q # b
        BY <3>2, <3>5 DEF gone, dead
      <4> QED BY <4>1, <3>1, <1>6, <1>7
    <3> QED BY <3>3, <3>4, <3>5
  <2>3. ASSUME NEW q \in Held'
        PROVE  loc'[q] \in DOMAIN heap \ Dead(dead)
    <3>1. CASE q = a
      BY <3>1, <1>2, <1>8, <1>11 DEF k
    <3>2. CASE q = b
      BY <3>2, <1>2, <1>8, <1>11 DEF r
    <3>3. CASE q # a /\ q # b
      <4>1. q \in Held /\ q \notin gone /\ q \notin dead
        BY <3>3, <1>6 DEF gone, dead
      <4> QED BY <4>1, <3>3, <1>7, <1>11
    <3> QED BY <3>1, <3>2, <3>3
  <2> QED BY <2>1, <2>2, <2>3
<1>13. Kept(temps \cup {"k", "r", a, b})
  <2> SUFFICES ASSUME NEW q \in Pointers \ (temps \cup {"k", "r", a, b})
               PROVE  loc'[q] = loc[q] /\ (loc[q] # NULL => heap'[loc[q]] = heap[loc[q]])
    BY DEF Kept
  <2>1. q \notin gone /\ q \notin dead /\ q # a /\ q # b
    BY DEF gone, dead
  <2>2. loc'[q] = loc[q]
    BY <2>1, <1>3
  <2>3. ASSUME loc[q] # NULL PROVE heap'[loc[q]] = heap[loc[q]]
    <3>1. q \in Held
      BY <2>3 DEF Held
    <3> QED BY <3>1, <2>1, <1>7, <1>10, <1>11
  <2> QED BY <2>2, <2>3
<1>14. Val(a)' = v /\ Val(b)' = Val("r")
  <2>1. k \in DOMAIN heap \ Dead(dead) /\ r \in DOMAIN heap \ Dead(dead)
    BY <1>2, <1>11 DEF k, r
  <2>2. heap'[k] = v /\ heap'[r] = heap[r]
    BY <2>1, <1>2, <1>10
  <2> QED BY <2>2, <1>8 DEF Val, r
<1>15. \A q \in gone : q \in Pointers => loc'[q] = NULL
  BY <1>3, <1>5
<1>16. gone \subseteq Pointers
  BY PointersAre DEF gone
<1> QED
  BY <1>2, <1>4, <1>8, <1>9, <1>12, <1>13, <1>14, <1>15, <1>16 DEF Owned, gone

LEMMA SetupDoneInv ==
  ASSUME Inv, SetupDone
  PROVE  Inv'
<1> PICK a, b : a = KinvPtr /\ b = RPtr
  OBVIOUS
<1> DEFINE temps == SetupTemporaries
           v == Invert(heap[loc["k"]] % Order)
           touched == temps \cup {"k", "r", a, b}
<1>1. /\ pc = "invert" /\ heap' = [Without(temps \cup {a, b}) EXCEPT ![loc["k"]] = v]
      /\ NoteFault(temps \cup {a, b})
      /\ loc' = [Cleared(temps \cup {"k", "r"}) EXCEPT ![a] = loc["k"], ![b] = loc["r"]]
      /\ pc' = IF BySign THEN "sum" ELSE "idle"
      /\ req' = req
  BY DEF SetupDone
<1>2. /\ temps \cup {"k", "r"} = SetupLocals /\ {"k", "r"} \cap temps = {}
      /\ temps \subseteq Pointers
  <2>1. temps \cup {"k", "r"} = SetupLocals
    BY DEF SetupLocals
  <2> QED BY <2>1, Groups DEF SetupTemporaries
<1>3. /\ a = IF BySign THEN "kinv" ELSE "kept_kinv"
      /\ b = IF BySign THEN "sig_r" ELSE "kept_r"
      /\ a # b /\ a \in Pointers \ SetupLocals /\ b \in Pointers \ SetupLocals
  <2>1. /\ a = IF BySign THEN "kinv" ELSE "kept_kinv"
        /\ b = IF BySign THEN "sig_r" ELSE "kept_r"
    BY DEF KinvPtr, RPtr
  <2>2. "kinv" \in Pointers /\ "kept_kinv" \in Pointers /\ "sig_r" \in Pointers /\ "kept_r" \in Pointers
    BY Among, Groups
  <2> QED BY <2>1, <2>2 DEF SetupLocals, SetupTemporaries
<1>4. Full({"k", "r"}) /\ Owned
  BY <1>1 DEF Inv, Phase
<1> HIDE DEF temps
<1>5. /\ Owned' /\ Kept(touched)
      /\ \A q \in SetupLocals : loc'[q] = NULL
      /\ loc'[a] # NULL /\ loc'[b] # NULL
      /\ Val(a)' = v /\ Val(b)' = Val("r")
  <2> HIDE DEF v
  <2> QED BY <1>1, <1>2, <1>3, <1>4, Moved
<1>6. ~fault'
  <2>1. temps \cup {a, b} \subseteq Pointers
    BY <1>2, <1>3
  <2> QED BY <2>1, <1>1, NoFault DEF Inv
<1>7. PICK k \in 1 .. Order - 1 : Val("k") = FixedLength(k) /\ Val("r") = NonceX(k) /\ NonceX(k) # 0
  BY <1>1 DEF Inv, Nonces
<1>8. IsNonce(Val(a)', Val(b)')
  <2>1. v = Invert(k)
    BY <1>7, NonceFixed DEF Val
  <2> HIDE DEF v
  <2> QED BY <2>1, <1>5, <1>7 DEF IsNonce
<1>9. Clear(SetupLocals)'
  BY <1>5 DEF Clear
<1>10. touched = SetupLocals \cup {a, b}
  BY <1>2
<1> HIDE DEF touched, v
<1>11. CASE BySign
  <2>1. a = "kinv" /\ b = "sig_r" /\ touched \cap KeptPtrs = {}
    BY <1>3, <1>10, <1>11, Among
  <2>2. Full(SigPtrs) /\ ~Given
    BY <1>1, <1>11 DEF Inv, Phase, InSetup
  <2>3. Full(SigPtrs)'
    <3>1. ASSUME NEW q \in SigPtrs PROVE loc'[q] # NULL
      <4>1. CASE q = "sig_r"
        BY <4>1, <1>5, <2>1
      <4>2. CASE q # "sig_r"
        <5>1. q \in Pointers \ touched
          BY <4>2, <2>1, <1>10, Groups, Among
        <5>2. loc'[q] = loc[q]
          BY <5>1, <1>5 DEF Kept
        <5> QED BY <5>2, <2>2 DEF Full
      <4> QED BY <4>1, <4>2
    <3> QED BY <3>1 DEF Full
  <2>4. /\ Full(KeptPtrs)' <=> Full(KeptPtrs)
        /\ Clear(KeptPtrs)' <=> Clear(KeptPtrs)
    BY <2>1, <1>5, Stays, Groups
  <2>5. BySign' /\ ~Given' /\ pc' = "sum"
    BY <1>1, <1>11, <2>2 DEF BySign, Given
  <2>6. Phase'
    BY <2>3, <2>4, <2>5, <1>9 DEF Inv, Phase, InSetup, InSign
  <2>7. SumKinv' = "kinv"
    BY <2>5 DEF SumKinv
  <2>8. loc'[SumKinv'] # NULL /\ IsNonce(heap'[loc'[SumKinv']], heap'[loc'["sig_r"]])
    BY <2>1, <2>7, <1>5, <1>8 DEF Val
  <2>9. Full(KeptPtrs)' => IsNonce(Val("kept_kinv"), Val("kept_r"))'
    BY <2>1, <1>5, KeptNonce DEF Inv, Nonces
  <2>10. Nonces'
    BY <2>5, <2>8, <2>9 DEF Nonces, Val
  <2> QED BY <1>1, <1>5, <1>6, <2>5, <2>6, <2>10 DEF Inv, Signed, Asked
<1>12. CASE ~BySign
  <2>1. a = "kept_kinv" /\ b = "kept_r" /\ touched \cap SigPtrs = {} /\ touched \cap SignLocals = {}
    BY <1>3, <1>10, <1>12, Among
  <2>2. Clear(SigPtrs) /\ Clear(SignLocals)
    BY <1>1, <1>12 DEF Inv, Phase, InSetup
  <2>3. Clear(SigPtrs)' /\ Clear(SignLocals)'
    BY <2>1, <2>2, <1>5, Stays, Groups
  <2>4. Full(KeptPtrs)'
    BY <2>1, <1>5 DEF Full, KeptPtrs
  <2>5. ~BySign' /\ pc' = "idle"
    BY <1>1, <1>12 DEF BySign
  <2>6. Phase'
    BY <2>3, <2>4, <2>5, <1>9 DEF Phase, InSetup, InSign
  <2>7. Nonces'
    <3>1. Full(KeptPtrs)' => IsNonce(Val("kept_kinv"), Val("kept_r"))'
      BY <2>1, <1>8
    <3> QED BY <3>1, <2>5 DEF Nonces
  <2> QED BY <1>1, <1>5, <1>6, <2>5, <2>6, <2>7 DEF Inv, Signed, Asked, BySign
<1> QED
  BY <1>11, <1>12

LEMMA SignAllocInv ==
  ASSUME Inv, NEW n \in 0 .. 4, SignAlloc(n)
  PROVE  Inv'
<1> DEFINE new == {"sig", "sig_r", "sig_s"} \cup {SignTemporaries[i] : i \in 1 .. n}
<1>1. /\ pc = "sign" /\ Alloc(new) /\ pc' = IF n = 4 THEN "values" ELSE "sign_err"
      /\ UNCHANGED <<req, ret, fault>>
  BY DEF SignAlloc
<1>2. SigPtrs \subseteq new /\ new \subseteq SigPtrs \cup SignLocals
  <2>1. \A i \in 1 .. n : i \in {1, 2, 3, 4}
    OBVIOUS
  <2>2. \A i \in {1, 2, 3, 4} : SignTemporaries[i] \in SignLocals
    BY DEF SignTemporaries, SignLocals
  <2> QED BY <2>1, <2>2 DEF SigPtrs
<1> HIDE DEF new
<1>3. Clear(SigPtrs) /\ Clear(SignLocals) /\ Clear(SetupLocals) /\ BySign
  BY <1>1 DEF Inv, Phase
<1>4. Owned' /\ Kept(new) /\ \A q \in new : loc'[q] # NULL
  <2>1. new \subseteq Pointers /\ \A q \in new : loc[q] = NULL
    BY <1>2, <1>3, Groups DEF Clear
  <2> QED BY <2>1, <1>1, Allocated DEF Inv
<1>5. new \cap KeptPtrs = {} /\ new \cap SetupLocals = {}
  BY <1>2, Among
<1>6. Full(SigPtrs)'
  BY <1>2, <1>4 DEF Full
<1>7. /\ Full(KeptPtrs)' <=> Full(KeptPtrs)
      /\ Clear(KeptPtrs)' <=> Clear(KeptPtrs)
      /\ Clear(SetupLocals)'
  BY <1>3, <1>4, <1>5, Stays, Groups
<1>8. BySign' /\ Given' = Given
  BY <1>1, <1>3 DEF BySign, Given
<1>9. Phase'
  BY <1>1, <1>6, <1>7, <1>8 DEF Inv, Phase, InSetup, InSign
<1>10. Full(KeptPtrs)' => IsNonce(Val("kept_kinv"), Val("kept_r"))'
  BY <1>4, <1>5, KeptNonce DEF Inv, Nonces
<1>11. pc' \notin {"idle", "invert", "sum", "sign_ok"}
  BY <1>1
<1>12. Nonces' /\ Signed'
  BY <1>10, <1>11 DEF Nonces, Signed
<1> QED
  BY <1>1, <1>3, <1>4, <1>9, <1>12 DEF Inv, Asked, BySign

LEMMA SignValuesInv ==
  ASSUME Inv, SignValues
  PROVE  Inv'
<1>1. /\ pc = "values" /\ UNCHANGED <<loc, req, ret, fault>>
      /\ Given => heap' = [heap EXCEPT ![loc["sig_r"]] = Val("kept_r")] /\ pc' = "sum"
      /\ ~Given => UNCHANGED heap /\ pc' = "setup"
  BY DEF SignValues, Val
<1>2. BySign /\ Full(SigPtrs) /\ Clear(SetupLocals) /\ (Given => Full(KeptPtrs))
  BY <1>1 DEF Inv, Phase, InSign
<1>3. BySign' /\ Given' = Given
  BY <1>1, <1>2 DEF BySign, Given
<1>4. \A ptrs : (Full(ptrs)' <=> Full(ptrs)) /\ (Clear(ptrs)' <=> Clear(ptrs))
  BY <1>1 DEF Full, Clear
<1>5. Phase'
  BY <1>1, <1>2, <1>3, <1>4 DEF Inv, Phase, InSetup, InSign
<1>6. CASE Given
  <2>1. loc["sig_r"] # NULL /\ "sig_r" \in Pointers
    BY <1>2, Among, Groups DEF Full
  <2>2. Owned' /\ Kept({"sig_r"}) /\ Val("sig_r")' = Val("kept_r")
    <3> DEFINE v == Val("kept_r")
    <3>1. heap' = [heap EXCEPT ![loc["sig_r"]] = v] /\ UNCHANGED loc /\ Owned
      BY <1>1, <1>6 DEF Inv
    <3> HIDE DEF v
    <3> QED BY <3>1, <2>1, Written DEF v
  <2>3. IsNonce(Val("kept_kinv"), Val("kept_r")) /\ loc["kept_kinv"] # NULL
    BY <1>2, <1>6, NotBoth DEF Inv, Nonces
  <2>4. "kept_kinv" \in Pointers \ {"sig_r"} /\ {"sig_r"} \cap KeptPtrs = {}
    BY Among, Groups
  <2>5. Val("kept_kinv")' = Val("kept_kinv")
    BY <2>2, <2>3, <2>4, KeptVal
  <2>6. Full(KeptPtrs)' => IsNonce(Val("kept_kinv"), Val("kept_r"))'
    BY <2>2, <2>4, KeptNonce DEF Inv, Nonces
  <2>7. SumKinv' = "kept_kinv" /\ pc' = "sum"
    BY <1>1, <1>3, <1>6 DEF SumKinv
  <2>8. IsNonce(heap'[loc'["kept_kinv"]], heap'[loc'["sig_r"]])
    BY <2>2, <2>3, <2>5 DEF Val
  <2>9. Nonces'
    BY <1>1, <2>3, <2>6, <2>7, <2>8 DEF Nonces, Val
  <2> QED BY <1>1, <2>2, <2>7, <2>9, <1>5 DEF Inv, Signed, Asked
<1>7. CASE ~Given
  <2>1. Owned' /\ Nonces'
    BY <1>1, <1>7, Same DEF Inv, Nonces
  <2> QED BY <1>1, <1>5, <1>7, <2>1 DEF Inv, Signed, Asked
<1> QED
  BY <1>6, <1>7

(* What is written to sig->s is the s of the nonce in use (ecs_ossl.c:319-330). *)
LEMMA SumIsS ==
  ASSUME NEW d \in Int, NEW m \in Nat, NEW r \in Int, NEW i \in Int
  PROVE  /\ (BN_mod_add_quick((d * r) % Order, m) * i) % Order = (i * (m + r * d)) % Order
         /\ (BN_mod_add_quick((d * r) % Order, m) * i) % Order \in Int
<1> DEFINE p == d * r
           t == p % Order
           u == BN_mod_add_quick(t, m)
           w == t + m
           x == m + r * d
<1>1. p \in Int /\ r * d = p /\ x \in Int
  BY ProductType, SMT
<1> HIDE DEF p
<1>2. t \in Int
  BY <1>1, OrderType, DivMod
<1>3. x = p + m
  BY <1>1
<1> HIDE DEF t
<1>4. u \in Int /\ u % Order = w % Order /\ w \in Int
  <2>1. w \in Int /\ u = IF w >= Order THEN w - Order ELSE w
    <3>1. u = IF w >= Order THEN w - Order ELSE w
      BY <1>2, OrderType DEF BN_mod_add_quick
    <3>2. w \in Int
      BY <1>2
    <3> QED BY <3>1, <3>2
  <2> HIDE DEF u, w
  <2>2. CASE w >= Order
    <3> DEFINE minus == -1
    <3>1. minus \in Int /\ u \in Int /\ u = w + Order * minus
      BY <2>1, <2>2, OrderType
    <3> HIDE DEF minus
    <3> QED BY <3>1, <2>1, OrderType, CongruentIf
  <2>3. CASE ~(w >= Order)
    BY <2>1, <2>3
  <2> QED BY <2>2, <2>3
<1>5. w % Order = x % Order
  <2>1. ((p % Order) + m) % Order = (p + m) % Order
    <3>1. p \in Int /\ m \in Int
      BY <1>1
    <3> QED BY <3>1, OrderType, ModAdd
  <2>2. w = (p % Order) + m
    BY DEF t
  <2> HIDE DEF w, x
  <2> QED BY <2>1, <2>2, <1>3
<1> HIDE DEF u, w, x
<1>6. (i * u) % Order = (i * x) % Order /\ u * i = i * u /\ i * u \in Int
  <2>1. u % Order = x % Order
    BY <1>4, <1>5
  <2>2. (i * u) % Order = (i * x) % Order
    <3>1. u \in Int /\ x \in Int /\ i \in Int
      BY <1>1, <1>4
    <3> DEFINE n == Order
    <3>2. n \in Nat \ {0} /\ u % n = x % n
      BY <2>1, OrderType
    <3> HIDE DEF n, u, x
    <3>3. (i * u) % n = (i * x) % n
      BY <3>1, <3>2, ModScale, Zenon
    <3> QED BY <3>3 DEF n
  <2>3. u \in Int /\ i \in Int
    BY <1>1, <1>4
  <2> HIDE DEF u
  <2>4. u * i = i * u /\ i * u \in Int
    BY <2>3, SMT
  <2> QED BY <2>2, <2>4
<1>7. (u * i) % Order \in Int
  <2> DEFINE y == i * u
  <2>1. y \in Int /\ u * i = y
    BY <1>6
  <2> HIDE DEF y
  <2> QED BY <2>1, OrderType, DivMod
<1> QED
  BY <1>6, <1>7 DEF u, x, t, p

LEMMA SignSumInv ==
  ASSUME Inv, SignSum
  PROVE  Inv'
<1> DEFINE s == SumS
           m == Truncated(req.dgst)
<1>1. /\ pc = "sum" /\ UNCHANGED <<loc, req, ret, fault>>
      /\ heap' = [heap EXCEPT ![loc["sig_s"]] = s]
      /\ pc' = AfterSum(s)
  BY DEF SignSum
<1>2. /\ BySign /\ Full(SigPtrs) /\ Clear(SetupLocals) /\ (Given => Full(KeptPtrs))
      /\ loc[SumKinv] # NULL /\ IsNonce(Val(SumKinv), Val("sig_r"))
  BY <1>1 DEF Inv, Phase, InSign, Nonces
<1>3. loc["sig_s"] # NULL /\ "sig_s" \in Pointers /\ loc["sig_r"] # NULL
      /\ "sig_r" \in Pointers \ {"sig_s"} /\ {"sig_s"} \cap KeptPtrs = {}
  <2>1. loc["sig_s"] # NULL /\ "sig_s" \in Pointers /\ loc["sig_r"] # NULL
    BY <1>2, Among, Groups DEF Full
  <2>2. "sig_r" \in Pointers \ {"sig_s"} /\ {"sig_s"} \cap KeptPtrs = {}
    BY Among, Groups
  <2> QED BY <2>1, <2>2
<1>4. s = (BN_mod_add_quick((PrivKey * Val("sig_r")) % Order, m) * Val(SumKinv)) % Order
  BY DEF SumS, SumKinv, Val
<1>5. req.dgst \in Digests
  BY <1>2 DEF Inv, Asked, BySign
<1>6. m = Leading(req.dgst) /\ m \in Nat
  BY <1>5, TruncatedIsLeading
<1> HIDE DEF m, s
<1>7. s # 0 => Correct(PrivKey, m, Val("sig_r"), s)
  <2>1. PICK k \in 1 .. Order - 1 :
          Val(SumKinv) = Invert(k) /\ Val("sig_r") = NonceX(k) /\ NonceX(k) # 0
    BY <1>2 DEF IsNonce
  <2> DEFINE i == Invert(k)
             r == NonceX(k)
  <2>2. i \in Int /\ r \in Int /\ m \in Int
    BY <1>6, InvertDef, NonceXType, OrderType
  <2>3. s = (BN_mod_add_quick((PrivKey * r) % Order, m) * i) % Order
    BY <1>4, <2>1
  <2> HIDE DEF i, r
  <2>4. s = (i * (m + r * PrivKey)) % Order /\ s \in Int
    <3> DEFINE d == PrivKey
    <3>1. d \in Int /\ m \in Nat /\ i \in Int /\ r \in Int
      BY <2>2, <1>6, KeyType
    <3>2. s = (BN_mod_add_quick((d * r) % Order, m) * i) % Order
      BY <2>3
    <3> HIDE DEF d
    <3>3. /\ (BN_mod_add_quick((d * r) % Order, m) * i) % Order = (i * (m + r * d)) % Order
          /\ (BN_mod_add_quick((d * r) % Order, m) * i) % Order \in Int
      BY <3>1, SumIsS
    <3> DEFINE y == (BN_mod_add_quick((d * r) % Order, m) * i) % Order
               z == (i * (m + r * d)) % Order
    <3>4. s = y /\ y = z /\ y \in Int
      BY <3>2, <3>3
    <3> HIDE DEF y, z
    <3>5. s = z /\ s \in Int
      BY <3>4
    <3> QED BY <3>5 DEF z, d
  <2>5. s # 0 => Correct(PrivKey, m, NonceX(k), s)
    BY <2>1, <2>2, <2>4, KeyType, MadeIsCorrect DEF i, r
  <2> QED BY <2>1, <2>5
<1>8. Owned' /\ Kept({"sig_s"}) /\ Val("sig_s")' = s
  BY <1>1, <1>3, Written DEF Inv
<1>9. Val("sig_r")' = Val("sig_r")
  BY <1>3, <1>8, KeptVal
<1>10. BySign' /\ Given' = Given
  BY <1>1, <1>2 DEF BySign, Given
<1>11. \A ptrs : (Full(ptrs)' <=> Full(ptrs)) /\ (Clear(ptrs)' <=> Clear(ptrs))
  BY <1>1 DEF Full, Clear
<1>12. /\ pc' \in {"sign_ok", "sign_err", "values"}
       /\ pc' = "sign_ok" => s # 0
  BY <1>1 DEF AfterSum
<1>13. Phase'
  BY <1>2, <1>10, <1>11, <1>12 DEF Inv, Phase, InSetup, InSign
<1>14. Full(KeptPtrs)' => IsNonce(Val("kept_kinv"), Val("kept_r"))'
  BY <1>3, <1>8, KeptNonce DEF Inv, Nonces
<1>15. Nonces'
  BY <1>12, <1>14 DEF Nonces
<1>16. Signed'
  <2>1. pc' = "sign_ok" => Correct(PrivKey, Leading(req'.dgst), Val("sig_r")', Val("sig_s")')
    BY <1>1, <1>6, <1>7, <1>8, <1>9, <1>12
  <2> QED BY <2>1, <1>12 DEF Signed
<1> QED
  BY <1>1, <1>2, <1>8, <1>13, <1>15, <1>16 DEF Inv, Asked, BySign

LEMMA EndSignInv ==
  ASSUME Inv, EndSign
  PROVE  Inv'
<1> DEFINE dead == SignLocals \cup IF pc = "sign_err" THEN SigPtrs ELSE {}
<1>1. /\ pc \in {"sign_ok", "sign_err"} /\ heap' = Without(dead) /\ NoteFault(dead)
      /\ loc' = Cleared(dead) /\ pc' = "idle" /\ req' = req
      /\ ret' = IF pc = "sign_ok" THEN 1 ELSE 0
  <2>1. {"ctx", "m", "tmp", "order", "kinv"} = SignLocals
    BY DEF SignLocals
  <2>2. {"sig", "sig_r", "sig_s"} = SigPtrs
    BY DEF SigPtrs
  <2> QED BY <2>1, <2>2 DEF EndSign
<1>2. BySign /\ Full(SigPtrs) /\ Clear(SetupLocals)
  BY <1>1 DEF Inv, Phase, InSign
<1>3. dead \subseteq Pointers /\ dead \cap KeptPtrs = {} /\ dead \cap SetupLocals = {}
  BY Groups, Among
<1>4. SignLocals \subseteq dead /\ (pc = "sign_err" => SigPtrs \subseteq dead)
      /\ (pc # "sign_err" => dead \cap SigPtrs = {})
  BY Among
<1> HIDE DEF dead
<1>5. Owned' /\ Kept(dead) /\ \A q \in dead : loc'[q] = NULL
  BY <1>1, <1>3, Freed DEF Inv
<1>6. ~fault'
  BY <1>1, <1>3, NoFault DEF Inv
<1>7. /\ Full(KeptPtrs)' <=> Full(KeptPtrs)
      /\ Clear(KeptPtrs)' <=> Clear(KeptPtrs)
      /\ Clear(SetupLocals)' /\ Clear(SignLocals)'
  <2>1. Clear(SignLocals)'
    BY <1>4, <1>5 DEF Clear
  <2> QED BY <2>1, <1>2, <1>3, <1>5, Stays, Groups
<1>8. /\ pc = "sign_err" => Clear(SigPtrs)'
      /\ pc # "sign_err" => Full(SigPtrs)'
  <2>1. pc = "sign_err" => Clear(SigPtrs)'
    BY <1>4, <1>5 DEF Clear
  <2>2. pc # "sign_err" => Full(SigPtrs)'
    BY <1>2, <1>4, <1>5, Stays, Groups
  <2> QED BY <2>1, <2>2
<1>9. Phase'
  BY <1>1, <1>7, <1>8 DEF Inv, Phase, InSetup, InSign
<1>10. Full(KeptPtrs)' => IsNonce(Val("kept_kinv"), Val("kept_r"))'
  BY <1>3, <1>5, KeptNonce DEF Inv, Nonces
<1>11. Nonces'
  BY <1>1, <1>10 DEF Nonces
<1>12. Signed'
  <2>1. CASE pc = "sign_ok"
    <3>1. "sig_r" \in Pointers \ dead /\ "sig_s" \in Pointers \ dead
          /\ loc["sig_r"] # NULL /\ loc["sig_s"] # NULL
      BY <2>1, <1>2, <1>4, Groups, Among DEF Full
    <3>2. Val("sig_r")' = Val("sig_r") /\ Val("sig_s")' = Val("sig_s")
      BY <3>1, <1>5, KeptVal
    <3>3. Correct(PrivKey, Leading(req'.dgst), Val("sig_r")', Val("sig_s")')
      BY <3>2, <2>1, <1>1 DEF Inv, Signed
    <3>4. Full(SigPtrs)' /\ ret' = 1
      BY <2>1, <1>1, <1>8
    <3> QED BY <3>3, <3>4, <1>1 DEF Signed
  <2>2. CASE pc = "sign_err"
    <3>1. ~Full(SigPtrs)' /\ ret' = 0
      <4>1. loc'["sig"] = NULL
        BY <2>2, <1>8 DEF Clear, SigPtrs
      <4> QED BY <4>1, <2>2, <1>1 DEF Full, SigPtrs
    <3> QED BY <3>1, <1>1 DEF Signed
  <2> QED BY <1>1, <2>1, <2>2
<1> QED
  BY <1>1, <1>2, <1>5, <1>6, <1>9, <1>11, <1>12 DEF Inv, Asked, BySign

LEMMA CallerFreesInv ==
  ASSUME Inv, NEW ptrs \in {SigPtrs, KeptPtrs}, CallerFrees(ptrs)
  PROVE  Inv'
<1>1. /\ pc = "idle" /\ heap' = Without(ptrs) /\ NoteFault(ptrs) /\ loc' = Cleared(ptrs)
      /\ req' = [fn |-> "none"] /\ pc' = pc
  BY DEF CallerFrees
<1>2. req'.fn = "none"
  BY <1>1
<1>3. ptrs \subseteq Pointers
  BY Groups
<1>4. Owned' /\ Kept(ptrs) /\ \A q \in ptrs : loc'[q] = NULL
  BY <1>1, <1>3, Freed DEF Inv
<1>5. ~fault'
  BY <1>1, <1>3, NoFault DEF Inv
<1>6. Clear(SetupLocals) /\ Clear(SignLocals)
  BY <1>1 DEF Inv, Phase
<1>7. Clear(SetupLocals)' /\ Clear(SignLocals)'
  BY <1>3, <1>4, <1>6, Stays, Groups, Among
<1>8. Clear(ptrs)'
  BY <1>4 DEF Clear
<1>9. (Full(SigPtrs) \/ Clear(SigPtrs))' /\ (Full(KeptPtrs) \/ Clear(KeptPtrs))'
  <2>1. CASE ptrs = SigPtrs
    <3>1. /\ Full(KeptPtrs)' <=> Full(KeptPtrs)
          /\ Clear(KeptPtrs)' <=> Clear(KeptPtrs)
      BY <2>1, <1>4, Stays, Groups, Among
    <3> QED BY <3>1, <2>1, <1>8 DEF Inv, Phase
  <2>2. CASE ptrs = KeptPtrs
    <3>1. /\ Full(SigPtrs)' <=> Full(SigPtrs)
          /\ Clear(SigPtrs)' <=> Clear(SigPtrs)
      BY <2>2, <1>4, Stays, Groups, Among
    <3> QED BY <3>1, <2>2, <1>8 DEF Inv, Phase
  <2> QED BY <2>1, <2>2
<1>10. Phase'
  BY <1>1, <1>7, <1>9 DEF Phase, InSetup, InSign
<1>11. Full(KeptPtrs)' => IsNonce(Val("kept_kinv"), Val("kept_r"))'
  <2>1. CASE ptrs = SigPtrs
    BY <2>1, <1>4, KeptNonce, Among DEF Inv, Nonces
  <2>2. CASE ptrs = KeptPtrs
    <3>1. ~Full(KeptPtrs)'
      BY <2>2, <1>4 DEF Full, KeptPtrs
    <3> QED BY <3>1
  <2> QED BY <2>1, <2>2
<1>12. Nonces'
  BY <1>1, <1>11 DEF Nonces
<1> QED
  BY <1>1, <1>2, <1>4, <1>5, <1>10, <1>12 DEF Inv, Signed, Asked

-------------------------------------------------------------------------------
(* The theorems.                                                              *)

LEMMA NextInv == Inv /\ [Next]_vars => Inv'
<1> SUFFICES ASSUME Inv, [Next]_vars PROVE Inv'
  OBVIOUS
<1>1. SigPtrs = {"sig", "sig_r", "sig_s"} /\ KeptPtrs = {"kept_kinv", "kept_r"}
  BY DEF SigPtrs, KeptPtrs
<1>2. CASE CallSetup
  BY <1>2, CallSetupInv
<1>3. CASE CallStep
  <2>1. CASE SetupRefused
    BY <2>1, SetupRefusedInv
  <2>2. CASE SetupFails
    BY <2>2, SetupFailsInv
  <2>3. CASE SetupDone
    BY <2>3, SetupDoneInv
  <2>4. CASE SetupErr
    BY <2>4, SetupErrInv
  <2>5. CASE \E missing \in SUBSET {"k", "r", "setup_order", "X", "point"} : SetupAlloc(missing)
    BY <2>5, SetupAllocInv
  <2>6. CASE \E k \in 1 .. Order - 1 : DrawNonce(k)
    BY <2>6, DrawNonceInv
  <2>7. CASE SignRefused
    BY <2>7, SignRefusedInv
  <2>8. CASE \E n \in 0 .. 4 : SignAlloc(n)
    BY <2>8, SignAllocInv
  <2>9. CASE SignValues
    BY <2>9, SignValuesInv
  <2>10. CASE SignSum
    BY <2>10, SignSumInv
  <2>11. CASE SignFails
    BY <2>11, SignFailsInv
  <2>12. CASE EndSign
    BY <2>12, EndSignInv
  <2> QED BY <1>3, <2>1, <2>2, <2>3, <2>4, <2>5, <2>6, <2>7, <2>8, <2>9, <2>10, <2>11, <2>12
             DEF CallStep
<1>4. CASE \E dgst \in Digests, given \in SUBSET {"kept_kinv", "kept_r"} : CallSign(dgst, given)
  BY <1>1, <1>4, CallSignInv
<1>5. CASE CallerFrees({"sig", "sig_r", "sig_s"}) \/ CallerFrees({"kept_kinv", "kept_r"})
  BY <1>1, <1>5, CallerFreesInv
<1>6. CASE \E dgst \in Digests, sg \in Offered, form \in Forms, failure \in Failures :
             Verify(dgst, sg, form, failure)
  BY <1>6, VerifyInv
<1>7. CASE UNCHANGED vars
  <2>1. UNCHANGED <<heap, loc, pc, req, ret, fault>>
    BY <1>7 DEF vars
  <2>2. Owned'
    BY <2>1, Same DEF Inv
  <2>3. Phase'
    <3>1. \A ptrs : (Full(ptrs)' <=> Full(ptrs)) /\ (Clear(ptrs)' <=> Clear(ptrs))
      BY <2>1, Same DEF Inv
    <3>2. BySign' = BySign /\ Given' = Given
      BY <2>1 DEF BySign, Given
    <3> QED BY <2>1, <3>1, <3>2 DEF Inv, Phase, InSetup, InSign
  <2>4. Nonces'
    BY <2>1, Same DEF Inv, Nonces, SumKinv, Given
  <2>5. Signed'
    BY <2>1, Same DEF Inv, Signed
  <2> QED BY <2>1, <2>2, <2>3, <2>4, <2>5 DEF Inv, Asked
<1> QED
  BY <1>2, <1>3, <1>4, <1>5, <1>6, <1>7 DEF Next

(* In every state of signing and verifying the invariant holds: the pointers  *)
(* and the heap match, and what they hold is what the phase of the call says. *)
THEOREM InvHolds == Spec => []Inv
<1>1. Init => Inv
  BY InitInv
<1>2. Inv /\ [Next]_vars => Inv'
  BY NextInv
<1> QED
  BY <1>1, <1>2, PTL DEF Spec

LEMMA InvNothingLost == Inv => NothingLost
<1> SUFFICES ASSUME Inv PROVE NothingLost
  OBVIOUS
<1>1. ~fault /\ DOMAIN heap = {loc[q] : q \in Held} /\ \A p, q \in Held : loc[p] = loc[q] => p = q
  BY DEF Inv, Owned, Distinct
<1>2. loc["kept_kinv"] = NULL <=> loc["kept_r"] = NULL
  BY DEF Inv, Phase, Full, Clear, KeptPtrs
<1>3. ASSUME pc = "idle"
      PROVE  Held \subseteq Callers /\ (req.fn = "sign" => (ret = 1 <=> loc["sig"] # NULL))
  <2>1. Clear(SetupLocals) /\ Clear(SignLocals) /\ (Full(SigPtrs) \/ Clear(SigPtrs))
    BY <1>3 DEF Inv, Phase
  <2>2. Held \subseteq SigPtrs \cup KeptPtrs
    BY <2>1, Groups DEF Clear, Held
  <2>3. SigPtrs \cup KeptPtrs = Callers
    BY DEF SigPtrs, KeptPtrs, Callers
  <2>4. Full(SigPtrs) <=> loc["sig"] # NULL
    BY <2>1, NotBoth
  <2>5. req.fn = "sign" => (ret = 1 <=> Full(SigPtrs))
    BY <1>3 DEF Inv, Signed
  <2> QED BY <2>2, <2>3, <2>4, <2>5
<1> QED
  BY <1>1, <1>2, <1>3 DEF NothingLost

LEMMA InvSignaturesCorrect == Inv => SignaturesCorrect
<1> SUFFICES ASSUME Inv PROVE SignaturesCorrect
  OBVIOUS
<1>1. pc = "idle" /\ req.fn = "sign" /\ ret = 1 =>
        Correct(PrivKey, Leading(req.dgst), heap[loc["sig_r"]], heap[loc["sig_s"]])
  BY DEF Inv, Signed, Val
<1>2. loc["kept_kinv"] # NULL => IsNonce(heap[loc["kept_kinv"]], heap[loc["kept_r"]])
  BY NotBoth DEF Inv, Phase, Nonces, Val
<1>3. pc = "invert" => BN_num_bits(heap[loc["k"]]) = OrderBits + 1
  <2> SUFFICES ASSUME pc = "invert" PROVE BN_num_bits(heap[loc["k"]]) = OrderBits + 1
    OBVIOUS
  <2>1. PICK k \in 1 .. Order - 1 : heap[loc["k"]] = FixedLength(k)
    BY DEF Inv, Nonces, Val
  <2> QED BY <2>1, NonceFixed
<1>4. loc["kept_kinv"] # NULL =>
        \E k \in 1 .. Order - 1 :
          /\ heap[loc["kept_kinv"]] = Invert(k)
          /\ heap[loc["kept_r"]] = NonceX(k) /\ NonceX(k) # 0
  BY <1>2 DEF IsNonce
<1> QED
  BY <1>1, <1>3, <1>4 DEF SignaturesCorrect

LEMMA InvVerdictsRight == Inv => VerdictsRight
<1> SUFFICES ASSUME Inv, req.fn = "verify" PROVE VerdictsRight
  BY DEF VerdictsRight
<1> DEFINE right == Correct(PrivKey, Leading(req.dgst), req.sig[1], req.sig[2])
           infinite == LeadsToInfinity(req.dgst, req.sig[1], req.sig[2])
<1>1. /\ req.dgst \in Digests /\ req.failure \in Failures
      /\ ret = Verdict(req.dgst, req.sig, req.form, req.failure)
  BY DEF Inv, Asked
<1>2. /\ ret = 1 <=> right /\ req.form = "der" /\ req.failure = "none"
      /\ req.form = "der" /\ req.failure = "none" /\ ~right => ret = IF infinite THEN -1 ELSE 0
      /\ req.form # "der" \/ req.failure = "no_memory" => ret = -1
  BY <1>1, VerdictIsRight
<1> QED
  BY <1>2 DEF VerdictsRight

(* Whatever order calls come in and wherever they fail, no object is lost, is *)
(* freed twice or is reached by two pointers, and between calls only what the *)
(* caller was given is left (ecs_ossl.c:215-247, 347-362).                    *)
THEOREM HeapKept == Spec => []NothingLost
<1> QED
  BY InvHolds, InvNothingLost, PTL

(* Every signature returned is one of the leading bits of the digest, for     *)
(* every nonce the loops end with, drawn or given (ecs_ossl.c:131-213, 283-341). *)
THEOREM SignsCorrectly == Spec => []SignaturesCorrect
<1> QED
  BY InvHolds, InvSignaturesCorrect, PTL

(* Verification accepts the correct signatures in their own encoding and no   *)
(* others, says 0 of an incorrect one, or -1 where its equation leads to      *)
(* infinity, and -1 of octets that are not the encoding of their signature    *)
(* and without memory (ecs_vrf.c:71-112, ecs_ossl.c:365-478).                 *)
THEOREM VerifiesCorrectly == Spec => []VerdictsRight
<1> QED
  BY InvHolds, InvVerdictsRight, PTL
===============================================================================
