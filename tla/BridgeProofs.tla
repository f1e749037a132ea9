---------------------------- MODULE BridgeProofs -----------------------------
(* Proofs, for every choice of the constants, of the type invariant and of   *)
(* the safety properties of the bridge: those that relate its loops to its   *)
(* results, then what its host may rely on, the views it takes of a stack,   *)
(* its handles and listings, and that its answers are those of               *)
(* ScriptService.                                                            *)
EXTENDS BridgeProps, Arithmetic, SequenceTheorems, FiniteSetTheorems, TLAPS

-----------------------------------------------------------------------------
(* What the byte-level operators return. *)

LEMMA ByteOfNat ==
  ASSUME NEW n \in Nat
  PROVE  n % 256 \in 0..255 /\ n % 256 <= n
OBVIOUS

(* The size of a push is a number when its bytes are there.                  *)
LEMMA SizeType ==
  ASSUME NEW s \in Data, NEW at \in 0..(Len(s) - 1),
         at + 1 + SizeWidth(s[at+1]) <= Len(s)
  PROVE  (IF SizeWidth(s[at+1]) = 0 THEN s[at+1]
          ELSE PushSize(s, at + 1, SizeWidth(s[at+1]))) \in Nat
<1> DEFINE op    == s[at+1]
           width == SizeWidth(op)
           body  == at + 1 + width
           size  == IF width = 0 THEN op ELSE PushSize(s, at + 1, width)
<1>1. /\ Len(s) \in Nat /\ at + 1 \in 1..Len(s) /\ at \in Nat
      /\ \A k \in 1..Len(s) : s[k] \in Byte
  BY LenProperties, ElementOfSeq DEF Data
<1>0. \A b \in Byte : b \in Nat
  BY DEF Byte
<1>2. op \in Byte /\ op \in Nat
  BY <1>1, <1>0
<1>3. width \in {0, 1, 2, 4}
  BY DEF SizeWidth
<1>4. body <= Len(s)
  OBVIOUS
<1> HIDE DEF op, width
<1>5. size \in Nat
  <2>1. ASSUME width = 1 PROVE PushSize(s, at + 1, width) \in Nat \/ body > Len(s)
    <3>1. PushSize(s, at + 1, width) = s[at+2]
      BY <1>1, <2>1 DEF PushSize
    <3> QED BY <3>1, <2>1, <1>1, <1>0
  <2>2. ASSUME width = 2 PROVE PushSize(s, at + 1, width) \in Nat \/ body > Len(s)
    <3>1. PushSize(s, at + 1, width) = s[at+2] + 256 * s[at+3]
      BY <1>1, <2>2 DEF PushSize
    <3> QED BY <3>1, <2>2, <1>1, <1>0
  <2>3. ASSUME width = 4 PROVE PushSize(s, at + 1, width) \in Nat \/ body > Len(s)
    <3>1. PushSize(s, at + 1, width)
            = s[at+2] + 256 * s[at+3] + 65536 * s[at+4] + 16777216 * s[at+5]
      BY <1>1, <2>3, SMTT(30) DEF PushSize
    <3>2. CASE body <= Len(s)
      <4>1. s[at+2] \in Nat /\ s[at+3] \in Nat /\ s[at+4] \in Nat /\ s[at+5] \in Nat
        BY <3>2, <2>3, <1>1, <1>0
      <4>2. \A x1, x2, x3, x4 \in Nat : x1 + 256 * x2 + 65536 * x3 + 16777216 * x4 \in Nat
        OBVIOUS
      <4> DEFINE x1 == s[at+2]  x2 == s[at+3]  x3 == s[at+4]  x4 == s[at+5]
      <4>3. PushSize(s, at + 1, width) = x1 + 256 * x2 + 65536 * x3 + 16777216 * x4
        BY <3>1
      <4>4. x1 \in Nat /\ x2 \in Nat /\ x3 \in Nat /\ x4 \in Nat
        BY <4>1
      <4> HIDE DEF x1, x2, x3, x4
      <4>5. PushSize(s, at + 1, width) \in Nat
        BY <4>2, <4>3, <4>4
      <4> QED BY <4>5
    <3> QED BY <3>2, <2>3, <1>1
  <2> QED BY <2>1, <2>2, <2>3, <1>1, <1>2, <1>3, <1>4
<1> QED BY <1>5 DEF op, width

(* A successful or failing GetOp moves the iterator forward, never past the  *)
(* end of the script, and its opcode and data are bytes of it.               *)
LEMMA GetOpMoves ==
  ASSUME NEW s \in Data, NEW at \in 0..(Len(s) - 1)
  PROVE  /\ GetOp(s, at).next \in (at + 1)..Len(s)
         /\ GetOp(s, at).ok \in BOOLEAN
         /\ GetOp(s, at).op \in Byte
         /\ GetOp(s, at).data \in Data
<1> DEFINE op    == s[at+1]
           width == SizeWidth(op)
           body  == at + 1 + width
           size  == IF width = 0 THEN op ELSE PushSize(s, at + 1, width)
<1>1. /\ Len(s) \in Nat /\ at + 1 \in 1..Len(s) /\ at \in Nat
      /\ \A k \in 1..Len(s) : s[k] \in Byte
  BY LenProperties, ElementOfSeq DEF Data
<1>0. \A b \in Byte : b \in Nat
  BY DEF Byte
<1>2. op \in Byte /\ op \in Nat
  BY <1>1, <1>0
<1>3. width \in {0, 1, 2, 4}
  BY DEF SizeWidth
<1>4. GetOp(s, at) =
        IF op > OP_PUSHDATA4 THEN [ok |-> TRUE, op |-> op, data |-> <<>>, next |-> at + 1]
        ELSE IF body > Len(s) THEN [ok |-> FALSE, op |-> op, data |-> <<>>, next |-> at + 1]
        ELSE IF size > Len(s) - body THEN [ok |-> FALSE, op |-> op, data |-> <<>>, next |-> body]
        ELSE [ok |-> TRUE, op |-> op, data |-> SubSeq(s, body + 1, body + size),
              next |-> body + size]
  BY DEF GetOp
<1> HIDE DEF op, width
<1>5. body <= Len(s) => size \in Nat
  BY SizeType DEF op, width
<1>6. <<>> \in Data
  BY EmptySeq DEF Data
<1> HIDE DEF size
<1>7. body <= Len(s) /\ size <= Len(s) - body => SubSeq(s, body + 1, body + size) \in Data
  <2> SUFFICES ASSUME body <= Len(s), size <= Len(s) - body
               PROVE  SubSeq(s, body + 1, body + size) \in Seq(Byte)
    BY DEF Data
  <2>1. body + 1 \in Int /\ body + size \in Int
    BY <1>1, <1>3, <1>5
  <2>2. \A k \in (body + 1)..(body + size) : s[k] \in Byte
    BY <1>1, <1>3, <1>5
  <2> QED BY <2>1, <2>2, SubSeqProperties
<1> QED BY <1>1, <1>2, <1>3, <1>4, <1>5, <1>6, <1>7

LEMMA SubSeqFrom2 ==
  ASSUME NEW S_, NEW q, NEW n \in Nat, \A k \in 2..(n + 1) : q[k] \in S_
  PROVE  /\ SubSeq(q, 2, n + 1) \in Seq(S_)
         /\ Len(SubSeq(q, 2, n + 1)) = n
         /\ \A k \in 1..n : SubSeq(q, 2, n + 1)[k] = q[k + 1]
<1> DEFINE m == n + 1
<1>1. m \in Int /\ 2 \in Int
  OBVIOUS
<1>2. \A k \in 2..m : q[k] \in S_
  OBVIOUS
<1> HIDE DEF m
<1>3. /\ SubSeq(q, 2, m) \in Seq(S_)
      /\ Len(SubSeq(q, 2, m)) = IF 2 <= m THEN m - 2 + 1 ELSE 0
      /\ \A k \in 1..(m - 2 + 1) : SubSeq(q, 2, m)[k] = q[2 + k - 1]
  BY <1>1, <1>2, SubSeqProperties
<1>4. /\ SubSeq(q, 2, m) \in Seq(S_)
      /\ Len(SubSeq(q, 2, m)) = n
      /\ \A k \in 1..n : SubSeq(q, 2, m)[k] = q[k + 1]
  <2>1. m = n + 1
    BY DEF m
  <2>2. ASSUME NEW k \in 1..n PROVE SubSeq(q, 2, m)[k] = q[k + 1]
    <3>1. k \in 1..(m - 2 + 1) /\ 2 + k - 1 = k + 1
      BY <2>1
    <3> QED BY <1>3, <3>1
  <2> QED BY <1>3, <2>1, <2>2
<1> QED BY <1>4 DEF m

(* A row is made of the bytes it shows, its length byte and one byte nobody  *)
(* writes; after the length come the first Len(d) % 256 bytes of d.          *)
LEMMA RowShape ==
  ASSUME NEW d \in Data
  PROVE  /\ SizedRow(d) \in Rows
         /\ SizedRow(d)[1] = Len(d) % 256
         /\ Len(SizedRow(d)) = (Len(d) % 256) + 2
         /\ SubSeq(SizedRow(d), 2, (Len(d) % 256) + 1) = SubSeq(d, 1, Len(d) % 256)
<1> DEFINE n    == Len(d) % 256
           B    == {Unwritten} \cup Byte
           body == SubSeq(d, 1, n)
<1>1. n \in 0..255 /\ n <= Len(d) /\ Len(d) \in Nat
  <2>1. Len(d) \in Nat
    BY LenProperties DEF Data
  <2> QED BY <2>1, ByteOfNat
<1>2. \A k \in 1..n : d[k] \in B
  BY <1>1, ElementOfSeq DEF Data
<1> HIDE DEF n
<1>3. body \in Seq(B) /\ Len(body) = n /\ \A k \in 1..n : body[k] = d[k]
  <2>1. 1 \in Int /\ n \in Int
    BY <1>1
  <2> HIDE DEF B
  <2>2. /\ body \in Seq(B)
        /\ Len(body) = IF 1 <= n THEN n - 1 + 1 ELSE 0
        /\ \A k \in 1..(n - 1 + 1) : body[k] = d[1 + k - 1]
    BY <2>1, <1>2, SubSeqProperties
  <2> QED BY <2>2, <1>1
<1>4. <<n>> \in Seq(B) /\ <<Unwritten>> \in Seq(B)
  BY <1>1 DEF Byte
<1>5. SizedRow(d) = (<<n>> \o body) \o <<Unwritten>>
  BY DEF SizedRow, n
<1> DEFINE front == <<n>> \o body
<1> HIDE DEF B, body
<1>6. /\ front \in Seq(B) /\ Len(front) = n + 1
      /\ \A k \in 1..(n + 1) : front[k] = IF k <= 1 THEN <<n>>[k] ELSE body[k - 1]
  BY <1>1, <1>3, <1>4, ConcatProperties
<1> HIDE DEF front
<1>7. /\ SizedRow(d) \in Seq(B) /\ Len(SizedRow(d)) = n + 2
      /\ \A k \in 1..(n + 1) : SizedRow(d)[k] = front[k]
  <2>1. SizedRow(d) = front \o <<Unwritten>>
    BY <1>5 DEF front
  <2> QED BY <2>1, <1>1, <1>4, <1>6, ConcatProperties
<1>8. \A k \in 2..(n + 1) : SizedRow(d)[k] = d[k - 1]
  <2> SUFFICES ASSUME NEW k \in 2..(n + 1) PROVE SizedRow(d)[k] = d[k - 1]
    OBVIOUS
  <2>1. SizedRow(d)[k] = front[k] /\ front[k] = body[k - 1]
    BY <1>1, <1>6, <1>7
  <2> QED BY <2>1, <1>1, <1>3
<1> DEFINE row  == SizedRow(d)
           part == SubSeq(row, 2, n + 1)
<1>9. part = body
  <2>1. n \in Nat
    BY <1>1
  <2>2. \A k \in 2..(n + 1) : row[k] \in B
    <3> SUFFICES ASSUME NEW k \in 2..(n + 1) PROVE row[k] \in B
      OBVIOUS
    <3>1. k - 1 \in 1..n
      BY <1>1
    <3> QED BY <3>1, <1>2, <1>8
  <2> HIDE DEF row
  <2>3. part \in Seq(B) /\ Len(part) = n /\ \A k \in 1..n : part[k] = row[k + 1]
    BY <2>1, <2>2, SubSeqFrom2
  <2>4. \A k \in 1..n : part[k] = body[k]
    <3> SUFFICES ASSUME NEW k \in 1..n PROVE part[k] = body[k]
      OBVIOUS
    <3>1. k + 1 \in 2..(n + 1) /\ (k + 1) - 1 = k
      BY <1>1
    <3> QED BY <3>1, <2>3, <1>3, <1>8 DEF row
  <2> HIDE DEF part
  <2> QED BY <2>3, <2>4, <1>3, SeqEqual
<1>10. SizedRow(d)[1] = n
  BY <1>1, <1>6, <1>7
<1> QED BY <1>7, <1>9, <1>10 DEF n, B, body, Rows

-----------------------------------------------------------------------------
(* What encodeOp makes of a token, and how GetOp reads it back. *)

(* The value of digits is a number; of two digits it is one byte.            *)
LEMMA HexValueType ==
  ASSUME NEW ds \in Seq(0..15)
  PROVE  HexValue(ds) \in Nat /\ (Len(ds) <= 2 => HexValue(ds) \in Byte)
<1> DEFINE n == Len(ds)
           next(k, x) == 16 * x + IF k \in 1..n THEN ds[k] ELSE 0
           g == [p \in (Nat \ {0}) \X Nat |-> next(p[1], p[2])]
           Body(v) == [k \in 0..Len(ds) |-> IF k = 0 THEN 0 ELSE 16 * v[k-1] + ds[k]]
           value == CHOOSE v : v = Body(v)
<1>1. n \in Nat /\ \A k \in 1..n : ds[k] \in 0..15
  BY LenProperties, ElementOfSeq
<1>2. ASSUME NEW k \in Nat \ {0}, NEW x \in Nat
      PROVE  next(k, x) \in Nat
  <2>1. (IF k \in 1..n THEN ds[k] ELSE 0) \in Nat
    BY <1>1
  <2>2. 16 * x \in Nat
    OBVIOUS
  <2> QED BY <2>1, <2>2
<1> HIDE DEF next
<1>3. Makes(g, Nat)
  <2>1. \A p \in (Nat \ {0}) \X Nat : next(p[1], p[2]) \in Nat
    BY <1>2
  <2> QED BY <2>1 DEF Makes
<1>4. \A k \in Nat \ {0}, x \in Nat : g[<<k, x>>] = next(k, x)
  OBVIOUS
<1> DEFINE zero == 0
<1>5. zero \in Nat
  OBVIOUS
<1> HIDE DEF g, zero
<1>6. PICK f \in [0..n -> Nat] : Builds(f, n, zero, g)
  <2> HIDE DEF n
  <2> QED BY <1>1, <1>3, <1>5, Built
<1>7. ASSUME NEW k \in 1..n
      PROVE  f[k] = 16 * f[k-1] + ds[k]
  <2>1. k \in Nat \ {0} /\ f[k-1] \in Nat
    BY <1>1
  <2>2. f[k] = g[<<k, f[k-1]>>]
    BY <1>6 DEF Builds
  <2>3. f[k] = next(k, f[k-1])
    BY <2>1, <2>2, <1>4
  <2> QED BY <2>3 DEF next
<1>8. f[0] = 0
  BY <1>6 DEF Builds, zero
<1>9. f = Body(f)
  <2>1. \A k \in 0..n : f[k] = IF k = 0 THEN 0 ELSE 16 * f[k-1] + ds[k]
    BY <1>7, <1>8, <1>1
  <2> QED BY <2>1
<1>10. HexValue(ds) = value[n]
  BY DEF HexValue
<1>11. value = Body(value)
  <2> HIDE DEF Body
  <2> QED BY <1>9
<1> HIDE DEF value
<1>12. /\ value[0] = 0
       /\ \A k \in 1..n : value[k] = 16 * value[k-1] + ds[k]
  <2>1. \A k \in 0..n : value[k] = IF k = 0 THEN 0 ELSE 16 * value[k-1] + ds[k]
    BY <1>11
  <2>2. \A k \in 1..n : k \in 0..n /\ k # 0
    BY <1>1
  <2> QED BY <2>1, <2>2, <1>1
<1>13. \A k \in Nat : k <= n => value[k] \in Nat
  <2> DEFINE S_ == {k \in Nat : k <= n => value[k] \in Nat}
  <2>1. 0 \in S_
    BY <1>12
  <2>2. ASSUME NEW k \in Nat, k \in S_ PROVE k + 1 \in S_
    <3> SUFFICES ASSUME k + 1 <= n PROVE value[k + 1] \in Nat
      OBVIOUS
    <3>1. k + 1 \in 1..n /\ (k + 1) - 1 = k /\ value[k] \in Nat /\ ds[k + 1] \in 0..15
      BY <1>1, <2>2
    <3>2. value[k + 1] = 16 * value[k] + ds[k + 1]
      <4>1. value[k + 1] = 16 * value[(k + 1) - 1] + ds[k + 1]
        BY <3>1, <1>12
      <4> QED BY <3>1, <4>1
    <3>3. \A x \in Nat, y \in 0..15 : 16 * x + y \in Nat
      OBVIOUS
    <3> QED BY <3>1, <3>2, <3>3, Zenon
  <2> HIDE DEF S_
  <2>3. Nat \subseteq S_
    BY <2>1, <2>2, SetInduction
  <2> QED BY <2>3 DEF S_
<1>14. n <= 2 => value[n] \in 0..255
  <2>1. CASE n = 0
    BY <2>1, <1>12
  <2>2. CASE n = 1
    <3>1. 1 \in 1..n /\ value[1] = 16 * value[1 - 1] + ds[1] /\ ds[1] \in 0..15
      BY <2>2, <1>12, <1>1
    <3>2. value[1] = ds[1]
      BY <3>1, <1>12
    <3> QED BY <3>1, <3>2, <2>2
  <2>3. CASE n = 2
    <3>1. value[1] = 16 * value[1 - 1] + ds[1] /\ value[2] = 16 * value[2 - 1] + ds[2]
          /\ ds[1] \in 0..15 /\ ds[2] \in 0..15
      BY <2>3, <1>12, <1>1
    <3>2. value[1] = ds[1]
      BY <3>1, <1>12
    <3>3. value[2] = 16 * value[1] + ds[2]
      BY <3>1
    <3>4. \A x, y \in 0..15 : 16 * x + y \in 0..255
      OBVIOUS
    <3>5. value[1] \in 0..15 /\ ds[2] \in 0..15
      BY <3>1, <3>2
    <3>6. 16 * value[1] + ds[2] \in 0..255
      BY <3>4, <3>5, Zenon
    <3>7. value[2] \in 0..255
      BY <3>3, <3>6, Zenon
    <3> QED BY <3>7, <2>3, Zenon
  <2>4. n <= 2 => n = 0 \/ n = 1 \/ n = 2
    BY <1>1
  <2> HIDE DEF n
  <2> QED BY <2>1, <2>2, <2>3, <2>4
<1>15. value[n] \in Nat
  BY <1>1, <1>13
<1> HIDE DEF value
<1> QED
  BY <1>10, <1>14, <1>15, Zenon DEF Byte

LEMMA MadeOf ==
  ASSUME NEW S_, NEW n \in Nat, NEW q, q \in [1..n -> S_]
  PROVE  q \in Seq(S_) /\ Len(q) = n
<1>1. q \in Seq(S_)
  BY SeqDef
<1>2. DOMAIN q = 1..n
  OBVIOUS
<1> QED BY <1>1, <1>2, LenProperties

LEMMA LittleEndianType ==
  ASSUME NEW n \in Nat, NEW width \in Nat
  PROVE  /\ LittleEndian(n, width) \in Data /\ Len(LittleEndian(n, width)) = width
         /\ \A k \in 1..width : LittleEndian(n, width)[k] = (n \div Pow2[8 * (k - 1)]) % 256
<1>1. ASSUME NEW k \in 1..width PROVE (n \div Pow2[8 * (k - 1)]) % 256 \in Byte
  <2> DEFINE p == Pow2[8 * (k - 1)]
             q == n \div p
  <2>1. p \in Nat \ {0}
    <3> DEFINE e == 8 * (k - 1)
    <3>1. e \in Nat
      OBVIOUS
    <3> HIDE DEF e
    <3>2. Pow2[e] \in Nat \ {0}
      BY <3>1, Pow2Type
    <3> QED BY <3>2 DEF e
  <2> HIDE DEF p
  <2>2. q \in Int
    BY <2>1, DivMod
  <2> HIDE DEF q
  <2>3. q % 256 \in 0..255
    BY <2>2
  <2> QED BY <2>3 DEF q, p, Byte
<1>2. LittleEndian(n, width) \in [1..width -> Byte]
  BY <1>1 DEF LittleEndian
<1> QED BY <1>2, MadeOf DEF LittleEndian, Data

LEMMA OpcodeType ==
  ASSUME NEW name
  PROVE  opStringToOpCode(name) \in Byte
<1> DEFINE hits == {op \in Byte : GetOpName(op) = name}
<1>1. CASE hits = {}
  BY <1>1 DEF opStringToOpCode, OP_INVALIDOPCODE, Byte
<1>2. CASE hits # {}
  <2>1. opStringToOpCode(name) = Min(hits)
    BY <1>2 DEF opStringToOpCode
  <2>2. hits \subseteq Nat /\ hits \subseteq Byte
    BY DEF Byte
  <2> HIDE DEF hits
  <2>3. \E a \in hits : \A b \in hits : a <= b
    BY <1>2, <2>2, LeastNumber
  <2>4. Min(hits) \in hits
    BY <2>3 DEF Min
  <2> QED BY <2>1, <2>2, <2>4
<1> QED BY <1>1, <1>2

(* A script number is at most five bytes long.                               *)
LEMMA ScriptNumType ==
  ASSUME NEW v \in Int
  PROVE  ScriptNum(v) \in Data /\ Len(ScriptNum(v)) \in 0..5
<1> DEFINE m     == IF v < 0 THEN -v ELSE v
           Fits(k) == (k < 4 => m < Pow2[8 * k]) /\ (k > 0 => m >= Pow2[8 * (k - 1)])
           width == CHOOSE k \in 0..4 : Fits(k)
           body  == LittleEndian(m, width)
           sign  == IF v < 0 THEN 128 ELSE 0
<1>1. m \in Nat /\ sign \in {0, 128}
  OBVIOUS
<1> HIDE DEF m, sign
<1>2. width \in 0..4
  <2> DEFINE T == {k \in 0..4 : k < 4 => m < Pow2[8 * k]}
  <2>1. 4 \in T /\ T \subseteq Nat
    OBVIOUS
  <2>2. PICK a \in T : \A b \in T : a <= b
    <3> HIDE DEF T
    <3> QED BY <2>1, LeastNumber
  <2>3. a \in 0..4 /\ (a < 4 => m < Pow2[8 * a])
    OBVIOUS
  <2>4. a > 0 => m >= Pow2[8 * (a - 1)]
    <3> SUFFICES ASSUME a > 0 PROVE m >= Pow2[8 * (a - 1)]
      OBVIOUS
    <3> DEFINE b == a - 1
               p == Pow2[8 * b]
    <3>1. b \in 0..3 /\ b < a
      BY <2>3
    <3>2. b \notin T
      BY <2>2, <2>3, <3>1
    <3>3. ~(m < p)
      BY <3>1, <3>2
    <3>4. p \in Nat
      <4> DEFINE e == 8 * b
      <4>1. e \in Nat
        BY <3>1
      <4> HIDE DEF e
      <4>2. Pow2[e] \in Nat
        BY <4>1, Pow2Type
      <4> QED BY <4>2 DEF e
    <3> HIDE DEF p
    <3>5. m >= p
      BY <3>3, <3>4, <1>1
    <3> QED BY <3>5 DEF p
  <2>5. Fits(a)
    BY <2>3, <2>4
  <2> HIDE DEF Fits
  <2>6. \E k \in 0..4 : Fits(k)
    BY <2>3, <2>5
  <2> QED BY <2>6
<1>3. ScriptNum(v) = IF width = 0 THEN <<>>
                     ELSE IF body[width] >= 128 THEN Append(body, sign)
                     ELSE [body EXCEPT ![width] = @ + sign]
  BY DEF ScriptNum, m, sign
<1> HIDE DEF width
<1>4. body \in Seq(Byte) /\ Len(body) = width /\ width \in Nat
  BY <1>1, <1>2, LittleEndianType DEF Data
<1> HIDE DEF body
<1>5. CASE width = 0
  BY <1>3, <1>5, EmptySeq DEF Data
<1>6. CASE width # 0 /\ body[width] >= 128
  <2>1. sign \in Byte
    BY <1>1 DEF Byte
  <2> DEFINE long == Append(body, sign)
  <2>2. long \in Seq(Byte) /\ Len(long) = width + 1
    BY <1>4, <2>1, AppendProperties
  <2> HIDE DEF long
  <2>3. ScriptNum(v) = long
    BY <1>3, <1>6 DEF long
  <2> QED BY <1>2, <2>2, <2>3 DEF Data
<1>7. CASE width # 0 /\ ~(body[width] >= 128)
  <2>1. width \in 1..Len(body)
    BY <1>2, <1>4, <1>7
  <2>2. body[width] \in Byte
    BY <2>1, <1>4, ElementOfSeq
  <2> DEFINE top == body[width] + sign
             q == [body EXCEPT ![width] = top]
  <2>3. top \in Byte
    BY <2>2, <1>1, <1>7 DEF Byte
  <2>4. ScriptNum(v) = q
    BY <1>3, <1>7
  <2> HIDE DEF top
  <2>5. q \in Seq(Byte) /\ Len(q) = width
    BY <2>1, <2>3, <1>4, ExceptSeq
  <2> QED BY <2>4, <2>5, <1>2 DEF Data
<1> QED BY <1>5, <1>6, <1>7

LEMMA HexBytesType ==
  ASSUME NEW ds \in Seq(0..15)
  PROVE  HexBytes(ds) \in Data /\ Len(HexBytes(ds)) = (Len(ds) + 1) \div 2
<1> DEFINE n == (Len(ds) + 1) \div 2
<1>1. Len(ds) \in Nat /\ n \in Nat /\ 2 * n <= Len(ds) + 1
  BY LenProperties
<1>2. ASSUME NEW k \in 1..n
      PROVE  HexValue(SubSeq(ds, 2*k - 1, IF 2*k <= Len(ds) THEN 2*k ELSE Len(ds))) \in Byte
  <2> DEFINE lo == 2*k - 1
             hi == IF 2*k <= Len(ds) THEN 2*k ELSE Len(ds)
             pair == SubSeq(ds, lo, hi)
  <2>1. lo \in 1..Len(ds) /\ hi \in 1..Len(ds) /\ lo <= hi /\ hi <= lo + 1
    BY <1>1
  <2>2. \A j \in lo..hi : ds[j] \in 0..15
    <3> SUFFICES ASSUME NEW j \in lo..hi PROVE ds[j] \in 0..15
      OBVIOUS
    <3>1. j \in 1..Len(ds)
      BY <2>1, <1>1
    <3> QED BY <3>1, ElementOfSeq
  <2> DEFINE D == 0..15
  <2>3. lo \in Int /\ hi \in Int /\ \A j \in lo..hi : ds[j] \in D
    BY <2>1, <2>2, <1>1
  <2> HIDE DEF lo, hi, D
  <2>4. pair \in Seq(D) /\ Len(pair) = IF lo <= hi THEN hi - lo + 1 ELSE 0
    BY <2>3, SubSeqProperties
  <2>5. Len(pair) <= 2
    BY <2>1, <2>3, <2>4
  <2> HIDE DEF pair
  <2>6. HexValue(pair) \in Byte
    BY <2>4, <2>5, HexValueType DEF D
  <2> QED BY <2>6 DEF pair, lo, hi
<1> HIDE DEF n
<1>3. HexBytes(ds) \in [1..n -> Byte]
  BY <1>2 DEF HexBytes, n
<1> QED BY <1>1, <1>3, MadeOf DEF n, Data

-----------------------------------------------------------------------------
(* A piece of script that GetOp reads as one operation.                      *)
OneOp(b) ==
  /\ b \in Data /\ Len(b) > 0
  /\ GetOp(b, 0).ok /\ GetOp(b, 0).next = Len(b)

SizeIn(h) == IF SizeWidth(h[1]) = 0 THEN h[1] ELSE PushSize(h, 1, SizeWidth(h[1]))

LEMMA HeaderAndData ==
  ASSUME NEW h \in Data, NEW d \in Data,
         Len(h) = 1 + SizeWidth(h[1]), h[1] <= OP_PUSHDATA4, SizeIn(h) = Len(d)
  PROVE  OneOp(h \o d)
<1> DEFINE b == h \o d
           width == SizeWidth(h[1])
           n == Len(d)
           size == IF width = 0 THEN b[1] ELSE PushSize(b, 1, width)
<1>1. width \in {0, 1, 2, 4} /\ Len(h) = 1 + width /\ n \in Nat
  BY LenProperties DEF SizeWidth, Data
<1>2. b \in Data /\ Len(b) = 1 + width + n /\ \A k \in 1..(1 + width) : b[k] = h[k]
  <2>1. /\ b \in Seq(Byte) /\ Len(b) = Len(h) + n
        /\ \A k \in 1..(Len(h) + n) : b[k] = IF k <= Len(h) THEN h[k] ELSE d[k - Len(h)]
    BY ConcatProperties DEF Data
  <2> HIDE DEF b, width, n
  <2> QED BY <2>1, <1>1 DEF Data
<1> HIDE DEF b, n
<1>3. b[1] = h[1] /\ SizeWidth(b[1]) = width
  BY <1>1, <1>2
<1>4. h[1] \in Byte
  <2>1. 1 \in 1..Len(h)
    BY <1>1
  <2> QED BY <2>1, ElementOfSeq DEF Data
<1>5. size = n
  <2>1. CASE width = 0
    BY <2>1, <1>3 DEF SizeIn, n
  <2>2. CASE width # 0
    <3>1. PushSize(b, 1, width) = PushSize(h, 1, width)
      <4>1. CASE width = 1
        BY <4>1, <1>2 DEF PushSize
      <4>2. CASE width = 2
        BY <4>2, <1>2 DEF PushSize
      <4>3. CASE width = 4
        BY <4>3, <1>2 DEF PushSize
      <4> QED BY <4>1, <4>2, <4>3, <2>2, <1>1
    <3>2. SizeIn(h) = PushSize(h, 1, width)
      BY <2>2 DEF SizeIn
    <3> QED BY <2>2, <3>1, <3>2 DEF n
  <2> QED BY <2>1, <2>2
<1>6. GetOp(b, 0) =
        IF b[0+1] > OP_PUSHDATA4 THEN [ok |-> TRUE, op |-> b[0+1], data |-> <<>>, next |-> 0 + 1]
        ELSE IF 0 + 1 + width > Len(b)
             THEN [ok |-> FALSE, op |-> b[0+1], data |-> <<>>, next |-> 0 + 1]
        ELSE IF size > Len(b) - (0 + 1 + width)
             THEN [ok |-> FALSE, op |-> b[0+1], data |-> <<>>, next |-> 0 + 1 + width]
        ELSE [ok |-> TRUE, op |-> b[0+1], data |-> SubSeq(b, 0 + 1 + width + 1, 0 + 1 + width + size),
              next |-> 0 + 1 + width + size]
  <2>1. 0 + 1 = 1
    OBVIOUS
  <2> QED BY <2>1, <1>3 DEF GetOp
<1> HIDE DEF size, width
<1>7. GetOp(b, 0).ok /\ GetOp(b, 0).next = 1 + width + n
  <2>1. ~(b[0+1] > OP_PUSHDATA4)
    <3>1. b[0+1] = b[1]
      OBVIOUS
    <3>2. b[0+1] <= OP_PUSHDATA4 /\ b[0+1] \in 0..255
      BY <3>1, <1>3, <1>4 DEF Byte
    <3>3. \A x \in 0..255 : x <= 78 => ~(x > 78)
      OBVIOUS
    <3> QED BY <3>2, <3>3, Zenon DEF OP_PUSHDATA4
  <2>2. ~(0 + 1 + width > Len(b)) /\ ~(size > Len(b) - (0 + 1 + width))
        /\ 0 + 1 + width + size = 1 + width + n
    BY <1>1, <1>2, <1>5
  <2> QED BY <1>6, <2>1, <2>2
<1> QED BY <1>1, <1>2, <1>7 DEF OneOp, b

Spells(h, n) ==
  \A k \in 1..4 : k + 1 <= Len(h) => h[k + 1] = (n \div Pow2[8 * (k - 1)]) % 256

(* The header of a push: an opcode and the size it has room for.             *)
LEMMA HeaderType ==
  ASSUME NEW n \in Nat, NEW op \in Byte
  PROVE  /\ PushHeader(op, n) \in Data /\ Len(PushHeader(op, n)) = 1 + SizeWidth(op)
         /\ PushHeader(op, n)[1] = op /\ Spells(PushHeader(op, n), n)
<1> DEFINE w == SizeWidth(op)
           l == LittleEndian(n, w)
           o == <<op>>
           h == o \o l
<1>0. w \in Nat
  BY DEF SizeWidth
<1> HIDE DEF w
<1>1. l \in Seq(Byte) /\ Len(l) = w
  BY <1>0, LittleEndianType DEF Data
<1>2. \A k \in 1..w : l[k] = (n \div Pow2[8 * (k - 1)]) % 256
  BY <1>0, LittleEndianType
<1>3. o \in Seq(Byte) /\ Len(o) = 1 /\ o[1] = op
  OBVIOUS
<1> HIDE DEF l, o
<1>4. /\ h \in Seq(Byte) /\ Len(h) = Len(o) + Len(l)
      /\ \A k \in 1..(Len(o) + Len(l)) : h[k] = IF k <= Len(o) THEN o[k] ELSE l[k - Len(o)]
  BY <1>1, <1>3, ConcatProperties
<1> HIDE DEF h
<1>5. h \in Data /\ Len(h) = 1 + w /\ h[1] = op
  BY <1>0, <1>1, <1>3, <1>4 DEF Data
<1>6. ASSUME NEW k \in 1..4, k + 1 <= Len(h)
      PROVE  h[k + 1] = (n \div Pow2[8 * (k - 1)]) % 256
  <2>1. k + 1 \in 1..(1 + w) /\ ~(k + 1 <= 1) /\ (k + 1) - 1 = k /\ k \in 1..w
    BY <1>0, <1>5, <1>6
  <2>2. h[k + 1] = l[k]
    BY <2>1, <1>1, <1>3, <1>4
  <2> QED BY <2>1, <2>2, <1>2
<1>7. PushHeader(op, n) = h
  BY DEF PushHeader, h, o, l, w
<1>8. Spells(h, n)
  BY <1>6 DEF Spells
<1> QED BY <1>5, <1>7, <1>8 DEF w

LEMMA Powers256 ==
  Pow2[0] = 1 /\ Pow2[8] = 256 /\ Pow2[16] = 65536 /\ Pow2[24] = 16777216
<1>1. \A x \in Nat : Pow2[x + 1] = 2 * Pow2[x]
  BY Pow2Def
<1>2. Pow2[0] = 1
  BY Pow2Def
<1>3. Pow2[1] = 2 /\ Pow2[2] = 4 /\ Pow2[3] = 8 /\ Pow2[4] = 16
  <2>1. Pow2[0+1] = 2 * Pow2[0] /\ Pow2[1+1] = 2 * Pow2[1] /\ Pow2[2+1] = 2 * Pow2[2]
        /\ Pow2[3+1] = 2 * Pow2[3]
    BY <1>1, Zenon
  <2> QED BY <2>1, <1>2
<1>4. \A x, y \in Nat : Pow2[x + y] = Pow2[x] * Pow2[y]
  BY Pow2Add
<1>5. Pow2[4 + 4] = Pow2[4] * Pow2[4] /\ Pow2[8 + 8] = Pow2[8] * Pow2[8]
      /\ Pow2[16 + 8] = Pow2[16] * Pow2[8]
  BY <1>4
<1>6. Pow2[8] = 256
  BY <1>3, <1>5
<1>7. Pow2[16] = 65536
  BY <1>5, <1>6
<1>8. Pow2[24] = 16777216
  BY <1>5, <1>6, <1>7, SMT
<1> QED BY <1>2, <1>6, <1>7, <1>8, SMT

LEMMA BytesOfSize ==
  ASSUME NEW n \in Nat
  PROVE  /\ n <= 65535 => ((n \div 1) % 256) + 256 * ((n \div 256) % 256) = n
         /\ n <= INT_MAX =>
              ((n \div 1) % 256) + 256 * ((n \div 256) % 256) + 65536 * ((n \div 65536) % 256)
                + 16777216 * ((n \div 16777216) % 256) = n
<1>1. n <= 65535 => ((n \div 1) % 256) + 256 * ((n \div 256) % 256) = n
  OBVIOUS
<1>2. n <= 2147483647 =>
        ((n \div 1) % 256) + 256 * ((n \div 256) % 256) + 65536 * ((n \div 65536) % 256)
          + 16777216 * ((n \div 16777216) % 256) = n
  BY SMT
<1> QED BY <1>1, <1>2, SMT DEF INT_MAX

LEMMA PushSizes ==
  ASSUME NEW h, NEW at
  PROVE  /\ PushSize(h, at, 1) = h[at+1]
         /\ PushSize(h, at, 2) = h[at+1] + 256 * h[at+2]
BY DEF PushSize

LEMMA PushSize4 ==
  ASSUME NEW h, NEW at
  PROVE  PushSize(h, at, 4)
           = h[at+1] + 256 * h[at+2] + 65536 * h[at+3] + 16777216 * h[at+4]
BY SMT DEF PushSize

ReadsBack(h, n) ==
  /\ Len(h) = 2 /\ n <= 255 => PushSize(h, 1, 1) = n
  /\ Len(h) = 3 /\ n <= 65535 => PushSize(h, 1, 2) = n
  /\ Len(h) = 5 /\ n <= INT_MAX => PushSize(h, 1, 4) = n

(* Written in one, two or four bytes and read back, a size is itself.        *)
LEMMA SizeReadsBack ==
  ASSUME NEW n \in Nat, NEW h, Spells(h, n)
  PROVE  ReadsBack(h, n)
<1>1. ASSUME NEW k \in 1..4, k + 1 <= Len(h), NEW p, Pow2[8 * (k - 1)] = p
      PROVE  h[1 + k] = (n \div p) % 256
  <2>1. k + 1 = 1 + k
    OBVIOUS
  <2> QED BY <2>1, <1>1 DEF Spells
<1>2. 8 * (1 - 1) = 0 /\ 8 * (2 - 1) = 8 /\ 8 * (3 - 1) = 16 /\ 8 * (4 - 1) = 24
  OBVIOUS
<1>3. Pow2[8 * (1 - 1)] = 1 /\ Pow2[8 * (2 - 1)] = 256
  BY <1>2, Powers256, SMT
<1>4. Pow2[8 * (3 - 1)] = 65536 /\ Pow2[8 * (4 - 1)] = 16777216
  BY <1>2, Powers256, SMT
<1>5. 1 + 1 <= Len(h) => h[1+1] = (n \div 1) % 256
  BY <1>1, <1>3
<1>6. 2 + 1 <= Len(h) => h[1+2] = (n \div 256) % 256
  BY <1>1, <1>3
<1>7. 3 + 1 <= Len(h) => h[1+3] = (n \div 65536) % 256
  BY <1>1, <1>4, SMTT(30)
<1>8. 4 + 1 <= Len(h) => h[1+4] = (n \div 16777216) % 256
  <2> DEFINE p == 16777216
  <2>1. Pow2[8 * (4 - 1)] = p
    BY <1>4
  <2> HIDE DEF p
  <2>2. 4 + 1 <= Len(h) => h[1+4] = (n \div p) % 256
    BY <2>1, <1>1
  <2> QED BY <2>2, SMTT(30) DEF p
<1>9. PushSize(h, 1, 1) = h[1+1] /\ PushSize(h, 1, 2) = h[1+1] + 256 * h[1+2]
  BY PushSizes, Zenon
<1>10. PushSize(h, 1, 4) = h[1+1] + 256 * h[1+2] + 65536 * h[1+3] + 16777216 * h[1+4]
  BY PushSize4, SMTT(30)
<1>11. ASSUME Len(h) = 2, n <= 255 PROVE PushSize(h, 1, 1) = n
  <2>1. h[1+1] = (n \div 1) % 256
    BY <1>5, <1>11
  <2>2. (n \div 1) % 256 = n
    BY <1>11
  <2> QED BY <1>9, <2>1, <2>2
<1>12. ASSUME Len(h) = 3, n <= 65535 PROVE PushSize(h, 1, 2) = n
  <2>1. h[1+1] = (n \div 1) % 256 /\ h[1+2] = (n \div 256) % 256
    BY <1>5, <1>6, <1>12
  <2>2. ((n \div 1) % 256) + 256 * ((n \div 256) % 256) = n
    BY <1>12, BytesOfSize
  <2> QED BY <1>9, <2>1, <2>2, Zenon
<1>13. ASSUME Len(h) = 5, n <= INT_MAX PROVE PushSize(h, 1, 4) = n
  <2>1. h[1+1] = (n \div 1) % 256 /\ h[1+2] = (n \div 256) % 256
    BY <1>5, <1>6, <1>13
  <2>2. h[1+3] = (n \div 65536) % 256 /\ h[1+4] = (n \div 16777216) % 256
    BY <1>7, <1>8, <1>13
  <2>3. ((n \div 1) % 256) + 256 * ((n \div 256) % 256) + 65536 * ((n \div 65536) % 256)
          + 16777216 * ((n \div 16777216) % 256) = n
    BY <1>13, BytesOfSize, SMT
  <2> QED BY <1>10, <2>1, <2>2, <2>3, SMT
<1> QED BY <1>11, <1>12, <1>13 DEF ReadsBack

(* A push of data is one operation, with any of the four headers.            *)
LEMMA PushIsOneOp ==
  ASSUME NEW d \in Data, Len(d) <= INT_MAX
  PROVE  OneOp(PushData(d))
<1> DEFINE n == Len(d)
           op == PushOp(n)
           h == PushHeader(op, n)
<1>1. n \in Nat
  BY LenProperties DEF Data
<1>2. OP_PUSHDATA1 = 76 /\ OP_PUSHDATA2 = 77 /\ OP_PUSHDATA4 = 78
  BY DEF OP_PUSHDATA1, OP_PUSHDATA2, OP_PUSHDATA4
<1>3. \/ n < 76 /\ op = n /\ SizeWidth(op) = 0
      \/ n <= 255 /\ op = 76 /\ SizeWidth(op) = 1
      \/ n <= 65535 /\ op = 77 /\ SizeWidth(op) = 2
      \/ op = 78 /\ SizeWidth(op) = 4
  <2> HIDE DEF n
  <2>1. \/ n < 76 /\ op = n
        \/ n <= 255 /\ op = 76
        \/ n <= 65535 /\ op = 77
        \/ op = 78
    BY <1>1, <1>2 DEF PushOp
  <2> QED BY <2>1, <1>1, <1>2 DEF SizeWidth
<1>4. n <= INT_MAX
  OBVIOUS
<1> HIDE DEF n, op
<1>5. op \in Byte /\ op <= OP_PUSHDATA4
  <2>1. CASE n < 76 /\ op = n
    <3>1. n \in 0..255 /\ n <= 78
      BY <2>1, <1>1
    <3> QED BY <2>1, <3>1, <1>2 DEF Byte
  <2>2. CASE op = 76
    BY <2>2, <1>2 DEF Byte
  <2>3. CASE op = 77
    BY <2>3, <1>2 DEF Byte
  <2>4. CASE op = 78
    BY <2>4, <1>2 DEF Byte
  <2> QED BY <1>3, <2>1, <2>2, <2>3, <2>4
<1>6. h \in Data /\ Len(h) = 1 + SizeWidth(op) /\ h[1] = op /\ Spells(h, n)
  BY <1>1, <1>5, HeaderType
<1>7. PushData(d) = h \o d
  BY DEF PushData, h, op, n
<1> HIDE DEF h
<1>8. ReadsBack(h, n)
  BY <1>1, <1>6, SizeReadsBack
<1>9. SizeIn(h) = n
  BY <1>3, <1>4, <1>6, <1>8 DEF SizeIn, ReadsBack
<1>10. OneOp(h \o d)
  BY <1>5, <1>6, <1>9, HeaderAndData DEF n
<1> QED BY <1>7, <1>10

(* The bytes of a token that does not throw: none, a bare push opcode, or    *)
(* one operation.                                                            *)
LEMMA TokenType ==
  ASSUME NEW t \in ProgramTokens, ~Throws(t)
  PROVE  /\ TokenBytes(t) \in Data
         /\ TokenBytes(t) = <<>> \/ BarePush(t) \/ OneOp(TokenBytes(t))
<1>1. <<>> \in Data
  BY EmptySeq DEF Data
<1>2. CASE t.form = "empty"
  BY <1>1, <1>2 DEF TokenBytes
<1>3. CASE t.form = "op"
  <2> DEFINE op == opStringToOpCode(t.name)
  <2>1. op \in Byte
    BY OpcodeType
  <2>2. TokenBytes(t) = IF op # OP_INVALIDOPCODE THEN <<op>> ELSE <<>>
    BY <1>3 DEF TokenBytes
  <2> HIDE DEF op
  <2>3. CASE op # OP_INVALIDOPCODE
    <3> DEFINE b == <<op>>
    <3>1. b \in Data /\ Len(b) = 1 /\ b[1] = op /\ TokenBytes(t) = b /\ b # <<>>
      BY <2>1, <2>2, <2>3 DEF Data
    <3>2. CASE op \in 1..OP_PUSHDATA4
      BY <1>3, <3>1, <3>2 DEF BarePush
    <3>3. CASE op \notin 1..OP_PUSHDATA4
      <4>1. op = 0 \/ op > 78
        BY <2>1, <3>3 DEF Byte, OP_PUSHDATA4
      <4>2. SizeWidth(op) = 0
        BY <2>1, <4>1 DEF SizeWidth, OP_PUSHDATA1, OP_PUSHDATA2, OP_PUSHDATA4, Byte
      <4> HIDE DEF b
      <4>3. b[0+1] = op /\ 0 + 1 + 0 = 1 /\ 0 + 1 = 1
        BY <3>1
      <4>4. GetOp(b, 0).ok /\ GetOp(b, 0).next = 1
        <5>1. CASE op = 0
          <6>1. ~(op > OP_PUSHDATA4) /\ ~(0 + 1 + 0 > Len(b)) /\ ~(op > Len(b) - (0 + 1 + 0))
            BY <5>1, <3>1 DEF OP_PUSHDATA4
          <6> QED BY <4>2, <4>3, <5>1, <6>1 DEF GetOp
        <5>2. CASE op > 78
          BY <4>3, <5>2 DEF GetOp, OP_PUSHDATA4
        <5> QED BY <4>1, <5>1, <5>2
      <4> QED BY <3>1, <4>4 DEF OneOp
    <3> QED BY <3>1, <3>2, <3>3
  <2> QED BY <1>1, <2>2, <2>3
<1>4. ASSUME NEW d \in Data, Len(d) <= INT_MAX, TokenBytes(t) = PushData(d)
      PROVE  TokenBytes(t) \in Data /\ OneOp(TokenBytes(t))
  BY <1>4, PushIsOneOp DEF OneOp
<1>5. ASSUME NEW n \in 0..5 PROVE n <= INT_MAX
  BY SMT DEF INT_MAX
<1>6. CASE t.form = "hex"
  <2>1. t.digits \in Seq(0..15) /\ Len(t.digits) <= INT_MAX
    BY <1>6, SMT DEF ProgramTokens
  <2>2. CASE IsData(t)
    <3> DEFINE d == HexBytes(t.digits)
    <3>1. d \in Data /\ Len(d) = (Len(t.digits) + 1) \div 2 /\ Len(t.digits) \in Nat
      BY <2>1, HexBytesType, LenProperties
    <3>2. Len(d) \in Nat /\ Len(d) <= Len(t.digits)
      <4>1. \A n \in Nat : (n + 1) \div 2 \in Nat /\ (n + 1) \div 2 <= n
        OBVIOUS
      <4> QED BY <3>1, <4>1, Zenon
    <3>3. Len(d) <= INT_MAX
      <4>1. INT_MAX \in Int
        BY SMT DEF INT_MAX
      <4>2. \A x, y, z \in Int : x <= y /\ y <= z => x <= z
        OBVIOUS
      <4>3. Len(d) \in Int /\ Len(t.digits) \in Int
        BY <3>1, <3>2
      <4> QED BY <2>1, <3>2, <4>1, <4>2, <4>3, Zenon
    <3>4. TokenBytes(t) = PushData(d)
      BY <1>6, <2>2 DEF TokenBytes
    <3> QED BY <1>4, <3>1, <3>3, <3>4
  <2>3. CASE ~IsData(t)
    <3> DEFINE v == HexValue(t.digits)
               d == ScriptNum(v)
    <3>1. v \in Int
      BY <2>1, HexValueType
    <3>2. TokenBytes(t) = PushData(d)
      BY <1>6, <2>3 DEF TokenBytes
    <3> HIDE DEF v
    <3>3. d \in Data /\ Len(d) \in 0..5
      BY <3>1, ScriptNumType
    <3> QED BY <1>4, <1>5, <3>2, <3>3
  <2> QED BY <2>2, <2>3
<1>7. CASE t.form = "dec"
  <2>1. t.value \in Int
    BY <1>7, SMT DEF ProgramTokens
  <2> DEFINE d == ScriptNum(t.value)
  <2>2. d \in Data /\ Len(d) \in 0..5
    BY <2>1, ScriptNumType
  <2>3. TokenBytes(t) = PushData(d)
    BY <1>7 DEF TokenBytes
  <2> QED BY <1>4, <1>5, <2>2, <2>3
<1>8. t.form \in {"empty", "op", "hex", "dec"}
  <2>1. t.form \in {"empty", "op", "hex", "dec", "junk"}
    BY SMT DEF ProgramTokens
  <2>2. t.form # "junk"
    BY DEF Throws
  <2> QED BY <2>1, <2>2
<1> QED BY <1>2, <1>3, <1>6, <1>7, <1>8

(* A successful GetOp depends on nothing but the bytes it moves over.        *)
LEMMA GetOpLocal ==
  ASSUME NEW s \in Data, NEW p \in 0..(Len(s) - 1), GetOp(s, p).ok,
         NEW t \in Data, NEW q \in 0..(Len(t) - 1),
         NEW n \in Nat, GetOp(s, p).next = p + n, q + n <= Len(t),
         \A k \in 1..n : t[q + k] = s[p + k]
  PROVE  GetOp(t, q).ok /\ GetOp(t, q).next = q + n
<1> DEFINE op    == s[p+1]
           width == SizeWidth(op)
           size  == IF width = 0 THEN op ELSE PushSize(s, p + 1, width)
<1>0. Len(s) \in Nat /\ Len(t) \in Nat /\ p \in Nat /\ q \in Nat
  BY LenProperties DEF Data
<1>1. n >= 1
  BY <1>0, GetOpMoves
<1>2. t[q+1] = op /\ SizeWidth(t[q+1]) = width
  BY <1>1
<1>3. width \in {0, 1, 2, 4} /\ op \in Byte
  <2>1. p + 1 \in 1..Len(s)
    BY <1>0
  <2> QED BY <2>1, ElementOfSeq DEF SizeWidth, Data
<1>4. GetOp(s, p) =
        IF op > OP_PUSHDATA4 THEN [ok |-> TRUE, op |-> op, data |-> <<>>, next |-> p + 1]
        ELSE IF p + 1 + width > Len(s) THEN [ok |-> FALSE, op |-> op, data |-> <<>>, next |-> p + 1]
        ELSE IF size > Len(s) - (p + 1 + width)
             THEN [ok |-> FALSE, op |-> op, data |-> <<>>, next |-> p + 1 + width]
        ELSE [ok |-> TRUE, op |-> op, data |-> SubSeq(s, p + 1 + width + 1, p + 1 + width + size),
              next |-> p + 1 + width + size]
  BY DEF GetOp
<1> DEFINE size2 == IF width = 0 THEN op ELSE PushSize(t, q + 1, width)
<1>5. GetOp(t, q) =
        IF op > OP_PUSHDATA4 THEN [ok |-> TRUE, op |-> op, data |-> <<>>, next |-> q + 1]
        ELSE IF q + 1 + width > Len(t) THEN [ok |-> FALSE, op |-> op, data |-> <<>>, next |-> q + 1]
        ELSE IF size2 > Len(t) - (q + 1 + width)
             THEN [ok |-> FALSE, op |-> op, data |-> <<>>, next |-> q + 1 + width]
        ELSE [ok |-> TRUE, op |-> op, data |-> SubSeq(t, q + 1 + width + 1, q + 1 + width + size2),
              next |-> q + 1 + width + size2]
  BY <1>2 DEF GetOp
<1> HIDE DEF op, width
<1>6. CASE op > OP_PUSHDATA4
  BY <1>0, <1>4, <1>5, <1>6
<1>7. CASE ~(op > OP_PUSHDATA4)
  <2>1. ~(p + 1 + width > Len(s)) /\ ~(size > Len(s) - (p + 1 + width))
        /\ p + 1 + width + size = p + n
    <3> HIDE DEF size
    <3> QED BY <1>4, <1>7
  <2>2. size \in Nat
    BY <2>1, <1>0, <1>3, SizeType DEF op, width
  <2>3. 1 + width <= n
    <3> HIDE DEF size
    <3> QED BY <2>1, <2>2, <1>0, <1>3
  <2>4. size2 = size
    <3>1. ASSUME NEW j \in 1..width PROVE t[q + 1 + j] = s[p + 1 + j]
      <4> DEFINE k == 1 + j
      <4>1. k \in 1..n /\ q + k = q + 1 + j /\ p + k = p + 1 + j
        BY <1>0, <1>3, <2>3
      <4> HIDE DEF k
      <4>2. t[q + k] = s[p + k]
        BY <4>1
      <4> QED BY <4>1, <4>2, Zenon
    <3>2. CASE width = 0
      BY <3>2
    <3>3. CASE width = 1
      BY <3>1, <3>3 DEF PushSize
    <3>4. CASE width = 2
      BY <3>1, <3>4 DEF PushSize
    <3>5. CASE width = 4
      <4>1. /\ t[q + 1 + 1] = s[p + 1 + 1] /\ t[q + 1 + 2] = s[p + 1 + 2]
            /\ t[q + 1 + 3] = s[p + 1 + 3] /\ t[q + 1 + 4] = s[p + 1 + 4]
        BY <3>1, <3>5
      <4>2. PushSize(t, q + 1, 4) = PushSize(s, p + 1, 4)
        <5> DEFINE Total(x1, x2, x3, x4) == x1 + 256 * x2 + 65536 * x3 + 16777216 * x4
        <5>1. PushSize(t, q + 1, 4)
                = Total(t[q + 1 + 1], t[q + 1 + 2], t[q + 1 + 3], t[q + 1 + 4])
          BY PushSize4, SMTT(30)
        <5>2. PushSize(s, p + 1, 4)
                = Total(s[p + 1 + 1], s[p + 1 + 2], s[p + 1 + 3], s[p + 1 + 4])
          BY PushSize4, SMTT(30)
        <5> HIDE DEF Total
        <5> QED BY <4>1, <5>1, <5>2, Zenon
      <4> QED BY <3>5, <4>2
    <3> QED BY <1>3, <3>2, <3>3, <3>4, <3>5
  <2> HIDE DEF size, size2
  <2>5. 1 + width + size = n
    BY <2>1, <2>2, <1>0, <1>3
  <2>6. ~(q + 1 + width > Len(t)) /\ ~(size2 > Len(t) - (q + 1 + width))
        /\ q + 1 + width + size2 = q + n
    BY <2>2, <2>4, <2>5, <1>0, <1>3
  <2> QED BY <1>5, <1>7, <2>6
<1> QED BY <1>6, <1>7

-----------------------------------------------------------------------------
(* Appending to a sequence of anything. *)
IsSeq(q) == Len(q) \in Nat /\ q = [k \in 1..Len(q) |-> q[k]]

LEMMA AppendTo ==
  ASSUME NEW q, IsSeq(q), NEW e
  PROVE  /\ IsSeq(Append(q, e))
         /\ Len(Append(q, e)) = Len(q) + 1
         /\ Append(q, e)[Len(q) + 1] = e
         /\ \A k \in 1..Len(q) : Append(q, e)[k] = q[k]
<1> DEFINE S_ == {q[k] : k \in 1..Len(q)} \cup {e}
           n  == Len(q)
<1>1. q \in [1..n -> S_] /\ n \in Nat
  BY DEF IsSeq
<1>2. q \in Seq(S_) /\ e \in S_
  BY <1>1, SeqDef
<1> HIDE DEF S_
<1>3. /\ Append(q, e) \in Seq(S_)
      /\ Len(Append(q, e)) = n + 1
      /\ \A k \in 1..n : Append(q, e)[k] = q[k]
      /\ Append(q, e)[n + 1] = e
  BY <1>2, AppendProperties
<1>4. Append(q, e) = [k \in 1..(n + 1) |-> Append(q, e)[k]]
  BY <1>3, LenProperties
<1> QED BY <1>1, <1>3, <1>4 DEF IsSeq

LEMMA SeqIsSeq ==
  ASSUME NEW S_, NEW q \in Seq(S_)
  PROVE  IsSeq(q) /\ \A k \in 1..Len(q) : q[k] \in S_
BY LenProperties, ElementOfSeq DEF IsSeq

LEMMA NoWords == DOMAIN <<>> = {} /\ Len(<<>>) = 0 /\ IsSeq(<<>>)
  /\ <<>> \in Data /\ <<>> \in Seq(Nat) /\ <<>> \in Seq(Data) /\ <<>> \in Seq(Rows)
<1>1. <<>> \in Data /\ <<>> \in Seq(Nat) /\ <<>> \in Seq(Data) /\ <<>> \in Seq(Rows)
      /\ Len(<<>>) = 0
  BY EmptySeq DEF Data
<1>2. DOMAIN <<>> = {}
  <2>1. DOMAIN <<>> = 1..0
    BY <1>1, LenProperties
  <2> QED BY <2>1
<1>3. IsSeq(<<>>)
  BY <1>1, SeqIsSeq
<1> QED BY <1>1, <1>2, <1>3

-----------------------------------------------------------------------------
(* Type correctness. Between calls the locals are as a new call finds them;  *)
(* in a call, its request is what the host asked for.                        *)
Frame ==
  /\ fn \in {"idle", "abort", "encode"} => pc = 0 /\ len = 0 /\ cells = <<>> /\ path = <<>>
  /\ fn \in {"idle", "abort"} => c = <<>> /\ i = 0
  /\ fn = "encode" => req.args \in Seq(Tokens) /\ i <= Len(req.args)
  /\ fn = "rows" =>
       /\ req.idx \in Handles /\ req.stack \in Seq(Data)
       /\ len = Len(req.stack) /\ i <= len
  /\ fn \in {"count", "emit"} =>
       /\ req.op \in {"decompile", "scriptToString"}
       /\ req.idx \in Handles /\ c = scripts[req.idx + 1]
  /\ fn = "count" => len = 0 /\ cells = <<>>
  /\ fn = "emit" => len \in Nat \cup {-1}

TypeInv == Sound /\ TypeOK /\ IsSeq(results) /\ Frame

LEMMA TypeInit == Init => TypeInv
BY NoWords DEF Init, TypeInv, TypeOK, Frame, Pointers, Sound

(* Only a store past the unused words spoils the module, for good: a step    *)
(* after which it is sound is one of a sound module that stays intact.       *)
LEMMA StaysSound == Sound /\ [Intact]_vars => Sound'
BY DEF Sound, Intact, vars, locals, Step, EncodeToken, EncodeThrows, CompileReturns, CopyRow,
   RunReturns, CountOp, CountFails, CountEnds, EmitRow, AtOp, EmitHole, DecompileReturns,
   ToStringReturns, OutOfMemory, Call, StringCompile, ByteCompile, BadHandle, ScriptRun,
   Decompile, ExtractStack, Allocate, Abort, Return

LEMMA SpoiltStays == ~Sound /\ [Next]_vars => Spoilt \/ UNCHANGED vars
BY DEF Sound, Next, Intact, Overwrite, AtOp, vars, locals, Step, EncodeToken, EncodeThrows,
   CompileReturns, CopyRow, RunReturns, CountOp, CountFails, CountEnds, EmitRow, EmitHole,
   DecompileReturns, ToStringReturns, OutOfMemory, Call, StringCompile, ByteCompile, BadHandle,
   ScriptRun, Decompile, ExtractStack, Idle

LEMMA DamageSpoils == Overwrite \/ Spoilt => ~Sound'
BY DEF Overwrite, Spoilt, Damage, Sound

LEMMA SoundStep == [Next]_vars /\ Sound' => Sound /\ [Intact]_vars
<1> SUFFICES ASSUME [Next]_vars, Sound' PROVE Sound /\ [Intact]_vars
  OBVIOUS
<1>1. ~Overwrite /\ ~Spoilt
  BY DamageSpoils
<1>2. [Intact]_vars
  BY <1>1 DEF Next
<1>3. ASSUME ~Sound PROVE FALSE
  <2>1. UNCHANGED vars
    BY <1>1, <1>3, SpoiltStays
  <2> QED BY <2>1, <1>3 DEF vars, Sound
<1> QED BY <1>2, <1>3

LEMMA OnlyDamage == ~Sound' /\ [Next]_vars => Damage \/ UNCHANGED vars
BY StaysSound, SpoiltStays DEF Next, Overwrite, Spoilt

(* What is written over still has its type. *)
LEMMA DamageKeepsType == TypeOK /\ Damage => TypeOK'
<1> SUFFICES ASSUME TypeOK, Damage PROVE TypeOK'
  OBVIOUS
<1>1. /\ fn' = "spoilt" /\ c' = <<>> /\ pc' = 0 /\ i' = 0 /\ len' = 0
      /\ cells' = <<>> /\ path' = <<>> /\ low' = low
  BY DEF Damage, NoLocals
<1>2. scripts' \in Seq(Data)
  <2>1. CASE scripts' = scripts
    BY <2>1 DEF TypeOK
  <2>2. CASE \E n \in 0..MaxScripts : scripts' \in [1..n -> Garbage]
    <3>1. PICK n \in 0..MaxScripts : scripts' \in [1..n -> Garbage]
      BY <2>2
    <3>2. n \in Nat /\ scripts' \in [1..n -> Data]
      BY <3>1, MemoryAssumption
    <3> QED BY <3>2, SeqDef
  <2> QED BY <2>1, <2>2 DEF Damage
<1>3. heap' \in Seq(Rows) /\ Len(heap') = Len(heap)
  <2>1. CASE heap' = heap
    BY <2>1 DEF TypeOK
  <2>2. CASE \E p \in DOMAIN heap, row \in Garbage : heap' = [heap EXCEPT ![p] = row]
    <3>1. PICK p \in DOMAIN heap, row \in Garbage : heap' = [heap EXCEPT ![p] = row]
      BY <2>2
    <3>2. row \in Rows
      <4>1. row \in Seq(Byte)
        BY MemoryAssumption DEF Data
      <4>2. row \in [1..Len(row) -> Byte] /\ Len(row) \in Nat
        BY <4>1, LenProperties
      <4>3. row \in [1..Len(row) -> {Unwritten} \cup Byte]
        BY <4>2
      <4> QED BY <4>2, <4>3, SeqDef DEF Rows
    <3>3. heap \in Seq(Rows) /\ p \in 1..Len(heap)
      BY LenProperties DEF TypeOK
    <3> QED BY <3>1, <3>2, <3>3, ExceptSeq
  <2> QED BY <2>1, <2>2 DEF Damage
<1>4. Pointers(low', heap') /\ Pointers(cells', heap')
  BY <1>1, <1>3, NoWords DEF TypeOK, Pointers
<1>5. ~Sound'
  BY <1>1 DEF Sound
<1> QED BY <1>1, <1>2, <1>3, <1>4, <1>5, NoWords DEF TypeOK

(* What is old stays: the heap, the table and the results only grow. *)
Extends(s, t) == Len(s) <= Len(t) /\ \A k \in 1..Len(s) : t[k] = s[k]

Grows == Extends(heap, heap') /\ Extends(scripts, scripts') /\ Extends(results, results')

LEMMA StepGrows == TypeInv /\ [Intact]_vars => Grows
<1> SUFFICES ASSUME TypeInv, [Intact]_vars PROVE Grows
  OBVIOUS
<1>1. IsSeq(heap) /\ IsSeq(scripts) /\ IsSeq(results)
  BY SeqIsSeq DEF TypeInv, TypeOK
<1>2. \A q : IsSeq(q) => Extends(q, q)
  BY DEF IsSeq, Extends
<1>3. \A q, e : IsSeq(q) => Extends(q, Append(q, e))
  BY AppendTo DEF IsSeq, Extends
<1>4. /\ heap' = heap \/ \E e : heap' = Append(heap, e)
      /\ scripts' = scripts \/ \E e : scripts' = Append(scripts, e)
      /\ results' = results \/ \E e : results' = Append(results, e)
  <2>1. CASE Step
    BY <2>1 DEF Step, EncodeToken, EncodeThrows, CompileReturns, CopyRow, RunReturns, CountOp,
       CountFails, CountEnds, EmitRow, AtOp, EmitHole, DecompileReturns, ToStringReturns,
       OutOfMemory, Allocate, Abort, Return, NewRow
  <2>2. CASE Call
    BY <2>2 DEF Call, StringCompile, ByteCompile, BadHandle, ScriptRun, Decompile,
       ExtractStack, Abort, Return
  <2>3. CASE UNCHANGED vars
    BY <2>3 DEF vars
  <2> QED BY <2>1, <2>2, <2>3 DEF Intact
<1> QED BY <1>1, <1>2, <1>3, <1>4 DEF Grows

(* Old pointers, handles and results stay good when everything only grows.   *)
LEMMA OldStaysGood ==
  ASSUME Grows, IsSeq(heap), IsSeq(heap'), IsSeq(scripts), IsSeq(scripts')
  PROVE  /\ \A words : Pointers(words, heap) => Pointers(words, heap')
         /\ \A idx \in Handles : idx \in Handles'
         /\ \A r : IsResult(r, heap, scripts) => IsResult(r, heap', scripts')
<1>1. 1..Len(heap) \subseteq 1..Len(heap') /\ Handles \subseteq Handles'
  BY DEF Grows, Extends, IsSeq, Handles
<1>2. \A words : Pointers(words, heap) => Pointers(words, heap')
  BY <1>1 DEF Pointers
<1>3. ASSUME NEW r, IsResult(r, heap, scripts) PROVE IsResult(r, heap', scripts')
  <2>1. r.idx \in 0..(Len(scripts') - 1)
    BY <1>3, <1>1 DEF IsResult, Handles
  <2> QED BY <1>2, <1>3, <2>1 DEF IsResult
<1> QED BY <1>1, <1>2, <1>3

LEMMA TypeStep == TypeInv /\ [Intact]_vars => TypeInv'
<1> SUFFICES ASSUME TypeInv, [Intact]_vars PROVE TypeInv'
  OBVIOUS
<1> USE DEF TypeInv
<1>0. Sound'
  BY StaysSound
<1> USE <1>0
<1>1. Grows
  BY StepGrows
<1>2. /\ IsSeq(heap) /\ IsSeq(scripts) /\ IsSeq(results) /\ IsSeq(path)
      /\ \A k \in 1..Len(heap) : heap[k] \in Rows
      /\ \A k \in 1..Len(scripts) : scripts[k] \in Data
  BY SeqIsSeq DEF TypeOK
<1>3. ASSUME heap' \in Seq(Rows), scripts' \in Seq(Data)
      PROVE  /\ \A words : Pointers(words, heap) => Pointers(words, heap')
             /\ \A idx \in Handles : idx \in Handles'
             /\ \A r : IsResult(r, heap, scripts) => IsResult(r, heap', scripts')
  <2>1. IsSeq(heap') /\ IsSeq(scripts')
    BY <1>3, SeqIsSeq
  <2> QED BY <2>1, <1>1, <1>2, OldStaysGood
<1>4. ASSUME UNCHANGED <<heap, scripts, low, results>>
      PROVE  /\ heap' \in Seq(Rows) /\ scripts' \in Seq(Data)
             /\ Pointers(low', heap') /\ IsSeq(results)'
             /\ \A k \in 1..Len(results') : IsResult(results'[k], heap', scripts')
             /\ \A words : Pointers(words, heap) => Pointers(words, heap')
             /\ Handles' = Handles
  BY <1>4, <1>3 DEF TypeOK, Handles, Pointers, IsResult
<1>5. CASE UNCHANGED vars
  BY <1>5 DEF vars, locals, TypeOK, Frame, Pointers, IsResult, Handles
<1>6. ASSUME Abort PROVE TypeInv'
  BY <1>6, <1>4, NoWords DEF Abort, NoLocals, TypeOK, Frame, Pointers
<1>7. ASSUME NEW args \in Programs, StringCompile(args) PROVE TypeInv'
  <2>1. args \in Seq(Tokens) /\ Len(args) \in Nat
    BY ProgramsAssumption, LenProperties
  <2> QED BY <1>7, <1>4, <2>1, NoWords DEF StringCompile, Idle, locals, TypeOK, Frame
<1>8. ASSUME EncodeToken PROVE TypeInv'
  <2>1. req.args[i+1] \in Tokens /\ i + 1 <= Len(req.args)
    BY <1>8, LenProperties, ElementOfSeq DEF EncodeToken, TypeOK, Frame
  <2>2. c' \in Data
    <3>1. TokenBytes(req.args[i+1]) \in Data
      BY <1>8, <2>1, ProgramsAssumption, TokenType DEF EncodeToken
    <3> QED BY <1>8, <3>1, ConcatProperties DEF EncodeToken, encodeOp, TypeOK, Data
  <2> QED BY <1>8, <1>4, <2>1, <2>2 DEF EncodeToken, TypeOK, Frame
<1>9. ASSUME NEW r, IsResult(r, heap', scripts'), Return(r), UNCHANGED <<heap, low, views>>,
             scripts' \in Seq(Data)
      PROVE  TypeInv'
  <2>1. heap' \in Seq(Rows)
    BY <1>9 DEF TypeOK
  <2>2. IsSeq(results)' /\ \A k \in 1..Len(results') : IsResult(results'[k], heap', scripts')
    <3>1. /\ IsSeq(results')
          /\ Len(results') = Len(results) + 1
          /\ results'[Len(results) + 1] = r
          /\ \A k \in 1..Len(results) : results'[k] = results[k]
      BY <1>2, <1>9, AppendTo DEF Return
    <3>2. ASSUME NEW k \in 1..Len(results') PROVE IsResult(results'[k], heap', scripts')
      <4>1. CASE k = Len(results) + 1
        <5>1. results'[k] = r
          BY <3>1, <4>1
        <5> QED BY <5>1, <1>9 DEF IsResult
      <4>2. CASE k # Len(results) + 1
        <5>1. k \in 1..Len(results) /\ results'[k] = results[k]
          BY <3>1, <4>2, <1>2 DEF IsSeq
        <5> QED BY <5>1, <2>1, <1>3, <1>9 DEF TypeOK, IsResult
      <4> QED BY <4>1, <4>2
    <3> QED BY <3>1, <3>2
  <2>3. Pointers(low', heap') /\ Pointers(cells', heap')
    BY <1>9, NoWords DEF Return, NoLocals, TypeOK, Pointers
  <2>4. /\ fn' = "idle" /\ c' = <<>> /\ pc' = 0 /\ i' = 0 /\ len' = 0
        /\ cells' = <<>> /\ path' = <<>>
    BY <1>9 DEF Return, NoLocals
  <2>5. Frame'
    BY <2>4 DEF Frame
  <2>6. TypeOK'
    BY <1>9, <2>1, <2>2, <2>3, <2>4, NoWords DEF TypeOK
  <2> QED BY <2>2, <2>5, <2>6
<1>10. ASSUME CompileReturns PROVE TypeInv'
  <2>1. scripts' \in Seq(Data) /\ Len(scripts) \in Handles'
    BY <1>10, <1>2, AppendProperties DEF CompileReturns, TypeOK, Handles, IsSeq
  <2> DEFINE r == [op |-> "compile", idx |-> Len(scripts), args |-> req.args]
  <2>2. IsResult(r, heap', scripts')
    BY <2>1, <1>10 DEF IsResult, CompileReturns, Return
  <2> QED BY <1>10, <1>9, <2>1, <2>2 DEF CompileReturns
<1>11. ASSUME NEW bytes \in ByteStrings, ByteCompile(bytes) PROVE TypeInv'
  <2>1. scripts' \in Seq(Data) /\ Len(scripts) \in Handles'
    BY <1>11, <1>2, AppendProperties, ByteStringsAssumption DEF ByteCompile, TypeOK, Handles, IsSeq
  <2> DEFINE r == [op |-> "byteCompile", idx |-> Len(scripts), bytes |-> bytes]
  <2>2. IsResult(r, heap', scripts')
    BY <2>1, <1>11 DEF IsResult, ByteCompile, Return
  <2> QED BY <1>11, <1>9, <2>1, <2>2 DEF ByteCompile
<1>12. ASSUME NEW idx \in 0..MaxScripts, NEW outcome \in Outcomes, ScriptRun(idx, outcome)
       PROVE  TypeInv'
  <2>1. outcome.stack \in Seq(Data) /\ Len(outcome.stack) \in Nat
    BY OutcomesAssumption, LenProperties
  <2> QED BY <1>12, <1>4, <2>1, NoWords DEF ScriptRun, Idle, TypeOK, Frame
<1>13. ASSUME NEW d \in Data, NewRow(d)
       PROVE  heap' \in Seq(Rows) /\ NewPtr \in 1..Len(heap')
  BY <1>13, <1>2, RowShape, AppendProperties DEF NewRow, NewPtr, TypeOK, IsSeq
<1>14. ASSUME NEW words, NEW at \in Nat, Pointers(words, heap), heap' \in Seq(Rows),
              NewPtr \in 1..Len(heap'), scripts' \in Seq(Data)
       PROVE  Pointers(Store(words, at, NewPtr), heap')
  <2> DEFINE p   == NewPtr
             new == Store(words, at, p)
  <2>0. /\ DOMAIN new = DOMAIN words \cup {at} /\ new[at] = p
        /\ \A w \in DOMAIN words : w # at => new[w] = words[w]
    BY DEF Store
  <2> HIDE DEF p, new
  <2>1. \A w \in DOMAIN words : w \in Nat /\ words[w] \in 1..Len(heap')
    BY <1>3, <1>14 DEF Pointers
  <2>2. \A w \in DOMAIN new : w \in Nat /\ new[w] \in 1..Len(heap')
    <3> SUFFICES ASSUME NEW w \in DOMAIN new PROVE w \in Nat /\ new[w] \in 1..Len(heap')
      OBVIOUS
    <3>1. CASE w = at
      BY <3>1, <1>14, <2>0 DEF p
    <3>2. CASE w # at
      <4>1. w \in DOMAIN words /\ new[w] = words[w]
        BY <3>2, <2>0
      <4> QED BY <4>1, <2>1
    <3> QED BY <3>1, <3>2
  <2> QED BY <2>2 DEF Pointers, p, new
<1>15. ASSUME CopyRow PROVE TypeInv'
  <2>1. req.stack[i+1] \in Data /\ i + 1 <= len
    BY <1>15, LenProperties, ElementOfSeq DEF CopyRow, TypeOK, Frame
  <2>2. heap' \in Seq(Rows) /\ NewPtr \in 1..Len(heap') /\ scripts' \in Seq(Data)
    BY <1>15, <2>1, <1>13 DEF CopyRow, TypeOK
  <2>3. Pointers(low', heap') /\ Pointers(cells', heap')
    BY <1>15, <2>2, <1>3, <1>14 DEF CopyRow, TypeOK, Pointers
  <2>4. IsSeq(results') /\ \A k \in 1..Len(results') : IsResult(results'[k], heap', scripts')
    BY <1>15, <2>2, <1>3 DEF CopyRow, TypeOK, IsResult
  <2>5. Handles' = Handles
    BY <1>15 DEF CopyRow, Handles
  <2> QED BY <1>15, <2>1, <2>2, <2>3, <2>4, <2>5 DEF CopyRow, TypeOK, Frame
<1>16. ASSUME RunReturns PROVE TypeInv'
  <2> DEFINE r == [op |-> "run", idx |-> req.idx, success |-> req.ok, len |-> len,
                   cells |-> cells, stack |-> req.stack]
  <2>1. IsResult(r, heap, scripts)
    BY <1>16 DEF RunReturns, IsResult, Handles, TypeOK, Frame
  <2>2. heap' \in Seq(Rows) /\ scripts' \in Seq(Data)
    BY <1>16 DEF RunReturns, TypeOK
  <2>3. IsResult(r, heap', scripts')
    BY <2>1, <2>2, <1>3, <1>16 DEF RunReturns, Return, IsResult
  <2> QED BY <1>16, <1>9, <2>2, <2>3 DEF RunReturns
<1>17. ASSUME NEW op \in {"decompile", "scriptToString"}, NEW idx \in 0..MaxScripts,
              Decompile(op, idx)
       PROVE  TypeInv'
  <2>1. scripts[idx+1] \in Data /\ Len(scripts[idx+1]) \in Nat
    BY <1>17, <1>2, LenProperties DEF Decompile, Handles, IsSeq, Data
  <2> QED BY <1>17, <1>4, <2>1, NoWords DEF Decompile, Idle, TypeOK, Frame
<1>18. ASSUME pc < Len(c), fn \in {"count", "emit"}
       PROVE  /\ GetOp(c, pc).next \in Nat /\ GetOp(c, pc).next <= Len(c)
              /\ <<GetOp(c, pc).op>> \o GetOp(c, pc).data \in Data
  <2>1. pc \in 0..(Len(c) - 1) /\ Len(c) \in Nat
    BY <1>18, LenProperties DEF TypeOK, Data
  <2>2. GetOp(c, pc).op \in Byte /\ GetOp(c, pc).data \in Data
    BY <2>1, GetOpMoves DEF TypeOK
  <2>3. <<GetOp(c, pc).op>> \in Seq(Byte)
    BY <2>2
  <2>4. <<GetOp(c, pc).op>> \o GetOp(c, pc).data \in Data
    BY <2>2, <2>3, ConcatProperties DEF Data
  <2>5. GetOp(c, pc).next \in (pc + 1)..Len(c)
    BY <2>1, GetOpMoves DEF TypeOK
  <2> QED BY <2>1, <2>4, <2>5
<1>19. ASSUME CountOp PROVE TypeInv'
  <2>1. path' \in Seq(Nat)
    BY <1>19, AppendProperties DEF CountOp, TypeOK
  <2> QED BY <1>19, <1>4, <1>18, <2>1 DEF CountOp, TypeOK, Frame
<1>20. ASSUME CountFails \/ CountEnds PROVE TypeInv'
  BY <1>20, <1>4, LenProperties DEF CountFails, CountEnds, Allocate, TypeOK, Frame, Data
<1>21. ASSUME EmitRow PROVE TypeInv'
  <2>1. heap' \in Seq(Rows) /\ NewPtr \in 1..Len(heap') /\ scripts' \in Seq(Data)
    BY <1>21, <1>13, <1>18 DEF EmitRow, AtOp, TypeOK
  <2>2. Pointers(Store(low, i, NewPtr), heap') /\ Pointers(Store(cells, i, NewPtr), heap')
    BY <2>1, <1>14 DEF TypeOK
  <2>3. Pointers(low', heap') /\ Pointers(cells', heap')
    BY <1>21, <2>1, <2>2, <1>3 DEF EmitRow, AtOp, TypeOK, Pointers
  <2>4. IsSeq(results') /\ \A k \in 1..Len(results') : IsResult(results'[k], heap', scripts')
    BY <1>21, <2>1, <1>3 DEF EmitRow, AtOp, TypeOK, IsResult
  <2>5. Handles' = Handles
    BY <1>21 DEF EmitRow, AtOp, Handles
  <2> QED BY <1>21, <1>18, <2>1, <2>3, <2>4, <2>5 DEF EmitRow, AtOp, TypeOK, Frame
<1>22. ASSUME EmitHole PROVE TypeInv'
  BY <1>22, <1>4, <1>18 DEF EmitHole, TypeOK, Frame
<1>23. ASSUME DecompileReturns PROVE TypeInv'
  <2> DEFINE r == [op |-> "decompile", idx |-> req.idx, len |-> len, cells |-> cells,
                   path |-> path]
  <2>1. IsResult(r, heap, scripts)
    BY <1>23 DEF DecompileReturns, IsResult, Handles, TypeOK, Frame
  <2>2. heap' \in Seq(Rows) /\ scripts' \in Seq(Data)
    BY <1>23 DEF DecompileReturns, TypeOK
  <2>3. IsResult(r, heap', scripts')
    BY <2>1, <2>2, <1>3, <1>23 DEF DecompileReturns, Return, IsResult
  <2> QED BY <1>23, <1>9, <2>2, <2>3 DEF DecompileReturns
<1>24. ASSUME ToStringReturns PROVE TypeInv'
  <2>0. PICK row \in FirstLines :
          Return([op |-> "toString", idx |-> req.idx, len |-> len, row |-> row])
    BY <1>24 DEF ToStringReturns
  <2> DEFINE r == [op |-> "toString", idx |-> req.idx, len |-> len, row |-> row]
  <2>1. IsResult(r, heap, scripts)
    BY <1>24 DEF ToStringReturns, IsResult, Handles, TypeOK, Frame
  <2>2. heap' \in Seq(Rows) /\ scripts' \in Seq(Data)
    BY <1>24 DEF ToStringReturns, TypeOK
  <2>3. IsResult(r, heap', scripts')
    BY <2>1, <2>2, <1>3, <1>24 DEF ToStringReturns, IsResult
  <2> QED BY <1>24, <1>9, <2>0, <2>2, <2>3 DEF ToStringReturns
<1>25. ASSUME NEW k \in 1..Len(results), ExtractStack(k) PROVE TypeInv'
  BY <1>25, <1>4 DEF ExtractStack, locals, TypeOK, Frame
<1> QED BY <1>5, <1>6, <1>7, <1>8, <1>10, <1>11, <1>12, <1>15, <1>16, <1>17, <1>19, <1>20,
           <1>21, <1>22, <1>23, <1>24, <1>25
        DEF Intact, Step, Call, EncodeThrows, OutOfMemory, BadHandle

(* The bridge's state is always well-typed, whatever the host calls.         *)
THEOREM TypeCorrect == Spec => []TypeOK
<1>1. Init => (Sound => TypeInv) /\ TypeOK
  BY TypeInit DEF TypeInv
<1>2. (Sound => TypeInv) /\ TypeOK /\ [Next]_vars => ((Sound => TypeInv) /\ TypeOK)'
  <2> SUFFICES ASSUME Sound => TypeInv, TypeOK, [Next]_vars
               PROVE  (Sound' => TypeInv') /\ TypeOK'
    OBVIOUS
  <2>1. Sound' => TypeInv'
    BY SoundStep, TypeStep
  <2>2. TypeOK'
    <3>1. CASE Sound'
      BY <2>1, <3>1 DEF TypeInv
    <3>2. CASE Overwrite \/ Spoilt
      BY <3>2, DamageKeepsType DEF Overwrite, Spoilt
    <3>3. CASE UNCHANGED vars
      BY <3>3 DEF vars, locals, TypeOK, Sound, Pointers, IsResult
    <3>4. CASE Sound /\ Intact
      BY <3>1, <3>4, StaysSound
    <3> QED BY <3>1, <3>2, <3>3, <3>4, SpoiltStays DEF Next
  <2> QED BY <2>1, <2>2
<1> QED BY <1>1, <1>2, PTL DEF Spec

-----------------------------------------------------------------------------
(* A step leaves the results alone or appends the one its call returns.      *)
Returns(x) ==
  \/ CompileReturns /\ x = [op |-> "compile", idx |-> Len(scripts), args |-> req.args]
  \/ \E bytes \in ByteStrings :
       ByteCompile(bytes) /\ x = [op |-> "byteCompile", idx |-> Len(scripts), bytes |-> bytes]
  \/ RunReturns /\ x = [op |-> "run", idx |-> req.idx, success |-> req.ok, len |-> len,
                        cells |-> cells, stack |-> req.stack]
  \/ DecompileReturns /\ x = [op |-> "decompile", idx |-> req.idx, len |-> len,
                              cells |-> cells, path |-> path]
  \/ ToStringReturns /\ \E row \in FirstLines :
       x = [op |-> "toString", idx |-> req.idx, len |-> len, row |-> row]

LEMMA ResultStep ==
  ASSUME [Intact]_vars
  PROVE  \/ results' = results /\ scripts' = scripts
         \/ \E x : results' = Append(results, x) /\ Returns(x)
<1>1. CASE Step
  BY <1>1 DEF Step, Returns, EncodeToken, EncodeThrows, CompileReturns, CopyRow, RunReturns, CountOp,
     CountFails, CountEnds, EmitRow, AtOp, EmitHole, DecompileReturns, ToStringReturns,
     OutOfMemory, Allocate, Abort, Return
<1>2. CASE Call
  BY <1>2 DEF Call, Returns, StringCompile, ByteCompile, BadHandle, ScriptRun, Decompile,
     ExtractStack, Abort, Return
<1>3. CASE UNCHANGED vars
  BY <1>3 DEF vars
<1> QED BY <1>1, <1>2, <1>3 DEF Intact

(* The results after a step: the old ones, and one that was just returned.   *)
LEMMA ResultsAfter ==
  ASSUME TypeInv, [Intact]_vars, NEW k \in 1..Len(results')
  PROVE  \/ k \in 1..Len(results) /\ results'[k] = results[k]
         \/ k = Len(results) + 1 /\ Returns(results'[k])
<1>1. IsSeq(results) /\ Len(results) \in Nat
  BY DEF TypeInv, IsSeq
<1>2. CASE results' = results
  BY <1>2
<1>3. CASE \E x : results' = Append(results, x) /\ Returns(x)
  <2>1. PICK x : results' = Append(results, x) /\ Returns(x)
    BY <1>3
  <2>2. /\ Len(results') = Len(results) + 1 /\ results'[Len(results) + 1] = x
        /\ \A j \in 1..Len(results) : results'[j] = results[j]
    BY <1>1, <2>1, AppendTo
  <2>3. CASE k = Len(results) + 1
    <3>1. results'[k] = x
      BY <2>2, <2>3
    <3> QED BY <2>1, <2>3, <3>1
  <2>4. CASE k # Len(results) + 1
    <3>1. k \in 1..Len(results)
      BY <1>1, <2>2, <2>4
    <3> QED BY <2>2, <3>1
  <2> QED BY <2>3, <2>4
<1> QED BY <1>2, <1>3, ResultStep

(* A result tells which call returned it.                                    *)
LEMMA ReturnedBy ==
  ASSUME NEW x, Returns(x)
  PROVE  /\ x.op = "compile" => CompileReturns /\ x.idx = Len(scripts) /\ x.args = req.args
         /\ x.op = "run" => /\ RunReturns /\ x.success = req.ok
                            /\ x.len = len /\ x.cells = cells /\ x.stack = req.stack
         /\ x.op = "decompile" => /\ DecompileReturns /\ x.idx = req.idx /\ x.len = len
                                  /\ x.cells = cells /\ x.path = path
         /\ x.op = "toString" => /\ ToStringReturns /\ x.idx = req.idx /\ x.len = len
                                 /\ x.row \in FirstLines
<1>1. CASE CompileReturns /\ x = [op |-> "compile", idx |-> Len(scripts), args |-> req.args]
  BY <1>1
<1>2. ASSUME NEW bytes, x = [op |-> "byteCompile", idx |-> Len(scripts), bytes |-> bytes]
      PROVE  x.op = "byteCompile"
  BY <1>2
<1>3. CASE RunReturns /\ x = [op |-> "run", idx |-> req.idx, success |-> req.ok, len |-> len,
                              cells |-> cells, stack |-> req.stack]
  BY <1>3
<1>4. CASE DecompileReturns /\ x = [op |-> "decompile", idx |-> req.idx, len |-> len,
                                    cells |-> cells, path |-> path]
  BY <1>4
<1>5. CASE ToStringReturns /\ \E row \in FirstLines :
             x = [op |-> "toString", idx |-> req.idx, len |-> len, row |-> row]
  <2>1. PICK row \in FirstLines :
             x = [op |-> "toString", idx |-> req.idx, len |-> len, row |-> row]
    BY <1>5
  <2>2. x.op = "toString" /\ x.idx = req.idx /\ x.len = len /\ x.row = row
    BY <2>1
  <2> QED BY <1>5, <2>1, <2>2
<1>6. CASE \E bytes \in ByteStrings :
             ByteCompile(bytes) /\ x = [op |-> "byteCompile", idx |-> Len(scripts), bytes |-> bytes]
  BY <1>2, <1>6
<1> QED BY <1>1, <1>3, <1>4, <1>5, <1>6 DEF Returns

-----------------------------------------------------------------------------
(* The two passes of decompile. The counting pass leaves the chain of the    *)
(* offsets it read at; the filling pass is at the offset the chain has for   *)
(* its turn, so it stops where the count stopped and meets the same          *)
(* operations. A chain links each offset to where GetOp moves from it.       *)
At(p, end, k) == IF k <= Len(p) THEN p[k] ELSE end

Chain(s, p, end) ==
  /\ At(p, end, 1) = 0
  /\ \A k \in 1..Len(p) : /\ p[k] < Len(s) /\ GetOp(s, p[k]).ok
                          /\ At(p, end, k + 1) = GetOp(s, p[k]).next

PassInv ==
  /\ fn = "count" => i = Len(path) /\ Chain(c, path, pc)
  /\ fn = "emit" /\ len # -1 =>
       /\ len = Len(path) /\ Chain(c, path, Len(c))
       /\ i <= len /\ pc = At(path, Len(c), i + 1)
       /\ DOMAIN cells = 0..(i - 1)
       /\ \A j \in 0..(i - 1) : ShowsOp(c, path[j+1], cells[j])

LEMMA ChainGrows ==
  ASSUME NEW s, NEW p \in Seq(Nat), NEW end \in Nat, Chain(s, p, end),
         end < Len(s), GetOp(s, end).ok
  PROVE  Chain(s, Append(p, end), GetOp(s, end).next)
<1> DEFINE q == Append(p, end)
           e == GetOp(s, end).next
<1>1. /\ Len(p) \in Nat /\ Len(q) = Len(p) + 1 /\ q[Len(p) + 1] = end
      /\ \A k \in 1..Len(p) : q[k] = p[k]
  BY LenProperties, AppendProperties
<1> HIDE DEF q, e
<1>2. \A k \in 1..(Len(p) + 1) : At(q, e, k) = At(p, end, k)
  BY <1>1 DEF At
<1>3. At(q, e, Len(p) + 2) = e
  BY <1>1 DEF At
<1>4. At(q, e, 1) = 0
  BY <1>1, <1>2 DEF Chain
<1>5. ASSUME NEW k \in 1..Len(q)
      PROVE  q[k] < Len(s) /\ GetOp(s, q[k]).ok /\ At(q, e, k + 1) = GetOp(s, q[k]).next
  <2>1. CASE k = Len(p) + 1
    <3>1. q[k] = end /\ k + 1 = Len(p) + 2
      BY <1>1, <2>1
    <3> QED BY <3>1, <1>3 DEF e
  <2>2. CASE k # Len(p) + 1
    <3>1. k \in 1..Len(p) /\ k + 1 \in 1..(Len(p) + 1) /\ q[k] = p[k]
      BY <1>1, <2>2
    <3> QED BY <3>1, <1>2 DEF Chain
  <2> QED BY <2>1, <2>2
<1> QED BY <1>4, <1>5 DEF Chain, q, e

LEMMA PassStep ==
  TypeInv /\ PassInv /\ [Intact]_vars => PassInv'
<1> SUFFICES ASSUME TypeInv, PassInv, [Intact]_vars PROVE PassInv'
  OBVIOUS
<1>1. i \in Nat /\ pc \in Nat /\ path \in Seq(Nat) /\ Len(path) \in Nat /\ Len(c) \in Nat
      /\ \A k \in 1..Len(path) : path[k] \in Nat
  BY LenProperties, ElementOfSeq DEF TypeInv, TypeOK, Data
<1>2. ASSUME fn' \notin {"count", "emit"} PROVE PassInv'
  BY <1>2 DEF PassInv
<1>3. CASE UNCHANGED vars
  BY <1>3 DEF vars, locals, PassInv, ShowsOp
<1>4. ASSUME NEW op, NEW idx, Decompile(op, idx) PROVE PassInv'
  <2>1. fn' = "count" /\ pc' = 0 /\ i' = 0 /\ path' = <<>>
    BY <1>4 DEF Decompile, Idle, TypeInv, Frame
  <2>2. Chain(c', <<>>, 0)
    BY NoWords DEF Chain, At
  <2> QED BY <2>1, <2>2, NoWords DEF PassInv
<1>5. ASSUME CountOp PROVE PassInv'
  <2>1. fn' = "count" /\ c' = c /\ i' = Len(path')
    BY <1>5, <1>1, AppendProperties DEF CountOp, PassInv
  <2>2. Chain(c, path', pc')
    BY <1>5, <1>1, ChainGrows DEF CountOp, PassInv
  <2> QED BY <2>1, <2>2 DEF PassInv
<1>6. ASSUME CountFails PROVE PassInv'
  BY <1>6 DEF CountFails, Allocate, PassInv
<1>7. ASSUME CountEnds PROVE PassInv'
  <2>1. /\ fn' = "emit" /\ len' = Len(path') /\ path' = path /\ c' = c
        /\ i' = 0 /\ pc' = 0 /\ cells' = <<>>
    BY <1>7 DEF CountEnds, Allocate, PassInv, TypeInv, Frame
  <2>2. pc = Len(c)
    BY <1>7, <1>1 DEF CountEnds, TypeInv, TypeOK
  <2>3. Chain(c, path, Len(c)) /\ At(path, Len(c), 1) = 0
    BY <1>7, <2>2 DEF CountEnds, PassInv, Chain
  <2>4. DOMAIN cells' = 0..(i' - 1)
    BY <2>1, NoWords
  <2> QED BY <2>1, <2>3, <2>4, <1>1 DEF PassInv
<1>8. ASSUME fn = "emit", len # -1, pc < Len(c)
      PROVE  /\ i < len /\ pc = path[i+1] /\ GetOp(c, pc).ok
             /\ GetOp(c, pc).next = At(path, Len(c), i + 2)
  <2>1. pc = At(path, Len(c), i + 1) /\ i <= Len(path) /\ len = Len(path)
    BY <1>8 DEF PassInv
  <2>2. i + 1 \in 1..Len(path) /\ pc = path[i+1]
    BY <2>1, <1>8, <1>1 DEF At
  <2>3. (i + 1) + 1 = i + 2
    BY <1>1
  <2> QED BY <2>1, <2>2, <2>3, <1>8, <1>1 DEF PassInv, Chain
<1>9. ASSUME EmitRow PROVE PassInv'
  <2>1. fn' = "emit" /\ len' = len /\ c' = c /\ path' = path /\ i' = i + 1
    BY <1>9 DEF EmitRow, AtOp
  <2> SUFFICES ASSUME len # -1
               PROVE  /\ i + 1 <= len /\ pc' = At(path, Len(c), i + 2)
                      /\ DOMAIN cells' = 0..i
                      /\ \A j \in 0..i : ShowsOp(c, path[j+1], cells[j])'
    <3>1. (i + 1) + 1 = i + 2 /\ (i + 1) - 1 = i
      BY <1>1
    <3> QED BY <2>1, <3>1, <1>9 DEF EmitRow, AtOp, PassInv
  <2>2. i < len /\ pc = path[i+1] /\ pc' = At(path, Len(c), i + 2)
    BY <1>8, <1>9 DEF EmitRow, AtOp
  <2>3. i + 1 <= len
    BY <2>2, <1>1 DEF PassInv, TypeInv, TypeOK
  <2>4. cells' = Store(cells, i, NewPtr) /\ DOMAIN cells = 0..(i - 1)
    BY <1>9 DEF EmitRow, AtOp, PassInv
  <2>5. DOMAIN cells' = 0..i /\ cells'[i] = NewPtr /\ \A j \in 0..(i-1) : cells'[j] = cells[j]
    BY <2>4, <1>1 DEF Store
  <2>6. heap'[NewPtr] = SizedRow(<<GetOp(c, pc).op>> \o GetOp(c, pc).data)
        /\ \A p \in 1..Len(heap) : heap'[p] = heap[p]
    BY <1>9, AppendProperties DEF EmitRow, AtOp, NewRow, NewPtr, TypeInv, TypeOK
  <2>7. ASSUME NEW j \in 0..i PROVE ShowsOp(c, path[j+1], cells[j])'
    <3>1. CASE j = i
      BY <3>1, <2>1, <2>2, <2>5, <2>6 DEF ShowsOp
    <3>2. CASE j # i
      <4>1. j \in 0..(i-1) /\ j \in DOMAIN cells
        BY <3>2, <1>1, <2>4
      <4>2. cells[j] \in 1..Len(heap) /\ ShowsOp(c, path[j+1], cells[j])
        BY <4>1, <1>9 DEF EmitRow, AtOp, PassInv, TypeInv, TypeOK, Pointers
      <4>3. cells'[j] = cells[j] /\ heap'[cells[j]] = heap[cells[j]]
        BY <4>1, <4>2, <2>5, <2>6
      <4> QED BY <2>1, <4>2, <4>3 DEF ShowsOp
    <3> QED BY <3>1, <3>2
  <2> QED BY <2>2, <2>3, <2>5, <2>7
<1>10. ASSUME EmitHole PROVE PassInv'
  BY <1>10, <1>8 DEF EmitHole, PassInv
<1> QED
  <2>1. CASE Step
    BY <2>1, <1>2, <1>5, <1>6, <1>7, <1>9, <1>10 DEF Step, EncodeToken, EncodeThrows,
       CompileReturns, CopyRow, RunReturns, DecompileReturns, ToStringReturns, OutOfMemory,
       Abort, Return
  <2>2. CASE Call
    <3>1. ASSUME NEW k \in 1..Len(results), ExtractStack(k) PROVE PassInv'
      BY <3>1, <1>2 DEF ExtractStack
    <3> QED BY <2>2, <3>1, <1>2, <1>4 DEF Call, StringCompile, ByteCompile, BadHandle,
       ScriptRun, Abort, Return
  <2> QED BY <2>1, <2>2, <1>3 DEF Intact
LEMMA CodeoutStep ==
  TypeInv /\ PassInv /\ CodeoutComplete /\ [Intact]_vars => CodeoutComplete'
<1> SUFFICES ASSUME TypeInv, PassInv, CodeoutComplete, [Intact]_vars,
                    NEW k \in 1..Len(results'),
                    results'[k].op = "decompile", results'[k].len # -1
             PROVE  /\ results'[k].len = Len(results'[k].path)
                    /\ DOMAIN results'[k].cells = 0..(results'[k].len - 1)
                    /\ \A j \in DOMAIN results'[k].cells :
                         ShowsOp(scripts[results[k].idx+1], results[k].path[j+1],
                                 results[k].cells[j])'
  BY DEF CodeoutComplete
<1> DEFINE r == results'[k]
<1>1. Grows /\ IsSeq(results) /\ TypeInv'
  BY StepGrows, TypeStep DEF TypeInv
<1>2. CASE k \in 1..Len(results) /\ results'[k] = results[k]
  <2>1. r = results[k]
    BY <1>2
  <2>2. IsResult(r, heap, scripts)
    BY <1>2, <2>1 DEF TypeInv, TypeOK
  <2>3. scripts'[r.idx+1] = scripts[r.idx+1]
    <3>1. r.idx + 1 \in 1..Len(scripts)
      BY <2>2, LenProperties DEF IsResult, TypeInv, TypeOK
    <3> QED BY <3>1, <1>1 DEF Grows, Extends
  <2>4. ASSUME NEW j \in DOMAIN r.cells
        PROVE  heap'[r.cells[j]] = heap[r.cells[j]]
    BY <2>2, <1>1 DEF Grows, Extends, IsResult, Pointers
  <2> QED BY <1>2, <2>1, <2>3, <2>4 DEF CodeoutComplete, ShowsOp, TypeInv
<1>3. CASE Returns(results'[k])
  <2>1. PICK x : x = results'[k]
    OBVIOUS
  <2>2. DecompileReturns /\ x.idx = req.idx /\ x.len = len /\ x.cells = cells /\ x.path = path
    BY <1>3, <2>1, ReturnedBy
  <2>3. /\ r.idx = req.idx /\ r.len = len /\ r.cells = cells /\ r.path = path
        /\ heap' = heap /\ scripts' = scripts
    BY <2>1, <2>2 DEF DecompileReturns
  <2>4. /\ fn = "emit" /\ len # -1 /\ pc >= Len(c) /\ c = scripts[req.idx + 1]
        /\ len = Len(path) /\ i <= len /\ pc = At(path, Len(c), i + 1)
        /\ DOMAIN cells = 0..(i - 1)
        /\ \A j \in 0..(i - 1) : ShowsOp(c, path[j+1], cells[j])
    BY <2>2, <2>3 DEF DecompileReturns, PassInv, TypeInv, Frame
  <2>5. i = len
    <3>1. i \in Nat /\ Len(path) \in Nat /\ Len(c) \in Nat /\ pc \in Nat
      BY LenProperties DEF TypeInv, TypeOK, Data
    <3>2. i + 1 \in 1..Len(path) => pc < Len(c)
      BY <2>2, <2>3, <2>4, <3>1 DEF DecompileReturns, PassInv, Chain, At
    <3> QED BY <3>1, <3>2, <2>4
  <2> QED BY <2>3, <2>4, <2>5 DEF ShowsOp
<1> QED BY <1>2, <1>3, ResultsAfter

LEMMA AlwaysPass == Spec => [](Sound => TypeInv /\ PassInv /\ CodeoutComplete)
<1>1. Init => TypeInv /\ PassInv /\ CodeoutComplete
  BY TypeInit, NoWords DEF Init, PassInv, CodeoutComplete
<1>2. (Sound => TypeInv /\ PassInv /\ CodeoutComplete) /\ [Next]_vars
      => (Sound => TypeInv /\ PassInv /\ CodeoutComplete)'
  BY SoundStep, TypeStep, PassStep, CodeoutStep
<1> QED BY <1>1, <1>2, PTL DEF Spec

(* decompile's array is as long as its count says, and every line is the     *)
(* operation the count met.                                                  *)
THEOREM CodeoutCorrect == Spec => []CodeoutComplete
<1>1. (Sound => CodeoutComplete) => CodeoutComplete
  BY DEF CodeoutComplete
<1> QED BY <1>1, AlwaysPass, PTL

(* No line is stored outside the array (bridge.cpp:124).                     *)
THEOREM StoresStayInBounds == Spec => []StoresInBounds
<1>1. (Sound => TypeInv /\ PassInv) => StoresInBounds
  <2> SUFFICES ASSUME Sound => TypeInv /\ PassInv, fn = "emit", len # -1
               PROVE  DOMAIN cells \subseteq 0..(len - 1)
    BY DEF StoresInBounds
  <2>0. TypeInv /\ PassInv
    BY DEF Sound
  <2>1. DOMAIN cells = 0..(i - 1) /\ i <= len /\ i \in Nat /\ len \in Int
    BY <2>0 DEF PassInv, TypeInv, TypeOK
  <2> QED BY <2>1
<1> QED BY <1>1, AlwaysPass, PTL

LEMMA ExtendsIsPrefix ==
  ASSUME NEW S_, NEW s \in Seq(S_), NEW t \in Seq(S_), Extends(s, t)
  PROVE  IsPrefix(s, t)
<1>1. Len(s) \in Nat /\ Len(t) \in Nat
  BY LenProperties
<1>2. \A k \in 1..Len(s) : s[k] \in S_ /\ t[k] \in S_ /\ s[k] = t[k]
  BY <1>1, ElementOfSeq DEF Extends
<1> DEFINE a == SubSeq(s, 1, Len(s))
           b == SubSeq(t, 1, Len(s))
<1>3. a \in Seq(S_) /\ b \in Seq(S_) /\ Len(a) = Len(b) /\ \A k \in 1..Len(a) : a[k] = b[k]
  BY <1>1, <1>2, SubSeqProperties
<1> HIDE DEF a, b
<1>4. a = b
  BY <1>3, SeqEqual
<1> QED BY <1>4 DEF IsPrefix, Extends, a, b

(* An intact module only adds rows and scripts.                              *)
LEMMA IntactKeeps ==
  TypeInv /\ [Intact]_vars => IsPrefix(heap, heap') /\ IsPrefix(scripts, scripts')
<1> SUFFICES ASSUME TypeInv, [Intact]_vars
             PROVE  IsPrefix(heap, heap') /\ IsPrefix(scripts, scripts')
  OBVIOUS
<1>1. Extends(heap, heap') /\ Extends(scripts, scripts') /\ TypeInv'
  BY StepGrows, TypeStep DEF Grows
<1> QED BY <1>1, ExtendsIsPrefix DEF TypeInv, TypeOK

-----------------------------------------------------------------------------
(* The invariant: the rows made so far are those of the stack, every result  *)
(* of scriptRun has them all, and every view was taken of such a result.     *)
RunShows(r, rows) ==
  /\ r.stack \in Seq(Data) /\ r.len = Len(r.stack)
  /\ DOMAIN r.cells = 0..(r.len - 1)
  /\ \A j \in 0..(r.len - 1) : rows[r.cells[j]] = SizedRow(r.stack[j+1])

Size(d) == Len(d) % 256

ViewShows(v, made, rows) ==
  /\ v.of \in 1..Len(made) /\ made[v.of].op = "run"
  /\ v.threw => \E j \in 1..Len(made[v.of].stack) : Size(made[v.of].stack[j]) > 127
  /\ ~v.threw =>
       /\ Len(v.rows) = Len(made[v.of].stack)
       /\ \A j \in 1..Len(made[v.of].stack) :
            /\ v.rows[j].ptr \in 1..Len(rows)
            /\ SubSeq(rows[v.rows[j].ptr], 2, v.rows[j].size + 1)
                 = SubSeq(made[v.of].stack[j], 1, Size(made[v.of].stack[j]))

InRows == fn = "rows" =>
  /\ DOMAIN cells = 0..(i - 1)
  /\ \A j \in 0..(i - 1) : heap[cells[j]] = SizedRow(req.stack[j+1])

RunsShow == \A k \in 1..Len(results) :
              results[k].op = "run" => RunShows(results[k], heap)

SeenInv == IsSeq(views) /\ \A k \in 1..Len(views) : ViewShows(views[k], results, heap)

ViewInv == InRows /\ RunsShow /\ SeenInv

LEMMA ViewInit == Init => ViewInv
BY NoWords DEF Init, ViewInv, InRows, RunsShow, SeenInv

-----------------------------------------------------------------------------
(* The loop of stackToCharArray. *)
LEMMA RowsStep == TypeInv /\ InRows /\ [Intact]_vars => InRows'
<1> SUFFICES ASSUME TypeInv, InRows, [Intact]_vars, fn' = "rows"
             PROVE  /\ DOMAIN cells' = 0..(i' - 1)
                    /\ \A j \in 0..(i' - 1) : heap'[cells'[j]] = SizedRow(req'.stack[j+1])
  BY DEF InRows
<1>1. CASE CopyRow
  <2>1. /\ fn = "rows" /\ req' = req /\ i' = i + 1 /\ i \in Nat /\ len = Len(req.stack)
        /\ heap' = Append(heap, SizedRow(req.stack[i+1]))
        /\ cells' = Store(cells, i, Len(heap) + 1)
        /\ IsSeq(heap) /\ Pointers(cells, heap)
    BY <1>1, SeqIsSeq DEF CopyRow, NewRow, NewPtr, TypeInv, TypeOK, Frame
  <2>2. /\ heap'[Len(heap) + 1] = SizedRow(req.stack[i+1])
        /\ \A p \in 1..Len(heap) : heap'[p] = heap[p]
    BY <2>1, AppendTo
  <2>3. /\ DOMAIN cells = 0..(i - 1)
        /\ \A j \in 0..(i - 1) : heap[cells[j]] = SizedRow(req.stack[j+1])
    BY <2>1 DEF InRows
  <2>4. DOMAIN cells' = 0..i
    <3>1. DOMAIN cells' = DOMAIN cells \cup {i}
      BY <2>1 DEF Store
    <3> QED BY <3>1, <2>1, <2>3
  <2>5. ASSUME NEW j \in 0..i PROVE heap'[cells'[j]] = SizedRow(req.stack[j+1])
    <3>1. CASE j = i
      BY <3>1, <2>1, <2>2, <2>3 DEF Store
    <3>2. CASE j # i
      <4>1. j \in 0..(i - 1)
        BY <3>2, <2>1
      <4>2. cells'[j] = cells[j] /\ cells[j] \in 1..Len(heap)
        BY <4>1, <3>2, <2>1, <2>3 DEF Store, Pointers
      <4> QED BY <4>1, <4>2, <2>2, <2>3
    <3> QED BY <3>1, <3>2
  <2>6. i' - 1 = i
    BY <2>1
  <2> QED BY <2>1, <2>4, <2>5, <2>6
<1>2. CASE UNCHANGED <<fn, heap, cells, i, req>>
  BY <1>2 DEF InRows
<1>3. CASE \E idx \in 0..MaxScripts, outcome \in Outcomes : ScriptRun(idx, outcome)
  <2>1. cells' = <<>> /\ i' = 0
    BY <1>3 DEF ScriptRun, Idle, TypeInv, Frame
  <2>2. DOMAIN cells' = {} /\ 0..(0 - 1) = {}
    BY <2>1, NoWords
  <2> QED BY <2>1, <2>2
<1>4. CASE Step
  BY <1>1, <1>2, <1>4 DEF Step, EncodeToken, EncodeThrows, CompileReturns, RunReturns, CountOp,
     CountFails, CountEnds, EmitRow, AtOp, EmitHole, DecompileReturns, ToStringReturns,
     OutOfMemory, Allocate, Abort, Return
<1>5. CASE Call
  BY <1>2, <1>3, <1>5 DEF Call, StringCompile, ByteCompile, BadHandle, Decompile,
     ExtractStack, Abort, Return, locals
<1>6. CASE UNCHANGED vars
  BY <1>2, <1>6 DEF vars, locals
<1> QED BY <1>4, <1>5, <1>6 DEF Intact

(* Results of scriptRun show their stacks, and go on doing so.               *)
LEMMA RunsStep == TypeInv /\ InRows /\ RunsShow /\ [Intact]_vars => RunsShow'
<1> SUFFICES ASSUME TypeInv, InRows, RunsShow, [Intact]_vars,
                    NEW k \in 1..Len(results'), results'[k].op = "run"
             PROVE  RunShows(results'[k], heap')
  BY DEF RunsShow
<1> DEFINE r == results'[k]
<1>1. Grows /\ IsSeq(results) /\ IsSeq(heap)
  BY StepGrows, SeqIsSeq DEF TypeInv, TypeOK
<1>2. CASE k \in 1..Len(results) /\ results'[k] = results[k]
  <2>1. r = results[k]
    BY <1>2
  <2>2. IsResult(r, heap, scripts) /\ RunShows(r, heap)
    BY <1>2, <2>1 DEF TypeInv, TypeOK, RunsShow
  <2>3. ASSUME NEW j \in 0..(r.len - 1) PROVE heap'[r.cells[j]] = heap[r.cells[j]]
    <3>1. r.cells[j] \in 1..Len(heap)
      BY <2>2 DEF IsResult, Pointers, RunShows
    <3> QED BY <3>1, <1>1 DEF Grows, Extends
  <2> QED BY <2>2, <2>3 DEF RunShows
<1>3. CASE Returns(results'[k])
  <2>1. PICK x : x = results'[k]
    OBVIOUS
  <2>2. RunReturns /\ x.len = len /\ x.cells = cells /\ x.stack = req.stack
    BY <1>3, <2>1, ReturnedBy
  <2>3. r.len = len /\ r.cells = cells /\ r.stack = req.stack /\ heap' = heap /\ i = len
    BY <2>1, <2>2 DEF RunReturns
  <2> QED BY <2>2, <2>3 DEF RunReturns, RunShows, InRows, TypeInv, Frame
<1> QED BY <1>2, <1>3, ResultsAfter

-----------------------------------------------------------------------------
(* The host's reading of a length byte. *)
LEMMA SignedByte ==
  ASSUME NEW b \in 0..255
  PROVE  /\ Signed8(b) < 0 => b > 127
         /\ ~(Signed8(b) < 0) => Signed8(b) = b
BY DEF Signed8

(* A view taken of a good result is good. *)
LEMMA ExtractSees ==
  ASSUME TypeInv, RunsShow, NEW k \in 1..Len(results), ExtractStack(k)
  PROVE  \E v : views' = Append(views, v) /\ ViewShows(v, results, heap)
<1> DEFINE r    == results[k]
           ptrs == [j \in 1..r.len |-> r.cells[j-1]]
           bad  == \E j \in DOMAIN ptrs : RowLen(ptrs[j]) < 0
           v    == IF bad THEN [of |-> k, threw |-> TRUE,  rows |-> <<>>]
                   ELSE [of |-> k, threw |-> FALSE,
                         rows |-> [j \in DOMAIN ptrs |-> [ptr |-> ptrs[j], size |-> RowLen(ptrs[j])]]]
<1>1. views' = Append(views, v) /\ r.op = "run"
  BY DEF ExtractStack
<1>2. /\ r.stack \in Seq(Data) /\ r.len = Len(r.stack) /\ r.len \in Nat
      /\ DOMAIN r.cells = 0..(r.len - 1) /\ DOMAIN ptrs = 1..r.len
      /\ Pointers(r.cells, heap)
  BY <1>1, LenProperties DEF RunsShow, RunShows, TypeInv, TypeOK, IsResult
<1>3. ASSUME NEW j \in 1..r.len
      PROVE  /\ r.stack[j] \in Data /\ Size(r.stack[j]) \in 0..255
             /\ ptrs[j] \in 1..Len(heap)
             /\ heap[ptrs[j]] = SizedRow(r.stack[j])
             /\ RowLen(ptrs[j]) = Signed8(Size(r.stack[j]))
  <2>1. j - 1 \in 0..(r.len - 1) /\ (j - 1) + 1 = j
    BY <1>2
  <2>2. ptrs[j] = r.cells[j-1] /\ r.cells[j-1] \in 1..Len(heap)
    BY <2>1, <1>2 DEF Pointers
  <2>3. heap[r.cells[j-1]] = SizedRow(r.stack[j])
    BY <2>1, <1>1 DEF RunsShow, RunShows
  <2>4. r.stack[j] \in Data
    BY <1>2, ElementOfSeq
  <2>5. Size(r.stack[j]) \in 0..255
    <3>1. Len(r.stack[j]) \in Nat
      BY <2>4, LenProperties DEF Data
    <3> QED BY <3>1, ByteOfNat DEF Size
  <2>6. SizedRow(r.stack[j])[1] = Size(r.stack[j])
    BY <2>4, RowShape DEF Size
  <2> QED BY <2>2, <2>3, <2>4, <2>5, <2>6 DEF RowLen
<1>4. CASE bad
  <2>1. PICK j \in 1..r.len : RowLen(ptrs[j]) < 0
    BY <1>4, <1>2
  <2>2. Size(r.stack[j]) > 127
    <3> HIDE DEF ptrs, r
    <3>1. Signed8(Size(r.stack[j])) < 0 /\ Size(r.stack[j]) \in 0..255
      BY <2>1, <1>3
    <3> QED BY <3>1, SignedByte
  <2>3. v.of = k /\ v.threw
    BY <1>4
  <2> QED BY <1>1, <1>2, <2>2, <2>3 DEF ViewShows
<1>5. CASE ~bad
  <2>1. /\ v.of = k /\ v.threw = FALSE
        /\ v.rows = [j \in 1..r.len |-> [ptr |-> ptrs[j], size |-> RowLen(ptrs[j])]]
    BY <1>5, <1>2
  <2>2. Len(v.rows) = r.len
    <3> DEFINE rows == [j \in 1..r.len |-> [ptr |-> ptrs[j], size |-> RowLen(ptrs[j])]]
               S_   == {rows[m] : m \in 1..r.len}
               n    == r.len
    <3>1. n \in Nat
      BY <1>2
    <3>2. DOMAIN rows = 1..n /\ rows \in [1..n -> S_]
      OBVIOUS
    <3>3. rows \in Seq(S_)
      <4> HIDE DEF rows, S_, n
      <4> QED BY <3>1, <3>2, SeqDef
    <3>4. v.rows = rows
      BY <2>1
    <3> HIDE DEF rows, v, S_
    <3> QED BY <3>1, <3>2, <3>3, <3>4, LenProperties
  <2>3. ASSUME NEW j \in 1..r.len
        PROVE  /\ v.rows[j].ptr \in 1..Len(heap)
               /\ SubSeq(heap[v.rows[j].ptr], 2, v.rows[j].size + 1)
                    = SubSeq(r.stack[j], 1, Size(r.stack[j]))
    <3>1. v.rows[j].ptr = ptrs[j] /\ v.rows[j].size = RowLen(ptrs[j])
      BY <2>1
    <3>2. ~(RowLen(ptrs[j]) < 0)
      BY <1>5, <1>2
    <3>3. RowLen(ptrs[j]) = Size(r.stack[j])
      <4> HIDE DEF ptrs, r
      <4>1. ~(Signed8(Size(r.stack[j])) < 0) /\ Size(r.stack[j]) \in 0..255
        BY <3>2, <1>3
      <4>2. Signed8(Size(r.stack[j])) = Size(r.stack[j])
        BY <4>1, SignedByte
      <4> QED BY <4>2, <1>3
    <3>4. SubSeq(SizedRow(r.stack[j]), 2, Size(r.stack[j]) + 1)
            = SubSeq(r.stack[j], 1, Size(r.stack[j]))
      BY <1>3, RowShape DEF Size
    <3> HIDE DEF v, ptrs, r
    <3>5. v.rows[j].ptr \in 1..Len(heap) /\ heap[v.rows[j].ptr] = SizedRow(r.stack[j])
          /\ v.rows[j].size = Size(r.stack[j])
      BY <3>1, <3>3, <1>3
    <3> QED BY <3>4, <3>5
  <2> HIDE DEF v, ptrs
  <2>4. ViewShows(v, results, heap)
    BY <1>1, <1>2, <2>1, <2>2, <2>3 DEF ViewShows
  <2> QED BY <1>1, <2>4
<1> QED BY <1>4, <1>5

(* Views taken before stay good: rows and results only grow.                 *)
LEMMA SeenStep == TypeInv /\ RunsShow /\ SeenInv /\ [Intact]_vars => SeenInv'
<1> SUFFICES ASSUME TypeInv, RunsShow, SeenInv, [Intact]_vars PROVE SeenInv'
  OBVIOUS
<1>1. Grows /\ IsSeq(results) /\ IsSeq(heap) /\ IsSeq(results') /\ IsSeq(heap')
  BY StepGrows, TypeStep, SeqIsSeq DEF TypeInv, TypeOK
<1>2. ASSUME NEW v, ViewShows(v, results, heap) PROVE ViewShows(v, results', heap')
  <2>1. /\ v.of \in 1..Len(results') /\ results'[v.of] = results[v.of]
        /\ 1..Len(heap) \subseteq 1..Len(heap')
        /\ \A p \in 1..Len(heap) : heap'[p] = heap[p]
    BY <1>1, <1>2 DEF ViewShows, Grows, Extends, IsSeq
  <2> QED BY <1>2, <2>1 DEF ViewShows
<1>3. CASE views' = views
  BY <1>2, <1>3 DEF SeenInv
<1>4. CASE \E k \in 1..Len(results) : ExtractStack(k)
  <2>1. PICK v : views' = Append(views, v) /\ ViewShows(v, results, heap)
    BY <1>4, ExtractSees
  <2>2. /\ IsSeq(views') /\ Len(views') = Len(views) + 1 /\ Len(views) \in Nat
        /\ views'[Len(views) + 1] = v
        /\ \A k \in 1..Len(views) : views'[k] = views[k]
    BY <2>1, AppendTo DEF SeenInv, IsSeq
  <2>3. ASSUME NEW k \in 1..Len(views') PROVE ViewShows(views'[k], results, heap)
    <3>1. k \in 1..Len(views) \/ k = Len(views) + 1
      BY <2>2
    <3> QED BY <3>1, <2>1, <2>2 DEF SeenInv
  <2> QED BY <1>2, <2>2, <2>3 DEF SeenInv
<1>5. views' = views \/ \E k \in 1..Len(results) : ExtractStack(k)
  <2>1. CASE Step
    BY <2>1 DEF Step, EncodeToken, EncodeThrows, CompileReturns, CopyRow, RunReturns, CountOp,
       CountFails, CountEnds, EmitRow, AtOp, EmitHole, DecompileReturns, ToStringReturns,
       OutOfMemory, Allocate, Abort
  <2>2. CASE Call
    <3>1. ASSUME NEW args, StringCompile(args) PROVE views' = views
      BY <3>1 DEF StringCompile
    <3>2. ASSUME NEW bytes, ByteCompile(bytes) PROVE views' = views
      BY <3>2 DEF ByteCompile
    <3>3. ASSUME NEW idx, BadHandle(idx) PROVE views' = views
      BY <3>3 DEF BadHandle, Abort
    <3>4. ASSUME NEW idx, NEW outcome, ScriptRun(idx, outcome) PROVE views' = views
      BY <3>4 DEF ScriptRun
    <3>5. ASSUME NEW idx, NEW op, Decompile(op, idx) PROVE views' = views
      BY <3>5 DEF Decompile
    <3> QED BY <2>2, <3>1, <3>2, <3>3, <3>4, <3>5 DEF Call
  <2>3. CASE UNCHANGED vars
    BY <2>3 DEF vars
  <2> QED BY <2>1, <2>2, <2>3 DEF Intact
<1> QED BY <1>3, <1>4, <1>5

(* The host reads of each element what EvalScript left there, cut to its     *)
(* size modulo 256, and its read throws for an oversized element only.       *)
THEOREM ViewsAreStacks == Spec => []ViewsShowStack
<1>1. Init => TypeInv /\ ViewInv
  BY TypeInit, ViewInit
<1>2. (Sound => TypeInv /\ ViewInv) /\ [Next]_vars => (Sound => TypeInv /\ ViewInv)'
  BY SoundStep, TypeStep, RowsStep, RunsStep, SeenStep DEF ViewInv
<1>3. (Sound => ViewInv) => ViewsShowStack
  <2> SUFFICES ASSUME ViewInv, NEW k \in 1..Len(views)
               PROVE  LET v == views[k]
                          stack == results[v.of].stack
                      IN  IF v.threw THEN \E j \in 1..Len(stack) : Len(stack[j]) % 256 > 127
                          ELSE /\ Len(v.rows) = Len(stack)
                               /\ \A j \in 1..Len(stack) :
                                    SubSeq(heap[v.rows[j].ptr], 2, v.rows[j].size + 1)
                                      = SubSeq(stack[j], 1, Len(stack[j]) % 256)
    BY DEF ViewsShowStack
  <2>1. ViewShows(views[k], results, heap)
    BY DEF ViewInv, SeenInv
  <2> QED BY <2>1 DEF ViewShows, Size
<1> QED BY <1>1, <1>2, <1>3, PTL DEF Spec

-----------------------------------------------------------------------------
(* The operators ScriptService reaches are those of the bridge.              *)
LEMMA SameGetOp ==
  ASSUME NEW s, NEW at
  PROVE S!GetOp(s, at) = GetOp(s, at)
BY DEF S!GetOp, GetOp, S!SizeWidth, SizeWidth, S!PushSize, PushSize, S!OP_PUSHDATA1,
       S!OP_PUSHDATA2, S!OP_PUSHDATA4, OP_PUSHDATA1, OP_PUSHDATA2, OP_PUSHDATA4

LEMMA SameRow == ASSUME NEW d PROVE S!SizedRow(d) = SizedRow(d)
BY DEF S!SizedRow, SizedRow, S!Unwritten, Unwritten

LEMMA SameFlat == ASSUME NEW q PROVE S!FlattenSeq(q) = FlattenSeq(q)
BY DEF S!FlattenSeq, FlattenSeq

LEMMA SameToken ==
  ASSUME NEW t
  PROVE  S!TokenBytes(t) = TokenBytes(t) /\ S!Throws(t) = Throws(t)
<1>1. ASSUME NEW n, NEW w PROVE S!LittleEndian(n, w) = LittleEndian(n, w)
  BY DEF S!LittleEndian, LittleEndian, S!Pow2, Pow2
<1>2. ASSUME NEW op PROVE S!SizeWidth(op) = SizeWidth(op)
  BY DEF S!SizeWidth, SizeWidth, S!OP_PUSHDATA1, S!OP_PUSHDATA2, S!OP_PUSHDATA4, OP_PUSHDATA1,
         OP_PUSHDATA2, OP_PUSHDATA4
<1>3. ASSUME NEW n PROVE S!PushOp(n) = PushOp(n)
  BY DEF S!PushOp, PushOp, S!OP_PUSHDATA1, S!OP_PUSHDATA2, S!OP_PUSHDATA4, OP_PUSHDATA1,
         OP_PUSHDATA2, OP_PUSHDATA4
<1>4. ASSUME NEW d PROVE S!PushData(d) = PushData(d)
  BY <1>1, <1>2, <1>3 DEF S!PushData, PushData, S!PushHeader, PushHeader
<1>5. ASSUME NEW v PROVE S!ScriptNum(v) = ScriptNum(v)
  BY DEF S!ScriptNum, ScriptNum, S!LittleEndian, LittleEndian, S!Pow2, Pow2
<1>6. ASSUME NEW ds PROVE S!HexValue(ds) = HexValue(ds)
  BY DEF S!HexValue, HexValue
<1>7. ASSUME NEW ds PROVE S!HexBytes(ds) = HexBytes(ds)
  BY DEF S!HexBytes, HexBytes, S!HexValue, HexValue
<1>8. ASSUME NEW name PROVE S!opStringToOpCode(name) = opStringToOpCode(name)
  BY DEF S!opStringToOpCode, opStringToOpCode, S!GetOpName, GetOpName, S!NamedOps, NamedOps,
         S!Byte, Byte, S!Min, Min, S!OP_INVALIDOPCODE, OP_INVALIDOPCODE
<1>9. S!IsData(t) = IsData(t)
  BY DEF S!IsData, IsData
<1>10. S!Throws(t) = Throws(t)
  BY DEF S!Throws, Throws, S!IsData, IsData, S!HexTooBig, HexTooBig
<1>11. S!OP_INVALIDOPCODE = OP_INVALIDOPCODE
  BY DEF S!OP_INVALIDOPCODE, OP_INVALIDOPCODE
<1>12. S!TokenBytes(t) = TokenBytes(t)
  BY <1>4, <1>5, <1>6, <1>7, <1>8, <1>9, <1>11 DEF S!TokenBytes, TokenBytes
<1> QED BY <1>10, <1>12

-----------------------------------------------------------------------------
(* The reference parse is a recursion towards the end of the script; it      *)
(* exists because GetOp moves, and a chain of offsets follows it.            *)
Parse(s, f) ==
  [x \in 0..Len(s) |-> IF x = Len(s) THEN <<>> ELSE <<GetOp(s, x)>> \o f[GetOp(s, x).next]]

Reads(s) == {GetOp(s, x) : x \in 0..(Len(s) - 1)}

LEMMA ParseArm ==
  ASSUME NEW s \in Data, NEW f, NEW x \in 0..(Len(s) - 1), f[GetOp(s, x).next] \in Seq(Reads(s))
  PROVE  <<GetOp(s, x)>> \o f[GetOp(s, x).next] \in Seq(Reads(s))
<1>1. GetOp(s, x) \in Reads(s)
  BY DEF Reads
<1>2. <<GetOp(s, x)>> \in Seq(Reads(s))
  BY <1>1
<1> QED BY <1>2, ConcatProperties

LEMMA ParseExists ==
  ASSUME NEW s \in Data
  PROVE  \E f : f = Parse(s, f)
<1> DEFINE n == Len(s)
           R == Seq(Reads(s))
           Good(f, k) == \A x \in 0..n : x >= n - k => f[x] = Parse(s, f)[x]
           I == {k \in Nat : k <= n => \E f \in [0..n -> R] : Good(f, k)}
<1>0. n \in Nat
  BY LenProperties DEF Data
<1>1. 0 \in I
  <2> DEFINE f == [x \in 0..n |-> <<>>]
  <2>1. f \in [0..n -> R]
    BY EmptySeq
  <2>2. Good(f, 0)
    <3> SUFFICES ASSUME NEW x \in 0..n, x >= n - 0 PROVE f[x] = Parse(s, f)[x]
      OBVIOUS
    <3>1. x = n
      BY <1>0
    <3>2. Parse(s, f)[x] = <<>>
      BY <3>1 DEF Parse
    <3> QED BY <3>2
  <2> HIDE DEF Good
  <2> QED BY <2>1, <2>2
<1>2. ASSUME NEW k \in Nat, k \in I PROVE k + 1 \in I
  <2> SUFFICES ASSUME k + 1 <= n PROVE \E f \in [0..n -> R] : Good(f, k + 1)
    OBVIOUS
  <2>1. k <= n
    BY <1>0
  <2>2. PICK f \in [0..n -> R] : Good(f, k)
    BY <1>2, <2>1
  <2> DEFINE y == n - (k + 1)
             arm == <<GetOp(s, y)>> \o f[GetOp(s, y).next]
             g == [f EXCEPT ![y] = arm]
  <2>3. y \in 0..(n - 1) /\ y \in 0..n /\ y # n
    BY <1>0
  <2>4. ASSUME NEW x \in 0..(n - 1) PROVE GetOp(s, x).next \in 0..n /\ GetOp(s, x).next > x
    <3>1. GetOp(s, x).next \in (x + 1)..n
      BY GetOpMoves
    <3> QED BY <3>1, <1>0
  <2>5. arm \in R
    <3>1. f[GetOp(s, y).next] \in R
      BY <2>3, <2>4
    <3> HIDE DEF y
    <3> QED BY <2>3, <3>1, ParseArm
  <2> HIDE DEF arm
  <2>6. g \in [0..n -> R] /\ g[y] = arm /\ \A x \in 0..n : x # y => g[x] = f[x]
    BY <2>3, <2>5
  <2> HIDE DEF g
  <2>7. Good(g, k + 1)
    <3> SUFFICES ASSUME NEW x \in 0..n, x >= y PROVE g[x] = Parse(s, g)[x]
      OBVIOUS
    <3>1. CASE x = n
      <4>1. x >= n - k
        BY <3>1, <1>0
      <4>2. f[x] = Parse(s, f)[x]
        BY <2>2, <4>1
      <4>3. Parse(s, f)[x] = <<>> /\ Parse(s, g)[x] = <<>>
        BY <3>1 DEF Parse
      <4> QED BY <2>3, <2>6, <3>1, <4>2, <4>3
    <3>2. CASE x # n
      <4>1. x \in 0..(n - 1)
        BY <3>2, <1>0
      <4>2. g[GetOp(s, x).next] = f[GetOp(s, x).next]
        <5>1. GetOp(s, x).next # y
          BY <2>3, <2>4, <4>1, <1>0
        <5> QED BY <5>1, <2>4, <2>6, <4>1
      <4>3. Parse(s, g)[x] = <<GetOp(s, x)>> \o f[GetOp(s, x).next]
        BY <3>2, <4>2 DEF Parse
      <4>4. CASE x = y
        BY <2>6, <4>3, <4>4 DEF arm
      <4>5. CASE x # y
        <5>1. x >= n - k
          BY <4>5, <1>0
        <5>2. f[x] = Parse(s, f)[x]
          BY <2>2, <5>1
        <5>3. Parse(s, f)[x] = <<GetOp(s, x)>> \o f[GetOp(s, x).next]
          BY <3>2 DEF Parse
        <5> QED BY <2>6, <4>3, <4>5, <5>2, <5>3
      <4> QED BY <4>4, <4>5
    <3> QED BY <3>1, <3>2
  <2> HIDE DEF Good
  <2> QED BY <2>6, <2>7
<1>3. n \in I
  <2> HIDE DEF I
  <2>1. Nat \subseteq I
    BY <1>1, <1>2, SetInduction
  <2> QED BY <2>1, <1>0
<1>4. PICK f \in [0..n -> R] : Good(f, n)
  <2> HIDE DEF Good
  <2> QED BY <1>3, <1>0
<1>5. \A x \in 0..n : f[x] = Parse(s, f)[x]
  BY <1>0, <1>4
<1>6. f = Parse(s, f)
  <2>1. f = [x \in 0..n |-> f[x]]
    OBVIOUS
  <2>2. DOMAIN Parse(s, f) = 0..n /\ Parse(s, f) = [x \in 0..n |-> Parse(s, f)[x]]
    BY DEF Parse
  <2> HIDE DEF n
  <2> QED BY <1>5, <2>1, <2>2
<1> QED BY <1>6

(* What the parse of the service is made of.                                 *)
Parses(s, f) ==
  /\ f[Len(s)] = <<>>
  /\ \A x \in 0..Len(s) : f[x] \in Seq(Reads(s))
  /\ \A x \in 0..(Len(s) - 1) : f[x] = <<GetOp(s, x)>> \o f[GetOp(s, x).next]

LEMMA OpsParse ==
  ASSUME NEW s \in Data
  PROVE  \E f : Parses(s, f) /\ S!Ops(s) = f[0]
<1> DEFINE n == Len(s)
           R == Seq(Reads(s))
           from == CHOOSE f : f = Parse(s, f)
<1>0. n \in Nat
  BY LenProperties DEF Data
<1>1. S!Ops(s) = from[0]
  <2>1. ASSUME NEW f
        PROVE  [x \in 0..Len(s) |-> IF x = Len(s) THEN <<>>
                                    ELSE <<S!GetOp(s, x)>> \o f[S!GetOp(s, x).next]]
                 = Parse(s, f)
    BY SameGetOp DEF Parse
  <2> QED BY <2>1 DEF S!Ops
<1>2. from = Parse(s, from)
  BY ParseExists
<1> HIDE DEF from
<1>3. \A x \in 0..n : from[x] = IF x = n THEN <<>> ELSE <<GetOp(s, x)>> \o from[GetOp(s, x).next]
  <2>1. from = [x \in 0..n |-> IF x = n THEN <<>> ELSE <<GetOp(s, x)>> \o from[GetOp(s, x).next]]
    BY <1>2 DEF Parse
  <2> QED BY <2>1
<1>4. from[n] = <<>>
  <2>1. n \in 0..n
    BY <1>0
  <2> HIDE DEF n
  <2> QED BY <2>1, <1>3, Zenon
<1>5. ASSUME NEW x \in 0..(n - 1)
      PROVE  from[x] = <<GetOp(s, x)>> \o from[GetOp(s, x).next]
  <2>1. x \in 0..n /\ x # n
    BY <1>0
  <2> QED BY <2>1, <1>3
<1> DEFINE I == {k \in Nat : \A x \in 0..n : x >= n - k => from[x] \in R}
<1>6. 0 \in I
  <2> SUFFICES ASSUME NEW x \in 0..n, x >= n - 0 PROVE from[x] \in R
    OBVIOUS
  <2>1. x = n
    BY <1>0
  <2> QED BY <1>4, <2>1, EmptySeq
<1>7. ASSUME NEW k \in Nat, k \in I PROVE k + 1 \in I
  <2> SUFFICES ASSUME NEW x \in 0..n, x >= n - (k + 1) PROVE from[x] \in R
    OBVIOUS
  <2>1. CASE x = n
    BY <1>4, <2>1, EmptySeq
  <2>2. CASE x # n
    <3>1. x \in 0..(n - 1)
      BY <2>2, <1>0
    <3>2. GetOp(s, x).next \in (x + 1)..n
      BY <3>1, GetOpMoves
    <3>3. GetOp(s, x).next \in 0..n /\ GetOp(s, x).next >= n - k
      BY <3>1, <3>2, <1>0
    <3>4. from[GetOp(s, x).next] \in R
      BY <3>3, <1>7
    <3>5. <<GetOp(s, x)>> \o from[GetOp(s, x).next] \in R
      BY <3>1, <3>4, ParseArm
    <3> QED BY <3>1, <3>5, <1>5
  <2> QED BY <2>1, <2>2
<1>8. \A x \in 0..n : from[x] \in R
  <2>1. Nat \subseteq I
    <3> HIDE DEF I
    <3> QED BY <1>6, <1>7, SetInduction
  <2>2. n \in I
    BY <2>1, <1>0
  <2> QED BY <2>2, <1>0
<1> QED BY <1>1, <1>4, <1>5, <1>8 DEF Parses

(* A chain of offsets is the beginning of the parse.                         *)
LEMMA ChainParses ==
  ASSUME NEW s \in Data, NEW f, Parses(s, f), NEW p \in Seq(Nat), NEW end \in 0..Len(s),
         Chain(s, p, end)
  PROVE  /\ Len(f[0]) = Len(p) + Len(f[end]) /\ Len(f[end]) \in Nat
         /\ \A j \in 1..Len(p) : f[0][j] = GetOp(s, p[j])
         /\ \A j \in 1..Len(f[end]) : f[0][Len(p) + j] = f[end][j]
<1> DEFINE n == Len(p)
           at(k) == At(p, end, k + 1)
           rest(k) == f[at(k)]
           Good(k) == /\ Len(f[0]) = k + Len(rest(k))
                      /\ \A j \in 1..k : f[0][j] = GetOp(s, p[j])
                      /\ \A j \in 1..Len(rest(k)) : f[0][k + j] = rest(k)[j]
           I == {k \in Nat : k <= n => Good(k)}
<1>0. n \in Nat /\ Len(s) \in Nat /\ \A k \in 1..n : p[k] \in Nat
  BY LenProperties, ElementOfSeq DEF Data
<1>1. at(0) = 0
  BY DEF Chain
<1>2. \A x \in 0..Len(s) : f[x] \in Seq(Reads(s)) /\ Len(f[x]) \in Nat
  BY LenProperties DEF Parses
<1>3. ASSUME NEW k \in 0..(n - 1)
      PROVE  /\ at(k) = p[k + 1] /\ at(k) \in 0..(Len(s) - 1)
             /\ at(k + 1) = GetOp(s, p[k + 1]).next /\ at(k + 1) \in 0..Len(s)
  <2>1. k + 1 \in 1..n
    BY <1>0
  <2>2. at(k) = p[k + 1]
    BY <2>1 DEF At
  <2>3. p[k + 1] < Len(s) /\ at(k + 1) = GetOp(s, p[k + 1]).next
    BY <2>1 DEF Chain
  <2>4. p[k + 1] \in 0..(Len(s) - 1)
    BY <2>1, <2>3, <1>0
  <2>5. GetOp(s, p[k + 1]).next \in (p[k + 1] + 1)..Len(s)
    BY <2>4, GetOpMoves
  <2>6. GetOp(s, p[k + 1]).next \in 0..Len(s)
    BY <2>4, <2>5, <1>0
  <2> QED BY <2>2, <2>3, <2>4, <2>6
<1>4. at(n) = end
  BY <1>0 DEF At
<1> HIDE DEF at
<1>5. 0 \in I
  <2>1. rest(0) = f[0] /\ 0 \in 0..Len(s)
    BY <1>0, <1>1
  <2>2. Len(f[0]) \in Nat
    BY <2>1, <1>2
  <2>3. \A j \in 1..Len(rest(0)) : 0 + j = j
    BY <2>1, <2>2
  <2> QED BY <2>1, <2>2, <2>3
<1>6. ASSUME NEW k \in Nat, k \in I PROVE k + 1 \in I
  <2> SUFFICES ASSUME k + 1 <= n PROVE Good(k + 1)
    OBVIOUS
  <2>1. k \in 0..(n - 1) /\ Good(k)
    BY <1>0, <1>6
  <2> DEFINE o == GetOp(s, p[k + 1])
             tail == f[at(k + 1)]
             one == <<o>>
  <2>2. at(k) = p[k + 1] /\ at(k) \in 0..(Len(s) - 1) /\ at(k + 1) = o.next
        /\ at(k + 1) \in 0..Len(s)
    BY <2>1, <1>3
  <2>3. rest(k) = one \o tail
    <3>1. f[at(k)] = <<GetOp(s, at(k))>> \o f[GetOp(s, at(k)).next]
      BY <2>2 DEF Parses
    <3> QED BY <3>1, <2>2
  <2>4. tail \in Seq(Reads(s)) /\ Len(tail) \in Nat
    BY <2>2, <1>2
  <2>5. o \in Reads(s)
    BY <2>2 DEF Reads
  <2>6. one \in Seq(Reads(s)) /\ Len(one) = 1 /\ one[1] = o
    BY <2>5
  <2> HIDE DEF o, tail, one
  <2>7. /\ Len(rest(k)) = Len(one) + Len(tail)
        /\ \A j \in 1..(Len(one) + Len(tail)) :
             rest(k)[j] = IF j <= Len(one) THEN one[j] ELSE tail[j - Len(one)]
    <3> DEFINE both == one \o tail
    <3>1. /\ Len(both) = Len(one) + Len(tail)
          /\ \A j \in 1..(Len(one) + Len(tail)) :
               both[j] = IF j <= Len(one) THEN one[j] ELSE tail[j - Len(one)]
      BY <2>4, <2>6, ConcatProperties
    <3>2. rest(k) = both
      BY <2>3
    <3> HIDE DEF both, rest
    <3> QED BY <3>1, <3>2
  <2>8. Len(f[0]) = (k + 1) + Len(tail)
    BY <2>1, <2>4, <2>6, <2>7
  <2>9. ASSUME NEW j \in 1..(k + 1) PROVE f[0][j] = GetOp(s, p[j])
    <3>1. CASE j \in 1..k
      BY <3>1, <2>1
    <3>2. CASE j = k + 1
      <4>1. f[0][k + 1] = rest(k)[1]
        <5>1. 1 \in 1..Len(rest(k))
          BY <2>4, <2>6, <2>7
        <5>2. \A m \in 1..Len(rest(k)) : f[0][k + m] = rest(k)[m]
          BY <2>1
        <5> HIDE DEF rest
        <5> QED BY <5>1, <5>2
      <4>2. rest(k)[1] = o
        <5>1. 1 \in 1..(Len(one) + Len(tail)) /\ 1 <= Len(one)
          BY <2>4, <2>6
        <5> HIDE DEF rest
        <5> QED BY <5>1, <2>6, <2>7
      <4> QED BY <3>2, <4>1, <4>2 DEF o
    <3> QED BY <3>1, <3>2
  <2>10. ASSUME NEW j \in 1..Len(tail) PROVE f[0][(k + 1) + j] = tail[j]
    <3> DEFINE m == 1 + j
    <3>1. m \in 1..Len(rest(k)) /\ k + m = (k + 1) + j /\ ~(m <= 1) /\ m - 1 = j
      BY <2>4, <2>6, <2>7
    <3> HIDE DEF m
    <3>2. f[0][k + m] = rest(k)[m]
      BY <3>1, <2>1
    <3>3. rest(k)[m] = tail[m - 1]
      BY <3>1, <2>6, <2>7
    <3> QED BY <3>1, <3>2, <3>3
  <2>11. rest(k + 1) = tail
    BY DEF tail
  <2> QED BY <2>8, <2>9, <2>10, <2>11
<1>7. Good(n)
  <2> HIDE DEF I, Good
  <2>1. Nat \subseteq I
    BY <1>5, <1>6, SetInduction
  <2>2. n \in I /\ n <= n
    BY <2>1, <1>0
  <2> QED BY <2>2 DEF I
<1>8. Len(f[end]) \in Nat
  BY <1>2
<1> QED BY <1>4, <1>7, <1>8

(* A chain to the end of the script is the whole parse, and none of its      *)
(* reads fails; one to a failing read is no parse of a good script.          *)
LEMMA ChainIsParse ==
  ASSUME NEW s \in Data, NEW p \in Seq(Nat), Chain(s, p, Len(s))
  PROVE  /\ S!WellFormed(s) /\ Len(S!Ops(s)) = Len(p)
         /\ \A j \in 1..Len(p) : S!Ops(s)[j] = GetOp(s, p[j])
<1>1. PICK f : Parses(s, f) /\ S!Ops(s) = f[0]
  BY OpsParse
<1>2. Len(s) \in 0..Len(s) /\ Len(p) \in Nat
  BY LenProperties DEF Data
<1>3. f[Len(s)] = <<>> /\ Len(<<>>) = 0
  BY <1>1 DEF Parses
<1>4. Len(f[0]) = Len(p) + Len(f[Len(s)]) /\ \A j \in 1..Len(p) : f[0][j] = GetOp(s, p[j])
  BY <1>1, <1>2, ChainParses
<1>5. Len(S!Ops(s)) = Len(p) /\ \A j \in 1..Len(p) : S!Ops(s)[j] = GetOp(s, p[j])
  BY <1>1, <1>2, <1>3, <1>4
<1>6. \A j \in 1..Len(p) : GetOp(s, p[j]).ok
  BY DEF Chain
<1>7. S!WellFormed(s)
  BY <1>5, <1>6 DEF S!WellFormed
<1> QED BY <1>5, <1>7

LEMMA ChainFails ==
  ASSUME NEW s \in Data, NEW p \in Seq(Nat), NEW end \in 0..(Len(s) - 1), Chain(s, p, end),
         ~GetOp(s, end).ok
  PROVE  ~S!WellFormed(s)
<1>1. PICK f : Parses(s, f) /\ S!Ops(s) = f[0]
  BY OpsParse
<1>2. Len(s) \in Nat /\ Len(p) \in Nat /\ end \in 0..Len(s)
  BY LenProperties DEF Data
<1> DEFINE o == GetOp(s, end)
           one == <<o>>
           tail == f[o.next]
<1>3. f[end] = one \o tail
  BY <1>1 DEF Parses
<1>4. tail \in Seq(Reads(s)) /\ Len(tail) \in Nat
  <2>1. o.next \in (end + 1)..Len(s)
    BY GetOpMoves
  <2>2. o.next \in 0..Len(s)
    BY <2>1, <1>2
  <2> QED BY <2>2, <1>1, LenProperties DEF Parses
<1>5. o \in Reads(s)
  BY DEF Reads
<1>6. one \in Seq(Reads(s)) /\ Len(one) = 1 /\ one[1] = o
  BY <1>5
<1> HIDE DEF one, tail
<1>7. Len(f[end]) = Len(one) + Len(tail) /\ f[end][1] = one[1]
  <2> DEFINE both == one \o tail
  <2>1. /\ Len(both) = Len(one) + Len(tail)
        /\ \A j \in 1..(Len(one) + Len(tail)) :
             both[j] = IF j <= Len(one) THEN one[j] ELSE tail[j - Len(one)]
    BY <1>4, <1>6, ConcatProperties
  <2>2. f[end] = both
    BY <1>3
  <2> HIDE DEF both
  <2> QED BY <2>1, <2>2, <1>4, <1>6
<1>8. /\ Len(f[0]) = Len(p) + Len(f[end])
      /\ \A j \in 1..Len(f[end]) : f[0][Len(p) + j] = f[end][j]
  BY <1>1, <1>2, ChainParses
<1> DEFINE m == Len(p) + 1
<1>9. m \in 1..Len(f[0]) /\ f[0][m] = o
  BY <1>2, <1>4, <1>6, <1>7, <1>8
<1> HIDE DEF m
<1>10. ~f[0][m].ok
  BY <1>9
<1> QED BY <1>1, <1>9, <1>10 DEF S!WellFormed

-----------------------------------------------------------------------------
(* Handles. *)
CompiledBy(q) == {k \in 1..Len(q) : q[k].op \in {"compile", "byteCompile"}}

Numbered(q, n) ==
  /\ Cardinality(CompiledBy(q)) = n
  /\ \A k \in CompiledBy(q) : q[k].idx = Cardinality({m \in CompiledBy(q) : m < k})

LEMMA NumberedGrows ==
  ASSUME NEW q, IsSeq(q), NEW x, NEW n, Numbered(q, n)
  PROVE  /\ x.op \notin {"compile", "byteCompile"} => Numbered(Append(q, x), n)
         /\ x.op \in {"compile", "byteCompile"} /\ x.idx = n => Numbered(Append(q, x), n + 1)
<1> DEFINE t == Append(q, x)
           l == Len(q)
           C == CompiledBy(q)
           D == CompiledBy(t)
<1>1. /\ l \in Nat /\ Len(t) = l + 1 /\ t[l + 1] = x
      /\ \A k \in 1..l : t[k] = q[k]
  BY AppendTo DEF IsSeq
<1> HIDE DEF t
<1>2. C \subseteq 1..l /\ l + 1 \notin C /\ IsFiniteSet(C)
  <2>1. C \subseteq 1..l /\ l + 1 \notin C
    BY <1>1 DEF CompiledBy
  <2>2. IsFiniteSet(1..l)
    BY <1>1, FS_Interval
  <2> QED BY <2>1, <2>2, FS_Subset
<1>3. D = IF x.op \in {"compile", "byteCompile"} THEN C \cup {l + 1} ELSE C
  <2>1. \A k \in 1..(l + 1) : k \in 1..l \/ k = l + 1
    BY <1>1
  <2>2. \A k \in 1..l : k \in 1..(l + 1)
    BY <1>1
  <2>3. l + 1 \in 1..(l + 1)
    BY <1>1
  <2> QED BY <1>1, <2>1, <2>2, <2>3 DEF CompiledBy
<1>4. \A k \in C : {m \in D : m < k} = {m \in C : m < k} /\ t[k].idx = q[k].idx
  <2> SUFFICES ASSUME NEW k \in C
               PROVE  {m \in D : m < k} = {m \in C : m < k} /\ t[k].idx = q[k].idx
    OBVIOUS
  <2>1. k \in 1..l /\ ~(l + 1 < k)
    BY <1>1, <1>2
  <2> HIDE DEF C, D
  <2> QED BY <1>1, <1>3, <2>1
<1>5. {m \in C \cup {l + 1} : m < l + 1} = C
  <2>1. \A m \in C : m < l + 1
    BY <1>1, <1>2
  <2>2. ~(l + 1 < l + 1)
    BY <1>1
  <2> HIDE DEF C
  <2> QED BY <2>1, <2>2
<1>6. Cardinality(C) = n /\ \A k \in C : q[k].idx = Cardinality({m \in C : m < k})
  BY DEF Numbered
<1>7. Cardinality(C \cup {l + 1}) = n + 1
  BY <1>2, <1>6, FS_AddElement
<1>8. ASSUME x.op \notin {"compile", "byteCompile"} PROVE Numbered(t, n)
  <2>1. D = C
    BY <1>3, <1>8
  <2> HIDE DEF C, D
  <2>2. \A k \in D : t[k].idx = Cardinality({m \in D : m < k})
    BY <1>4, <1>6, <2>1
  <2> QED BY <1>6, <2>1, <2>2 DEF Numbered, D
<1>9. ASSUME x.op \in {"compile", "byteCompile"}, x.idx = n PROVE Numbered(t, n + 1)
  <2>1. D = C \cup {l + 1}
    BY <1>3, <1>9
  <2> HIDE DEF C, D
  <2>2. ASSUME NEW k \in D PROVE t[k].idx = Cardinality({m \in D : m < k})
    <3>1. CASE k \in C
      BY <1>4, <1>6, <3>1
    <3>2. CASE k = l + 1
      <4>1. {m \in D : m < k} = C
        BY <1>5, <2>1, <3>2
      <4> QED BY <1>1, <1>6, <1>9, <3>2, <4>1
    <3> QED BY <2>1, <3>1, <3>2
  <2> QED BY <1>7, <2>1, <2>2 DEF Numbered, D
<1> QED BY <1>8, <1>9 DEF t

LEMMA NumberedStep ==
  TypeInv /\ Numbered(results, Len(scripts)) /\ [Intact]_vars => Numbered(results, Len(scripts))'
<1> SUFFICES ASSUME TypeInv, Numbered(results, Len(scripts)), [Intact]_vars
             PROVE  Numbered(results', Len(scripts'))
  OBVIOUS
<1>1. IsSeq(results) /\ IsSeq(scripts) /\ Len(scripts) \in Nat
  BY SeqIsSeq DEF TypeInv, TypeOK, IsSeq
<1>2. CASE \E x : results' = Append(results, x) /\ Returns(x)
  <2>1. PICK x : results' = Append(results, x) /\ Returns(x)
    BY <1>2
  <2>2. PICK n : n = Len(scripts)
    OBVIOUS
  <2>3. CASE CompileReturns \/ \E bytes \in ByteStrings : ByteCompile(bytes)
    <3>1. Len(scripts') = n + 1
      <4>1. \E s : scripts' = Append(scripts, s)
        BY <2>3 DEF CompileReturns, ByteCompile
      <4> QED BY <1>1, <2>2, <4>1, AppendTo
    <3>2. x.op \in {"compile", "byteCompile"} /\ x.idx = n
      <4>1. x = [op |-> "compile", idx |-> n, args |-> req.args]
            \/ \E bytes : x = [op |-> "byteCompile", idx |-> n, bytes |-> bytes]
        BY <2>1, <2>2, <2>3 DEF Returns, CompileReturns, ByteCompile, RunReturns,
           DecompileReturns, ToStringReturns, Idle
      <4> QED BY <4>1
    <3> QED BY <1>1, <2>1, <2>2, <3>1, <3>2, NumberedGrows
  <2>4. CASE RunReturns \/ DecompileReturns \/ ToStringReturns
    <3>1. scripts' = scripts
      BY <2>4 DEF RunReturns, DecompileReturns, ToStringReturns
    <3>2. x.op \notin {"compile", "byteCompile"}
      <4>1. \/ \E a, b, d, e, g : x = [op |-> "run", idx |-> a, success |-> b, len |-> d,
                                        cells |-> e, stack |-> g]
            \/ \E a, b, d, e : x = [op |-> "decompile", idx |-> a, len |-> b, cells |-> d,
                                    path |-> e]
            \/ \E a, b, d : x = [op |-> "toString", idx |-> a, len |-> b, row |-> d]
        BY <2>1, <2>4 DEF Returns, CompileReturns, ByteCompile, RunReturns,
           DecompileReturns, ToStringReturns, Idle
      <4> QED BY <4>1
    <3> QED BY <1>1, <2>1, <3>1, <3>2, NumberedGrows
  <2> QED BY <2>1, <2>3, <2>4 DEF Returns
<1>3. CASE results' = results /\ scripts' = scripts
  BY <1>3
<1> QED BY <1>2, <1>3, ResultStep

(* The j-th compile that returned was given the handle j-1, and every script *)
(* of the table was returned to the host.                                    *)
THEOREM HandlesReturned == Spec => []HandlesAreReturned
<1>1. Init => TypeInv /\ Numbered(results, Len(scripts))
  <2> SUFFICES ASSUME Init PROVE Numbered(<<>>, 0)
    BY TypeInit, NoWords DEF Init
  <2>1. CompiledBy(<<>>) = {}
    BY NoWords DEF CompiledBy
  <2> QED BY <2>1, FS_EmptySet DEF Numbered
<1>2. (Sound => TypeInv /\ Numbered(results, Len(scripts))) /\ [Next]_vars
      => (Sound => TypeInv /\ Numbered(results, Len(scripts)))'
  BY SoundStep, TypeStep, NumberedStep
<1>3. (Sound => Numbered(results, Len(scripts))) => HandlesAreReturned
  BY DEF Numbered, CompiledBy, HandlesAreReturned, Compiles
<1> QED BY <1>1, <1>2, <1>3, PTL DEF Spec

-----------------------------------------------------------------------------
(* What decompile counts is the parse: a count that failed is of a script    *)
(* that is not well-formed, one that did not has the parse's length.         *)
CountIsParse == fn = "emit" =>
  IF len = -1 THEN ~S!WellFormed(c)
  ELSE /\ S!WellFormed(c) /\ Len(S!Ops(c)) = len
       /\ \A j \in 1..len : S!Ops(c)[j] = GetOp(c, path[j])

LEMMA CountStep == TypeInv /\ PassInv /\ CountIsParse /\ [Intact]_vars => CountIsParse'
<1> SUFFICES ASSUME TypeInv, PassInv, CountIsParse, [Intact]_vars PROVE CountIsParse'
  OBVIOUS
<1>1. CASE CountFails
  <2>1. /\ fn = "count" /\ pc < Len(c) /\ ~GetOp(c, pc).ok /\ c' = c /\ len' = -1
        /\ c \in Data /\ path \in Seq(Nat) /\ pc \in Nat /\ Len(c) \in Nat
        /\ Chain(c, path, pc)
    BY <1>1, LenProperties DEF CountFails, Allocate, TypeInv, TypeOK, PassInv, Data
  <2>2. pc \in 0..(Len(c) - 1)
    BY <2>1
  <2>3. ~S!WellFormed(c)
    BY <2>1, <2>2, ChainFails
  <2> QED BY <2>1, <2>3 DEF CountIsParse
<1>2. CASE CountEnds
  <2>1. /\ fn' = "emit" /\ c' = c /\ path' = path /\ len' = i /\ i \in Nat
        /\ c \in Data /\ path \in Seq(Nat) /\ PassInv'
    BY <1>2, PassStep DEF CountEnds, Allocate, TypeInv, TypeOK
  <2>2. len' # -1 /\ len' = Len(path)
    BY <2>1 DEF PassInv
  <2>3. Chain(c, path, Len(c))
    BY <2>1, <2>2 DEF PassInv
  <2>4. /\ S!WellFormed(c) /\ Len(S!Ops(c)) = Len(path)
        /\ \A j \in 1..Len(path) : S!Ops(c)[j] = GetOp(c, path[j])
    BY <2>1, <2>3, ChainIsParse
  <2> QED BY <2>1, <2>2, <2>4 DEF CountIsParse
<1>3. CASE fn = "emit" /\ UNCHANGED <<c, len, path>>
  BY <1>3 DEF CountIsParse
<1>4. CASE fn' # "emit"
  BY <1>4 DEF CountIsParse
<1>5. CASE Step
  BY <1>1, <1>2, <1>3, <1>4, <1>5 DEF Step, EncodeToken, EncodeThrows, CompileReturns, CopyRow, RunReturns,
     CountOp, EmitRow, AtOp, EmitHole, DecompileReturns, ToStringReturns, OutOfMemory, Abort, Return
<1>6. CASE Call
  BY <1>3, <1>4, <1>6 DEF Call, StringCompile, ByteCompile, BadHandle, ScriptRun, Decompile,
     ExtractStack, Abort, Return, locals
<1>7. CASE UNCHANGED vars
  BY <1>3, <1>4, <1>7 DEF vars, locals
<1> QED BY <1>5, <1>6, <1>7 DEF Intact

LEMMA AlwaysCounts == Spec => [](Sound => TypeInv /\ PassInv /\ CountIsParse)
<1>1. Init => TypeInv /\ PassInv /\ CountIsParse
  BY TypeInit DEF Init, PassInv, CountIsParse
<1>2. (Sound => TypeInv /\ PassInv /\ CountIsParse) /\ [Next]_vars
      => (Sound => TypeInv /\ PassInv /\ CountIsParse)'
  BY SoundStep, TypeStep, PassStep, CountStep
<1> QED BY <1>1, <1>2, PTL DEF Spec

-----------------------------------------------------------------------------
(* Results of decompile keep the count of their script.                      *)
CountsOf(r, s) == IF S!WellFormed(s) THEN r.len = Len(S!Ops(s)) ELSE r.len = -1

DecompilesCount == \A k \in 1..Len(results) :
  results[k].op = "decompile" => CountsOf(results[k], scripts[results[k].idx + 1])

LEMMA DecompilesStep ==
  TypeInv /\ CountIsParse /\ DecompilesCount /\ [Intact]_vars => DecompilesCount'
<1> SUFFICES ASSUME TypeInv, CountIsParse, DecompilesCount, [Intact]_vars,
                    NEW k \in 1..Len(results'), results'[k].op = "decompile"
             PROVE  CountsOf(results'[k], scripts'[results'[k].idx + 1])
  BY DEF DecompilesCount
<1>1. Grows /\ Len(scripts) \in Nat
  BY StepGrows, LenProperties DEF TypeInv, TypeOK
<1>2. PICK r : r = results'[k]
  OBVIOUS
<1>3. CASE k \in 1..Len(results) /\ r = results[k]
  <2>1. IsResult(r, heap, scripts) /\ CountsOf(r, scripts[r.idx + 1])
    BY <1>2, <1>3 DEF DecompilesCount, TypeInv, TypeOK
  <2>2. scripts'[r.idx + 1] = scripts[r.idx + 1]
    <3>1. r.idx + 1 \in 1..Len(scripts)
      BY <1>1, <2>1 DEF IsResult
    <3> QED BY <1>1, <3>1 DEF Grows, Extends
  <2> QED BY <1>2, <2>1, <2>2
<1>4. CASE Returns(r)
  <2>1. DecompileReturns /\ r.idx = req.idx /\ r.len = len
    BY <1>2, <1>4, ReturnedBy
  <2>2. /\ scripts' = scripts /\ fn = "emit" /\ c = scripts[req.idx + 1]
        /\ r.idx = req.idx /\ r.len = len
    BY <2>1 DEF DecompileReturns, TypeInv, Frame
  <2>3. CountsOf(r, c)
    BY <2>2 DEF CountsOf, CountIsParse
  <2> QED BY <1>2, <2>2, <2>3
<1> QED BY <1>2, <1>3, <1>4, ResultsAfter

-----------------------------------------------------------------------------
(* Flattening is a recursion along its sequence; it exists, and what it gives *)
(* for one more piece is what it gave, and that piece.                       *)
Flat(q, f) == [k \in 1..Len(q) |-> IF k = 1 THEN q[k] ELSE f[k - 1] \o q[k]]

Flattens(q, f) == /\ f[1] = q[1]
                  /\ \A k \in 2..Len(q) : f[k] = f[k - 1] \o q[k]

LEMMA FlatExists ==
  ASSUME NEW q \in Seq(Data), Len(q) > 0
  PROVE  \E f : Flattens(q, f) /\ FlattenSeq(q) = f[Len(q)]
<1> DEFINE n == Len(q)
           g == [a \in (Nat \ {0}) \X Data |-> IF a[1] = 1 THEN q[a[1]]
                                               ELSE IF a[1] <= n THEN a[2] \o q[a[1]] ELSE <<>>]
           from == CHOOSE f : f = Flat(q, f)
<1>1. n \in Nat /\ n >= 1 /\ <<>> \in Data /\ \A k \in 1..n : q[k] \in Data
  BY LenProperties, ElementOfSeq, NoWords
<1>2. Makes(g, Data)
  <2> SUFFICES ASSUME NEW a \in (Nat \ {0}) \X Data PROVE g[a] \in Data
    BY DEF Makes
  <2>1. a[1] \in Nat \ {0} /\ a[2] \in Data
    OBVIOUS
  <2>2. CASE a[1] <= n
    <3>1. q[a[1]] \in Data
      BY <1>1, <2>1, <2>2
    <3>2. a[2] \o q[a[1]] \in Data
      BY <2>1, <3>1, ConcatProperties DEF Data
    <3> QED BY <2>2, <3>1, <3>2
  <2>3. CASE ~(a[1] <= n)
    BY <1>1, <2>3
  <2> QED BY <2>2, <2>3
<1>3. PICK h \in [0..n -> Data] : Builds(h, n, <<>>, g)
  <2> HIDE DEF g
  <2> QED BY <1>1, <1>2, Built
<1>4. \E f : f = Flat(q, f)
  <2> DEFINE f == [k \in 1..n |-> h[k]]
  <2>1. ASSUME NEW k \in 1..n PROVE f[k] = IF k = 1 THEN q[k] ELSE f[k - 1] \o q[k]
    <3>1. k \in Nat \ {0} /\ k - 1 \in 0..n /\ h[k - 1] \in Data
      BY <1>1
    <3>2. h[k] = g[<<k, h[k - 1]>>]
      BY <1>3 DEF Builds
    <3>3. g[<<k, h[k - 1]>>] = IF k = 1 THEN q[k] ELSE h[k - 1] \o q[k]
      BY <1>1, <3>1
    <3>4. k # 1 => f[k - 1] = h[k - 1]
      BY <1>1
    <3> QED BY <3>2, <3>3, <3>4
  <2>2. f = [k \in 1..n |-> IF k = 1 THEN q[k] ELSE f[k - 1] \o q[k]]
    <3> DEFINE b == [k \in 1..n |-> IF k = 1 THEN q[k] ELSE f[k - 1] \o q[k]]
    <3>1. \A k \in 1..n : b[k] = IF k = 1 THEN q[k] ELSE f[k - 1] \o q[k]
      OBVIOUS
    <3>2. f = [k \in 1..n |-> f[k]] /\ b = [k \in 1..n |-> b[k]]
      OBVIOUS
    <3> HIDE DEF f, b
    <3>3. \A k \in 1..n : f[k] = b[k]
      BY <2>1, <3>1
    <3>4. f = b
      BY <3>2, <3>3
    <3> QED BY <3>4 DEF b
  <2> HIDE DEF f
  <2> QED BY <2>2 DEF Flat
<1>5. from = Flat(q, from)
  BY <1>4
<1>6. FlattenSeq(q) = from[n]
  BY <1>1 DEF FlattenSeq, Flat
<1> HIDE DEF from, g
<1>7. \A k \in 1..n : from[k] = IF k = 1 THEN q[k] ELSE from[k - 1] \o q[k]
  <2> DEFINE b == Flat(q, from)
  <2>1. \A k \in 1..n : b[k] = IF k = 1 THEN q[k] ELSE from[k - 1] \o q[k]
    BY DEF Flat
  <2>2. from = b
    BY <1>5
  <2> HIDE DEF b
  <2> QED BY <2>1, <2>2
<1>8. 1 \in 1..n /\ \A k \in 2..n : k \in 1..n /\ k # 1
  BY <1>1
<1>9. Flattens(q, from)
  BY <1>7, <1>8 DEF Flattens
<1> QED BY <1>6, <1>9

(* The bytes of the first n tokens of a program.                             *)
Code(args, n) == FlattenSeq([k \in 1..n |-> TokenBytes(args[k])])

LEMMA CodeOfNone == ASSUME NEW args PROVE Code(args, 0) = <<>>
<1> DEFINE q == [k \in 1..0 |-> TokenBytes(args[k])]
<1>1. q = <<>>
  <2>1. q \in [1..0 -> {}]
    OBVIOUS
  <2>2. q \in Seq({}) /\ Len(q) = 0
    <3>1. q \in Seq({})
      BY <2>1, SeqDef
    <3>2. DOMAIN q = 1..0
      OBVIOUS
    <3> HIDE DEF q
    <3>3. Len(q) \in Nat /\ DOMAIN q = 1..Len(q)
      BY <3>1, LenProperties
    <3> QED BY <3>1, <3>2, <3>3
  <2> HIDE DEF q
  <2> QED BY <2>2, EmptySeq
<1> HIDE DEF q
<1>2. FlattenSeq(q) = <<>>
  BY <1>1, NoWords DEF FlattenSeq
<1> QED BY <1>2 DEF Code, q

LEMMA CodeGrows ==
  ASSUME NEW args, NEW n \in Nat, \A k \in 1..(n + 1) : TokenBytes(args[k]) \in Data
  PROVE  Code(args, n + 1) = Code(args, n) \o TokenBytes(args[n + 1])
<1> DEFINE piece(k) == TokenBytes(args[k])
           q == [k \in 1..n |-> piece(k)]
           t == [k \in 1..(n + 1) |-> piece(k)]
<1>1. /\ q \in Seq(Data) /\ Len(q) = n /\ \A k \in 1..n : q[k] = piece(k)
      /\ t \in Seq(Data) /\ Len(t) = n + 1 /\ \A k \in 1..(n + 1) : t[k] = piece(k)
  <2>1. q \in [1..n -> Data] /\ t \in [1..(n + 1) -> Data]
    OBVIOUS
  <2>2. DOMAIN q = 1..n /\ DOMAIN t = 1..(n + 1)
    OBVIOUS
  <2>3. (\A k \in 1..n : q[k] = piece(k)) /\ \A k \in 1..(n + 1) : t[k] = piece(k)
    OBVIOUS
  <2> HIDE DEF q, t, piece
  <2>4. q \in Seq(Data) /\ t \in Seq(Data)
    BY <2>1, SeqDef
  <2> QED BY <2>2, <2>3, <2>4, LenProperties
<1>2. Code(args, n) = FlattenSeq(q) /\ Code(args, n + 1) = FlattenSeq(t)
  BY DEF Code
<1>3. \A k \in 1..(n + 1) : piece(k) \in Data
  OBVIOUS
<1> HIDE DEF q, t, piece
<1>4. PICK f : Flattens(t, f) /\ FlattenSeq(t) = f[n + 1]
  BY <1>1, FlatExists
<1>5. CASE n = 0
  <2>1. FlattenSeq(t) = piece(1)
    <3>1. 1 \in 1..(n + 1) /\ n + 1 = 1
      BY <1>5
    <3> QED BY <1>1, <1>4, <1>5, <3>1 DEF Flattens
  <2>2. Code(args, n) = <<>>
    BY <1>5, CodeOfNone
  <2>3. piece(1) \in Seq(Byte)
    BY <1>3, <1>5 DEF Data
  <2>4. <<>> \o piece(1) = piece(1)
    BY <2>3, ConcatEmptySeq
  <2>5. piece(1) = TokenBytes(args[1]) /\ n + 1 = 1
    BY <1>5 DEF piece
  <2>6. Code(args, n + 1) = TokenBytes(args[1])
    BY <1>2, <2>1, <2>5
  <2>7. TokenBytes(args[n + 1]) = TokenBytes(args[1])
    BY <2>5
  <2>8. Code(args, n) \o TokenBytes(args[1]) = TokenBytes(args[1])
    BY <2>2, <2>4, <2>5
  <2> QED BY <2>6, <2>7, <2>8
<1>6. CASE n > 0
  <2>1. PICK h : Flattens(q, h) /\ FlattenSeq(q) = h[n]
    BY <1>1, <1>6, FlatExists
  <2> DEFINE I == {k \in Nat : k + 1 <= n => f[k + 1] = h[k + 1]}
  <2>2. 0 \in I
    <3>1. 1 \in 1..n /\ 1 \in 1..(n + 1)
      BY <1>6
    <3> QED BY <1>1, <1>4, <2>1, <3>1 DEF Flattens
  <2>3. ASSUME NEW k \in Nat, k \in I PROVE k + 1 \in I
    <3> SUFFICES ASSUME (k + 1) + 1 <= n PROVE f[(k + 1) + 1] = h[(k + 1) + 1]
      OBVIOUS
    <3> DEFINE m == (k + 1) + 1
    <3>1. m \in 2..n /\ m \in 2..(n + 1) /\ m - 1 = k + 1 /\ k + 1 <= n /\ m \in 1..n
          /\ m \in 1..(n + 1)
      OBVIOUS
    <3>2. f[k + 1] = h[k + 1]
      BY <2>3, <3>1
    <3> HIDE DEF m
    <3>3. f[m] = f[m - 1] \o t[m] /\ h[m] = h[m - 1] \o q[m] /\ t[m] = q[m]
      BY <1>1, <1>4, <2>1, <3>1 DEF Flattens
    <3>4. f[m] = h[m]
      BY <3>1, <3>2, <3>3
    <3> QED BY <3>4 DEF m
  <2>4. f[n] = h[n]
    <3> HIDE DEF I
    <3>1. Nat \subseteq I
      BY <2>2, <2>3, SetInduction
    <3>2. n - 1 \in I /\ (n - 1) + 1 = n
      BY <1>6, <3>1
    <3> QED BY <3>2 DEF I
  <2>5. n + 1 \in 2..(n + 1) /\ (n + 1) - 1 = n /\ n + 1 \in 1..(n + 1)
    BY <1>6
  <2>6. f[n + 1] = f[n] \o t[n + 1]
    <3> DEFINE m == n + 1
    <3>1. m \in 2..Len(t) /\ m - 1 = n
      BY <1>1, <2>5
    <3> HIDE DEF m
    <3>2. f[m] = f[m - 1] \o t[m]
      BY <1>4, <3>1 DEF Flattens
    <3>3. f[m] = f[n] \o t[m]
      BY <3>1, <3>2
    <3> QED BY <3>3 DEF m
  <2> QED BY <1>1, <1>2, <1>4, <2>1, <2>4, <2>5, <2>6 DEF piece
<1> QED BY <1>5, <1>6

-----------------------------------------------------------------------------
(* The bytes a read of s at p moves over are found in t at q.                *)
Matches(s, p, t, q, n) ==
  /\ s \in Data /\ p \in 0..(Len(s) - 1) /\ GetOp(s, p).ok
  /\ t \in Data /\ q \in 0..(Len(t) - 1)
  /\ n \in Nat /\ GetOp(s, p).next = p + n /\ q + n <= Len(t)
  /\ \A k \in 1..n : t[q + k] = s[p + k]

LEMMA MatchReads ==
  ASSUME NEW s, NEW p, NEW t, NEW q, NEW n, Matches(s, p, t, q, n)
  PROVE  GetOp(t, q).ok /\ GetOp(t, q).next = q + n
BY GetOpLocal DEF Matches

(* One more operation at the end of a script is one more link of its chain:  *)
(* the reads before it do not see it.                                        *)
LEMMA ChainAppends ==
  ASSUME NEW s \in Data, NEW p \in Seq(Nat), Chain(s, p, Len(s)), NEW b, OneOp(b)
  PROVE  s \o b \in Data /\ Chain(s \o b, Append(p, Len(s)), Len(s \o b))
<1> DEFINE t == s \o b
           n == Len(s)
           m == Len(b)
<1>1. b \in Data /\ m > 0 /\ GetOp(b, 0).ok /\ GetOp(b, 0).next = m
  BY DEF OneOp
<1>2. /\ n \in Nat /\ m \in Nat /\ t \in Data /\ Len(t) = n + m
      /\ \A k \in 1..n : t[k] = s[k]
      /\ \A k \in 1..m : t[n + k] = b[k]
  <2>1. n \in Nat /\ m \in Nat
    BY <1>1, LenProperties DEF Data
  <2>2. /\ t \in Data /\ Len(t) = n + m
        /\ \A k \in 1..(n + m) : t[k] = IF k <= n THEN s[k] ELSE b[k - n]
    BY <1>1, ConcatProperties DEF Data
  <2> HIDE DEF t, n, m
  <2>3. ASSUME NEW k \in 1..n PROVE t[k] = s[k]
    <3>1. k \in 1..(n + m) /\ k <= n
      BY <2>1
    <3> QED BY <2>2, <3>1
  <2>4. ASSUME NEW k \in 1..m PROVE t[n + k] = b[k]
    <3> DEFINE j == n + k
    <3>1. j \in 1..(n + m) /\ ~(j <= n) /\ j - n = k
      BY <2>1
    <3> HIDE DEF j
    <3>2. t[j] = b[j - n]
      BY <2>2, <3>1
    <3> QED BY <3>1, <3>2 DEF j
  <2> QED BY <2>1, <2>2, <2>3, <2>4
<1> HIDE DEF t
<1>3. Len(p) \in Nat /\ \A k \in 1..Len(p) : p[k] \in Nat
  BY LenProperties, ElementOfSeq
<1>4. ASSUME NEW k \in 1..Len(p)
      PROVE  p[k] < Len(t) /\ GetOp(t, p[k]).ok /\ GetOp(t, p[k]).next = GetOp(s, p[k]).next
  <2>1. p[k] \in 0..(n - 1) /\ p[k] \in 0..(Len(t) - 1) /\ GetOp(s, p[k]).ok
    BY <1>2, <1>3 DEF Chain
  <2>2. GetOp(s, p[k]).next \in (p[k] + 1)..n
    BY <2>1, GetOpMoves
  <2>3. PICK move \in Nat : GetOp(s, p[k]).next = p[k] + move /\ p[k] + move <= n
    <3> DEFINE e  == GetOp(s, p[k]).next
               at == p[k]
    <3>1. at \in Nat /\ e \in (at + 1)..n /\ n \in Nat
      BY <2>1, <2>2, <1>2
    <3> HIDE DEF e, at, n
    <3>2. e - at \in Nat /\ e = at + (e - at) /\ at + (e - at) <= n
      BY <3>1
    <3> QED BY <3>2 DEF e, at
  <2>4. p[k] + move <= Len(t) /\ \A j \in 1..move : t[p[k] + j] = s[p[k] + j]
    <3>1. \A j \in 1..move : p[k] + j \in 1..n
      BY <2>1, <2>3, <1>2
    <3>2. p[k] + move <= Len(t)
      BY <2>1, <2>3, <1>2
    <3>3. \A j \in 1..n : t[j] = s[j]
      BY <1>2
    <3> HIDE DEF n
    <3>4. \A j \in 1..move : t[p[k] + j] = s[p[k] + j]
      BY <3>1, <3>3
    <3> QED BY <3>2, <3>4
  <2>5. GetOp(t, p[k]).ok /\ GetOp(t, p[k]).next = p[k] + move
    <3>1. Matches(s, p[k], t, p[k], move)
      BY <1>2, <2>1, <2>3, <2>4 DEF Matches
    <3> QED BY <3>1, MatchReads
  <2> QED BY <2>1, <2>3, <2>5
<1>5. Chain(t, p, n)
  <2>1. At(p, n, 1) = 0
    BY DEF Chain
  <2>2. ASSUME NEW k \in 1..Len(p) PROVE At(p, n, k + 1) = GetOp(t, p[k]).next
    <3>1. At(p, n, k + 1) = GetOp(s, p[k]).next
      BY DEF Chain
    <3> QED BY <1>4, <3>1
  <2> QED BY <1>4, <2>1, <2>2 DEF Chain
<1>6. GetOp(t, n).ok /\ GetOp(t, n).next = n + m /\ n < Len(t)
  <2>1. Matches(b, 0, t, n, m)
    BY <1>1, <1>2 DEF Matches
  <2>2. GetOp(t, n).ok /\ GetOp(t, n).next = n + m
    BY <2>1, MatchReads
  <2>3. n < Len(t)
    BY <1>1, <1>2
  <2> QED BY <2>2, <2>3
<1>7. Chain(t, Append(p, n), GetOp(t, n).next)
  BY <1>2, <1>5, <1>6, ChainGrows
<1> QED BY <1>2, <1>6, <1>7 DEF t

-----------------------------------------------------------------------------
(* The tokens that leave something in the script.                            *)
Shown(args, n) == {j \in 1..n : TokenBytes(args[j]) # <<>>}

LEMMA ShownGrows ==
  ASSUME NEW args, NEW n \in Nat
  PROVE  /\ Cardinality(Shown(args, 0)) = 0 /\ Cardinality(Shown(args, n)) \in Nat
         /\ Cardinality(Shown(args, n + 1)) =
              IF TokenBytes(args[n + 1]) = <<>> THEN Cardinality(Shown(args, n))
              ELSE Cardinality(Shown(args, n)) + 1
<1> DEFINE D == Shown(args, n)
           has(j) == TokenBytes(args[j]) # <<>>
<1>1. Shown(args, 0) = {}
  BY DEF Shown
<1>2. D \subseteq 1..n /\ n + 1 \notin D /\ IsFiniteSet(D)
  <2>1. D \subseteq 1..n /\ n + 1 \notin D
    BY DEF Shown
  <2>2. IsFiniteSet(1..n)
    BY FS_Interval
  <2> HIDE DEF D
  <2> QED BY <2>1, <2>2, FS_Subset
<1>3. Shown(args, n + 1) = IF has(n + 1) THEN D \cup {n + 1} ELSE D
  <2>1. Shown(args, n + 1) = {j \in 1..(n + 1) : has(j)} /\ D = {j \in 1..n : has(j)}
    BY DEF Shown
  <2> HIDE DEF has, D
  <2>2. \A j : j \in 1..(n + 1) <=> (j \in 1..n \/ j = n + 1)
    OBVIOUS
  <2> QED BY <2>1, <2>2
<1>4. CASE has(n + 1)
  <2>1. Cardinality(D \cup {n + 1}) = Cardinality(D) + 1
    BY <1>2, FS_AddElement
  <2> QED BY <1>1, <1>2, <1>3, <1>4, <2>1, FS_EmptySet, FS_CardinalityType
<1>5. CASE ~has(n + 1)
  BY <1>1, <1>2, <1>3, <1>5, FS_EmptySet, FS_CardinalityType
<1> QED BY <1>4, <1>5

(* A program without bare pushes is one operation per token that shows.      *)
LEMMA CodeType ==
  ASSUME NEW args \in Seq(ProgramTokens), NEW n \in 0..Len(args),
         \A j \in 1..n : ~Throws(args[j])
  PROVE  /\ Code(args, n) \in Data
         /\ (\A j \in 1..n : ~BarePush(args[j])) =>
              \E p \in Seq(Nat) : /\ Len(p) = Cardinality(Shown(args, n))
                                  /\ Chain(Code(args, n), p, Len(Code(args, n)))
<1> DEFINE Good(k) ==
             /\ Code(args, k) \in Data
             /\ (\A j \in 1..k : ~BarePush(args[j])) =>
                  \E p \in Seq(Nat) : /\ Len(p) = Cardinality(Shown(args, k))
                                      /\ Chain(Code(args, k), p, Len(Code(args, k)))
           I == {k \in Nat : k <= n => Good(k)}
<1>0. Len(args) \in Nat /\ n \in Nat
  BY LenProperties
<1>1. ASSUME NEW j \in 1..n
      PROVE  /\ TokenBytes(args[j]) \in Data
             /\ TokenBytes(args[j]) = <<>> \/ BarePush(args[j]) \/ OneOp(TokenBytes(args[j]))
  <2>1. args[j] \in ProgramTokens /\ ~Throws(args[j])
    BY <1>0, ElementOfSeq
  <2> HIDE DEF Good
  <2> QED BY <2>1, TokenType
<1>2. 0 \in I
  <2>1. Code(args, 0) = <<>> /\ Cardinality(Shown(args, 0)) = 0
    BY <1>0, CodeOfNone, ShownGrows
  <2>2. Chain(<<>>, <<>>, 0)
    <3>1. 1..0 = {} /\ Len(<<>>) = 0
      BY NoWords
    <3> QED BY <3>1 DEF Chain, At
  <2> QED BY <2>1, <2>2, NoWords
<1>3. ASSUME NEW k \in Nat, k \in I PROVE k + 1 \in I
  <2> SUFFICES ASSUME k + 1 <= n PROVE Good(k + 1)
    OBVIOUS
  <2> DEFINE s == Code(args, k)
             b == TokenBytes(args[k + 1])
  <2>1. k <= n /\ k + 1 \in 1..n /\ \A j \in 1..(k + 1) : j \in 1..n
    BY <1>0
  <2>2. Good(k)
    BY <1>3, <2>1
  <2>3. b \in Data /\ \A j \in 1..(k + 1) : TokenBytes(args[j]) \in Data
    BY <1>1, <2>1
  <2>4. Code(args, k + 1) = s \o b
    BY <2>3, CodeGrows
  <2>5. s \o b \in Data
    BY <2>2, <2>3, ConcatProperties DEF Data
  <2>6. ASSUME \A j \in 1..(k + 1) : ~BarePush(args[j])
        PROVE  \E p \in Seq(Nat) : /\ Len(p) = Cardinality(Shown(args, k + 1))
                                   /\ Chain(s \o b, p, Len(s \o b))
    <3>1. (\A j \in 1..k : ~BarePush(args[j])) /\ ~BarePush(args[k + 1])
      BY <2>6
    <3>2. PICK p \in Seq(Nat) : Len(p) = Cardinality(Shown(args, k)) /\ Chain(s, p, Len(s))
      BY <2>2, <3>1
    <3>3. CASE b = <<>>
      <4>1. s \o b = s
        BY <2>2, <3>3, ConcatEmptySeq DEF Data
      <4>2. Cardinality(Shown(args, k + 1)) = Cardinality(Shown(args, k))
        BY <3>3, ShownGrows
      <4> HIDE DEF s, b
      <4> QED BY <3>2, <4>1, <4>2
    <3>4. CASE b # <<>>
      <4>1. OneOp(b)
        BY <1>1, <2>1, <3>1, <3>4
      <4>2. Cardinality(Shown(args, k + 1)) = Cardinality(Shown(args, k)) + 1
        BY <3>4, ShownGrows
      <4>3. s \in Data
        BY <2>2
      <4> HIDE DEF s, b
      <4>4. Chain(s \o b, Append(p, Len(s)), Len(s \o b))
        BY <3>2, <4>1, <4>3, ChainAppends
      <4>5. Append(p, Len(s)) \in Seq(Nat) /\ Len(Append(p, Len(s))) = Len(p) + 1
        BY <4>3, AppendProperties, LenProperties DEF Data
      <4> QED BY <3>2, <4>2, <4>4, <4>5
    <3> QED BY <3>3, <3>4
  <2> HIDE DEF s, b
  <2> QED BY <2>4, <2>5, <2>6
<1>4. n \in I
  <2> HIDE DEF I
  <2>1. Nat \subseteq I
    BY <1>2, <1>3, SetInduction
  <2> QED BY <1>0, <2>1
<1> HIDE DEF Good
<1>5. Good(n)
  BY <1>0, <1>4
<1> QED BY <1>5 DEF Good

-----------------------------------------------------------------------------
(* A compile in progress has the code of the tokens it took, none of which   *)
(* threw; one that returned has left its whole code in the table.            *)
EncodeInv == fn = "encode" =>
  /\ req.args \in Programs
  /\ \A j \in 1..i : ~Throws(req.args[j])
  /\ c = Code(req.args, i)

Compiled(r, s) ==
  /\ r.args \in Programs /\ Len(r.args) \in Nat
  /\ \A j \in 1..Len(r.args) : ~Throws(r.args[j])
  /\ s = Code(r.args, Len(r.args))

CompilesCode == \A k \in 1..Len(results) :
  results[k].op = "compile" => Compiled(results[k], scripts[results[k].idx + 1])

LEMMA ProgramType ==
  ASSUME NEW args \in Programs
  PROVE  args \in Seq(ProgramTokens) /\ Len(args) \in Nat
<1>1. args \in Seq(Tokens) /\ Tokens \subseteq ProgramTokens
  BY ProgramsAssumption
<1>2. Len(args) \in Nat /\ args \in [1..Len(args) -> Tokens]
  BY <1>1, LenProperties
<1>3. args \in [1..Len(args) -> ProgramTokens]
  BY <1>1, <1>2
<1> QED BY <1>2, <1>3, SeqDef

LEMMA EncodeStep == TypeInv /\ EncodeInv /\ [Intact]_vars => EncodeInv'
<1> SUFFICES ASSUME TypeInv, EncodeInv, [Intact]_vars PROVE EncodeInv'
  OBVIOUS
<1>1. CASE EncodeToken
  <2>1. /\ fn = "encode" /\ req' = req /\ i' = i + 1 /\ i \in Nat /\ i < Len(req.args)
        /\ ~Throws(req.args[i + 1]) /\ c' = c \o TokenBytes(req.args[i + 1])
    BY <1>1 DEF EncodeToken, encodeOp, TypeInv, TypeOK
  <2>2. PICK args, n : args = req.args /\ n = i
    OBVIOUS
  <2>3. /\ args \in Programs /\ n \in Nat /\ n + 1 <= Len(args) /\ c = Code(args, n)
        /\ c' = c \o TokenBytes(args[n + 1])
        /\ \A j \in 1..n : ~Throws(args[j])
        /\ ~Throws(args[n + 1])
    BY <2>1, <2>2, ProgramType DEF EncodeInv
  <2>4. \A j \in 1..(n + 1) : ~Throws(args[j])
    BY <2>3
  <2>5. ASSUME NEW j \in 1..(n + 1) PROVE TokenBytes(args[j]) \in Data
    <3>1. j \in 1..Len(args) /\ args \in Seq(ProgramTokens)
      BY <2>3, ProgramType
    <3>2. args[j] \in ProgramTokens
      BY <3>1, ElementOfSeq
    <3> QED BY <2>4, <3>2, TokenType
  <2>6. Code(args, n + 1) = Code(args, n) \o TokenBytes(args[n + 1])
    BY <2>3, <2>5, CodeGrows
  <2>7. req'.args = args /\ i' = n + 1 /\ c' = Code(args, n + 1)
    BY <2>1, <2>2, <2>3, <2>6
  <2> QED BY <2>3, <2>4, <2>7 DEF EncodeInv
<1>2. ASSUME NEW args \in Programs, StringCompile(args) PROVE EncodeInv'
  <2>1. req'.args = args /\ i' = 0 /\ c' = <<>>
    BY <1>2 DEF StringCompile, Idle, locals, TypeInv, Frame
  <2>2. c' = Code(args, 0)
    BY <2>1, CodeOfNone
  <2> QED BY <2>1, <2>2 DEF EncodeInv
<1>3. CASE fn = "encode" /\ UNCHANGED <<req, i, c>>
  BY <1>3 DEF EncodeInv
<1>4. CASE fn' # "encode"
  BY <1>4 DEF EncodeInv
<1>5. CASE Step
  BY <1>1, <1>4, <1>5 DEF Step, EncodeThrows, CompileReturns, CopyRow, RunReturns, CountOp,
     CountFails, CountEnds, EmitRow, AtOp, EmitHole, DecompileReturns, ToStringReturns, OutOfMemory,
     Allocate, Abort, Return
<1>6. CASE Call
  BY <1>2, <1>4, <1>6 DEF Call, ByteCompile, BadHandle, ScriptRun, Decompile, ExtractStack,
     Abort, Return
<1>7. CASE UNCHANGED vars
  BY <1>3, <1>4, <1>7 DEF vars, locals
<1> QED BY <1>5, <1>6, <1>7 DEF Intact

LEMMA CompilesStep ==
  TypeInv /\ EncodeInv /\ CompilesCode /\ [Intact]_vars => CompilesCode'
<1> SUFFICES ASSUME TypeInv, EncodeInv, CompilesCode, [Intact]_vars,
                    NEW k \in 1..Len(results'), results'[k].op = "compile"
             PROVE  Compiled(results'[k], scripts'[results'[k].idx + 1])
  BY DEF CompilesCode
<1>1. Grows /\ Len(scripts) \in Nat /\ IsSeq(scripts)
  BY StepGrows, LenProperties, SeqIsSeq DEF TypeInv, TypeOK
<1>2. PICK r : r = results'[k]
  OBVIOUS
<1>3. CASE k \in 1..Len(results) /\ r = results[k]
  <2>1. IsResult(r, heap, scripts) /\ Compiled(r, scripts[r.idx + 1])
    BY <1>2, <1>3 DEF CompilesCode, TypeInv, TypeOK
  <2>2. scripts'[r.idx + 1] = scripts[r.idx + 1]
    <3>1. r.idx + 1 \in 1..Len(scripts)
      BY <1>1, <2>1 DEF IsResult
    <3> QED BY <1>1, <3>1 DEF Grows, Extends
  <2> QED BY <1>2, <2>1, <2>2
<1>4. CASE Returns(r)
  <2>1. CompileReturns /\ r.idx = Len(scripts) /\ r.args = req.args
    BY <1>2, <1>4, ReturnedBy
  <2>2. scripts' = Append(scripts, c) /\ fn = "encode" /\ i = Len(req.args)
    BY <2>1 DEF CompileReturns
  <2>3. scripts'[r.idx + 1] = c
    BY <1>1, <2>1, <2>2, AppendTo
  <2>4. r.args \in Programs /\ Len(r.args) \in Nat
    BY <2>1, <2>2, ProgramType DEF EncodeInv
  <2>5. Compiled(r, c)
    BY <2>1, <2>2, <2>4 DEF Compiled, EncodeInv
  <2> QED BY <1>2, <2>3, <2>5
<1> QED BY <1>2, <1>3, <1>4, ResultsAfter

(* A compile that returned and a decompile of its handle agree on the lines. *)
LEMMA CountsOfCode == CompilesCode /\ DecompilesCount => DecompileUndoesCompile
<1> SUFFICES ASSUME CompilesCode, DecompilesCount,
                    NEW k \in 1..Len(results), NEW m \in 1..Len(results),
                    results[k].op = "compile", results[m].op = "decompile",
                    results[k].idx = results[m].idx,
                    \A j \in 1..Len(results[k].args) : ~BarePush(results[k].args[j])
             PROVE  results[m].len = Cardinality({j \in 1..Len(results[k].args) :
                                                    TokenBytes(results[k].args[j]) # <<>>})
  BY DEF DecompileUndoesCompile
<1>1. PICK r, d, s : r = results[k] /\ d = results[m] /\ s = scripts[r.idx + 1]
  OBVIOUS
<1>2. Compiled(r, s) /\ CountsOf(d, s)
  BY <1>1 DEF CompilesCode, DecompilesCount
<1> DEFINE n == Len(r.args)
           b == Code(r.args, n)
<1>3. r.args \in Seq(ProgramTokens) /\ n \in 0..Len(r.args) /\ s = b
      /\ (\A j \in 1..n : ~Throws(r.args[j])) /\ \A j \in 1..n : ~BarePush(r.args[j])
  BY <1>1, <1>2, ProgramType DEF Compiled
<1>4. b \in Data /\ \E p \in Seq(Nat) : /\ Len(p) = Cardinality(Shown(r.args, n))
                                        /\ Chain(b, p, Len(b))
  <2> HIDE DEF n
  <2> QED BY <1>3, CodeType
<1> HIDE DEF b
<1>5. S!WellFormed(b) /\ Len(S!Ops(b)) = Cardinality(Shown(r.args, n))
  BY <1>4, ChainIsParse
<1>6. d.len = Cardinality(Shown(r.args, n))
  BY <1>2, <1>3, <1>5 DEF CountsOf
<1> QED BY <1>1, <1>6 DEF Shown

(* Decompiling what stringCompile made gives a line for each token that left *)
(* something in the script, when none of them is a bare push. It speaks of    *)
(* answers alone, so what is written over later leaves it as it is.          *)
THEOREM DecompileUndoes == Spec => []DecompileUndoesCompile
<1> DEFINE Inv == /\ TypeInv /\ PassInv /\ CountIsParse
                  /\ EncodeInv /\ CompilesCode /\ DecompilesCount
<1>1. Init => Inv
  BY TypeInit, NoWords DEF Init, PassInv, CountIsParse, EncodeInv, CompilesCode, DecompilesCount
<1>2. Inv /\ [Intact]_vars => Inv'
  BY TypeStep, PassStep, CountStep, EncodeStep, CompilesStep, DecompilesStep
<1>3. Inv => DecompileUndoesCompile
  BY CountsOfCode
<1> HIDE DEF Inv
<1>4. (Sound => Inv) /\ [Next]_vars => (Sound => Inv)'
  BY <1>2, SoundStep
<1>5. ~Sound' /\ DecompileUndoesCompile /\ [Next]_vars => DecompileUndoesCompile'
  <2> SUFFICES ASSUME [Next]_vars, ~Sound', DecompileUndoesCompile PROVE DecompileUndoesCompile'
    OBVIOUS
  <2>1. results' = results
    BY OnlyDamage DEF Damage, vars
  <2> QED BY <2>1 DEF DecompileUndoesCompile
<1>6. Init => DecompileUndoesCompile
  BY <1>1, <1>3
<1> QED BY <1>1, <1>3, <1>4, <1>5, <1>6, PTL DEF Spec

-----------------------------------------------------------------------------
(* Every script of the table is one the host knows it had compiled.          *)
Backed == \A h \in Handles : \E k \in Compiles : Made(results[k]) = scripts[h+1]

LEMMA OldCompiles ==
  ASSUME TypeInv, Grows, Len(results') \in Nat, NEW k \in Compiles
  PROVE  k \in Compiles' /\ results'[k] = results[k]
<1>1. k \in 1..Len(results) /\ Len(results) \in Nat /\ Len(results) <= Len(results')
      /\ results'[k] = results[k]
  BY DEF Compiles, Grows, Extends, TypeInv, IsSeq
<1> QED BY <1>1 DEF Compiles

LEMMA NewCompile ==
  ASSUME EncodeInv, NEW x, Returns(x)
  PROVE  \/ scripts' = scripts
         \/ x.op \in {"compile", "byteCompile"} /\ scripts' = Append(scripts, Made(x))
<1>1. CASE CompileReturns /\ x = [op |-> "compile", idx |-> Len(scripts), args |-> req.args]
  <2>1. /\ x.op = "compile" /\ x.args = req.args /\ i = Len(req.args) /\ fn = "encode"
        /\ scripts' = Append(scripts, c)
    BY <1>1 DEF CompileReturns
  <2>2. c = Code(x.args, Len(x.args))
    BY <2>1 DEF EncodeInv
  <2>3. Made(x) = c
    BY <2>1, <2>2 DEF Made, Code
  <2> QED BY <2>1, <2>3
<1>2. ASSUME NEW bytes, ByteCompile(bytes),
             x = [op |-> "byteCompile", idx |-> Len(scripts), bytes |-> bytes]
      PROVE  x.op = "byteCompile" /\ scripts' = Append(scripts, Made(x))
  <2>1. x.op = "byteCompile" /\ x.bytes = bytes /\ scripts' = Append(scripts, bytes)
    BY <1>2 DEF ByteCompile
  <2> QED BY <2>1 DEF Made
<1>3. CASE RunReturns \/ DecompileReturns \/ ToStringReturns
  BY <1>3 DEF RunReturns, DecompileReturns, ToStringReturns
<1> QED BY <1>1, <1>2, <1>3 DEF Returns

LEMMA BackedStep == TypeInv /\ EncodeInv /\ Backed /\ [Intact]_vars => Backed'
<1> SUFFICES ASSUME TypeInv, EncodeInv, Backed, [Intact]_vars, NEW h \in Handles'
             PROVE  \E k \in Compiles' : Made(results'[k]) = scripts'[h+1]
  BY DEF Backed, Made
<1>1. /\ Grows /\ IsSeq(results) /\ IsSeq(results') /\ IsSeq(scripts)
      /\ Len(scripts) \in Nat /\ Len(results) \in Nat /\ Len(results') \in Nat
  BY StepGrows, TypeStep, SeqIsSeq DEF TypeInv, TypeOK, IsSeq
<1>2. ASSUME h \in Handles PROVE \E k \in Compiles' : Made(results'[k]) = scripts'[h+1]
  <2>1. PICK k \in Compiles : Made(results[k]) = scripts[h+1]
    BY <1>2 DEF Backed
  <2>2. k \in Compiles' /\ results'[k] = results[k]
    BY <1>1, OldCompiles
  <2>3. scripts'[h+1] = scripts[h+1]
    <3>1. h + 1 \in 1..Len(scripts)
      BY <1>1, <1>2 DEF Handles
    <3> QED BY <1>1, <3>1 DEF Grows, Extends
  <2> QED BY <2>1, <2>2, <2>3
<1>3. CASE scripts' = scripts
  BY <1>2, <1>3 DEF Handles
<1>4. ASSUME NEW x, results' = Append(results, x), x.op \in {"compile", "byteCompile"},
             scripts' = Append(scripts, Made(x)), h \notin Handles
      PROVE  \E k \in Compiles' : Made(results'[k]) = scripts'[h+1]
  <2>1. /\ Len(results') = Len(results) + 1 /\ results'[Len(results) + 1] = x
        /\ Len(scripts') = Len(scripts) + 1 /\ scripts'[Len(scripts) + 1] = Made(x)
    BY <1>1, <1>4, AppendTo
  <2>2. h = Len(scripts)
    BY <1>1, <1>4, <2>1 DEF Handles
  <2>3. Len(results) + 1 \in Compiles'
    BY <1>1, <1>4, <2>1 DEF Compiles
  <2> QED BY <2>1, <2>2, <2>3
<1> QED BY <1>2, <1>3, <1>4, ResultStep, NewCompile

-----------------------------------------------------------------------------
(* The filling pass goes through the whole parse, failing reads included:    *)
(* what is left of the script is the rest of the parse after its i lines.    *)
RestInv == fn = "emit" =>
  \E f : /\ Parses(c, f) /\ S!Ops(c) = f[0]
         /\ Len(f[0]) = i + Len(f[pc])
         /\ \A j \in 1..Len(f[pc]) : f[0][i + j] = f[pc][j]

LEMMA ParseStep ==
  ASSUME NEW s \in Data, NEW f, Parses(s, f), NEW x \in 0..(Len(s) - 1)
  PROVE  /\ Len(f[GetOp(s, x).next]) \in Nat
         /\ Len(f[x]) = 1 + Len(f[GetOp(s, x).next])
         /\ f[x][1] = GetOp(s, x)
         /\ \A j \in 1..Len(f[GetOp(s, x).next]) : f[x][1 + j] = f[GetOp(s, x).next][j]
<1> DEFINE o == GetOp(s, x)
           one == <<o>>
           tail == f[o.next]
           both == one \o tail
<1>1. Len(s) \in Nat
  BY LenProperties DEF Data
<1>2. f[x] = both
  BY DEF Parses
<1>3. tail \in Seq(Reads(s)) /\ Len(tail) \in Nat
  <2>1. o.next \in (x + 1)..Len(s)
    BY GetOpMoves
  <2>2. o.next \in 0..Len(s)
    BY <2>1, <1>1
  <2> QED BY <2>2, LenProperties DEF Parses
<1>4. o \in Reads(s)
  BY DEF Reads
<1>5. one \in Seq(Reads(s)) /\ Len(one) = 1 /\ one[1] = o
  BY <1>4
<1> HIDE DEF one, tail
<1>6. /\ Len(both) = Len(one) + Len(tail)
      /\ \A j \in 1..(Len(one) + Len(tail)) :
           both[j] = IF j <= Len(one) THEN one[j] ELSE tail[j - Len(one)]
  BY <1>3, <1>5, ConcatProperties
<1> HIDE DEF both
<1>7. Len(both) = 1 + Len(tail) /\ both[1] = o
  BY <1>3, <1>5, <1>6
<1>8. ASSUME NEW j \in 1..Len(tail) PROVE both[1 + j] = tail[j]
  <2>1. 1 + j \in 1..(Len(one) + Len(tail)) /\ ~(1 + j <= Len(one)) /\ (1 + j) - Len(one) = j
    BY <1>3, <1>5
  <2> QED BY <2>1, <1>6
<1> QED BY <1>2, <1>3, <1>7, <1>8 DEF tail

LEMMA RestStep == TypeInv /\ RestInv /\ [Intact]_vars => RestInv'
<1> SUFFICES ASSUME TypeInv, RestInv, [Intact]_vars PROVE RestInv'
  OBVIOUS
<1>1. c \in Data /\ pc \in Nat /\ i \in Nat /\ Len(c) \in Nat
  BY LenProperties DEF TypeInv, TypeOK, Data
<1>2. ASSUME CountFails \/ CountEnds PROVE RestInv'
  <2>1. c' = c /\ i' = 0 /\ pc' = 0
    BY <1>2 DEF CountFails, CountEnds, Allocate
  <2>2. PICK f : Parses(c, f) /\ S!Ops(c) = f[0]
    BY <1>1, OpsParse
  <2>3. Len(f[0]) \in Nat
    <3>1. 0 \in 0..Len(c)
      BY <1>1
    <3> QED BY <2>2, <3>1, LenProperties DEF Parses
  <2>4. Len(f[0]) = 0 + Len(f[0]) /\ \A j \in 1..Len(f[0]) : 0 + j = j
    BY <2>3
  <2> QED BY <2>1, <2>2, <2>4 DEF RestInv
<1>3. ASSUME EmitRow \/ EmitHole PROVE RestInv'
  <2>1. fn = "emit" /\ pc < Len(c) /\ c' = c /\ i' = i + 1 /\ pc' = GetOp(c, pc).next
    BY <1>3 DEF EmitRow, AtOp, EmitHole
  <2>2. PICK f : /\ Parses(c, f) /\ S!Ops(c) = f[0] /\ Len(f[0]) = i + Len(f[pc])
                 /\ \A j \in 1..Len(f[pc]) : f[0][i + j] = f[pc][j]
    BY <2>1 DEF RestInv
  <2> DEFINE rest == f[pc]
             tail == f[GetOp(c, pc).next]
  <2>3. /\ Len(tail) \in Nat /\ Len(rest) = 1 + Len(tail)
        /\ \A j \in 1..Len(tail) : rest[1 + j] = tail[j]
    <3>1. pc \in 0..(Len(c) - 1) /\ c \in Data /\ Parses(c, f)
      BY <1>1, <2>1, <2>2
    <3>2. PICK s, x : s = c /\ x = pc
      OBVIOUS
    <3>3. /\ Len(f[GetOp(s, x).next]) \in Nat
          /\ Len(f[x]) = 1 + Len(f[GetOp(s, x).next])
          /\ f[x][1] = GetOp(s, x)
          /\ \A j \in 1..Len(f[GetOp(s, x).next]) : f[x][1 + j] = f[GetOp(s, x).next][j]
      BY <3>1, <3>2, ParseStep
    <3> QED BY <3>2, <3>3
  <2> HIDE DEF rest, tail
  <2>4. Len(f[0]) = (i + 1) + Len(tail)
    <3>1. Len(f[0]) = i + Len(rest)
      BY <2>2 DEF rest
    <3>2. Len(rest) = 1 + Len(tail) /\ Len(tail) \in Nat
      BY <2>3
    <3> QED BY <1>1, <3>1, <3>2
  <2>5. ASSUME NEW j \in 1..Len(tail) PROVE f[0][(i + 1) + j] = tail[j]
    <3>1. 1 + j \in 1..Len(rest) /\ i + (1 + j) = (i + 1) + j
      <4>1. Len(rest) = 1 + Len(tail) /\ Len(tail) \in Nat
        BY <2>3
      <4> QED BY <1>1, <4>1
    <3>2. f[0][i + (1 + j)] = rest[1 + j]
      BY <2>2, <3>1 DEF rest
    <3> QED BY <2>3, <3>1, <3>2
  <2> QED BY <2>1, <2>2, <2>4, <2>5 DEF RestInv, tail
<1>4. CASE fn = "emit" /\ UNCHANGED <<c, i, pc>>
  BY <1>4 DEF RestInv
<1>5. CASE fn' # "emit"
  BY <1>5 DEF RestInv
<1>6. CASE Step
  BY <1>2, <1>3, <1>5, <1>6 DEF Step, EncodeToken, EncodeThrows, CompileReturns, CopyRow,
     RunReturns, CountOp, DecompileReturns, ToStringReturns, OutOfMemory, Abort, Return
<1>7. CASE Call
  BY <1>4, <1>5, <1>7 DEF Call, StringCompile, ByteCompile, BadHandle, ScriptRun, Decompile,
     ExtractStack, Abort, Return, locals
<1>8. CASE UNCHANGED vars
  BY <1>4, <1>5, <1>8 DEF vars, locals
<1> QED BY <1>6, <1>7, <1>8 DEF Intact

(* What stores past the unused words is a script that overruns.              *)
LEMMA OverwriteOverruns ==
  TypeInv /\ CountIsParse /\ RestInv /\ Overwrite
    => req.idx \in Handles /\ c = scripts[req.idx + 1] /\ S!Overruns(c)
<1> SUFFICES ASSUME TypeInv, CountIsParse, RestInv, Overwrite
             PROVE  req.idx \in Handles /\ c = scripts[req.idx + 1] /\ S!Overruns(c)
  OBVIOUS
<1>1. /\ fn = "emit" /\ pc < Len(c) /\ GetOp(c, pc).ok /\ len = -1 /\ i >= LowWords
      /\ c \in Data /\ pc \in 0..(Len(c) - 1) /\ i \in Nat
  BY LenProperties DEF Overwrite, AtOp, PastLow, TypeInv, TypeOK, Data
<1>2. req.idx \in Handles /\ c = scripts[req.idx + 1] /\ ~S!WellFormed(c)
  BY <1>1 DEF TypeInv, Frame, CountIsParse
<1>3. PICK f : /\ Parses(c, f) /\ S!Ops(c) = f[0] /\ Len(f[0]) = i + Len(f[pc])
               /\ \A j \in 1..Len(f[pc]) : f[0][i + j] = f[pc][j]
  BY <1>1 DEF RestInv
<1>4. /\ Len(f[GetOp(c, pc).next]) \in Nat /\ Len(f[pc]) = 1 + Len(f[GetOp(c, pc).next])
      /\ f[pc][1] = GetOp(c, pc)
  BY <1>1, <1>3, ParseStep
<1>5. 1 \in 1..Len(f[pc]) /\ i + 1 \in 1..Len(f[0]) /\ i + 1 > LowWords
  BY <1>1, <1>3, <1>4, MemoryAssumption
<1>6. f[0][i + 1] = GetOp(c, pc)
  BY <1>3, <1>4, <1>5
<1>7. S!Ops(c)[i + 1].ok /\ i + 1 \in 1..Len(S!Ops(c))
  BY <1>1, <1>3, <1>5, <1>6
<1> QED BY <1>2, <1>5, <1>7 DEF S!Overruns

-----------------------------------------------------------------------------
(* Low memory is written in the filling pass of a failed count, and what is  *)
(* past it in that of a long script; both the host had compiled.             *)
LowInv == TypeInv /\ PassInv /\ CountIsParse /\ EncodeInv /\ Backed /\ RestInv

LEMMA LowInit == Init => LowInv /\ LowMemoryClean
<1> SUFFICES ASSUME Init PROVE LowInv /\ LowMemoryClean
  OBVIOUS
<1>1. Handles = {} /\ DOMAIN low = {} /\ fn = "idle"
  BY NoWords DEF Init, Handles
<1> QED BY <1>1, TypeInit DEF LowInv, PassInv, CountIsParse, EncodeInv, Backed, RestInv,
           LowMemoryClean, Sound

LEMMA LowInvStep == LowInv /\ [Intact]_vars => LowInv'
BY TypeStep, PassStep, CountStep, EncodeStep, BackedStep, RestStep DEF LowInv

LEMMA OverwriteIsOfCompiled ==
  LowInv /\ Overwrite => \E k \in Compiles : S!Overruns(Made(results[k]))
<1> SUFFICES ASSUME LowInv, Overwrite PROVE \E k \in Compiles : S!Overruns(Made(results[k]))
  OBVIOUS
<1>1. req.idx \in Handles /\ S!Overruns(scripts[req.idx + 1])
  BY OverwriteOverruns DEF LowInv
<1>2. PICK k \in Compiles : Made(results[k]) = scripts[req.idx + 1]
  BY <1>1 DEF LowInv, Backed
<1> QED BY <1>1, <1>2

LEMMA LowStep == LowInv /\ LowMemoryClean /\ [Intact]_vars => LowMemoryClean'
<1> SUFFICES ASSUME LowInv, LowMemoryClean, [Intact]_vars, DOMAIN low' # {}
             PROVE  \E k \in Compiles' : ~S!WellFormed(Made(results'[k]))
  BY StaysSound DEF LowMemoryClean, Made, LowInv, TypeInv
<1>1. Grows /\ TypeInv /\ Len(results') \in Nat
  BY StepGrows, TypeStep DEF LowInv, TypeInv, IsSeq
<1>2. ASSUME NEW k \in Compiles, ~S!WellFormed(Made(results[k]))
      PROVE  k \in Compiles' /\ ~S!WellFormed(Made(results'[k]))
  <2>1. k \in Compiles' /\ results'[k] = results[k]
    BY <1>1, OldCompiles
  <2> QED BY <1>2, <2>1
<1>3. CASE low' = low
  BY <1>2, <1>3 DEF LowMemoryClean
<1>4. CASE EmitRow /\ len = -1
  <2>1. req.idx \in Handles /\ ~S!WellFormed(scripts[req.idx + 1])
    BY <1>1, <1>4 DEF EmitRow, AtOp, LowInv, TypeInv, Frame, CountIsParse
  <2>2. PICK k \in Compiles : Made(results[k]) = scripts[req.idx + 1]
    BY <2>1 DEF LowInv, Backed
  <2> QED BY <1>2, <2>1, <2>2
<1>5. CASE Step
  BY <1>3, <1>4, <1>5 DEF Step, EncodeToken, EncodeThrows, CompileReturns, CopyRow, RunReturns,
     CountOp, CountFails, CountEnds, EmitRow, EmitHole, DecompileReturns, ToStringReturns,
     OutOfMemory, Allocate, Abort
<1>6. CASE Call
  BY <1>3, <1>6 DEF Call, StringCompile, ByteCompile, BadHandle, ScriptRun, Decompile,
     ExtractStack, Abort
<1>7. CASE UNCHANGED vars
  BY <1>3, <1>7 DEF vars
<1> QED BY <1>5, <1>6, <1>7 DEF Intact

LEMMA LowDamage ==
  (Sound => LowInv) /\ LowMemoryClean /\ [Next]_vars /\ ~Sound' => LowMemoryClean'
<1> SUFFICES ASSUME Sound => LowInv, LowMemoryClean, [Next]_vars, ~Sound'
             PROVE  LowMemoryClean'
  OBVIOUS
<1>1. results' = results /\ low' = low
  BY OnlyDamage DEF Damage, vars
<1>2. \E k \in Compiles : S!Overruns(Made(results[k]))
  <2>1. CASE Sound
    <3>1. Overwrite
      BY <2>1, StaysSound DEF Next, Spoilt, Sound, vars
    <3> QED BY <2>1, <3>1, OverwriteIsOfCompiled
  <2>2. CASE ~Sound
    BY <2>2 DEF LowMemoryClean
  <2> QED BY <2>1, <2>2
<1> QED BY <1>1, <1>2 DEF LowMemoryClean, Compiles

LEMMA AlwaysLow == Spec => []((Sound => LowInv) /\ LowMemoryClean)
<1>1. Init => LowInv /\ LowMemoryClean
  BY LowInit
<1>2. (Sound => LowInv) /\ LowMemoryClean /\ [Next]_vars => ((Sound => LowInv) /\ LowMemoryClean)'
  BY SoundStep, LowInvStep, LowStep, LowDamage
<1> QED BY <1>1, <1>2, PTL DEF Spec

(* The words near address zero are written only on behalf of a script the    *)
(* host compiled that does not parse, and the module's own memory only on    *)
(* behalf of one that has an operation past them as well.                    *)
THEOREM LowMemoryIsClean == Spec => []LowMemoryClean
BY AlwaysLow, PTL

(* As long as no script the host compiled overruns the unused words, a row   *)
(* it holds and a script it compiled are never changed.                      *)
THEOREM HeldIsStable == Spec => NothingHeldChanges
<1> DEFINE Fits == \A k \in Compiles : ~S!Overruns(Made(results[k]))
           Kept == IsPrefix(heap, heap') /\ IsPrefix(scripts, scripts')
<1>1. (Sound => LowInv) /\ LowMemoryClean /\ [Next]_vars => [Fits => Kept]_vars
  <2> SUFFICES ASSUME Sound => LowInv, LowMemoryClean, [Next]_vars, Fits, ~UNCHANGED vars
               PROVE  Kept
    OBVIOUS
  <2>1. Sound /\ LowInv
    BY DEF LowMemoryClean
  <2>2. [Intact]_vars
    BY <2>1, OverwriteIsOfCompiled DEF Next, Spoilt, Sound
  <2> QED BY <2>1, <2>2, IntactKeeps DEF LowInv
<1> QED BY <1>1, AlwaysLow, PTL DEF Spec, NothingHeldChanges

-----------------------------------------------------------------------------
(* Where the last line of the filling pass leaves the array.                 *)
LEMMA EmitDone ==
  ASSUME TypeInv, PassInv, fn = "emit", pc >= Len(c), len # -1
  PROVE  /\ len \in Nat /\ len = Len(path) /\ DOMAIN cells = 0..(len - 1)
         /\ \A j \in 0..(len - 1) : /\ cells[j] \in 1..Len(heap)
                                    /\ ShowsOp(c, path[j + 1], cells[j])
<1>1. /\ len = Len(path) /\ i <= len /\ pc = At(path, Len(c), i + 1)
      /\ DOMAIN cells = 0..(i - 1) /\ Chain(c, path, Len(c))
      /\ \A j \in 0..(i - 1) : ShowsOp(c, path[j+1], cells[j])
  BY DEF PassInv
<1>2. i \in Nat /\ Len(path) \in Nat /\ Len(c) \in Nat /\ pc \in Nat
  BY LenProperties DEF TypeInv, TypeOK, Data
<1>3. i = len
  <2>1. i + 1 \in 1..Len(path) => pc < Len(c)
    BY <1>1, <1>2 DEF Chain, At
  <2> QED BY <1>1, <1>2, <2>1
<1>4. \A j \in 0..(len - 1) : cells[j] \in 1..Len(heap)
  BY <1>1, <1>3 DEF TypeInv, TypeOK, Pointers
<1> QED BY <1>1, <1>2, <1>3, <1>4

(* scriptRun is given one of the outcomes of EvalScript, and a string that    *)
(* scriptToString returned of a listing with lines is a row.                 *)
OutcomeInv == fn = "rows" =>
  \E outcome \in Outcomes : req.ok = outcome.ok /\ req.stack = outcome.stack

StringsAreRows == \A k \in 1..Len(results) :
  results[k].op = "toString" /\ results[k].len > 0 => results[k].row \in 1..Len(heap)

LEMMA OutcomeStep == TypeInv /\ OutcomeInv /\ [Intact]_vars => OutcomeInv'
<1> SUFFICES ASSUME TypeInv, OutcomeInv, [Intact]_vars PROVE OutcomeInv'
  OBVIOUS
<1>1. CASE fn = "rows" /\ UNCHANGED req
  BY <1>1 DEF OutcomeInv
<1>2. CASE fn' # "rows"
  BY <1>2 DEF OutcomeInv
<1>3. ASSUME NEW idx, NEW outcome \in Outcomes, ScriptRun(idx, outcome) PROVE OutcomeInv'
  <2>1. req'.ok = outcome.ok /\ req'.stack = outcome.stack
    BY <1>3 DEF ScriptRun
  <2> QED BY <2>1 DEF OutcomeInv
<1>4. CASE Step
  BY <1>1, <1>2, <1>4 DEF Step, EncodeToken, EncodeThrows, CompileReturns, CopyRow, RunReturns,
     CountOp, CountFails, CountEnds, EmitRow, AtOp, EmitHole, DecompileReturns, ToStringReturns,
     OutOfMemory, Allocate, Abort, Return
<1>5. CASE Call
  BY <1>2, <1>3, <1>5 DEF Call, StringCompile, ByteCompile, BadHandle, Decompile, ExtractStack,
     Abort, Return
<1>6. CASE UNCHANGED vars
  BY <1>1, <1>2, <1>6 DEF vars
<1> QED BY <1>4, <1>5, <1>6 DEF Intact

LEMMA StringsStep ==
  TypeInv /\ PassInv /\ StringsAreRows /\ [Intact]_vars => StringsAreRows'
<1> SUFFICES ASSUME TypeInv, PassInv, StringsAreRows, [Intact]_vars, NEW k \in 1..Len(results'),
                    results'[k].op = "toString", results'[k].len > 0
             PROVE  results'[k].row \in 1..Len(heap')
  BY DEF StringsAreRows
<1>1. 1..Len(heap) \subseteq 1..Len(heap')
  <2>1. Grows /\ Len(heap) \in Nat /\ Len(heap') \in Nat
    BY StepGrows, TypeStep, LenProperties DEF TypeInv, TypeOK
  <2> QED BY <2>1 DEF Grows, Extends
<1>2. PICK r : r = results'[k]
  OBVIOUS
<1>3. CASE k \in 1..Len(results) /\ r = results[k]
  BY <1>1, <1>2, <1>3 DEF StringsAreRows
<1>4. CASE Returns(r)
  <2>1. ToStringReturns /\ len > 0 /\ r.row \in FirstLines
    BY <1>2, <1>4, ReturnedBy
  <2>2. fn = "emit" /\ pc >= Len(c) /\ len \in Nat \cup {-1} /\ len # 0 /\ len # -1
    BY <2>1 DEF ToStringReturns, TypeInv, Frame
  <2>3. 0 \in DOMAIN cells /\ cells[0] \in 1..Len(heap)
    <3>1. 0 \in 0..(len - 1)
      BY <2>2
    <3> QED BY <2>2, <3>1, EmitDone
  <2>4. r.row = cells[0]
    BY <2>1, <2>2, <2>3 DEF FirstLines, WordAt0
  <2> QED BY <1>1, <1>2, <2>3, <2>4
<1> QED BY <1>2, <1>3, <1>4, ResultsAfter

-----------------------------------------------------------------------------
(* The abstract reply of a result, its pointers followed in the rows given.  *)
ReplyOf(r, rows) ==
  LET row(w) == rows[r.cells[w]]
  IN  CASE r.op \in {"compile", "byteCompile"} -> [op |-> "handle", idx |-> r.idx]
        [] r.op = "run" -> [op |-> "run", idx |-> r.idx, success |-> r.success,
                            rows |-> [j \in 1..r.len |-> row(j-1)]]
        [] r.op = "decompile" -> [op |-> "list", idx |-> r.idx, known |-> r.len # -1,
                                  rows |-> [j \in 1..r.len |-> row(j-1)]]
        [] r.op = "toString" -> [op |-> "show", idx |-> r.idx,
                                 rows |-> IF r.len > 0 THEN <<rows[r.row]>> ELSE <<>>]

Replies == [k \in 1..Len(results) |-> AbstractReply(results[k])]

ServiceInv ==
  /\ TypeInv /\ PassInv /\ CodeoutComplete /\ CountIsParse
  /\ InRows /\ RunsShow /\ EncodeInv /\ OutcomeInv /\ StringsAreRows /\ RestInv

LEMMA RepliesAre ==
  /\ Replies = [k \in 1..Len(results) |-> ReplyOf(results[k], heap)]
  /\ Replies' = [k \in 1..Len(results') |-> ReplyOf(results'[k], heap')]
BY DEF Replies, AbstractReply, ReplyOf

(* A reply given stays what it is: the rows it points at do not change.      *)
LEMMA ReplyStays ==
  ASSUME ServiceInv, Grows, NEW k \in 1..Len(results)
  PROVE  ReplyOf(results[k], heap') = ReplyOf(results[k], heap)
<1>1. PICK r : r = results[k]
  OBVIOUS
<1>2. IsResult(r, heap, scripts)
  BY <1>1 DEF ServiceInv, TypeInv, TypeOK
<1>3. \A p \in 1..Len(heap) : heap'[p] = heap[p]
  BY DEF Grows, Extends
<1>4. ASSUME r.op \in {"run", "decompile"}
      PROVE  [j \in 1..r.len |-> heap'[r.cells[j-1]]] = [j \in 1..r.len |-> heap[r.cells[j-1]]]
  <2>1. DOMAIN r.cells = 0..(r.len - 1) \/ r.len = -1
    BY <1>1, <1>4 DEF ServiceInv, TypeInv, RunsShow, RunShows, CodeoutComplete
  <2>2. r.len \in Nat \cup {-1} /\ Pointers(r.cells, heap)
    BY <1>2, <1>4 DEF IsResult
  <2>3. ASSUME NEW j \in 1..r.len PROVE heap'[r.cells[j-1]] = heap[r.cells[j-1]]
    <3>1. j - 1 \in DOMAIN r.cells
      BY <2>1, <2>2
    <3>2. r.cells[j-1] \in 1..Len(heap)
      BY <2>2, <3>1 DEF Pointers
    <3> QED BY <1>3, <3>2
  <2> QED BY <2>3
<1>5. CASE r.op \in {"compile", "byteCompile"}
  BY <1>1, <1>5 DEF ReplyOf
<1>6. CASE r.op = "run"
  <2> DEFINE new == [j \in 1..r.len |-> heap'[r.cells[j-1]]]
             old == [j \in 1..r.len |-> heap[r.cells[j-1]]]
  <2>1. /\ ReplyOf(r, heap') = [op |-> "run", idx |-> r.idx, success |-> r.success, rows |-> new]
        /\ ReplyOf(r, heap) = [op |-> "run", idx |-> r.idx, success |-> r.success, rows |-> old]
    BY <1>6 DEF ReplyOf
  <2>2. new = old
    BY <1>4, <1>6
  <2> HIDE DEF new, old
  <2> QED BY <1>1, <2>1, <2>2
<1>7. CASE r.op = "decompile"
  <2> DEFINE new == [j \in 1..r.len |-> heap'[r.cells[j-1]]]
             old == [j \in 1..r.len |-> heap[r.cells[j-1]]]
  <2>1. /\ ReplyOf(r, heap') = [op |-> "list", idx |-> r.idx, known |-> r.len # -1, rows |-> new]
        /\ ReplyOf(r, heap) = [op |-> "list", idx |-> r.idx, known |-> r.len # -1, rows |-> old]
    BY <1>7 DEF ReplyOf
  <2>2. new = old
    BY <1>4, <1>7
  <2> HIDE DEF new, old
  <2> QED BY <1>1, <2>1, <2>2
<1>8. CASE r.op = "toString"
  <2>1. r.len > 0 => heap'[r.row] = heap[r.row]
    BY <1>1, <1>3, <1>8 DEF ServiceInv, StringsAreRows
  <2>2. \A rows : ReplyOf(r, rows) = [op |-> "show", idx |-> r.idx,
                                      rows |-> IF r.len > 0 THEN <<rows[r.row]>> ELSE <<>>]
    BY <1>8 DEF ReplyOf
  <2> QED BY <1>1, <2>1, <2>2
<1> QED BY <1>2, <1>5, <1>6, <1>7, <1>8 DEF IsResult

LEMMA RepliesStay ==
  ASSUME ServiceInv, Grows, results' = results
  PROVE  Replies' = Replies
<1>1. \A k \in 1..Len(results) : ReplyOf(results[k], heap') = ReplyOf(results[k], heap)
  BY ReplyStays
<1> QED BY <1>1, RepliesAre

LEMMA RepliesGrow ==
  ASSUME ServiceInv, Grows, NEW x, results' = Append(results, x)
  PROVE  Replies' = Append(Replies, ReplyOf(x, heap'))
<1> DEFINE n == Len(results)
           a == ReplyOf(x, heap')
           new == Append(Replies, a)
<1>1. IsSeq(results) /\ n \in Nat
  BY DEF ServiceInv, TypeInv, IsSeq
<1>2. /\ Len(results') = n + 1 /\ results'[n + 1] = x
      /\ \A k \in 1..n : results'[k] = results[k]
  BY <1>1, AppendTo
<1>3. /\ Len(Replies) = n /\ IsSeq(Replies)
      /\ \A k \in 1..n : Replies[k] = ReplyOf(results[k], heap)
  <2> DEFINE V == {ReplyOf(results[k], heap) : k \in 1..n}
  <2>1. /\ DOMAIN Replies = 1..n /\ \A k \in 1..n : Replies[k] = ReplyOf(results[k], heap)
        /\ Replies \in [1..n -> V]
    BY RepliesAre
  <2> HIDE DEF V, n
  <2>2. Replies \in Seq(V)
    BY <1>1, <2>1, SeqDef
  <2>3. Len(Replies) = n
    BY <1>1, <2>1, <2>2, LenProperties
  <2> QED BY <2>1, <2>2, <2>3, SeqIsSeq
<1>4. /\ IsSeq(new) /\ Len(new) = n + 1 /\ new[n + 1] = a
      /\ \A k \in 1..n : new[k] = Replies[k]
  BY <1>3, AppendTo
<1>5. /\ Replies' = [k \in 1..(n + 1) |-> Replies'[k]]
      /\ \A k \in 1..(n + 1) : Replies'[k] = ReplyOf(results'[k], heap')
  BY <1>2, RepliesAre
<1>6. new = [k \in 1..(n + 1) |-> new[k]]
  BY <1>4 DEF IsSeq
<1>7. ASSUME NEW k \in 1..(n + 1) PROVE Replies'[k] = new[k]
  <2>1. CASE k = n + 1
    BY <1>2, <1>4, <1>5, <2>1
  <2>2. CASE k # n + 1
    <3>1. k \in 1..n
      BY <1>1, <2>2
    <3>2. new[k] = ReplyOf(results[k], heap) /\ results'[k] = results[k]
      BY <1>2, <1>3, <1>4, <3>1
    <3>3. ReplyOf(results[k], heap') = ReplyOf(results[k], heap)
      BY <3>1, ReplyStays
    <3> QED BY <1>5, <3>2, <3>3
  <2> QED BY <2>1, <2>2
<1> HIDE DEF new, n, a
<1> QED BY <1>5, <1>6, <1>7 DEF new, a

-----------------------------------------------------------------------------
(* Every call that returns is one operation of the service, every call that  *)
(* is lost its failure, and every other step none.                           *)
Up == fn \notin {"abort", "spoilt"}

LEMMA LostCall ==
  ASSUME Up, fn' = "abort", scripts' = scripts, Replies' = Replies
  PROVE  S!Next
<1>1. S!Fail
  BY DEF S!Fail, Replies, Up
<1> QED BY <1>1 DEF S!Next

LEMMA Answered ==
  ASSUME Up, fn' = "idle", NEW a, Replies' = Append(Replies, a)
  PROVE  S!Answer(a)
BY DEF S!Answer, Replies, Up

LEMMA AbortIsFinal == fn = "abort" /\ [Intact]_vars => UNCHANGED vars
BY DEF Intact, vars, locals, Step, EncodeToken, EncodeThrows, CompileReturns, CopyRow, RunReturns,
   CountOp, CountFails, CountEnds, EmitRow, AtOp, EmitHole, DecompileReturns, ToStringReturns,
   OutOfMemory, Call, StringCompile, ByteCompile, BadHandle, ScriptRun, Decompile, ExtractStack,
   Idle

LEMMA AddsScript ==
  ASSUME Up, fn' = "idle", NEW s, NEW n, n = Len(scripts), scripts' = Append(scripts, s),
         Replies' = Append(Replies, [op |-> "handle", idx |-> n])
  PROVE  S!AddScript(s)
<1>1. S!Answer([op |-> "handle", idx |-> n])
  BY Answered
<1> QED BY <1>1 DEF S!AddScript, Up

LEMMA CompileImplements ==
  ASSUME ServiceInv, Grows, CompileReturns
  PROVE  S!Next
<1> DEFINE x == [op |-> "compile", idx |-> Len(scripts), args |-> req.args]
<1>1. /\ Up /\ fn' = "idle" /\ i = Len(req.args)
      /\ scripts' = Append(scripts, c) /\ results' = Append(results, x)
      /\ req.args \in Programs /\ c = Code(req.args, i)
      /\ \A j \in 1..i : ~Throws(req.args[j])
  BY DEF CompileReturns, Return, ServiceInv, EncodeInv, Up
<1>2. PICK args, n : args = req.args /\ n = Len(scripts)
  OBVIOUS
<1>3. ReplyOf(x, heap') = [op |-> "handle", idx |-> n]
  BY <1>2 DEF ReplyOf
<1> HIDE DEF x
<1>4. Replies' = Append(Replies, [op |-> "handle", idx |-> n])
  BY <1>1, <1>3, RepliesGrow
<1>5. S!AddScript(c)
  <2>1. PICK s : s = c
    OBVIOUS
  <2>2. S!AddScript(s)
    BY <1>1, <1>2, <1>4, <2>1, AddsScript
  <2> QED BY <2>1, <2>2
<1>6. c = S!FlattenSeq([k \in 1..Len(args) |-> S!TokenBytes(args[k])])
  <2>1. [k \in 1..Len(args) |-> S!TokenBytes(args[k])] = [k \in 1..Len(args) |-> TokenBytes(args[k])]
    BY SameToken
  <2> QED BY <1>1, <1>2, <2>1, SameFlat DEF Code
<1>7. S!Compile(args)
  <2>1. \A k \in 1..Len(args) : ~S!Throws(args[k])
    BY <1>1, <1>2, SameToken
  <2> QED BY <1>5, <1>6, <2>1 DEF S!Compile
<1> QED BY <1>1, <1>2, <1>7 DEF S!Next

LEMMA ByteCompileImplements ==
  ASSUME ServiceInv, Grows, NEW bytes \in ByteStrings, ByteCompile(bytes)
  PROVE  S!Next
<1> DEFINE x == [op |-> "byteCompile", idx |-> Len(scripts), bytes |-> bytes]
<1>1. /\ Up /\ fn' = "idle"
      /\ scripts' = Append(scripts, bytes) /\ results' = Append(results, x)
  BY DEF ByteCompile, Return, Idle, Up
<1>2. PICK n : n = Len(scripts)
  OBVIOUS
<1>3. ReplyOf(x, heap') = [op |-> "handle", idx |-> n]
  BY <1>2 DEF ReplyOf
<1> HIDE DEF x
<1>4. Replies' = Append(Replies, [op |-> "handle", idx |-> n])
  BY <1>1, <1>3, RepliesGrow
<1>5. S!AddScript(bytes)
  BY <1>1, <1>2, <1>4, AddsScript
<1> QED BY <1>5 DEF S!Next

LEMMA RunImplements ==
  ASSUME ServiceInv, Grows, RunReturns
  PROVE  S!Next
<1> DEFINE x == [op |-> "run", idx |-> req.idx, success |-> req.ok, len |-> len,
                 cells |-> cells, stack |-> req.stack]
<1>1. /\ fn = "rows" /\ fn' = "idle" /\ i = len /\ scripts' = scripts /\ heap' = heap
      /\ results' = Append(results, x)
      /\ req.idx \in Handles /\ len = Len(req.stack) /\ req.stack \in Seq(Data)
      /\ DOMAIN cells = 0..(i - 1) /\ \A j \in 0..(i - 1) : heap[cells[j]] = SizedRow(req.stack[j+1])
  BY DEF RunReturns, Return, ServiceInv, InRows, TypeInv, Frame
<1>2. PICK outcome \in Outcomes : req.ok = outcome.ok /\ req.stack = outcome.stack
  BY <1>1 DEF ServiceInv, OutcomeInv
<1>3. PICK idx : idx = req.idx
  OBVIOUS
<1> DEFINE shown == [k \in 1..len |-> heap[cells[k-1]]]
           rows  == [k \in 1..Len(outcome.stack) |-> S!SizedRow(outcome.stack[k])]
<1>4. shown = rows
  <2>1. len \in Nat
    BY <1>1, LenProperties
  <2>2. ASSUME NEW k \in 1..len PROVE heap[cells[k-1]] = SizedRow(outcome.stack[k])
    <3>1. k - 1 \in 0..(i - 1) /\ (k - 1) + 1 = k
      BY <1>1, <2>1
    <3> QED BY <1>1, <1>2, <3>1
  <2>3. \A k \in 1..len : S!SizedRow(outcome.stack[k]) = SizedRow(outcome.stack[k])
    BY SameRow
  <2> QED BY <1>1, <1>2, <2>2, <2>3
<1>5. ReplyOf(x, heap') = [op |-> "run", idx |-> idx, success |-> outcome.ok, rows |-> rows]
  <2>1. ReplyOf(x, heap) = [op |-> "run", idx |-> req.idx, success |-> req.ok, rows |-> shown]
    BY DEF ReplyOf
  <2> HIDE DEF x, shown, rows
  <2> QED BY <1>1, <1>2, <1>3, <1>4, <2>1
<1>6. PICK a : a = [op |-> "run", idx |-> idx, success |-> outcome.ok, rows |-> rows]
  OBVIOUS
<1>7. Replies' = Append(Replies, a)
  <2> HIDE DEF x, rows
  <2> QED BY <1>1, <1>5, <1>6, RepliesGrow
<1>8. S!Answer(a)
  BY <1>1, <1>7, Answered DEF Up
<1>9. S!Run(idx, outcome)
  BY <1>1, <1>6, <1>8 DEF S!Run
<1> QED BY <1>1, <1>3, <1>9 DEF S!Next, Handles

LEMMA ListImplements ==
  ASSUME ServiceInv, Grows, DecompileReturns
  PROVE  S!Next
<1> DEFINE x == [op |-> "decompile", idx |-> req.idx, len |-> len, cells |-> cells, path |-> path]
<1>1. /\ fn = "emit" /\ fn' = "idle" /\ pc >= Len(c) /\ scripts' = scripts /\ heap' = heap
      /\ results' = Append(results, x)
      /\ req.idx \in Handles /\ c = scripts[req.idx + 1]
  BY DEF DecompileReturns, Return, ServiceInv, TypeInv, Frame
<1>2. PICK idx : idx = req.idx
  OBVIOUS
<1> DEFINE shown == [k \in 1..len |-> heap[cells[k-1]]]
<1>3. PICK known : known = S!WellFormed(c)
  OBVIOUS
<1>4. known = (len # -1)
  <2>1. CASE len = -1
    <3>1. ~S!WellFormed(c)
      BY <1>1, <2>1 DEF ServiceInv, CountIsParse
    <3> QED BY <1>3, <2>1, <3>1 DEF S!WellFormed
  <2>2. CASE len # -1
    <3>1. S!WellFormed(c)
      BY <1>1, <2>2 DEF ServiceInv, CountIsParse
    <3> QED BY <1>3, <2>2, <3>1 DEF S!WellFormed
  <2> QED BY <2>1, <2>2
<1>5. shown = S!Listing(c)
  <2>1. CASE len = -1
    <3>1. ~S!WellFormed(c)
      BY <1>1, <2>1 DEF ServiceInv, CountIsParse
    <3>2. shown = <<>>
      BY <2>1
    <3> QED BY <3>1, <3>2 DEF S!Listing
  <2>2. CASE len # -1
    <3>1. /\ S!WellFormed(c) /\ Len(S!Ops(c)) = len
          /\ \A j \in 1..len : S!Ops(c)[j] = GetOp(c, path[j])
      BY <1>1, <2>2 DEF ServiceInv, CountIsParse
    <3>2. /\ len \in Nat
          /\ \A j \in 0..(len - 1) : ShowsOp(c, path[j + 1], cells[j])
      BY <1>1, <2>2, EmitDone DEF ServiceInv
    <3>3. ASSUME NEW k \in 1..len PROVE heap[cells[k-1]] = S!Row(S!Ops(c)[k])
      <4>1. k - 1 \in 0..(len - 1) /\ (k - 1) + 1 = k
        BY <3>2
      <4>2. heap[cells[k-1]] = SizedRow(<<GetOp(c, path[k]).op>> \o GetOp(c, path[k]).data)
        BY <3>2, <4>1 DEF ShowsOp
      <4> QED BY <3>1, <4>2, SameRow DEF S!Row
    <3>4. S!Listing(c) = [k \in 1..len |-> S!Row(S!Ops(c)[k])]
      BY <3>1 DEF S!Listing
    <3> QED BY <3>3, <3>4
  <2> QED BY <2>1, <2>2
<1>6. PICK a : a = [op |-> "list", idx |-> idx, known |-> known, rows |-> S!Listing(c)]
  OBVIOUS
<1>7. ReplyOf(x, heap') = a
  <2>1. ReplyOf(x, heap) = [op |-> "list", idx |-> req.idx, known |-> len # -1, rows |-> shown]
    BY DEF ReplyOf
  <2> HIDE DEF x, shown
  <2>2. ReplyOf(x, heap) = [op |-> "list", idx |-> idx, known |-> known, rows |-> S!Listing(c)]
    BY <1>2, <1>4, <1>5, <2>1
  <2> QED BY <1>1, <1>6, <2>2
<1>8. S!Answer(a)
  <2> HIDE DEF x
  <2>1. Replies' = Append(Replies, a)
    BY <1>1, <1>7, RepliesGrow
  <2> QED BY <1>1, <2>1, Answered DEF Up
<1>9. S!List(idx)
  <2>1. c = scripts[idx + 1]
    BY <1>1, <1>2
  <2>2. a = [op |-> "list", idx |-> idx, known |-> S!WellFormed(scripts[idx + 1]),
             rows |-> S!Listing(scripts[idx + 1])]
    BY <1>3, <1>6, <2>1
  <2> QED BY <1>1, <1>8, <2>2 DEF S!List
<1> QED BY <1>1, <1>2, <1>9 DEF S!Next, Handles

LEMMA ShowImplements ==
  ASSUME ServiceInv, Grows, ToStringReturns
  PROVE  S!Next
<1>1. /\ fn = "emit" /\ fn' = "idle" /\ pc >= Len(c) /\ scripts' = scripts /\ heap' = heap
      /\ req.idx \in Handles /\ c = scripts[req.idx + 1] /\ len \in Nat \cup {-1}
  BY DEF ToStringReturns, Return, ServiceInv, TypeInv, Frame
<1>2. PICK row \in FirstLines : results' =
        Append(results, [op |-> "toString", idx |-> req.idx, len |-> len, row |-> row])
  BY DEF ToStringReturns, Return
<1>3. PICK idx : idx = req.idx
  OBVIOUS
<1> DEFINE x == [op |-> "toString", idx |-> req.idx, len |-> len, row |-> row]
           shown == IF len > 0 THEN <<heap[row]>> ELSE <<>>
<1>4. shown = S!FirstRow(S!Listing(c))
  <2>1. CASE len = -1
    <3>1. S!Listing(c) = <<>> /\ ~(len > 0)
      BY <1>1, <2>1 DEF ServiceInv, CountIsParse, S!Listing
    <3> QED BY <3>1 DEF S!FirstRow
  <2>2. CASE len # -1
    <3>1. /\ S!WellFormed(c) /\ Len(S!Ops(c)) = len
          /\ \A j \in 1..len : S!Ops(c)[j] = GetOp(c, path[j])
      BY <1>1, <2>2 DEF ServiceInv, CountIsParse
    <3>2. S!Listing(c) = [k \in 1..len |-> S!Row(S!Ops(c)[k])]
      BY <3>1 DEF S!Listing
    <3>3. CASE len = 0
      <4>1. S!Listing(c) = <<>>
        BY <3>2, <3>3
      <4> QED BY <3>3, <4>1 DEF S!FirstRow
    <3>4. CASE len # 0
      <4>1. len > 0 /\ 0 \in 0..(len - 1) /\ 1 \in 1..len /\ len \in Nat
        BY <1>1, <2>2, <3>4
      <4>2. 0 \in DOMAIN cells /\ ShowsOp(c, path[0 + 1], cells[0])
        BY <1>1, <2>2, <4>1, EmitDone DEF ServiceInv
      <4>3. row = cells[0]
        BY <1>2, <2>2, <3>4, <4>2 DEF FirstLines, WordAt0
      <4>4. heap[row] = SizedRow(<<GetOp(c, path[1]).op>> \o GetOp(c, path[1]).data)
        BY <4>2, <4>3 DEF ShowsOp
      <4>5. S!Listing(c)[1] = heap[row]
        BY <3>1, <3>2, <4>1, <4>4, SameRow DEF S!Row
      <4>6. S!Listing(c) # <<>>
        BY <3>2, <4>1, NoWords
      <4> QED BY <4>1, <4>5, <4>6 DEF S!FirstRow
    <3> QED BY <3>3, <3>4
  <2> QED BY <2>1, <2>2
<1>5. PICK a : a = [op |-> "show", idx |-> idx, rows |-> S!FirstRow(S!Listing(c))]
  OBVIOUS
<1>6. ReplyOf(x, heap') = a
  <2>1. ReplyOf(x, heap) = [op |-> "show", idx |-> req.idx, rows |-> shown]
    BY DEF ReplyOf
  <2> HIDE DEF x, shown
  <2> QED BY <1>1, <1>3, <1>4, <1>5, <2>1
<1>7. S!Answer(a)
  <2> HIDE DEF x
  <2>1. Replies' = Append(Replies, a)
    BY <1>2, <1>6, RepliesGrow DEF x
  <2> QED BY <1>1, <2>1, Answered DEF Up
<1>8. S!Show(idx)
  <2>1. c = scripts[idx + 1]
    BY <1>1, <1>3
  <2>2. a = [op |-> "show", idx |-> idx, rows |-> S!FirstRow(S!Listing(scripts[idx + 1]))]
    BY <1>5, <2>1
  <2> QED BY <1>1, <1>7, <2>2 DEF S!Show
<1> QED BY <1>1, <1>3, <1>8 DEF S!Next, Handles

LEMMA ServiceInit == Init => ServiceInv /\ S!Init
<1> SUFFICES ASSUME Init PROVE ServiceInv /\ S!Init
  OBVIOUS
<1>1. ServiceInv
  BY TypeInit, NoWords DEF Init, ServiceInv, PassInv, CodeoutComplete, CountIsParse, InRows,
     RunsShow, EncodeInv, OutcomeInv, StringsAreRows, RestInv
<1>2. scripts = <<>> /\ fn = "idle" /\ Replies = <<>>
  <2>1. Len(results) = 0 /\ scripts = <<>> /\ fn = "idle"
    BY NoWords DEF Init
  <2>2. Replies = [k \in 1..0 |-> AbstractReply(results[k])]
    BY <2>1 DEF Replies
  <2>3. [k \in 1..0 |-> AbstractReply(results[k])] = <<>>
    OBVIOUS
  <2> QED BY <2>1, <2>2, <2>3
<1>3. S!Init
  BY <1>2 DEF S!Init, Replies
<1> QED BY <1>1, <1>3

LEMMA ServiceStep == ServiceInv /\ [Intact]_vars => ServiceInv'
BY TypeStep, PassStep, CodeoutStep, CountStep, RowsStep, RunsStep, EncodeStep, OutcomeStep,
   StringsStep, RestStep DEF ServiceInv

LEMMA IntactImplements == ServiceInv /\ [Intact]_vars => [S!Next]_(S!svars)
<1> SUFFICES ASSUME ServiceInv, [Intact]_vars PROVE S!Next \/ UNCHANGED S!svars
  OBVIOUS
<1>1. Grows /\ fn # "spoilt" /\ fn' # "spoilt"
  BY StepGrows, StaysSound DEF ServiceInv, TypeInv, Sound
<1>2. CASE results' = results /\ scripts' = scripts
  <2>1. Replies' = Replies
    BY <1>1, <1>2, RepliesStay
  <2>2. CASE fn # "abort" /\ fn' = "abort"
    BY <1>1, <1>2, <2>1, <2>2, LostCall DEF Up
  <2>3. CASE (fn # "abort") = (fn' # "abort")
    BY <1>1, <1>2, <2>1, <2>3 DEF S!svars, Replies
  <2>4. fn = "abort" => fn' = "abort"
    BY AbortIsFinal DEF vars
  <2> QED BY <2>2, <2>3, <2>4
<1>3. CASE \E x : Returns(x)
  BY <1>1, <1>3, CompileImplements, ByteCompileImplements, RunImplements, ListImplements,
     ShowImplements DEF Returns
<1> QED BY <1>2, <1>3, ResultStep

(* A store past the unused words ends the service's promises; after it, none *)
(* is left to break.                                                         *)
LEMMA SpoilImplements == ServiceInv /\ Overwrite => S!Next
<1> SUFFICES ASSUME ServiceInv, Overwrite PROVE S!Next
  OBVIOUS
<1>1. fn = "emit" /\ fn' = "spoilt"
  BY DEF Overwrite, AtOp, Damage
<1>2. req.idx \in 0..(Len(scripts) - 1) /\ S!Overruns(scripts[req.idx + 1])
  BY OverwriteOverruns DEF ServiceInv, Handles
<1>3. S!Spoil
  BY <1>1, <1>2 DEF S!Spoil
<1> QED BY <1>3 DEF S!Next

LEMMA UndefinedImplements == fn = "spoilt" /\ fn' = "spoilt" => S!Next
BY DEF S!Undefined, S!Next

LEMMA StepImplements == (Sound => ServiceInv) /\ [Next]_vars => [S!Next]_(S!svars)
<1> SUFFICES ASSUME Sound => ServiceInv, [Next]_vars PROVE S!Next \/ UNCHANGED S!svars
  OBVIOUS
<1>1. CASE Sound
  <2>1. ~Spoilt
    BY <1>1 DEF Spoilt, Sound
  <2> QED BY <1>1, <2>1, IntactImplements, SpoilImplements DEF Next
<1>2. CASE ~Sound
  <2>1. fn = "spoilt" /\ fn' = "spoilt"
    BY <1>2, SpoiltStays DEF Spoilt, Damage, vars, Sound
  <2> QED BY <2>1, UndefinedImplements
<1> QED BY <1>1, <1>2

(* The bridge implements the service: with the pointers of its answers       *)
(* followed, every run of its loops is a run of calls that answer at once,   *)
(* up to the listing of a script that overruns.                              *)
THEOREM BridgeImplementsService == Spec => ImplementsService
<1>1. Init => ServiceInv /\ S!Init
  BY ServiceInit
<1>2. (Sound => ServiceInv) /\ [Next]_vars => (Sound => ServiceInv)'
  BY SoundStep, ServiceStep
<1>3. (Sound => ServiceInv) /\ [Next]_vars => [S!Next]_(S!svars)
  BY StepImplements
<1> QED BY <1>1, <1>2, <1>3, PTL DEF Spec, ImplementsService, S!Spec
=============================================================================
