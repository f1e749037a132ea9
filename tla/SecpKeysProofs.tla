---------------------------- MODULE SecpKeysProofs ----------------------------
(* Proofs about SecpKeys, for every group of prime order, every size of the   *)
(* 32 bytes and every number of operations the public key may lag behind.     *)
EXTENDS SecpKeysProps, Arithmetic

-------------------------------------------------------------------------------
(* Facts about the equation of EcdsaLaw, for every group of prime order.      *)

LEMMA OrderType == Order \in Nat \ {0} /\ Order \in Int /\ Order > 2
  BY OrderAssumption

(* Every scalar but 0 has the inverse that scalar_inverse computes.           *)
LEMMA InvertDef ==
  ASSUME NEW k \in 1 .. Order - 1
  PROVE  Invert(k) \in 1 .. Order - 1 /\ Invert(k) \in Int /\ (Invert(k) * k) % Order = 1
<1>1. \E i \in 1 .. Order - 1 : (i * k) % Order = 1
  BY OrderAssumption
<1>2. Invert(k) \in 1 .. Order - 1 /\ (Invert(k) * k) % Order = 1
  BY <1>1 DEF Invert
<1> QED
  BY <1>2, OrderType

LEMMA ProductNotZero ==
  ASSUME NEW a \in 1 .. Order - 1, NEW b \in 1 .. Order - 1
  PROVE  (a * b) % Order \in 1 .. Order - 1
<1>1. Invert(a) \in Int /\ (Invert(a) * a) % Order = 1
  BY InvertDef
<1>2. a \in Int /\ b \in 0 .. Order - 1 /\ b # 0 /\ a * b \in Int
  BY OrderType
<1>3. (a * b) % Order # 0
  BY <1>1, <1>2, OrderType, NoZeroDivisors
<1>4. (a * b) % Order \in 0 .. Order - 1
  BY <1>2, OrderType, DivMod
<1> QED
  BY <1>3, <1>4, OrderType

LEMMA NonceXType ==
  ASSUME NEW k \in 1 .. Order - 1
  PROVE  NonceX(k) \in 0 .. Order - 1 /\ NonceX(Order - k) = NonceX(k)
<1>1. XCoord[k] \in Nat /\ XCoord[Order - k] = XCoord[k]
  BY OrderAssumption
<1>2. XCoord[k] % Order \in 0 .. Order - 1
  <2> DEFINE x == XCoord[k]
  <2>1. x \in Int
    BY <1>1
  <2> HIDE DEF x
  <2>2. x % Order \in 0 .. Order - 1
    BY <2>1, OrderType, DivMod
  <2> QED BY <2>2 DEF x
<1> QED
  BY <1>1, <1>2 DEF NonceX

(* A signature made with any nonce that gives neither an r nor an s of 0 is   *)
(* correct (ecdsa_sig_sign).                                                  *)
LEMMA MadeIsCorrect ==
  ASSUME NEW d \in Int, NEW m \in Int, NEW k \in 1 .. Order - 1, NEW s \in Int,
         s = (Invert(k) * (m + NonceX(k) * d)) % Order,
         NonceX(k) # 0, s # 0
  PROVE  Correct(d, m, NonceX(k), s)
<1> DEFINE r == NonceX(k)
           i == Invert(k)
           j == Invert(s)
           e == m + r * d
<1>1. r \in 1 .. Order - 1 /\ r \in Int
  BY NonceXType, OrderType
<1>2. i \in Int /\ (i * k) % Order = 1
  BY InvertDef
<1>3. e \in Int
  <2> HIDE DEF r
  <2> QED BY <1>1
<1>4. s = (i * e) % Order /\ i * e \in Int
  <2>1. s = (i * e) % Order
    OBVIOUS
  <2> HIDE DEF i, e
  <2> QED BY <2>1, <1>2, <1>3
<1>5. s \in 1 .. Order - 1
  <2>1. s \in 0 .. Order - 1
    <3> DEFINE p == i * e
    <3>1. p \in Int /\ s = p % Order
      BY <1>4
    <3> HIDE DEF p
    <3> QED BY <3>1, OrderType, DivMod
  <2> QED BY <2>1, OrderType
<1>6. j \in Int /\ (j * s) % Order = 1
  BY <1>5, InvertDef
<1>7. (j * e) % Order = k
  <2>1. (j * ((i * e) % Order)) % Order = 1
    BY <1>4, <1>6
  <2>2. k \in 0 .. Order - 1
    BY OrderType
  <2> HIDE DEF i, j, e
  <2> QED BY <2>1, <2>2, <1>2, <1>3, <1>6, OrderType, NonceRecovered
<1>8. k # 0 /\ NonceX(k) = r
  BY OrderType
<1> QED
  BY <1>1, <1>5, <1>7, <1>8 DEF Correct

(* The other number s of a correct signature is as correct.                   *)
LEMMA OppositeIsCorrect ==
  ASSUME NEW d \in Int, NEW m \in Int, NEW r, NEW s, Correct(d, m, r, s)
  PROVE  Correct(d, m, r, Order - s)
<1> DEFINE e == m + r * d
           j == Invert(s)
           jj == Invert(Order - s)
           R == (j * e) % Order
<1>1. r \in 1 .. Order - 1 /\ s \in 1 .. Order - 1 /\ R # 0 /\ NonceX(R) = r
  BY DEF Correct
<1>2. r \in Int /\ s \in Int /\ Order - s \in 1 .. Order - 1 /\ e \in Int
  BY <1>1, OrderType
<1>3. j \in Int /\ (j * s) % Order = 1
  BY <1>1, InvertDef
<1>4. jj \in Int /\ (jj * (Order - s)) % Order = 1
  BY <1>2, InvertDef
<1>5. (jj * e) % Order = Order - R
  <2> DEFINE p == j * e
  <2>1. p \in Int /\ p % Order # 0
    <3>1. p % Order # 0
      BY <1>1
    <3> HIDE DEF j, e
    <3> QED BY <3>1, <1>2, <1>3
  <2>2. (jj * e) % Order = (-p) % Order
    <3> DEFINE t == Order - s
    <3>1. s \in Int /\ t \in Int /\ j \in Int /\ jj \in Int /\ e \in Int /\ t = Order - s
      BY <1>2, <1>3, <1>4, OrderType
    <3>2. IsInverse(Order, j, s) /\ IsInverse(Order, jj, t)
      BY <1>3, <1>4 DEF IsInverse
    <3>3. e * (-j) = -(j * e) /\ e * jj = jj * e /\ -j \in Int
      BY <3>1, SMT
    <3> HIDE DEF j, jj, e, t
    <3>4. (-j) % Order = jj % Order
      BY <3>1, <3>2, OrderType, NegatedInverse
    <3> DEFINE i == -j
    <3>5. i \in Int /\ i % Order = jj % Order
      BY <3>3, <3>4
    <3> HIDE DEF i
    <3>6. (e * i) % Order = (e * jj) % Order
      <4>1. (e * i) % Order = (e * (i % Order)) % Order
        BY <3>1, <3>5, OrderType, ModMul
      <4>2. (e * jj) % Order = (e * (jj % Order)) % Order
        BY <3>1, OrderType, ModMul
      <4> QED BY <4>1, <4>2, <3>5
    <3> QED BY <3>3, <3>6 DEF i
  <2>3. (-p) % Order = Order - (p % Order)
    <3> HIDE DEF p
    <3> QED BY <2>1, OrderType, ModOpposite
  <2> QED BY <2>2, <2>3
<1>6. R \in 1 .. Order - 1
  <2> DEFINE p == j * e
  <2>1. p \in Int
    <3> HIDE DEF j, e
    <3> QED BY <1>2, <1>3, ProductType
  <2>2. p % Order \in 0 .. Order - 1
    <3> HIDE DEF p
    <3> QED BY <2>1, OrderType, DivMod
  <2>3. R = p % Order
    OBVIOUS
  <2> HIDE DEF R, p
  <2> QED BY <2>2, <2>3, <1>1, OrderType
<1> HIDE DEF R
<1>7. Order - R # 0 /\ NonceX(Order - R) = r
  BY <1>1, <1>6, OrderType, NonceXType
<1> QED
  BY <1>1, <1>2, <1>5, <1>7 DEF Correct

(* A signature of which a number is 0 is correct for no hash and no key.      *)
LEMMA ZeroIsIncorrect ==
  ASSUME NEW d, NEW m, NEW r, NEW s, r = 0 \/ s = 0
  PROVE  ~Correct(d, m, r, s)
  BY DEF Correct

-------------------------------------------------------------------------------
(* The operations, one by one: on either side they do what Meant says, and    *)
(* say so.                                                                    *)

LEMMA Parameters ==
  /\ Order \in Nat \ {0} /\ Order \in Int /\ Order > 2
  /\ TopByte \in Nat /\ TopByte >= Order
  /\ Scalars = 0 .. Order - 1 /\ Bytes = 0 .. TopByte /\ 0 \in Scalars
  /\ Scalars \subseteq Int /\ Bytes \subseteq Int /\ Scalars \subseteq Bytes
  BY OrderAssumption, BytesAssumption DEF Scalars, Bytes

LEMMA ScalarOf ==
  ASSUME NEW b \in Int
  PROVE  b % Order \in Scalars
  BY Parameters, DivMod

(* The bytes of a key read as the secret they are, if they are one.           *)
LEMMA SeckeyRead ==
  ASSUME NEW b \in Bytes
  PROVE  /\ set_b32_seckey(b).ret \in BOOLEAN
         /\ set_b32_seckey(b).ret <=> ValidKey(b)
         /\ set_b32_seckey(b).ret => set_b32_seckey(b).sec = b
         /\ cmov(set_b32_seckey(b).sec, 0, ~set_b32_seckey(b).ret) = SecretOf(b)
         /\ set_b32_seckey(b).sec \in Scalars
<1> DEFINE sec == b % Order
           ret == sec # 0 /\ ~(b >= Order)
<1>1. b \in Int /\ b >= 0
  BY Parameters
<1>2. set_b32_seckey(b) = [sec |-> sec, ret |-> ret]
  BY DEF set_b32_seckey, overflow
<1>3. sec \in Scalars
  BY <1>1, ScalarOf
<1>4. b < Order => sec = b
  BY <1>1, Parameters, SmallMod
<1>5. ret \in BOOLEAN
  OBVIOUS
<1> HIDE DEF sec
<1>6. ret <=> ValidKey(b)
  BY <1>1, <1>4, Parameters DEF ValidKey
<1>7. ret => sec = b
  BY <1>1, <1>4, Parameters
<1> HIDE DEF ret
<1>8. (IF ~ret THEN 0 ELSE sec) = SecretOf(b)
  BY <1>6, <1>7 DEF SecretOf
<1> QED
  BY <1>2, <1>3, <1>5, <1>6, <1>7, <1>8 DEF cmov

LEMMA SecretType ==
  ASSUME NEW b \in Bytes
  PROVE  /\ SecretOf(b) \in Scalars
         /\ SecretOf(b) # 0 <=> ValidKey(b)
         /\ b \in Scalars => SecretOf(b) = b
  BY Parameters DEF SecretOf, ValidKey

LEMMA Negated ==
  ASSUME NEW k \in Scalars
  PROVE  /\ scalar_negate(k) \in Scalars
         /\ scalar_negate(k) = IF k = 0 THEN 0 ELSE (-k) % Order
         /\ scalar_negate(k) = IF k = 0 THEN 0 ELSE Order - k
<1>1. k \in Int /\ k % Order = k
  BY Parameters, SmallMod
<1>2. (-k) % Order = (Order - k) % Order
  BY <1>1, Parameters, ModOpposite
<1>3. (-k) % Order = IF k = 0 THEN 0 ELSE Order - k
  BY <1>1, Parameters, ModOpposite
<1> QED
  BY <1>1, <1>2, <1>3, Parameters DEF scalar_negate

LEMMA OpsAre ==
  ASSUME NEW op \in Ops
  PROVE  \/ op[1] = "negate"
         \/ op[1] = "tweak_add" /\ op[2] \in Bytes
         \/ op[1] = "tweak_mul" /\ op[2] \in Bytes
  BY DEF Ops

LEMMA MeantType ==
  ASSUME NEW op \in Ops, NEW k \in Scalars
  PROVE  Meant(op, k) \in Scalars
<1>1. CASE k = 0
  BY <1>1, Parameters DEF Meant
<1>2. CASE k # 0 /\ op[1] = "negate"
  <2>1. -k \in Int
    BY Parameters
  <2>2. (-k) % Order \in Scalars
    BY <2>1, ScalarOf
  <2> QED BY <1>2, <2>2 DEF Meant
<1>3. CASE k # 0 /\ op[1] = "tweak_add" /\ op[2] \in Bytes
  <2>1. k + op[2] \in Int
    BY <1>3, Parameters
  <2>2. (k + op[2]) % Order \in Scalars
    BY <2>1, ScalarOf
  <2> QED BY <1>3, <2>2, Parameters DEF Meant
<1>4. CASE k # 0 /\ op[1] = "tweak_mul" /\ op[2] \in Bytes
  <2>1. k * op[2] \in Int
    BY <1>4, Parameters, ProductType
  <2>2. (k * op[2]) % Order \in Scalars
    BY <2>1, ScalarOf
  <2> QED BY <1>4, <2>2, Parameters DEF Meant
<1> QED
  BY <1>1, <1>2, <1>3, <1>4, OpsAre

(* On the secret key (secp256k1.c:580-690).                                   *)
LEMMA SecResultMeant ==
  ASSUME NEW op \in Ops, NEW b \in Bytes
  PROVE  /\ SecResult(op, b).seckey = Meant(op, SecretOf(b))
         /\ SecResult(op, b).ret \in BOOLEAN
         /\ SecResult(op, b).ret <=> Meant(op, SecretOf(b)) # 0
<1> DEFINE key == set_b32_seckey(b)
           k == SecretOf(b)
<1>1. /\ key.ret \in BOOLEAN /\ (key.ret <=> ValidKey(b)) /\ key.sec \in Scalars
      /\ key.ret => key.sec = b
      /\ cmov(key.sec, 0, ~key.ret) = k
  BY SeckeyRead
<1>2. k \in Scalars /\ (k # 0 <=> ValidKey(b)) /\ (ValidKey(b) => k = b)
  BY SecretType DEF SecretOf
<1> HIDE DEF k
<1>3. CASE op[1] = "negate"
  <2>1. SecResult(op, b) = [seckey |-> scalar_negate(k), ret |-> key.ret]
    BY <1>1, <1>3 DEF SecResult, seckey_negate
  <2>2. scalar_negate(k) = IF k = 0 THEN 0 ELSE (-k) % Order
    BY <1>2, Negated
  <2>3. scalar_negate(k) = IF k = 0 THEN 0 ELSE Order - k
    BY <1>2, Negated
  <2>4. scalar_negate(k) = Meant(op, k)
    BY <2>2, <1>3 DEF Meant
  <2>5. Order - k # 0
    BY <1>2, Parameters
  <2>6. Meant(op, k) # 0 <=> k # 0
    BY <2>3, <2>4, <2>5
  <2>7. SecResult(op, b).seckey = scalar_negate(k) /\ SecResult(op, b).ret = key.ret
    BY <2>1
  <2> HIDE DEF key
  <2> QED
    BY <1>1, <1>2, <2>4, <2>6, <2>7 DEF k
<1>4. ASSUME NEW t \in Bytes, op[2] = t, op[1] \in {"tweak_add", "tweak_mul"}
      PROVE  /\ SecResult(op, b).seckey = Meant(op, k)
             /\ SecResult(op, b).ret \in BOOLEAN
             /\ SecResult(op, b).ret <=> Meant(op, k) # 0
  <2> DEFINE u == t % Order
             x == IF op[1] = "tweak_add" THEN (key.sec + u) % Order ELSE (key.sec * u) % Order
             done == IF op[1] = "tweak_add" THEN x # 0 ELSE u # 0
             ret == key.ret /\ t < Order /\ done
  <2> DEFINE tweaked == TweakSec(op[1], key.sec, u)
  <2>1. tweaked = [sec |-> x, ret |-> done]
    BY <1>4 DEF TweakSec
  <2>2. /\ tweaked.sec = x /\ tweaked.ret = done
        /\ overflow(t) = (t >= Order) /\ scalar_set_b32(t) = u
    BY <2>1 DEF overflow, scalar_set_b32
  <2>3. SecResult(op, b) = seckey_tweak(op[1], b, t)
    BY <1>4 DEF SecResult
  <2>4. seckey_tweak(op[1], b, t) =
          [seckey |-> cmov(tweaked.sec, 0, ~(key.ret /\ ~(t >= Order) /\ tweaked.ret)),
           ret |-> key.ret /\ ~(t >= Order) /\ tweaked.ret]
    BY <2>2 DEF seckey_tweak
  <2>5. (~(t >= Order)) = (t < Order)
    BY Parameters
  <2> HIDE DEF x, u, tweaked, key
  <2>6. SecResult(op, b) = [seckey |-> IF ret THEN x ELSE 0, ret |-> ret]
    BY <2>2, <2>3, <2>4, <2>5 DEF cmov
  <2> USE DEF x, u, tweaked, key
  <2>7. key.ret /\ t < Order => x = Meant(op, k) /\ (done <=> x # 0) /\ u = t
    <3>1. SUFFICES ASSUME key.ret, t < Order
                   PROVE  x = Meant(op, k) /\ (done <=> x # 0) /\ u = t
      OBVIOUS
    <3>2. u = t /\ t \in Int /\ t >= 0
      BY <3>1, Parameters, SmallMod
    <3>3. key.sec = k /\ k \in 1 .. Order - 1
      BY <3>1, <1>1, <1>2, Parameters DEF ValidKey
    <3>4. CASE op[1] = "tweak_add"
      BY <3>1, <3>2, <3>3, <3>4, <1>4 DEF Meant
    <3>5. CASE op[1] = "tweak_mul"
      <4>1. x = Meant(op, k) /\ x = (k * t) % Order
        BY <3>1, <3>2, <3>3, <3>5, <1>4 DEF Meant
      <4>2. t # 0 => (k * t) % Order # 0
        <5>1. t # 0 => t \in 1 .. Order - 1
          BY <3>1, <3>2, Parameters
        <5> QED BY <5>1, <3>3, ProductNotZero
      <4>3. t = 0 => (k * t) % Order = 0
        <5>1. k * 0 = 0 /\ 0 % Order = 0
          BY <3>3, Parameters, SmallMod
        <5> QED BY <5>1
      <4> QED BY <4>1, <4>2, <4>3, <3>2, <3>5
    <3> QED BY <3>4, <3>5, <1>4
  <2>8. ~(key.ret /\ t < Order) => Meant(op, k) = 0
    <3>1. ~key.ret => k = 0
      BY <1>1, <1>2
    <3> QED BY <3>1, <1>4 DEF Meant
  <2>9. ret \in BOOLEAN
    BY <1>1
  <2> HIDE DEF x, done, u, key, tweaked
  <2>10. SecResult(op, b).seckey = (IF ret THEN x ELSE 0) /\ SecResult(op, b).ret = ret
    BY <2>6
  <2> QED
    BY <2>10, <2>7, <2>8, <2>9
<1> QED
  BY <1>3, <1>4, OpsAre DEF k

(* On the public key (secp256k1.c:597-748).                                   *)
LEMMA PubResultMeant ==
  ASSUME NEW op \in Ops, NEW k \in Scalars
  PROVE  /\ PubResult(op, k).pubkey = Meant(op, k)
         /\ PubResult(op, k).ret \in BOOLEAN
         /\ PubResult(op, k).ret <=> Meant(op, k) # 0
<1>1. pubkey_load(k) <=> k # 0
  BY DEF pubkey_load, ZeroKey
<1>2. CASE op[1] = "negate"
  <2>1. scalar_negate(k) = IF k = 0 THEN 0 ELSE (-k) % Order
    BY Negated
  <2>2. scalar_negate(k) = IF k = 0 THEN 0 ELSE Order - k
    BY Negated
  <2>3. Order - k # 0
    BY Parameters
  <2>4. scalar_negate(k) = Meant(op, k)
    BY <2>1, <1>2 DEF Meant
  <2>5. Meant(op, k) # 0 <=> k # 0
    BY <2>2, <2>3, <2>4
  <2>6. PubResult(op, k) = [pubkey |-> IF k # 0 THEN pubkey_save(scalar_negate(k)) ELSE 0,
                            ret |-> k # 0]
    BY <1>2 DEF PubResult, pubkey_negate, pubkey_load, ZeroKey
  <2>7. /\ PubResult(op, k).pubkey = IF k # 0 THEN pubkey_save(scalar_negate(k)) ELSE 0
        /\ PubResult(op, k).ret = (k # 0)
    BY <2>6
  <2> QED
    BY <2>4, <2>5, <2>7 DEF pubkey_save
<1>3. ASSUME NEW t \in Bytes, op[2] = t, op[1] \in {"tweak_add", "tweak_mul"}
      PROVE  /\ PubResult(op, k).pubkey = Meant(op, k)
             /\ PubResult(op, k).ret \in BOOLEAN
             /\ PubResult(op, k).ret <=> Meant(op, k) # 0
  <2> DEFINE u == t % Order
             p == IF op[1] = "tweak_add" THEN (k + u) % Order ELSE (k * u) % Order
             done == IF op[1] = "tweak_add" THEN p # 0 ELSE u # 0
             ret == k # 0 /\ t < Order /\ done
  <2>1. PubResult(op, k) = [pubkey |-> IF ret THEN pubkey_save(p) ELSE 0, ret |-> ret]
    BY <1>1, <1>3, Parameters
       DEF PubResult, pubkey_tweak, scalar_set_b32, overflow, ZeroKey
  <2>2. k # 0 /\ t < Order => p = Meant(op, k) /\ (done <=> p # 0)
    <3>1. SUFFICES ASSUME k # 0, t < Order
                   PROVE  p = Meant(op, k) /\ (done <=> p # 0)
      OBVIOUS
    <3>2. u = t /\ t \in Int /\ t >= 0
      BY <3>1, Parameters, SmallMod
    <3>3. k \in 1 .. Order - 1
      BY <3>1, Parameters
    <3>4. CASE op[1] = "tweak_add"
      BY <3>1, <3>2, <3>3, <3>4, <1>3 DEF Meant
    <3>5. CASE op[1] = "tweak_mul"
      <4>1. p = Meant(op, k) /\ p = (k * t) % Order
        BY <3>1, <3>2, <3>3, <3>5, <1>3 DEF Meant
      <4>2. t # 0 => (k * t) % Order # 0
        <5>1. t # 0 => t \in 1 .. Order - 1
          BY <3>1, <3>2, Parameters
        <5> QED BY <5>1, <3>3, ProductNotZero
      <4>3. t = 0 => (k * t) % Order = 0
        <5>1. k * 0 = 0 /\ 0 % Order = 0
          BY <3>3, Parameters, SmallMod
        <5> QED BY <5>1
      <4> QED BY <4>1, <4>2, <4>3, <3>2, <3>5
    <3> QED BY <3>4, <3>5, <1>3
  <2>3. ~(k # 0 /\ t < Order) => Meant(op, k) = 0
    BY <1>3 DEF Meant
  <2> HIDE DEF p, done, u
  <2>4. PubResult(op, k).pubkey = (IF ret THEN pubkey_save(p) ELSE 0) /\ PubResult(op, k).ret = ret
    BY <2>1
  <2> QED
    BY <2>4, <2>2, <2>3 DEF pubkey_save
<1> QED
  BY <1>2, <1>3, OpsAre

-------------------------------------------------------------------------------
(* The invariant.                                                             *)

Step == [op : Ops, ret : BOOLEAN]

(* w is the public key after each of the steps that steps lists.              *)
Leads(w, steps) ==
  /\ w \in [0 .. Len(steps) -> Scalars]
  /\ \A i \in 1 .. Len(steps) :
       /\ w[i] = Meant(steps[i].op, w[i - 1])
       /\ steps[i].ret <=> w[i] # 0

Paired ==
  \E w \in [0 .. Len(todo) -> Scalars] :
    Leads(w, todo) /\ w[0] = pubkey /\ w[Len(todo)] = SecretOf(seckey)

Typed ==
  /\ seckey \in Bytes /\ pubkey \in Scalars /\ todo \in Seq(Step)
  /\ signed \in Bytes \cup {FailedSig, NULL}
  /\ loop # NULL => loop.msg \in Bytes
  /\ call.ret = call.sec_ret

Good(r, s) == ValidKey(seckey) /\ Correct(seckey, signed % Order, r, s)

Inv ==
  /\ Typed /\ Paired
  /\ loop # NULL => todo = <<>>
  /\ signed \in Bytes => todo = <<>> /\ Good(sig[1], sig[2])
  /\ signed = FailedSig => sig[1] = 0 \/ sig[2] = 0
  /\ sig = <<sig[1], sig[2]>>

LEMMA Marks == NULL \notin Bytes /\ NULL # FailedSig /\ FailedSig \notin Bytes
<1>1. TopByte + 1 \in 0 .. TopByte + 1 /\ TopByte + 1 \notin 0 .. TopByte
  BY BytesAssumption
<1>2. \A b \in 0 .. TopByte : b \in 0 .. TopByte + 1
  BY BytesAssumption
<1> QED
  BY <1>1, <1>2, BytesAssumption DEF Bytes, FailedSig

(* With nothing to do the two keys are level.                                 *)
LEMMA Level ==
  ASSUME Paired, todo = <<>>
  PROVE  pubkey = SecretOf(seckey)
<1>1. Len(todo) = 0
  OBVIOUS
<1> QED
  BY <1>1 DEF Paired

LEMMA LeadsNowhere ==
  ASSUME NEW k \in Scalars
  PROVE  \E w : Leads(w, <<>>) /\ w[0] = k /\ w[Len(<<>>)] = k
<1> DEFINE w == [i \in 0 .. 0 |-> k]
<1>1. Len(<<>>) = 0 /\ w \in [0 .. 0 -> Scalars] /\ w[0] = k
  OBVIOUS
<1>2. Leads(w, <<>>)
  BY <1>1 DEF Leads
<1> QED
  BY <1>1, <1>2

(* A step more at the end.                                                    *)
LEMMA LeadsOn ==
  ASSUME NEW steps \in Seq(Step), NEW w, Leads(w, steps), NEW op \in Ops, NEW ret \in BOOLEAN,
         ret <=> Meant(op, w[Len(steps)]) # 0
  PROVE  \E v : /\ Leads(v, Append(steps, [op |-> op, ret |-> ret]))
                /\ v[0] = w[0] /\ v[Len(steps) + 1] = Meant(op, w[Len(steps)])
<1> DEFINE n == Len(steps)
           new == Append(steps, [op |-> op, ret |-> ret])
           last == Meant(op, w[n])
           v == [i \in 0 .. n + 1 |-> IF i = n + 1 THEN last ELSE w[i]]
<1>1. n \in Nat /\ w \in [0 .. n -> Scalars] /\ w[n] \in Scalars
  BY DEF Leads
<1>2. last \in Scalars
  BY <1>1, MeantType
<1>3. Len(new) = n + 1 /\ new[n + 1] = [op |-> op, ret |-> ret]
      /\ \A i \in 1 .. n : new[i] = steps[i]
  <2>1. [op |-> op, ret |-> ret] \in Step
    BY DEF Step
  <2> QED BY <2>1
<1> HIDE DEF last
<1>4. v \in [0 .. n + 1 -> Scalars] /\ v[0] = w[0] /\ v[n + 1] = last
  BY <1>1, <1>2
<1>5. ASSUME NEW i \in 1 .. n + 1
      PROVE  v[i] = Meant(new[i].op, v[i - 1]) /\ (new[i].ret <=> v[i] # 0)
  <2>1. CASE i = n + 1
    <3>1. v[i - 1] = w[n] /\ v[i] = last /\ new[i].op = op /\ new[i].ret = ret
      BY <2>1, <1>1, <1>3
    <3> QED BY <3>1 DEF last
  <2>2. CASE i \in 1 .. n
    <3>1. v[i - 1] = w[i - 1] /\ v[i] = w[i] /\ new[i] = steps[i]
      BY <2>2, <1>1, <1>3
    <3>2. w[i] = Meant(steps[i].op, w[i - 1]) /\ (steps[i].ret <=> w[i] # 0)
      BY <2>2 DEF Leads
    <3> QED BY <3>1, <3>2
  <2> QED BY <2>1, <2>2, <1>1
<1> HIDE DEF v, new
<1>6. Leads(v, new)
  BY <1>3, <1>4, <1>5 DEF Leads
<1> QED
  BY <1>4, <1>6 DEF new, last

(* A step less at the beginning.                                              *)
LEMMA LeadsFrom ==
  ASSUME NEW steps \in Seq(Step), NEW w, Leads(w, steps), steps # <<>>
  PROVE  /\ Head(steps) \in Step
         /\ w[1] = Meant(Head(steps).op, w[0]) /\ (Head(steps).ret <=> w[1] # 0)
         /\ \E v : Leads(v, Tail(steps)) /\ v[0] = w[1] /\ v[Len(Tail(steps))] = w[Len(steps)]
<1> DEFINE n == Len(steps)
           v == [i \in 0 .. n - 1 |-> w[i + 1]]
<1>1. n \in Nat \ {0} /\ w \in [0 .. n -> Scalars]
  BY DEF Leads
<1>2. Head(steps) = steps[1] /\ steps[1] \in Step
  BY <1>1
<1>3. w[1] = Meant(Head(steps).op, w[0]) /\ (Head(steps).ret <=> w[1] # 0)
  BY <1>1, <1>2 DEF Leads
<1>4. Len(Tail(steps)) = n - 1 /\ \A i \in 1 .. n - 1 : Tail(steps)[i] = steps[i + 1]
  BY <1>1
<1>5. v \in [0 .. n - 1 -> Scalars] /\ v[0] = w[1] /\ v[n - 1] = w[n]
  BY <1>1
<1>6. ASSUME NEW i \in 1 .. n - 1
      PROVE  v[i] = Meant(Tail(steps)[i].op, v[i - 1]) /\ (Tail(steps)[i].ret <=> v[i] # 0)
  <2>1. v[i] = w[i + 1] /\ v[i - 1] = w[i] /\ Tail(steps)[i] = steps[i + 1]
    BY <1>1, <1>4
  <2>2. i + 1 \in 1 .. n /\ (i + 1) - 1 = i
    BY <1>1
  <2>3. w[i + 1] = Meant(steps[i + 1].op, w[i]) /\ (steps[i + 1].ret <=> w[i + 1] # 0)
    BY <2>2 DEF Leads
  <2> QED BY <2>1, <2>3
<1> HIDE DEF v
<1>7. Leads(v, Tail(steps))
  BY <1>4, <1>5, <1>6 DEF Leads
<1> QED
  BY <1>2, <1>3, <1>4, <1>5, <1>7

-------------------------------------------------------------------------------
(* A key written out and read back (secp256k1.c:239-290).                     *)

LEMMA Coordinates ==
  ASSUME NEW Q \in 1 .. Order - 1
  PROVE  /\ XCoord[Q] \in Nat /\ YCoord[Q] \in Nat /\ YCoord[Q] % 2 \in {0, 1}
         /\ Tag(YCoord[Q]) \in {2, 3}
<1>1. XCoord[Q] \in Nat /\ YCoord[Q] \in Nat
  BY OrderAssumption, CurveAssumption
<1>2. YCoord[Q] % 2 \in {0, 1}
  <2> DEFINE y == YCoord[Q]
  <2>1. y \in Nat
    BY <1>1
  <2> HIDE DEF y
  <2>2. y % 2 \in {0, 1}
    BY <2>1
  <2> QED BY <2>2 DEF y
<1> QED
  BY <1>1, <1>2 DEF Tag

LEMMA CompressedOnce ==
  ASSUME NEW P \in 1 .. Order - 1, NEW Q \in 1 .. Order - 1,
         Tag(YCoord[P]) = Tag(YCoord[Q]), XCoord[P] = XCoord[Q]
  PROVE  P = Q
<1>1. YCoord[P] % 2 \in {0, 1} /\ YCoord[Q] % 2 \in {0, 1}
  BY Coordinates
<1>2. YCoord[P] % 2 = YCoord[Q] % 2
  BY <1>1 DEF Tag
<1> QED
  BY <1>2, CurveAssumption

LEMMA ReadBack ==
  ASSUME NEW Q \in 1 .. Order - 1, NEW compressed \in BOOLEAN
  PROVE  /\ eckey_pubkey_parse(pubkey_serialize(Q, compressed)) = {Q}
         /\ pubkey_parse(pubkey_serialize(Q, compressed)).pubkey = Q
<1> DEFINE out == pubkey_serialize(Q, compressed)
<1>1. Q # 0 /\ pubkey_load(Q)
  BY Parameters DEF pubkey_load, ZeroKey
<1>2. eckey_pubkey_parse(out) = {Q}
  <2>1. CASE compressed
    <3>1. out = <<Tag(YCoord[Q]), XCoord[Q]>>
      BY <1>1, <2>1 DEF pubkey_serialize
    <3>2. \A P \in 1 .. Order - 1 : out = <<Tag(YCoord[P]), XCoord[P]>> <=> P = Q
      BY <3>1, CompressedOnce
    <3>3. Len(out) = 2
      BY <3>1
    <3> HIDE DEF out
    <3> QED BY <3>2, <3>3 DEF eckey_pubkey_parse
  <2>2. CASE ~compressed
    <3>1. out = <<4, XCoord[Q], YCoord[Q]>>
      BY <1>1, <2>2 DEF pubkey_serialize
    <3>2. Len(out) = 3 /\ out[1] = 4 /\ out[2] = XCoord[Q] /\ out[3] = YCoord[Q]
      BY <3>1
    <3>3. \A P \in 1 .. Order - 1 :
            (XCoord[Q] = XCoord[P] /\ YCoord[Q] = YCoord[P]) <=> P = Q
      BY CurveAssumption
    <3> HIDE DEF out
    <3> QED BY <3>2, <3>3 DEF eckey_pubkey_parse
  <2> QED BY <2>1, <2>2
<1>3. pubkey_parse(out).pubkey = pubkey_save(CHOOSE q \in {Q} : TRUE)
  <2> HIDE DEF out
  <2> QED BY <1>2 DEF pubkey_parse
<1>4. (CHOOSE q \in {Q} : TRUE) = Q
  OBVIOUS
<1> QED
  BY <1>1, <1>2, <1>3, <1>4 DEF pubkey_save

LEMMA ReadBackType ==
  ASSUME NEW Q \in 1 .. Order - 1, NEW compressed \in BOOLEAN
  PROVE  pubkey_parse(pubkey_serialize(Q, compressed)).ret = TRUE
<1> DEFINE out == pubkey_serialize(Q, compressed)
<1>1. eckey_pubkey_parse(out) = {Q}
  BY ReadBack
<1> HIDE DEF out
<1>2. pubkey_parse(out).ret = TRUE
  BY <1>1 DEF pubkey_parse
<1> QED
  BY <1>2 DEF out

-------------------------------------------------------------------------------
(* Every action preserves the invariant.                                      *)

LEMMA InitInv == Init => Inv
<1> SUFFICES ASSUME Init PROVE Inv
  OBVIOUS
<1> USE DEF Init
<1>1. Typed
  BY Parameters DEF Typed, ZeroKey
<1>2. Paired
  <2>1. pubkey = 0 /\ SecretOf(seckey) = 0 /\ todo = <<>>
    BY Parameters, SecretType DEF ZeroKey
  <2>2. \E w : Leads(w, <<>>) /\ w[0] = 0 /\ w[Len(<<>>)] = 0
    BY Parameters, LeadsNowhere
  <2> QED BY <2>1, <2>2 DEF Paired, Leads
<1> QED
  BY <1>1, <1>2, Marks DEF Inv, ZeroSig

(* The public key of any bytes, or none (secp256k1.c:547-577).                *)
LEMMA PubkeyCreated ==
  ASSUME NEW b \in Bytes
  PROVE  /\ pubkey_create(b).ret = set_b32_seckey(b).ret
         /\ pubkey_create(b).ret <=> ValidKey(b)
         /\ pubkey_create(b).pubkey = SecretOf(b)
<1> DEFINE key == set_b32_seckey(b)
<1>1. /\ key.ret \in BOOLEAN /\ (key.ret <=> ValidKey(b))
      /\ key.ret => key.sec = b
  BY SeckeyRead
<1>2. pubkey_create(b) = [pubkey |-> cmov(pubkey_save(cmov(key.sec, 1, ~key.ret)), ZeroKey, ~key.ret),
                          ret |-> key.ret]
  BY DEF pubkey_create
<1>3. pubkey_create(b).ret = key.ret
  BY <1>2
<1> HIDE DEF key
<1>4. CASE key.ret
  <2>1. key.sec = b /\ ValidKey(b) /\ b # 0
    BY <1>1, <1>4, Parameters DEF ValidKey
  <2> QED BY <1>2, <1>3, <1>4, <2>1 DEF cmov, pubkey_save, SecretOf, key
<1>5. CASE ~key.ret
  BY <1>1, <1>2, <1>3, <1>5 DEF cmov, ZeroKey, SecretOf, key
<1> QED
  BY <1>1, <1>4, <1>5

(* What the actions do to the keys.                                           *)
LEMMA NewPairInv ==
  ASSUME Inv, NEW b \in Bytes, NewPair(b)
  PROVE  Inv'
<1> USE DEF Inv, NewPair, ForgetSig, ZeroSig
<1>3. pubkey_create(b).ret = set_b32_seckey(b).ret
  BY PubkeyCreated
<1>4. pubkey_create(b).pubkey = SecretOf(b)
  BY PubkeyCreated
<1>5. SecretOf(b) \in Scalars
  BY SecretType
<1>6. Typed'
  BY <1>3, <1>4, <1>5 DEF Typed
<1>7. Paired'
  <2>1. \E w : Leads(w, <<>>) /\ w[0] = SecretOf(b) /\ w[Len(<<>>)] = SecretOf(b)
    BY <1>5, LeadsNowhere
  <2>2. todo' = <<>> /\ pubkey' = SecretOf(b) /\ seckey' = b
    BY <1>4
  <2> QED BY <2>1, <2>2 DEF Paired, Leads
<1> QED
  BY <1>6, <1>7, Marks

LEMMA ChangeSeckeyInv ==
  ASSUME Inv, NEW op \in Ops, ChangeSeckey(op)
  PROVE  Inv'
<1> USE DEF Inv, ChangeSeckey, ForgetSig, ZeroSig, Returned
<1> DEFINE result == SecResult(op, seckey)
           step == [op |-> op, ret |-> result.ret]
<1>1. /\ result.seckey = Meant(op, SecretOf(seckey)) /\ result.ret \in BOOLEAN
      /\ result.ret <=> Meant(op, SecretOf(seckey)) # 0
  BY SecResultMeant DEF Typed
<1>2. SecretOf(seckey) \in Scalars /\ result.seckey \in Scalars /\ result.seckey \in Bytes
  BY <1>1, SecretType, MeantType, Parameters DEF Typed
<1>3. todo' = Append(todo, step) /\ seckey' = result.seckey /\ pubkey' = pubkey
  OBVIOUS
<1>4. step \in Step /\ todo \in Seq(Step) /\ todo' \in Seq(Step)
  <2>1. step \in Step
    BY <1>1 DEF Step
  <2> QED BY <2>1, <1>3 DEF Typed
<1>5. Typed'
  BY <1>2, <1>3, <1>4 DEF Typed
<1>6. Paired'
  <2>1. PICK w : Leads(w, todo) /\ w[0] = pubkey /\ w[Len(todo)] = SecretOf(seckey)
    BY DEF Paired
  <2> HIDE DEF result
  <2>2. PICK v : /\ Leads(v, Append(todo, step))
                 /\ v[0] = w[0] /\ v[Len(todo) + 1] = Meant(op, w[Len(todo)])
    BY <2>1, <1>1, <1>4, LeadsOn
  <2>3. Len(todo') = Len(todo) + 1
    BY <1>3, <1>4
  <2>4. SecretOf(seckey') = Meant(op, SecretOf(seckey))
    BY <1>1, <1>2, <1>3, SecretType
  <2>5. Leads(v, todo') /\ v[0] = pubkey' /\ v[Len(todo')] = SecretOf(seckey')
    BY <2>1, <2>2, <2>3, <2>4, <1>3
  <2>6. v \in [0 .. Len(todo') -> Scalars]
    BY <2>5 DEF Leads
  <2> QED BY <2>5, <2>6 DEF Paired
<1> QED
  BY <1>5, <1>6, Marks

(* Whatever takes the first step does to the public key what the step means.  *)
LEMMA FirstStepTaken ==
  ASSUME Inv, todo # <<>>, todo' = Tail(todo),
         UNCHANGED <<seckey, sig, signed, loop>>,
         pubkey' = Meant(Head(todo).op, pubkey),
         call'.sec_ret = Head(todo).ret, call'.ret \in BOOLEAN,
         call'.ret <=> Meant(Head(todo).op, pubkey) # 0
  PROVE  Inv'
<1> USE DEF Inv
<1>1. PICK w : Leads(w, todo) /\ w[0] = pubkey /\ w[Len(todo)] = SecretOf(seckey)
  BY DEF Paired
<1>2. /\ Head(todo) \in Step
      /\ w[1] = Meant(Head(todo).op, pubkey) /\ (Head(todo).ret <=> w[1] # 0)
      /\ \E v : Leads(v, Tail(todo)) /\ v[0] = w[1] /\ v[Len(Tail(todo))] = w[Len(todo)]
  BY <1>1, LeadsFrom DEF Typed
<1>3. call'.ret = call'.sec_ret
  BY <1>2 DEF Step
<1>4. w[1] \in Scalars /\ todo' \in Seq(Step)
  BY <1>2, MeantType DEF Step, Typed
<1>5. Typed'
  BY <1>2, <1>3, <1>4 DEF Typed
<1>6. Paired'
  BY <1>1, <1>2 DEF Paired, Leads
<1> QED
  BY <1>5, <1>6, Marks

LEMMA ChangePubkeyInv ==
  ASSUME Inv, ChangePubkey
  PROVE  Inv'
<1>1. todo # <<>> /\ todo \in Seq(Step) /\ pubkey \in Scalars
  BY DEF Inv, Typed, ChangePubkey
<1>2. Head(todo).op \in Ops
  <2>1. Head(todo) \in Step
    BY <1>1
  <2> QED BY <2>1 DEF Step
<1> DEFINE result == PubResult(Head(todo).op, pubkey)
<1>3. /\ result.pubkey = Meant(Head(todo).op, pubkey) /\ result.ret \in BOOLEAN
      /\ result.ret <=> Meant(Head(todo).op, pubkey) # 0
  BY <1>1, <1>2, PubResultMeant
<1>4. /\ pubkey' = result.pubkey /\ call' = [ret |-> result.ret, sec_ret |-> Head(todo).ret]
      /\ todo' = Tail(todo) /\ UNCHANGED <<seckey, sig, signed, loop>>
  BY DEF ChangePubkey
<1>5. call'.ret = result.ret /\ call'.sec_ret = Head(todo).ret
  BY <1>4
<1> HIDE DEF result
<1> QED
  BY <1>1, <1>3, <1>4, <1>5, FirstStepTaken

(* The sum of two points that pubkey_combine makes (secp256k1.c:757-787).     *)
LEMMA SumOfTwo ==
  ASSUME NEW a \in Scalars, NEW b \in Scalars
  PROVE  SumOf(<<a, b>>)[2] = (a + b) % Order
<1> DEFINE pks == <<a, b>>
           Body(f) == [i \in 0 .. Len(pks) |-> IF i = 0 THEN 0 ELSE (f[i - 1] + pks[i]) % Order]
           w == [i \in 0 .. 2 |-> IF i = 0 THEN 0 ELSE IF i = 1 THEN a ELSE (a + b) % Order]
           g == SumOf(pks)
<1>1. Len(pks) = 2 /\ pks[1] = a /\ pks[2] = b
  OBVIOUS
<1>2. (0 + a) % Order = a
  BY Parameters, SmallMod
<1>3. w = Body(w)
  <2>1. ASSUME NEW i \in 0 .. 2
        PROVE  w[i] = IF i = 0 THEN 0 ELSE (w[i - 1] + pks[i]) % Order
    <3>1. CASE i = 0
      BY <3>1
    <3>2. CASE i = 1
      BY <3>2, <1>1, <1>2
    <3>3. CASE i = 2
      BY <3>3, <1>1
    <3> QED BY <3>1, <3>2, <3>3
  <2> HIDE DEF w
  <2>2. w \in [0 .. 2 -> {w[i] : i \in 0 .. 2}]
    BY DEF w
  <2> QED BY <2>1, <2>2, <1>1
<1>4. g = CHOOSE f : f = Body(f)
  BY DEF SumOf
<1>5. g = Body(g)
  <2> HIDE DEF Body, w
  <2> QED BY <1>3, <1>4
<1>6. g[0] = 0 /\ g[1] = (g[0] + pks[1]) % Order /\ g[2] = (g[1] + pks[2]) % Order
  <2> HIDE DEF g
  <2>1. \A i \in 0 .. Len(pks) : g[i] = IF i = 0 THEN 0 ELSE (g[i - 1] + pks[i]) % Order
    BY <1>5
  <2> HIDE DEF pks
  <2> QED BY <2>1, <1>1
<1> HIDE DEF g
<1> QED
  BY <1>1, <1>2, <1>6 DEF g

LEMMA CombinePubkeyInv ==
  ASSUME Inv, CombinePubkey
  PROVE  Inv'
<1>1. todo # <<>> /\ todo \in Seq(Step) /\ pubkey \in Scalars
  BY DEF Inv, Typed, CombinePubkey
<1> DEFINE op == Head(todo).op
           term == pubkey_create(op[2])
           Q == SumOf(<<pubkey, term.pubkey>>)[Len(<<pubkey, term.pubkey>>)]
           result == pubkey_combine(<<pubkey, term.pubkey>>)
<1>2. op \in Ops /\ op[1] = "tweak_add" /\ pubkey # 0 /\ term.ret
  <2>1. Head(todo) \in Step
    BY <1>1
  <2>2. op \in Ops
    BY <2>1 DEF Step
  <2> QED BY <2>2 DEF CombinePubkey, pubkey_load, ZeroKey
<1>3. op[2] \in Bytes
  BY <1>2, OpsAre
<1> DEFINE t == op[2]
<1> HIDE DEF op
<1>4. ValidKey(t) /\ term.pubkey = t
  BY <1>2, <1>3, PubkeyCreated DEF SecretOf
<1>5. t \in Scalars /\ t < Order
  BY <1>4, Parameters DEF ValidKey
<1>6. Q = (pubkey + t) % Order
  <2>1. Len(<<pubkey, t>>) = 2
    OBVIOUS
  <2> HIDE DEF t
  <2>2. SumOf(<<pubkey, t>>)[2] = (pubkey + t) % Order
    BY <1>1, <1>5, SumOfTwo
  <2> QED BY <2>1, <2>2, <1>4
<1>7. Meant(op, pubkey) = (pubkey + t) % Order
  BY <1>2, <1>5 DEF Meant
<1>8. result = [pubkey |-> IF Q = 0 THEN ZeroKey ELSE pubkey_save(Q), ret |-> Q # 0]
  BY DEF pubkey_combine
<1> HIDE DEF Q
<1>9. result.pubkey = Q /\ result.ret = (Q # 0)
  BY <1>8 DEF ZeroKey, pubkey_save
<1>10. /\ pubkey' = result.pubkey /\ call' = [ret |-> result.ret, sec_ret |-> Head(todo).ret]
       /\ todo' = Tail(todo) /\ UNCHANGED <<seckey, sig, signed, loop>>
  BY DEF CombinePubkey, op
<1> HIDE DEF result, t
<1>11. call'.ret = (Q # 0) /\ call'.sec_ret = Head(todo).ret /\ pubkey' = Q
  BY <1>9, <1>10
<1>12. Q = Meant(op, pubkey)
  BY <1>6, <1>7
<1> QED
  BY <1>1, <1>10, <1>11, <1>12, FirstStepTaken DEF op

LEMMA PassPubkeyInv ==
  ASSUME Inv, NEW compressed \in BOOLEAN, PassPubkey(compressed)
  PROVE  Inv'
<1>1. pubkey \in 1 .. Order - 1
  BY Parameters DEF Inv, Typed, PassPubkey, pubkey_load, ZeroKey
<1>2. pubkey_parse(pubkey_serialize(pubkey, compressed)).pubkey = pubkey
  BY <1>1, ReadBack
<1>3. /\ UNCHANGED <<seckey, pubkey, todo, sig, signed, loop>>
      /\ call'.ret = call'.sec_ret
  BY <1>2 DEF PassPubkey, Returned
<1>4. Typed'
  BY <1>3 DEF Inv, Typed
<1>5. Paired'
  BY <1>3 DEF Inv, Paired, Leads
<1>6. Good(sig[1], sig[2])' <=> Good(sig[1], sig[2])
  BY <1>3 DEF Good
<1> QED
  BY <1>3, <1>4, <1>5, <1>6 DEF Inv

(* What leaves the keys alone and the signature as Inv says keeps Inv.        *)
LEMMA SigChanges ==
  ASSUME Inv, UNCHANGED <<seckey, pubkey, todo>>, call'.ret = call'.sec_ret,
         loop' # NULL => loop'.msg \in Bytes /\ todo = <<>>,
         signed' \in Bytes \cup {FailedSig, NULL},
         signed' \in Bytes => todo = <<>> /\ Good(sig[1], sig[2])',
         signed' = FailedSig => sig'[1] = 0 \/ sig'[2] = 0,
         sig' = <<sig'[1], sig'[2]>>
  PROVE  Inv'
<1>1. Typed'
  BY DEF Inv, Typed
<1>2. Paired'
  BY DEF Inv, Paired, Leads
<1> QED
  BY <1>1, <1>2 DEF Inv

LEMMA StartSignInv ==
  ASSUME Inv, NEW m \in Bytes, StartSign(m)
  PROVE  Inv'
<1>1. /\ UNCHANGED <<seckey, pubkey, todo, call>> /\ todo = <<>>
      /\ loop' = [msg |-> m, r |-> 0, s |-> 0] /\ sig' = <<0, 0>> /\ signed' = NULL
  BY DEF StartSign, ForgetSig, ZeroSig
<1>2. loop'.msg = m /\ sig'[1] = 0 /\ sig'[2] = 0
  BY <1>1
<1>3. call'.ret = call'.sec_ret
  BY <1>1 DEF Inv, Typed
<1> QED
  BY <1>1, <1>2, <1>3, Marks, SigChanges

(* A call that fails leaves zeros behind (secp256k1.c:521-526).               *)
LEMMA EndFailed ==
  ASSUME Inv, NEW l, NEW ret \in BOOLEAN, EndSign(l, ret), ~Outcome(l, ret).ret,
         UNCHANGED <<seckey, pubkey, todo>>
  PROVE  Inv'
<1> DEFINE good == ret /\ set_b32_seckey(seckey).ret
<1>1. good \in BOOLEAN
  BY SeckeyRead DEF Inv, Typed
<1>2. Outcome(l, ret) = [sig |-> cmov(<<l.r, l.s>>, ZeroSig, ~good), ret |-> good]
  BY DEF Outcome
<1> HIDE DEF good
<1>3. ~good /\ Outcome(l, ret).sig = <<0, 0>>
  BY <1>1, <1>2 DEF cmov, ZeroSig
<1>4. signed' = FailedSig /\ sig' = <<0, 0>> /\ loop' = NULL /\ call'.ret = call'.sec_ret
  BY <1>3 DEF EndSign, Returned
<1>5. sig'[1] = 0 /\ sig'[2] = 0
  BY <1>4
<1> QED
  BY <1>4, <1>5, Marks, SigChanges

LEMMA NoNonceInv ==
  ASSUME Inv, NoNonce
  PROVE  Inv'
<1>1. EndSign(loop, FALSE) /\ UNCHANGED <<seckey, pubkey, todo>>
  BY DEF NoNonce
<1>2. Outcome(loop, FALSE).ret = FALSE
  BY DEF Outcome
<1> QED
  BY <1>1, <1>2, EndFailed

(* What ecdsa_sig_sign makes with a valid key and nonce is correct, be it the  *)
(* number s or its opposite (ecdsa_impl.h, secp256k1.c:489-519).              *)
LEMMA SignatureMade ==
  ASSUME NEW d \in 1 .. Order - 1, NEW m \in Scalars, NEW k \in 1 .. Order - 1,
         ecdsa_sig_sign(d, m, k).ret
  PROVE  Correct(d, m, ecdsa_sig_sign(d, m, k).r, ecdsa_sig_sign(d, m, k).s)
<1> DEFINE s == SignatureS(d, m, k)
           made == ecdsa_sig_sign(d, m, k)
<1>0. made.ret
  OBVIOUS
<1>1. d \in Int /\ m \in Int /\ Invert(k) \in Int /\ NonceX(k) \in Int
  <2>1. d \in Int /\ m \in Int
    BY Parameters
  <2>2. NonceX(k) \in 0 .. Order - 1
    BY NonceXType
  <2>3. NonceX(k) \in Int
    BY <2>2, Parameters
  <2> QED BY <2>1, <2>3, InvertDef
<1>2. s \in Scalars
  <2> DEFINE e == m + NonceX(k) * d
             p == Invert(k) * e
  <2>1. p \in Int
    <3>1. e \in Int
      <4> HIDE DEF p
      <4> QED BY <1>1, ProductType
    <3> HIDE DEF e
    <3> QED BY <3>1, <1>1, ProductType
  <2>2. s = p % Order
    BY DEF SignatureS
  <2> HIDE DEF p, s
  <2> QED BY <2>1, <2>2, ScalarOf
<1>3. made = [r |-> NonceX(k), s |-> cmov(s, scalar_negate(s), scalar_is_high(s)),
              ret |-> NonceX(k) # 0 /\ s # 0]
  BY DEF ecdsa_sig_sign
<1>4. s = (Invert(k) * (m + NonceX(k) * d)) % Order
  BY DEF SignatureS
<1> HIDE DEF s
<1>5. /\ made.r = NonceX(k) /\ made.s = cmov(s, scalar_negate(s), scalar_is_high(s))
      /\ NonceX(k) # 0 /\ s # 0
  <2> DEFINE good == NonceX(k) # 0 /\ s # 0
             low == cmov(s, scalar_negate(s), scalar_is_high(s))
  <2>1. made.ret = (NonceX(k) # 0 /\ s # 0)
    <3>1. made = [r |-> NonceX(k), s |-> low, ret |-> good]
      BY <1>3
    <3> HIDE DEF good, low, made
    <3>2. made.ret = good
      BY <3>1
    <3> QED BY <3>2 DEF good
  <2>2. made.r = NonceX(k) /\ made.s = cmov(s, scalar_negate(s), scalar_is_high(s))
    BY <1>3
  <2> HIDE DEF made
  <2> QED BY <2>1, <2>2, <1>0
<1>6. s \in Int
  BY <1>2, Parameters
<1>7. Correct(d, m, NonceX(k), s)
  BY <1>1, <1>4, <1>5, <1>6, MadeIsCorrect
<1>8. Correct(d, m, NonceX(k), Order - s)
  BY <1>1, <1>7, OppositeIsCorrect
<1>9. scalar_negate(s) = Order - s
  BY <1>2, <1>5, Negated
<1> QED
  BY <1>5, <1>7, <1>8, <1>9 DEF cmov

LEMMA TryNonceInv ==
  ASSUME Inv, NEW nonce32 \in Bytes, TryNonce(nonce32)
  PROVE  Inv'
<1> DEFINE key == set_b32_seckey(seckey)
           non == set_b32_seckey(nonce32)
           d == cmov(key.sec, 1, ~key.ret)
           made == ecdsa_sig_sign(d, scalar_set_b32(loop.msg), non.sec)
           l == [msg |-> loop.msg, r |-> made.r, s |-> made.s]
<1>1. /\ loop # NULL /\ todo = <<>> /\ UNCHANGED <<seckey, pubkey, todo>>
      /\ loop.msg \in Bytes
  BY DEF Inv, Typed, TryNonce
<1>2. /\ key.ret \in BOOLEAN /\ (key.ret <=> ValidKey(seckey)) /\ (key.ret => key.sec = seckey)
      /\ (non.ret <=> ValidKey(nonce32)) /\ (non.ret => non.sec = nonce32) /\ non.ret \in BOOLEAN
  BY SeckeyRead DEF Inv, Typed
<1>3. IF non.ret /\ made.ret THEN EndSign(l, TRUE)
      ELSE loop' = (IF non.ret THEN l ELSE loop) /\ UNCHANGED <<sig, signed, call>>
  BY DEF TryNonce
<1>4. l.msg = loop.msg /\ l.r = made.r /\ l.s = made.s
  OBVIOUS
<1>5. CASE ~(non.ret /\ made.ret)
  <2> HIDE DEF l, non, made
  <2>1. loop'.msg \in Bytes /\ UNCHANGED <<sig, signed, call>>
    BY <1>1, <1>3, <1>4, <1>5
  <2>2. Good(sig[1], sig[2])' <=> Good(sig[1], sig[2])
    BY <2>1, <1>1 DEF Good
  <2> QED
    BY <2>1, <2>2, <1>1, SigChanges DEF Inv, Typed
<1>6. CASE non.ret /\ made.ret /\ ~key.ret
  <2>1. EndSign(l, TRUE)
    BY <1>3, <1>6
  <2>2. Outcome(l, TRUE).ret = FALSE
    BY <1>2, <1>6 DEF Outcome
  <2> QED
    BY <1>1, <2>1, <2>2, EndFailed
<1>7. CASE non.ret /\ made.ret /\ key.ret
  <2>1. ValidKey(seckey) /\ ValidKey(nonce32) /\ d = seckey /\ non.sec = nonce32
    BY <1>2, <1>7 DEF cmov
  <2>2. scalar_set_b32(loop.msg) = loop.msg % Order /\ loop.msg % Order \in Scalars
    BY <1>1, Parameters, ScalarOf DEF scalar_set_b32
  <2>3. made = ecdsa_sig_sign(seckey, loop.msg % Order, nonce32)
    BY <2>1, <2>2
  <2>4. Correct(seckey, loop.msg % Order, made.r, made.s)
    <3> HIDE DEF made
    <3> QED BY <2>1, <2>2, <2>3, <1>7, SignatureMade DEF ValidKey
  <2>5. EndSign(l, TRUE)
    BY <1>3, <1>7
  <2>6. Outcome(l, TRUE) = [sig |-> <<l.r, l.s>>, ret |-> TRUE]
    <3> HIDE DEF l
    <3>1. set_b32_seckey(seckey).ret = TRUE
      BY <1>2, <1>7
    <3>2. Outcome(l, TRUE) = [sig |-> cmov(<<l.r, l.s>>, ZeroSig, FALSE), ret |-> TRUE]
      BY <3>1 DEF Outcome
    <3> QED BY <3>2 DEF cmov
  <2> HIDE DEF l, made, key, non, d
  <2>10. Outcome(l, TRUE).sig = <<l.r, l.s>> /\ Outcome(l, TRUE).ret
    <3> DEFINE out == Outcome(l, TRUE)
               pair == <<l.r, l.s>>
    <3>1. out = [sig |-> pair, ret |-> TRUE]
      BY <2>6
    <3> HIDE DEF out, pair
    <3>2. out.sig = pair /\ out.ret
      BY <3>1
    <3> QED BY <3>2 DEF out, pair
  <2>7. /\ sig' = <<l.r, l.s>> /\ signed' = l.msg /\ loop' = NULL
        /\ call'.ret = call'.sec_ret
    BY <2>5, <2>10 DEF EndSign, Returned
  <2>8. sig'[1] = made.r /\ sig'[2] = made.s /\ signed' = loop.msg
    BY <2>7, <1>4
  <2>9. Good(sig[1], sig[2])'
    BY <2>1, <2>4, <2>8, <1>1 DEF Good
  <2> QED
    BY <1>1, <2>7, <2>8, <2>9, Marks, SigChanges
<1> QED
  BY <1>2, <1>5, <1>6, <1>7

(* Numbers out of range are read as 0, or are not read (secp256k1.c:330-398). *)
LEMMA BadRead ==
  ASSUME NEW in, NEW der \in BOOLEAN,
         IF in = NULL THEN der ELSE overflow(in[1]) \/ overflow(in[2])
  PROVE  LET result == IF der THEN parse_der(in) ELSE parse_compact(in)
         IN /\ result.sig[1] = 0 \/ result.sig[2] = 0
            /\ result.sig = <<result.sig[1], result.sig[2]>>
<1> DEFINE zero(n) == IF overflow(n) THEN 0 ELSE n
<1>1. CASE der /\ in # NULL
  <2>1. parse_der(in) = [sig |-> <<zero(in[1]), zero(in[2])>>, ret |-> TRUE]
    BY <1>1 DEF parse_der
  <2>2. zero(in[1]) = 0 \/ zero(in[2]) = 0
    BY <1>1
  <2> HIDE DEF zero
  <2> QED BY <1>1, <2>1, <2>2
<1>2. CASE der /\ in = NULL
  <2>1. parse_der(in) = [sig |-> <<0, 0>>, ret |-> FALSE]
    BY <1>2 DEF parse_der, ZeroSig
  <2> QED BY <1>2, <2>1
<1>3. CASE ~der
  <2>1. parse_compact(in) = [sig |-> <<0, 0>>, ret |-> FALSE]
    BY <1>3 DEF parse_compact, ZeroSig
  <2> QED BY <1>3, <2>1
<1> QED
  BY <1>1, <1>2, <1>3

LEMMA ReadBadSigInv ==
  ASSUME Inv, NEW in, NEW der \in BOOLEAN, ReadBadSig(in, der)
  PROVE  Inv'
<1> DEFINE result == IF der THEN parse_der(in) ELSE parse_compact(in)
<1>1. /\ result.sig[1] = 0 \/ result.sig[2] = 0
      /\ result.sig = <<result.sig[1], result.sig[2]>>
  BY BadRead DEF ReadBadSig
<1>2. /\ sig' = result.sig /\ signed' = FailedSig /\ call'.ret = call'.sec_ret
      /\ UNCHANGED <<seckey, pubkey, todo, loop>> /\ loop = NULL
  BY DEF ReadBadSig, Returned
<1> HIDE DEF result
<1> QED
  BY <1>1, <1>2, Marks, SigChanges

(* Numbers in range are read as they are.                                     *)
LEMMA GoodRead ==
  ASSUME NEW r \in Scalars, NEW s \in Scalars, NEW der \in BOOLEAN
  PROVE  LET result == IF der THEN parse_der(<<r, s>>) ELSE parse_compact(<<r, s>>)
         IN result = [sig |-> <<r, s>>, ret |-> TRUE]
<1>1. ~(r >= Order) /\ ~(s >= Order) /\ r % Order = r /\ s % Order = s
  BY Parameters, SmallMod
<1>2. <<r, s>> # NULL
  <2>1. <<r, s>> \in (0 .. TopByte) \X (0 .. TopByte)
    BY Parameters
  <2> QED BY <2>1, BytesAssumption
<1> QED
  BY <1>1, <1>2 DEF parse_der, parse_compact, overflow, scalar_set_b32

(* The signature that Inv speaks of.                                          *)
LEMMA GoodSig ==
  ASSUME Inv, signed \in Bytes
  PROVE  /\ ValidKey(seckey) /\ pubkey = seckey /\ todo = <<>>
         /\ sig[1] \in 1 .. Order - 1 /\ sig[2] \in 1 .. Order - 1
         /\ Correct(seckey, signed % Order, sig[1], sig[2])
         /\ Correct(seckey, signed % Order, sig[1], Order - sig[2])
<1>1. Good(sig[1], sig[2]) /\ todo = <<>>
  BY DEF Inv
<1>2. ValidKey(seckey) /\ Correct(seckey, signed % Order, sig[1], sig[2])
  BY <1>1 DEF Good
<1>3. sig[1] \in 1 .. Order - 1 /\ sig[2] \in 1 .. Order - 1
  BY <1>2 DEF Correct
<1>4. pubkey = seckey
  BY <1>1, <1>2, Level DEF Inv, SecretOf
<1>5. seckey \in Int /\ signed % Order \in Int
  <2>1. signed \in Int
    BY Parameters
  <2>2. signed % Order \in Scalars
    BY <2>1, ScalarOf
  <2> QED BY <2>2, Parameters DEF Inv, Typed
<1> DEFINE m == signed % Order
<1>6. m \in Int /\ Correct(seckey, m, sig[1], sig[2])
  BY <1>2, <1>5
<1> HIDE DEF m
<1>7. Correct(seckey, m, sig[1], Order - sig[2])
  BY <1>5, <1>6, OppositeIsCorrect
<1> QED
  BY <1>1, <1>2, <1>3, <1>4, <1>7 DEF m

LEMMA PassSigInv ==
  ASSUME Inv, NEW high \in BOOLEAN, NEW der \in BOOLEAN, PassSig(high, der)
  PROVE  Inv'
<1> DEFINE r == sig[1]
           s == IF high THEN Order - sig[2] ELSE sig[2]
           result == IF der THEN parse_der(<<r, s>>) ELSE parse_compact(<<r, s>>)
<1>1. loop = NULL /\ signed \in Bytes /\ UNCHANGED <<seckey, pubkey, todo, signed, loop>>
  BY DEF PassSig
<1>2. /\ todo = <<>> /\ ValidKey(seckey) /\ r \in 1 .. Order - 1
      /\ sig[2] \in 1 .. Order - 1 /\ Correct(seckey, signed % Order, r, s)
  BY <1>1, GoodSig
<1>3. r \in Scalars /\ s \in Scalars
  BY <1>2, Parameters
<1>4. (IF high THEN <<sig[1], Order - sig[2]>> ELSE sig) = <<r, s>>
  BY DEF Inv
<1>5. sig' = result.sig /\ call'.ret = call'.sec_ret
  BY <1>4 DEF PassSig, serialize_compact, Returned
<1> HIDE DEF r, s
<1>6. result = [sig |-> <<r, s>>, ret |-> TRUE]
  BY <1>3, GoodRead
<1> HIDE DEF result
<1>7. sig' = <<r, s>> /\ sig'[1] = r /\ sig'[2] = s
  BY <1>5, <1>6
<1>8. Good(sig[1], sig[2])'
  BY <1>1, <1>2, <1>7 DEF Good
<1> QED
  BY <1>1, <1>2, <1>5, <1>7, <1>8, Marks, SigChanges

LEMMA NormalizeSigInv ==
  ASSUME Inv, NormalizeSig
  PROVE  Inv'
<1> DEFINE s == cmov(sig[2], scalar_negate(sig[2]), scalar_is_high(sig[2]))
<1>1. loop = NULL /\ signed \in Bytes /\ UNCHANGED <<seckey, pubkey, todo, signed, loop>>
      /\ call'.ret = call'.sec_ret
  BY DEF NormalizeSig, Returned
<1>2. /\ todo = <<>> /\ ValidKey(seckey) /\ sig[2] \in 1 .. Order - 1
      /\ Correct(seckey, signed % Order, sig[1], sig[2])
      /\ Correct(seckey, signed % Order, sig[1], Order - sig[2])
  BY <1>1, GoodSig
<1>3. scalar_negate(sig[2]) = Order - sig[2]
  <2>1. sig[2] \in Scalars /\ sig[2] # 0
    BY <1>2, Parameters
  <2> QED BY <2>1, Negated
<1>4. Correct(seckey, signed % Order, sig[1], s)
  BY <1>2, <1>3 DEF cmov
<1>5. sig' = <<sig[1], s>>
  BY DEF NormalizeSig, signature_normalize
<1> HIDE DEF s
<1>6. sig'[1] = sig[1] /\ sig'[2] = s
  BY <1>5
<1>7. Good(sig[1], sig[2])'
  BY <1>1, <1>2, <1>4, <1>6 DEF Good
<1> QED
  BY <1>1, <1>2, <1>5, <1>6, <1>7, Marks, SigChanges

LEMMA StutterInv ==
  ASSUME Inv, UNCHANGED vars
  PROVE  Inv'
<1>1. UNCHANGED <<seckey, pubkey, todo, sig, signed, loop, call>>
  BY DEF vars
<1>2. Good(sig[1], sig[2])' <=> Good(sig[1], sig[2])
  BY <1>1 DEF Good
<1> QED
  BY <1>1, <1>2, SigChanges DEF Inv, Typed

(* In every state between two calls, and between two nonces, the invariant    *)
(* holds: the two keys differ by what is yet to do, and the memory holds what *)
(* the calls so far were to leave (secp256k1.c:469-748).                      *)
THEOREM InvHolds == Spec => []Inv
<1>1. Init => Inv
  BY InitInv
<1>2. Inv /\ [Next]_vars => Inv'
  <2> SUFFICES ASSUME Inv, [Next]_vars PROVE Inv'
    OBVIOUS
  <2>1. ASSUME NEW b \in Bytes, NewPair(b) \/ StartSign(b) \/ TryNonce(b) PROVE Inv'
    BY <2>1, NewPairInv, StartSignInv, TryNonceInv
  <2>2. ASSUME NEW op \in Ops, ChangeSeckey(op) PROVE Inv'
    BY <2>2, ChangeSeckeyInv
  <2>3. CASE ChangePubkey \/ CombinePubkey \/ NoNonce \/ NormalizeSig
    BY <2>3, ChangePubkeyInv, CombinePubkeyInv, NoNonceInv, NormalizeSigInv
  <2>4. ASSUME NEW compressed \in BOOLEAN, PassPubkey(compressed) PROVE Inv'
    BY <2>4, PassPubkeyInv
  <2>5. ASSUME NEW high \in BOOLEAN, NEW der \in BOOLEAN, PassSig(high, der) PROVE Inv'
    BY <2>5, PassSigInv
  <2>6. ASSUME NEW in, NEW der \in BOOLEAN, ReadBadSig(in, der) PROVE Inv'
    BY <2>6, ReadBadSigInv
  <2>7. CASE UNCHANGED vars
    BY <2>7, StutterInv
  <2> QED BY <2>1, <2>2, <2>3, <2>4, <2>5, <2>6, <2>7 DEF Next
<1> QED
  BY <1>1, <1>2, PTL DEF Spec

-------------------------------------------------------------------------------
(* What the invariant says to a client.                                       *)

(* Whatever leads the public key through the steps is what Ahead computes.    *)
LEMMA AheadIs ==
  ASSUME NEW w, todo \in Seq(Step), Leads(w, todo), w[0] = pubkey
  PROVE  Ahead[Len(todo)] = w[Len(todo)]
<1> DEFINE n == Len(todo)
           Body(f) == [i \in 0 .. Len(todo) |->
                         IF i = 0 THEN pubkey ELSE Meant(todo[i].op, f[i - 1])]
           g == Ahead
           S == {i \in Nat : i \in 0 .. n => g[i] = w[i]}
<1>1. n \in Nat /\ w \in [0 .. n -> Scalars]
  BY DEF Leads
<1>2. w = Body(w)
  <2>1. \A i \in 0 .. n : w[i] = IF i = 0 THEN pubkey ELSE Meant(todo[i].op, w[i - 1])
    BY <1>1 DEF Leads
  <2> QED BY <1>1, <2>1
<1>3. g = CHOOSE f : f = Body(f)
  BY DEF Ahead
<1>4. g = Body(g)
  <2> HIDE DEF Body, g
  <2> QED BY <1>2, <1>3
<1> HIDE DEF g
<1>5. /\ g[0] = w[0]
      /\ \A i \in 1 .. n : /\ g[i] = Meant(todo[i].op, g[i - 1])
                           /\ w[i] = Meant(todo[i].op, w[i - 1])
  <2>1. \A i \in 0 .. n : g[i] = IF i = 0 THEN pubkey ELSE Meant(todo[i].op, g[i - 1])
    BY <1>4
  <2>2. g[0] = pubkey
    BY <1>1, <2>1
  <2>3. \A i \in 1 .. n : i \in 0 .. n /\ i # 0
    BY <1>1
  <2> HIDE DEF n
  <2>4. \A i \in 1 .. n : w[i] = Meant(todo[i].op, w[i - 1])
    BY DEF Leads, n
  <2> QED BY <2>1, <2>2, <2>3, <2>4
<1>6. Nat \subseteq S
  <2>1. 0 \in S
    BY <1>5
  <2>2. ASSUME NEW i \in Nat, i \in S
        PROVE  i + 1 \in S
    <3>1. CASE i + 1 \in 1 .. n
      <4>1. i \in 0 .. n /\ (i + 1) - 1 = i
        BY <3>1, <1>1
      <4>2. g[i] = w[i]
        BY <2>2, <4>1
      <4>3. g[i + 1] = w[i + 1]
        BY <3>1, <4>1, <4>2, <1>5
      <4> QED BY <4>3
    <3>2. CASE i + 1 \notin 1 .. n
      <4>1. i + 1 \notin 0 .. n
        BY <3>2
      <4> QED BY <4>1
    <3> QED BY <3>1, <3>2
  <2> HIDE DEF S
  <2> QED BY <2>1, <2>2, SetInduction
<1>7. n \in S /\ n \in 0 .. n
  BY <1>1, <1>6
<1> QED
  BY <1>7 DEF g

(* The keys stay a pair, whatever operations the public key has yet to make   *)
(* and whichever calls make them (secp256k1.c:580-748): no operation can      *)
(* part them, for every group, key and tweak.                                 *)
THEOREM KeysPaired == Spec => []KeysStayPaired
<1>1. Inv => KeysStayPaired
  <2> SUFFICES ASSUME Inv PROVE KeysStayPaired
    OBVIOUS
  <2>1. PICK w : Leads(w, todo) /\ w[0] = pubkey /\ w[Len(todo)] = SecretOf(seckey)
    BY DEF Inv, Paired
  <2>2. Ahead[Len(todo)] = w[Len(todo)]
    BY <2>1, AheadIs DEF Inv, Typed
  <2> QED
    BY <2>1, <2>2 DEF Inv, Typed, KeysStayPaired
<1> QED
  BY <1>1, InvHolds, PTL

(* The opposite of a high number is low (scalar_4x64_impl.h).                 *)
LEMMA HighAndLow ==
  ASSUME NEW s \in Scalars, s # 0
  PROVE  /\ scalar_is_high(s) => ~scalar_is_high(scalar_negate(s))
         /\ ~scalar_is_high(0)
<1> DEFINE h == Order \div 2
<1>1. h \in Int /\ Order = 2 * h + (Order % 2) /\ Order % 2 \in 0 .. 1
  <2> DEFINE n == 2
  <2>1. n \in Nat \ {0} /\ n - 1 = 1
    OBVIOUS
  <2>2. /\ Order \div n \in Int /\ Order % n \in 0 .. n - 1
        /\ Order = n * (Order \div n) + (Order % n)
    <3> HIDE DEF n
    <3> QED BY <2>1, Parameters, DivMod
  <2> QED BY <2>1, <2>2
<1>2. s \in Int /\ scalar_negate(s) = Order - s
  BY Parameters, Negated
<1>3. Order <= 2 * h + 1 /\ h >= 0
  BY <1>1, Parameters
<1> HIDE DEF h
<1>4. s > h => ~(Order - s > h)
  BY <1>1, <1>2, <1>3, Parameters
<1>5. ~(0 > h)
  BY <1>1, <1>3
<1> QED
  BY <1>2, <1>4, <1>5 DEF scalar_is_high, h

LEMMA GoodVerifies ==
  ASSUME Inv, signed \in Bytes
  PROVE  /\ ecdsa_verify(sig, signed, pubkey) <=> ~scalar_is_high(sig[2])
         /\ ecdsa_verify(signature_normalize(sig).sig, signed, pubkey)
         /\ parse_compact(serialize_compact(sig)).sig = sig
<1> DEFINE r == sig[1]
           s == sig[2]
           low == cmov(s, scalar_negate(s), scalar_is_high(s))
<1>1. /\ pubkey = seckey /\ ValidKey(seckey) /\ r \in 1 .. Order - 1 /\ s \in 1 .. Order - 1
      /\ Correct(pubkey, signed % Order, r, s)
      /\ Correct(pubkey, signed % Order, r, Order - s)
  BY GoodSig
<1>2. pubkey_load(pubkey)
  BY <1>1, Parameters DEF ValidKey, pubkey_load, ZeroKey
<1>3. r \in Scalars /\ s \in Scalars /\ s # 0 /\ sig = <<r, s>>
  BY <1>1, Parameters DEF Inv
<1> HIDE DEF r, s
<1>4. scalar_negate(s) = Order - s
  BY <1>3, Negated
<1>5. ecdsa_verify(sig, signed, pubkey) <=> ~scalar_is_high(s)
  BY <1>1, <1>2 DEF ecdsa_verify, scalar_set_b32, r, s
<1>6. signature_normalize(sig).sig = <<r, low>>
  BY DEF signature_normalize, r, s
<1>7. ~scalar_is_high(low) /\ Correct(pubkey, signed % Order, r, low)
  BY <1>1, <1>3, <1>4, HighAndLow DEF cmov
<1> HIDE DEF low
<1>8. ecdsa_verify(<<r, low>>, signed, pubkey)
  BY <1>2, <1>7 DEF ecdsa_verify, scalar_set_b32
<1>9. parse_compact(<<r, s>>) = [sig |-> <<r, s>>, ret |-> TRUE]
  BY <1>3, GoodRead
<1>10. parse_compact(<<r, s>>).sig = <<r, s>>
  BY <1>9
<1> QED
  BY <1>3, <1>5, <1>6, <1>8, <1>10 DEF serialize_compact, s

LEMMA FailedVerifiesNowhere ==
  ASSUME Inv, signed = FailedSig, NEW m, NEW Q
  PROVE  /\ ~ecdsa_verify(sig, m, Q)
         /\ ~ecdsa_verify(signature_normalize(sig).sig, m, Q)
<1> DEFINE low == cmov(sig[2], scalar_negate(sig[2]), scalar_is_high(sig[2]))
<1>1. sig[1] = 0 \/ sig[2] = 0
  BY DEF Inv
<1>2. ~Correct(Q, scalar_set_b32(m), sig[1], sig[2])
  BY <1>1, ZeroIsIncorrect
<1>3. sig[1] = 0 \/ low = 0
  <2>1. 1 \in Scalars /\ 1 # 0
    BY Parameters
  <2>2. ~scalar_is_high(0)
    BY <2>1, HighAndLow
  <2> QED BY <1>1, <2>2 DEF cmov
<1>4. signature_normalize(sig).sig = <<sig[1], low>>
  BY DEF signature_normalize
<1> HIDE DEF low
<1>5. ~Correct(Q, scalar_set_b32(m), sig[1], low)
  BY <1>3, ZeroIsIncorrect
<1> QED
  BY <1>2, <1>4, <1>5 DEF ecdsa_verify

(* Signatures verify where they should and nowhere else: what sign made,      *)
(* after every detour through bytes and normalization, and nothing that a     *)
(* failed call left (secp256k1.c:330-423, 469-537), for every group, key,     *)
(* hash and sequence of nonces.                                               *)
THEOREM SigsVerify == Spec => []SignaturesVerify
<1>1. Inv => SignaturesVerify
  BY GoodVerifies, FailedVerifiesNowhere DEF SignaturesVerify
<1> QED
  BY <1>1, InvHolds, PTL

===============================================================================
