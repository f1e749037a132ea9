------------------------------- MODULE EcPoint --------------------------------
(* Points of a curve over a prime field in Jacobian coordinates (ecp_smpl.c), *)
(* with the field elements as they are or in Montgomery form (ecp_mont.c), and *)
(* their octet strings (ecp_oct.c). A caller keeps points in variables; it     *)
(* uses a point only if the call that wrote it returned 1.                     *)
EXTENDS Integers, Sequences

CONSTANTS
  Inputs,    \* [p, a, b, R]: what set_curve is called with; R = 1 for the simple method
  Regs,      \* the variables of the caller
  Excess     \* values at or above p that octets and coordinates may have

\* Every number below a prime has an inverse
IsPrimeField(n) == \A k \in 1 .. n - 1 : \E i \in 1 .. n - 1 : (k * i) % n = 1

\* "p must be a prime > 3" (ecp_smpl.c:184) is tested for 3 bits and oddness only;
\* R is a power of 2 and p is odd.
ASSUME InputsAssumption ==
  /\ \A c \in Inputs :
       /\ c.p \in Nat /\ c.a \in Int /\ c.b \in Int /\ c.R \in Nat \ {0}
       /\ c.p >= 4 /\ c.p % 2 = 1 => IsPrimeField(c.p) /\ c.R % c.p # 0
  /\ Excess \in Nat

VARIABLES
  group,  \* field, a, b, a_is_minus3, and R of the Montgomery form
  pts,    \* the EC_POINT of each variable
  good,   \* the variables whose last assignment returned 1
  call    \* the call made last and its arguments

vars == <<group, pts, good, call>>

-------------------------------------------------------------------------------
(* Field elements.                                                           *)

p == group.field
BN_mod_inverse(n) == CHOOSE i \in 1 .. p - 1 : (n * i) % p = 1
field_mul(x, y) == (x * y * BN_mod_inverse(group.R)) % p
field_sqr(x) == field_mul(x, x)
field_encode(x) == (x * group.R) % p
field_decode(x) == (x * BN_mod_inverse(group.R)) % p
Halve(n) == IF n % 2 = 1 THEN (n + p) \div 2 ELSE n \div 2

\* Mutant: a in Montgomery form is compared with p - 3.
SetCurve_ComparesEncoded(c) ==
  [field |-> c.p, R |-> c.R, a |-> (c.a * c.R) % c.p, b |-> (c.b * c.R) % c.p,
   a_is_minus3 |-> ((c.a * c.R) % c.p) + 3 = c.p]

SetCurve(c) ==
  [field |-> c.p, R |-> c.R, a |-> (c.a * c.R) % c.p, b |-> (c.b * c.R) % c.p,
   a_is_minus3 |-> (c.a % c.p) + 3 = c.p]

\* p has at least three bits and is odd, and 4*a^3 + 27*b^2 is not 0
CheckDiscriminant(c) ==
  LET a == c.a % c.p
      b == c.b % c.p
  IN /\ c.p >= 4 /\ c.p % 2 = 1
     /\ IF a = 0 THEN b # 0
        ELSE b = 0 \/ (4 * a * a * a + 27 * b * b) % c.p # 0

-------------------------------------------------------------------------------
(* What the functions compute.                                               *)

NewPoint == [X |-> 0, Y |-> 0, Z |-> 0, Z_is_one |-> FALSE]
is_at_infinity(P) == P.Z = 0

\* Mutant: the flag stays.
set_to_infinity_KeepsFlag(P) == [P EXCEPT !.Z = 0]

set_to_infinity(P) == [P EXCEPT !.Z = 0, !.Z_is_one = FALSE]

set_Jprojective(x, y, z) ==
  [X |-> field_encode(x % p), Y |-> field_encode(y % p), Z |-> field_encode(z % p),
   Z_is_one |-> z % p = 1]

get_affine(P) ==
  LET Z == field_decode(P.Z)
      Z_1 == BN_mod_inverse(Z)
      Z_2 == (Z_1 * Z_1) % p
  IN IF Z = 1 THEN <<field_decode(P.X), field_decode(P.Y)>>
     ELSE <<field_mul(P.X, Z_2), field_mul(P.Y, (Z_2 * Z_1) % p)>>

\* R is the point that is overwritten: of an infinity only Z is written
dbl(R, P) ==
  LET ZZ == field_sqr(P.Z)
      n1 == IF P.Z_is_one THEN (3 * field_sqr(P.X) + group.a) % p
            ELSE IF group.a_is_minus3
                 THEN (3 * field_mul((P.X + ZZ) % p, (P.X - ZZ) % p)) % p
            ELSE (3 * field_sqr(P.X) + field_mul(field_sqr(ZZ), group.a)) % p
      n2 == (4 * field_mul(P.X, field_sqr(P.Y))) % p
      X == (field_sqr(n1) - 2 * n2) % p
  IN IF is_at_infinity(P) THEN set_to_infinity(R)
     ELSE [X |-> X, Y |-> (field_mul(n1, n2 - X) - 8 * field_sqr(field_sqr(P.Y))) % p,
           Z |-> (2 * (IF P.Z_is_one THEN P.Y ELSE field_mul(P.Y, P.Z))) % p,
           Z_is_one |-> FALSE]

\* x and y of P times Z^2 and Z^3 of Q
Scaled(P, Q) ==
  IF Q.Z_is_one THEN <<P.X, P.Y>>
  ELSE <<field_mul(P.X, field_sqr(Q.Z)), field_mul(P.Y, field_mul(field_sqr(Q.Z), Q.Z))>>

\* P and Q are different pointers; R may be one of them
add(R, P, Q) ==
  LET s == Scaled(P, Q)
      t == Scaled(Q, P)
      n5 == (s[1] - t[1]) % p
      n6 == (s[2] - t[2]) % p
      n7 == (s[1] + t[1]) % p
      n8 == (s[2] + t[2]) % p
      Z == IF P.Z_is_one /\ Q.Z_is_one THEN n5
           ELSE field_mul(IF P.Z_is_one THEN Q.Z ELSE IF Q.Z_is_one THEN P.Z
                          ELSE field_mul(P.Z, Q.Z), n5)
      n3 == field_mul(n7, field_sqr(n5))
      X == (field_sqr(n6) - n3) % p
      n5cube == field_mul(field_sqr(n5), n5)
  IN IF is_at_infinity(P) THEN Q
     ELSE IF is_at_infinity(Q) THEN P
     ELSE IF n5 = 0 THEN IF n6 = 0 THEN dbl(R, P) ELSE set_to_infinity(R)
     ELSE [X |-> X, Z |-> Z, Z_is_one |-> FALSE,
           Y |-> Halve((field_mul((n3 - 2 * X) % p, n6) - field_mul(n8, n5cube)) % p)]

invert(P) == IF is_at_infinity(P) \/ P.Y = 0 THEN P ELSE [P EXCEPT !.Y = p - @]

is_on_curve(P) ==
  LET ZZ == field_sqr(P.Z)
      Z4 == field_sqr(ZZ)
      slope == IF P.Z_is_one THEN group.a
               ELSE IF group.a_is_minus3 THEN -3 * Z4 ELSE field_mul(Z4, group.a)
      const == IF P.Z_is_one THEN group.b ELSE field_mul(group.b, field_mul(Z4, ZZ))
  IN is_at_infinity(P)
     \/ field_sqr(P.Y) = (field_mul((field_sqr(P.X) + slope) % p, P.X) + const) % p

\* Mutant: y is not compared.
cmp_OnlyX(P, Q) ==
  IF is_at_infinity(P) \/ is_at_infinity(Q)
  THEN IF is_at_infinity(P) /\ is_at_infinity(Q) THEN 0 ELSE 1
  ELSE IF Scaled(P, Q)[1] = Scaled(Q, P)[1] THEN 0 ELSE 1

\* 0 for equal points, 1 for different ones
cmp(P, Q) ==
  IF is_at_infinity(P) \/ is_at_infinity(Q)
  THEN IF is_at_infinity(P) /\ is_at_infinity(Q) THEN 0 ELSE 1
  ELSE IF Scaled(P, Q) = Scaled(Q, P) THEN 0 ELSE 1

make_affine(P) ==
  IF P.Z_is_one \/ is_at_infinity(P) THEN P
  ELSE LET A == get_affine(P) IN set_Jprojective(A[1], A[2], 1)

\* Two points with one inversion: each Z is divided out of the product of both
points_make_affine(P, Q) ==
  LET one == field_encode(1)
      prod_Z0 == IF P.Z = 0 THEN one ELSE P.Z
      prod_Z1 == IF Q.Z = 0 THEN prod_Z0 ELSE field_mul(prod_Z0, Q.Z)
      tmp == field_encode(field_encode(BN_mod_inverse(prod_Z1)))
      WithInverse(S, i) ==
        IF S.Z = 0 THEN S
        ELSE [X |-> field_mul(S.X, field_sqr(i)),
              Y |-> field_mul(S.Y, field_mul(field_sqr(i), i)),
              Z |-> one, Z_is_one |-> TRUE]
  IN <<WithInverse(P, IF Q.Z = 0 THEN tmp ELSE field_mul(tmp, Q.Z)),
       WithInverse(Q, field_mul(prod_Z0, tmp))>>

\* form is 2, 4 or 6; an element of the string is the octets of one coordinate
point2oct(P, form) ==
  LET A == get_affine(P)
      tag == IF form \in {2, 6} /\ A[2] % 2 = 1 THEN form + 1 ELSE form
  IN IF is_at_infinity(P) THEN <<0>>
     ELSE IF form = 2 THEN <<tag, A[1]>> ELSE <<tag, A[1], A[2]>>

\* BN_mod_sqrt gives one of the roots
Roots(x) ==
  LET ax == IF group.a_is_minus3 THEN -3 * x ELSE field_decode(group.a) * x
  IN {y \in 0 .. p - 1 : (y * y - (x * x * x + ax + field_decode(group.b))) % p = 0}

\* The points set_compressed_coordinates can give, none if it fails
set_compressed(x, y_bit) ==
  {set_Jprojective(x, IF y % 2 = y_bit THEN y ELSE p - y, 1) :
     y \in {root \in Roots(x % p) : root % 2 = y_bit \/ root # 0}}

-------------------------------------------------------------------------------
(* The calls. Memory may fail in any of them: what was to be written is then *)
(* freed. To bound the states, octets are read first.                         *)

Init == \E c \in Inputs :
          /\ CheckDiscriminant(c)
          /\ group = SetCurve(c)
          /\ pts = [r \in Regs |-> NewPoint]
          /\ good = {}
          /\ call = [fn |-> "new"]

Write(r, P) == /\ pts' = [pts EXCEPT ![r] = P]
               /\ good' = good \cup {r}

Copy == \E r \in Regs, a \in good :
          Write(r, pts[a]) /\ call' = [fn |-> "copy", r |-> r, a |-> a]

SetToInfinity == \E r \in Regs :
  Write(r, set_to_infinity(pts[r])) /\ call' = [fn |-> "set_to_infinity", r |-> r]

\* A caller sets a point of the curve, in a new variable
SetAffine == \E r \in Regs, x, y \in 0 .. p - 1 :
  LET P == set_Jprojective(x + p, y - p, 1)
  IN /\ pts[r] = NewPoint /\ is_on_curve(P)
     /\ Write(r, P)
     /\ call' = [fn |-> "set_affine", r |-> r, x |-> x + p, y |-> y - p]

Add == \E r \in Regs, a, b \in good :
         /\ Write(r, IF a = b THEN dbl(pts[r], pts[a]) ELSE add(pts[r], pts[a], pts[b]))
         /\ call' = [fn |-> "add", r |-> r, a |-> a, b |-> b]

Dbl == \E r \in Regs, a \in good :
         Write(r, dbl(pts[r], pts[a])) /\ call' = [fn |-> "dbl", r |-> r, a |-> a]

Invert == \E r \in good :
            Write(r, invert(pts[r])) /\ call' = [fn |-> "invert", r |-> r]

MakeAffine == \E r \in good :
                Write(r, make_affine(pts[r])) /\ call' = [fn |-> "make_affine"]

PointsMakeAffine == \E r, s \in good :
  LET both == points_make_affine(pts[r], pts[s])
  IN /\ r # s
     /\ pts' = [pts EXCEPT ![r] = both[1], ![s] = both[2]]
     /\ call' = [fn |-> "make_affine"]
     /\ UNCHANGED good

\* The Z of some points have been replaced by their inverses: none is of use
PointsMakeAffineFails == /\ good # {}
                         /\ pts' = [r \in Regs |-> NewPoint]
                         /\ good' = {} /\ call' = [fn |-> "make_affine"]

\* A call fails, or the point is no longer needed: it is freed, and one made anew
Renew == \E r \in Regs : /\ pts' = [pts EXCEPT ![r] = NewPoint]
                         /\ good' = good \ {r}
                         /\ call' = [fn |-> "new", r |-> r]

Coordinates == 0 .. p - 1 + Excess
Buffers == {<<>>} \cup {<<t>> : t \in 0 .. 8}
           \cup {<<t, x>> : t \in 0 .. 8, x \in Coordinates}
           \cup {<<t, x, y>> : t \in 0 .. 8, x, y \in Coordinates}

TagFits(buf) == buf[1] = 4 \/ buf[1] = 6 + (buf[3] % 2)

\* What oct2point writes before the test that the point is on the curve
Decoded(buf) ==
  IF buf = <<0>> THEN {set_to_infinity(NewPoint)}
  ELSE IF Len(buf) = 2 /\ buf[1] \in {2, 3} /\ buf[2] < p
       THEN set_compressed(buf[2], buf[1] % 2)
  ELSE IF Len(buf) = 3 /\ TagFits(buf) /\ buf[2] < p /\ buf[3] < p
       THEN {set_Jprojective(buf[2], buf[3], 1)}
  ELSE {}

Oct2Point == \E r \in Regs, buf \in Buffers :
  /\ call.fn = "new" /\ \A s \in Regs : pts[s] = NewPoint
  /\ call' = [fn |-> "oct2point", r |-> r, buf |-> buf]
  /\ IF Decoded(buf) = {} THEN good' = good \ {r} /\ UNCHANGED pts
     ELSE \E P \in Decoded(buf) :
            IF is_on_curve(P) THEN Write(r, P)
            ELSE pts' = [pts EXCEPT ![r] = P] /\ good' = good \ {r}

Next == /\ \/ Renew \/ Copy \/ SetToInfinity \/ SetAffine \/ Add \/ Dbl \/ Invert
           \/ MakeAffine \/ PointsMakeAffine \/ PointsMakeAffineFails
           \/ Oct2Point
        /\ UNCHANGED group

Spec == Init /\ [][Next]_vars
===============================================================================
