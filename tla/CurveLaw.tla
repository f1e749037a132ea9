------------------------------- MODULE CurveLaw -------------------------------
(* The group of a Weierstrass curve, by chords and tangents on affine points, *)
(* and what a caller of the point functions may rely on: a variable whose     *)
(* last assignment succeeded holds the point that was asked for. A caller     *)
(* knows nothing of Jacobian coordinates or of Montgomery form.               *)
EXTENDS Integers, Sequences

CONSTANTS Regs, Infinity, Undefined

VARIABLES
  eq,    \* the curve y^2 = x^3 + a*x + b over the field of p elements
  reg,   \* the point each variable holds, or Undefined
  asked  \* the call made last

lawVars == <<eq, reg, asked>>

Cubic(e, x) == (x * x * x + e.a * x + e.b) % e.p
OnLawCurve(e, P) == P = Infinity \/ (P[2] * P[2]) % e.p = Cubic(e, P[1])
LawCurve(e) == {Infinity} \cup
               {P \in (0 .. e.p - 1) \X (0 .. e.p - 1) : OnLawCurve(e, P)}

\* No x is a double root of the cubic
Smooth(e) == \A x \in 0 .. e.p - 1 :
               ~(Cubic(e, x) = 0 /\ (3 * x * x + e.a) % e.p = 0)

Quotient(e, n, d) == CHOOSE q \in 0 .. e.p - 1 : (q * d - n) % e.p = 0

ThirdPoint(e, slope, P, Q) ==
  LET x == (slope * slope - P[1] - Q[1]) % e.p
  IN <<x, (slope * (P[1] - x) - P[2]) % e.p>>

Sum(e, P, Q) ==
  IF P = Infinity THEN Q
  ELSE IF Q = Infinity THEN P
  ELSE IF P[1] # Q[1]
       THEN ThirdPoint(e, Quotient(e, Q[2] - P[2], Q[1] - P[1]), P, Q)
  ELSE IF (P[2] + Q[2]) % e.p = 0 THEN Infinity
  ELSE ThirdPoint(e, Quotient(e, 3 * P[1] * P[1] + e.a, 2 * P[2]), P, Q)

Opposite(e, P) == IF P = Infinity THEN P ELSE <<P[1], (-P[2]) % e.p>>

\* The octet strings of a point: x and y are one element of the string each
Octets(P) ==
  IF P = Infinity THEN {<<0>>}
  ELSE {<<2 + (P[2] % 2), P[1]>>, <<4, P[1], P[2]>>, <<6 + (P[2] % 2), P[1], P[2]>>}

FromOctets(e, buf) ==
  IF \E P \in LawCurve(e) : buf \in Octets(P)
  THEN CHOOSE P \in LawCurve(e) : buf \in Octets(P)
  ELSE Undefined

Meaning(e, call) ==
  CASE call.fn = "add" -> Sum(e, reg[call.a], reg[call.b])
    [] call.fn = "dbl" -> Sum(e, reg[call.a], reg[call.a])
    [] call.fn = "copy" -> reg[call.a]
    [] call.fn = "invert" -> Opposite(e, reg[call.r])
    [] call.fn = "set_to_infinity" -> Infinity
    [] call.fn = "set_affine" -> <<call.x % e.p, call.y % e.p>>
    [] call.fn = "oct2point" -> FromOctets(e, call.buf)
    [] call.fn = "new" -> Undefined

LawInit == /\ Smooth(eq)
           /\ reg = [r \in Regs |-> Undefined]
           /\ asked = [fn |-> "new"]

\* A call changes one variable, as it says, or fails
Assign == \E r \in Regs :
            /\ asked'.fn # "make_affine" /\ asked'.r = r
            /\ reg' = [reg EXCEPT ![r] = Meaning(eq, asked')]

\* Points that are made affine stay the points they are; failing spoils all
Normalise == /\ asked'.fn = "make_affine"
             /\ reg' \in {reg, [r \in Regs |-> Undefined]}

LawNext == (Assign \/ Normalise) /\ UNCHANGED eq

LawSpec == LawInit /\ [][LawNext]_lawVars
===============================================================================
