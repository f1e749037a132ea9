------------------------------- MODULE EcdsaLaw -------------------------------
(* What an ECDSA signature is: the equation both libraries sign and verify    *)
(* with. Points are logarithms to the base of the generator, 0 is infinity.   *)
EXTENDS Integers

CONSTANTS
  Order,   \* of the group, prime
  XCoord   \* the x coordinate of each point but infinity

\* Every number below a prime has an inverse; a point and its opposite have
\* the same x coordinate.
ASSUME OrderAssumption ==
  /\ Order \in Nat /\ Order > 2
  /\ \A k \in 1 .. Order - 1 : \E i \in 1 .. Order - 1 : (i * k) % Order = 1
  /\ XCoord \in [1 .. Order - 1 -> Nat]
  /\ \A k \in 1 .. Order - 1 : XCoord[Order - k] = XCoord[k]

Invert(k) == CHOOSE i \in 1 .. Order - 1 : (i * k) % Order = 1

\* x(k * G) modulo the order
NonceX(k) == XCoord[k] % Order

SignatureS(d, m, k) == (Invert(k) * (m + NonceX(k) * d)) % Order

\* r is the x coordinate of (m/s)*G + (r/s)*Q
Correct(Q, m, r, s) ==
  /\ r \in 1 .. Order - 1 /\ s \in 1 .. Order - 1
  /\ LET R == (Invert(s) * (m + r * Q)) % Order
     IN R # 0 /\ NonceX(R) = r
===============================================================================
