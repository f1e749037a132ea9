----------------------------- MODULE ModInvProps -----------------------------
(* What must hold of a modular inversion: the VERIFY_CHECKs of               *)
(* modinv64_impl.h, which are compiled out of the release build, the answer, *)
(* and that it implements Divsteps.                                          *)
EXTENDS ModInv

Abs(n) == IF n < 0 THEN -n ELSE n

(* Words are words, the loop counter stays in the batch, len in the limbs.   *)
TypeOK ==
  /\ algo \in {"const", "var"} /\ pc \in {"batch", "normalize", "done"}
  /\ modulus \in Moduli /\ x \in 0..(modulus - 1) /\ result \in {-1} \cup 0..(modulus - 1)
  /\ d \in Int /\ e \in Int /\ f \in Int /\ g \in Int /\ eta \in Int
  /\ round \in Nat /\ len \in 1..Limbs
  /\ bat \in [i : 0..W, eta : Int, f0 : Words, g0 : Words, f : Words, g : Words,
               u : Words, v : Words, q : Words, r : Words]

\* Divsteps of the batch in progress (the loop counts up or down).
BatchDone == IF algo = "const" THEN bat.i - Pad ELSE W - bat.i

(* Inside a batch (modinv64_impl.h:172-174, 244-247) f stays odd, and the    *)
(* matrix so far takes the words the batch began with to f and g, shifted,   *)
(* whatever the words lost at the top. Finished, it preserves the gcd and    *)
(* cannot overflow the update (lines 212, 293, 316-319): its determinant is  *)
(* a power of two and its rows are at most 2^W in absolute value.            *)
BatchTracks ==
  pc = "batch" =>
    LET s == Pow2[IF algo = "const" THEN bat.i ELSE BatchDone]
        u == Signed(bat.u) v == Signed(bat.v) q == Signed(bat.q) r == Signed(bat.r)
    IN  /\ Odd(bat.f)
        /\ Word(bat.u * bat.f0 + bat.v * bat.g0 - bat.f * s) = 0
        /\ Word(bat.q * bat.f0 + bat.r * bat.g0 - bat.g * s) = 0
        /\ bat.i = (IF algo = "const" THEN W ELSE 0) =>
             /\ u * r - v * q = Pow2[IF algo = "const" THEN W + Pad ELSE W]
             /\ Abs(u) + Abs(v) <= Base /\ Abs(q) + Abs(r) <= Base

(* Between batches d and e stay in (-2*modulus, modulus), so that their top  *)
(* limbs never overflow and normalize_62 needs two additions (lines 312-315, *)
(* 376-379); f and g stay in (-modulus, modulus], also after they lost limbs *)
(* (479-489, 536-539, 567-570); and eta and zeta are bounded by the divsteps *)
(* done (198-199, 248-249).                                                  *)
NumbersInRange ==
  /\ \A n \in {d, e} : -2 * modulus < n /\ n < modulus
  /\ -modulus < f /\ f <= modulus
  /\ -modulus < g /\ g < modulus
  /\ pc = "batch" =>
       LET done == IF algo = "const" THEN round * (W - Pad) + bat.i - Pad
                                     ELSE round * W + W - bat.i
       IN  /\ Abs(bat.eta) <= 1 + done
           /\ algo = "const" => Abs(bat.eta) <= 1 + Rounds * (W - Pad)

\* The moduli of the library, the field's and the group's, are prime.
PrimeModuli == \A m \in Moduli : \A k \in 2..(m - 1) : m % k # 0

(* The batches suffice (lines 496-505, 566): a constant-time call stops      *)
(* after Rounds of them, a variable-time call has no bound of its own.       *)
RoundsSuffice ==
  /\ algo = "const" /\ pc = "normalize" => g = 0
  /\ algo = "var" /\ pc = "batch" => round < VarRounds

(* The answer is the inverse of x, or 0 when x is 0 (line 460): the batches  *)
(* suffice, a call comes to normalize with g = 0 and |f| = 1 (or x was 0),   *)
(* and what it stores is the inverse, brought into [0,modulus) whatever the  *)
(* sign of f and the range of d (lines 69-138).                              *)
ResultIsInverse ==
  /\ RoundsSuffice
  /\ pc = "normalize" => /\ g = 0
                         /\ \/ Abs(f) = 1
                            \/ x = 0 /\ d = 0 /\ Abs(f) = modulus
  /\ pc = "done" => /\ result \in 0..(modulus - 1)
                    /\ IF x = 0 THEN result = 0 ELSE (result * x) % modulus = 1

(* Batches of words, with zeros skipped and bits cancelled several at a      *)
(* time, do to f, g, d, e and delta exactly what that many divsteps on the   *)
(* whole integers do.                                                        *)
D == INSTANCE Divsteps
       WITH BatchSizes <- {W, W - Pad},
            state <- [delta2 |-> IF algo = "const" THEN -2 * eta - 1 ELSE -2 * eta,
                      f |-> f, g |-> g, d |-> d % modulus, e |-> e % modulus]
ImplementsDivsteps == D!AbsSpec

(* Every call returns.                                                       *)
CallReturns == <>(pc = "done")
=============================================================================
