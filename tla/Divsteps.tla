------------------------------ MODULE Divsteps -------------------------------
(* What modinv64_impl.h computes, without words, limbs or matrices: the      *)
(* divstep of Bernstein and Yang on whole integers f and g, with the         *)
(* coefficients d and e kept modulo the modulus. A batch is some number of   *)
(* divsteps; once g is 0 the answer is d, with the sign of f.                *)
EXTENDS Integers

CONSTANTS Moduli, BatchSizes

VARIABLES modulus, x, state, result

absVars == <<modulus, x, state, result>>

\* delta2 is twice delta: delta starts at 1/2 or at 1.
AbsInit == /\ modulus \in Moduli /\ x \in 0..(modulus - 1)
           /\ \E h \in {1, 2} : state = [delta2 |-> h, f |-> modulus, g |-> x, d |-> 0, e |-> 1]
           /\ result = -1

HalfMod(n, m) == IF n % 2 = 0 THEN n \div 2 ELSE (n + m) \div 2

OneDivstep(s, m) ==
  CASE s.g % 2 = 0 ->
         [s EXCEPT !.delta2 = @ + 2, !.g = @ \div 2, !.e = HalfMod(@, m)]
    [] s.g % 2 = 1 /\ s.delta2 > 0 ->
         [delta2 |-> 2 - s.delta2, f |-> s.g, g |-> (s.g - s.f) \div 2,
          d |-> s.e, e |-> HalfMod((s.e - s.d) % m, m)]
    [] OTHER ->
         [s EXCEPT !.delta2 = @ + 2, !.g = (@ + s.f) \div 2,
                   !.e = HalfMod((@ + s.d) % m, m)]

\* The numbers s after n divsteps.
Divstepped(n, s, m) ==
  LET after[k \in 0..n] == IF k = 0 THEN s ELSE OneDivstep(after[k - 1], m)
  IN  after[n]

AbsBatch == \E n \in BatchSizes : /\ state' = Divstepped(n, state, modulus)
                                  /\ UNCHANGED <<modulus, x, result>>

AbsAnswer ==
  /\ result = -1 /\ state.g = 0
  /\ result' = (IF state.f < 0 THEN -state.d ELSE state.d) % modulus
  /\ UNCHANGED <<modulus, x, state>>

AbsNext == AbsBatch \/ AbsAnswer

AbsSpec == AbsInit /\ [][AbsNext]_absVars
=============================================================================
