-------------------------------- MODULE Powers --------------------------------
(* The powers of 2, as a function whose recursion can be reasoned about.      *)
EXTENDS Naturals

Pow2[n \in Nat] == IF n = 0 THEN 1 ELSE 2 * Pow2[n - 1]
===============================================================================
