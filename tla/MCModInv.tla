------------------------------ MODULE MCModInv -------------------------------
(* ModInv with limbs of 7 bits. The constant-time batch keeps 3 of them as   *)
(* the code does, so 4 divsteps a batch; the six bits SwapAndCancel may      *)
(* cancel at once fit a batch of 7. The moduli fill one and two of the three *)
(* limbs, so that the variable-time call drops limbs before and after it has *)
(* reduced f and g.                                                          *)
EXTENDS ModInvProps

MCModuli == {3, 13, 101, 127, 131, 251, 509, 1021}

ASSUME MCModuliArePrime == PrimeModuli
=============================================================================
