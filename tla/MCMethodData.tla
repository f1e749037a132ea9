---------------------------- MODULE MCMethodData -----------------------------
(* MethodData for TLC: three threads race for two kinds of data. The safety  *)
(* run takes threads and addresses up to symmetry; liveness may not.         *)
EXTENDS MethodDataProps, TLC

Interchangeable == Permutations(Threads) \cup Permutations(Addresses)
=============================================================================
