----------------------------- MODULE MCEcdsaFlow ------------------------------
(* The curve y^2 = x^3 + 7 over the field of 13 elements, of order 7; bytes   *)
(* of two bits, so that a digest has to lose whole bytes and a bit.           *)
EXTENDS EcdsaFlowProps

RunXCoord == <<7, 8, 11, 11, 8, 7>>
RunDigests == {<<1>>, <<3, 3>>, <<2, 1, 3>>}
RunOffered == (-1 .. 8) \X (-1 .. 8)
===============================================================================
