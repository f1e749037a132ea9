------------------------------ MODULE MCSecpKeys ------------------------------
(* The curve y^2 = x^3 + 7 over the field of 13 elements: its seven points    *)
(* make up a group with the generator <<7, 5>>. One x coordinate is 0 modulo  *)
(* the order, so that a nonce of it has to be given up.                       *)
EXTENDS SecpKeysProps

RunXCoord == <<7, 8, 11, 11, 8, 7>>
RunYCoord == <<5, 5, 8, 5, 8, 8>>
===============================================================================
