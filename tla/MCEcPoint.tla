------------------------------ MODULE MCEcPoint -------------------------------
(* Curves with a = -3 and not, a = 0, with and without a point of order two,  *)
(* the field elements as they are and in Montgomery form; and three that are  *)
(* refused: a discriminant of 0 with and without a, and an even modulus.     *)
EXTENDS EcPointProps

RunInputs == {[p |-> 5, a |-> -3, b |-> 4, R |-> 2],
              [p |-> 5, a |-> 5, b |-> 12, R |-> 1],
              [p |-> 7, a |-> -3, b |-> 3, R |-> 3],
              [p |-> 7, a |-> 6, b |-> 6, R |-> 3],
              [p |-> 7, a |-> -3, b |-> 2, R |-> 1],
              [p |-> 7, a |-> 0, b |-> 7, R |-> 1],
              [p |-> 4, a |-> 1, b |-> 1, R |-> 1]}
===============================================================================
