------------------------------- MODULE MCEcMult --------------------------------
(* A group of prime order 131: eight bits, three blocks of at most three in   *)
(* the precomputation. Scalars alone go to eleven bits, longer than the       *)
(* blocks, and are negative too; sums mix lengths and signs.                  *)
EXTENDS EcMultProps

RunCalls ==
  {[scalar |-> s, terms |-> <<>>] : s \in {NULL} \cup (-140 .. 300) \cup (1000 .. 1300)}
  \cup {[scalar |-> s, terms |-> <<[s |-> t, P |-> P]>>] :
          s \in {NULL, 0, 1, 45, -473}, t \in {0, 1, -6, 90, 950}, P \in {0, 7}}
  \cup {[scalar |-> s, terms |-> <<[s |-> t, P |-> 5], [s |-> -131, P |-> 130]>>] :
          s \in {NULL, 2, 1199}, t \in {0, 3, 88}}
===============================================================================
