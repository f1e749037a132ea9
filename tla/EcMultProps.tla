----------------------------- MODULE EcMultProps ------------------------------
(* What must hold of the multiplication.                                     *)
EXTENDS EcMult

\* The number the digits from place k on stand for
ValueFrom(d, k) ==
  LET value[t \in 0 .. Len(d)] == IF t = 0 THEN 0 ELSE 2 * value[t - 1] + d[Len(d) - t + 1]
  IN IF k < Len(d) THEN value[Len(d) - k] ELSE 0

(* While the loop runs r is, up to the sign it is kept in, the sum of what   *)
(* the digits so far ask for, be they split into blocks or not, and at the   *)
(* end it is the sum that was asked for (ec_mult.c:628-690): whichever       *)
(* multiples the group holds, also those of an earlier generator.            *)
SoFar(b) ==
  LET digits == loc.wNAF[b].digits
  IN loc.val_sub[b][1] * (IF b < loc.i THEN ValueFrom(digits, loc.k)
                          ELSE IF loc.i = 0 THEN ValueFrom(digits, loc.k + 1)
                          ELSE 2 * ValueFrom(digits, loc.k + 1))

Asked == (IF req.scalar = NULL THEN 0 ELSE req.scalar * group.generator)
         + SumOf([t \in 0 .. num - 1 |-> req.terms[t + 1].s * req.terms[t + 1].P], num)

SumsSoFar ==
  /\ pc = "run" => (IF loc.at_infinity THEN 0 ELSE IF loc.inverted THEN -r ELSE r) % Order
                   = SumOf([b \in 0 .. loc.total - 1 |-> SoFar(b)], loc.total) % Order
  /\ pc = "done" => r = Asked % Order

(* The comment at ec_mult.c:180-188: digits are zero or odd and less than    *)
(* 2^w, they add up to the scalar, and of w+1 in a row at most one is not    *)
(* zero, but for the most significant, which may have w-1 zeros after it.    *)
IsWnaf(d, s, w) ==
  LET nonzero == {j \in DOMAIN d : d[j] # 0}
  IN /\ \A j \in nonzero : d[j] % 2 = 1 /\ d[j] < Pow2[w] /\ d[j] > -Pow2[w]
     /\ ValueFrom(d, 0) = s
     /\ \A i, j \in nonzero : i < j => j - i > (IF j = Len(d) THEN w - 1 ELSE w)

WnafForm ==
  pc = "val" => \A i \in 0 .. loc.total - 1 :
     IF i < Scalars THEN IsWnaf(loc.wNAF[i].digits, Scalar(i), Window(i))
     ELSE IsWnaf(PreNaf, req.scalar, group.pre_comp.w)

(* Whatever fails, the blocks of the call are freed, and the loops that free *)
(* the NAFs and the points meet a null entry before one that nobody wrote    *)
(* (ec_mult.c:696-720).                                                      *)
NothingLost ==
  /\ pc = "idle" => heap = {}
  /\ pc \in {"err", "done"} =>
       /\ <<"wNAF">> \in heap => loc.wNAF[NafPivot].state = "null"
       /\ <<"val">> \in heap => loc.val[Pivot(loc.val)] = "null"
===============================================================================
