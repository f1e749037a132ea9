----------------------------- MODULE EcPointProps -----------------------------
(* What must hold of points, and that the calls implement CurveLaw.          *)
EXTENDS EcPoint

CONSTANTS Infinity, Undefined

\* The point at infinity has no affine coordinates
ASSUME InfinityAssumption == Infinity \notin Int \X Int

Residue == 0 .. p - 1

(* Coordinates are reduced, which the "quick" operations rely on, and a flag *)
(* Z_is_one is set on no point whose Z is not one (ecp_smpl.c:674-676).      *)
TypeOK ==
  /\ pts \in [Regs -> [X : Residue, Y : Residue, Z : Residue, Z_is_one : BOOLEAN]]
  /\ good \subseteq Regs
  /\ \A r \in Regs : pts[r].Z_is_one => pts[r].Z = field_encode(1)

Affine(P) == IF is_at_infinity(P) THEN Infinity ELSE get_affine(P)
Equation == [p |-> p, a |-> field_decode(group.a), b |-> field_decode(group.b)]
Held == [r \in Regs |-> IF r \in good THEN Affine(pts[r]) ELSE Undefined]

L == INSTANCE CurveLaw WITH eq <- Equation, reg <- Held, asked <- call

(* The functions that only answer: two points compare equal exactly if they  *)
(* are the same affine point (ecp_smpl.c:1099-1207), a point in use is found *)
(* on the curve in any coordinates, and its octets in each form are those of *)
(* the affine point and decode to it (ecp_oct.c:210-428).                    *)
AnswersMatch ==
  /\ \A r, s \in good : cmp(pts[r], pts[s]) = 0 <=> Held[r] = Held[s]
  /\ \A r \in good :
       /\ is_on_curve(pts[r]) /\ L!OnLawCurve(Equation, Held[r])
       /\ \A form \in {2, 4, 6} :
            LET buf == point2oct(pts[r], form)
            IN /\ buf \in L!Octets(Held[r])
               /\ Decoded(buf) # {}
               /\ \A P \in Decoded(buf) : Affine(P) = Held[r]

(* Every call does on the affine points what the chord and tangent law says, *)
(* whichever special case, coordinates and form of the field elements it     *)
(* meets, and oct2point accepts the octets of the curve's points alone.      *)
ImplementsLaw == L!LawSpec
===============================================================================
