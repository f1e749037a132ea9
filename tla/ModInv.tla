------------------------------- MODULE ModInv --------------------------------
(* modinv64_impl.h: the inverse of x modulo a prime, as modinv64 (constant   *)
(* time) and modinv64_var compute it. A call is a sequence of batches: the   *)
(* divsteps of a batch see one word of f and g and leave a 2x2 matrix, which  *)
(* the update then applies to the whole d, e, f and g. A limb has W bits (62 *)
(* in the code) and a word W+2 (64); words wrap, signed numbers do not.      *)
EXTENDS Integers, Powers

CONSTANTS
  Moduli,     \* the moduli of the calls (modinfo)
  W,          \* bits of a limb
  Base,       \* 2^W
  Pad,        \* bits of a constant-time batch that are no divsteps: 62 - 59
  Rounds,     \* batches of a constant-time call
  VarRounds,  \* batches a variable-time call may need
  Limbs       \* limbs of a signed62

ASSUME WidthAssumption == W \in Nat /\ Pad \in Nat /\ Pad < W /\ Base = Pow2[W]
ASSUME RoundsAssumption == Rounds \in Nat \ {0} /\ VarRounds \in Nat /\ Limbs \in Nat \ {0}
ASSUME ModuliAssumption ==
  \A m \in Moduli : m \in Nat /\ m > 2 /\ m % 2 = 1 /\ m < Pow2[W * Limbs]

VARIABLES
  algo,        \* "const" or "var"
  modulus, x,  \* the arguments of the call
  d, e, f, g,  \* its numbers: d*x = f and e*x = g modulo the modulus
  eta,         \* zeta (const) or eta (var) between batches
  len,         \* limbs of f and g in use
  round,       \* batches applied
  bat,         \* the batch in progress: f0, g0, f, g; u, v, q, r; i; eta
  pc,          \* "batch", "normalize" or "done"
  result       \* what is stored in x, -1 before

vars == <<algo, modulus, x, d, e, f, g, eta, len, round, bat, pc, result>>

Word(n)      == n % (4 * Base)
Words        == 0..(4 * Base - 1)
Odd(n)       == n % 2 = 1
Wrapped(n, m) == IF n % m < m \div 2 THEN n % m ELSE (n % m) - m   \* n as a signed word
Signed(w)    == Wrapped(w, 4 * Base)
Lower(a, b)  == IF a <= b THEN a ELSE b

-----------------------------------------------------------------------------
(* A batch starts from the bottom limbs of f and g. A lone limb is signed,   *)
(* and so is the bottom limb of the field's modulus (-0x1000003D1).          *)
Limb0(n, l) == IF l > 1 THEN n % Base ELSE Word(n)

Batch(a, h, f0, g0) ==
  LET i == IF a = "const" THEN Pad ELSE 0
  IN  [i |-> IF a = "const" THEN Pad ELSE W, eta |-> h, f0 |-> f0, g0 |-> g0,
       f |-> f0, g |-> g0, u |-> Pow2[i], v |-> 0, q |-> 0, r |-> Pow2[i]]

Init == /\ algo \in {"const", "var"}
        /\ modulus \in Moduli /\ x \in 0..(modulus - 1)
        /\ d = 0 /\ e = 1 /\ f = modulus /\ g = x
        /\ eta = -1 /\ len = Limbs /\ round = 0
        /\ \E f0 \in {Limb0(modulus, Limbs), Word((modulus % Base) - Base)} :
             bat = Batch(algo, -1, f0, Limb0(x, Limbs))
        /\ pc = "batch" /\ result = -1

Batching(a) == pc = "batch" /\ algo = a

\* Every action of a batch works on its locals alone.
Within(b) == /\ bat' = b
             /\ UNCHANGED <<algo, modulus, x, d, e, f, g, eta, len, round, pc, result>>

\* Mutant: f, u and v take g, q and r as they were before this divstep.
Divstepped_StaleRow(b) ==
  LET neg  == b.eta < 0
      odd  == Odd(b.g)
      swap == neg /\ odd
      Plus(a, s) == IF odd THEN Word(IF neg THEN a - s ELSE a + s) ELSE a
      Swapped(a, s) == IF swap THEN Word(a + s) ELSE a
  IN  [f0 |-> b.f0, g0 |-> b.g0, i |-> b.i + 1,
       eta |-> IF swap THEN -b.eta - 2 ELSE b.eta - 1,
       f |-> Swapped(b.f, Plus(b.g, b.f)), g |-> Plus(b.g, b.f) \div 2,
       u |-> Word(2 * Swapped(b.u, b.q)), v |-> Word(2 * Swapped(b.v, b.r)),
       q |-> Plus(b.q, b.u), r |-> Plus(b.r, b.v)]

(* One constant-time divstep: u, v and the loop counter are shifted where g  *)
(* is, so that the matrix stays scaled.                                      *)
Divstepped(b) ==
  LET neg  == b.eta < 0
      odd  == Odd(b.g)
      swap == neg /\ odd
      Plus(a, s) == IF odd THEN Word(IF neg THEN a - s ELSE a + s) ELSE a
      gg   == Plus(b.g, b.f)
      qq   == Plus(b.q, b.u)
      rr   == Plus(b.r, b.v)
      Swapped(a, s) == IF swap THEN Word(a + s) ELSE a
  IN  [f0 |-> b.f0, g0 |-> b.g0, i |-> b.i + 1,
       eta |-> IF swap THEN -b.eta - 2 ELSE b.eta - 1,
       f |-> Swapped(b.f, gg), g |-> gg \div 2,
       u |-> Word(2 * Swapped(b.u, qq)), v |-> Word(2 * Swapped(b.v, rr)),
       q |-> qq, r |-> rr]

Divstep == Batching("const") /\ bat.i < W /\ Within(Divstepped(bat))

(* Variable time: a run of zeros of g is as many divsteps at once, no more   *)
(* than the i that are left (the sentinel bit).                              *)
TrailingZeros(w, most) ==
  CHOOSE z \in 0..most : w % Pow2[z] = 0 /\ (z < most => w % Pow2[z + 1] # 0)

\* Mutant: the matrix is shifted as a signed number, not as a word.
ShiftedZeros_Unwrapped(b) ==
  LET z == TrailingZeros(b.g, b.i)
  IN  [b EXCEPT !.i = @ - z, !.eta = @ - z, !.g = @ \div Pow2[z], !.u = @ * Pow2[z], !.v = @ * Pow2[z]]

\* Mutant: all the zeros of the word count, without the sentinel bit.
ShiftedZeros_NoSentinel(b) ==
  LET z == TrailingZeros(b.g, W + 2)
  IN  [b EXCEPT !.i = @ - z, !.eta = @ - z, !.g = @ \div Pow2[z],
                !.u = Word(@ * Pow2[z]), !.v = Word(@ * Pow2[z])]

ShiftedZeros(b) ==
  LET z == TrailingZeros(b.g, b.i)
  IN  [b EXCEPT !.i = @ - z, !.eta = @ - z, !.g = @ \div Pow2[z],
                !.u = Word(@ * Pow2[z]), !.v = Word(@ * Pow2[z])]

ShiftZeros == Batching("var") /\ bat.i > 0 /\ ~Odd(bat.g) /\ Within(ShiftedZeros(bat))

\* Add w times f to g, with w chosen so that the bottom bits of g go ...
Cancelled(b, bits, w) ==
  [b EXCEPT !.g = Word(@ + b.f * (w % Pow2[bits])), !.q = Word(@ + b.u * (w % Pow2[bits])),
            !.r = Word(@ + b.v * (w % Pow2[bits]))]

\* Mutant: one bit past the point where eta changes sign.
Cancellable_OneMore(b, most) == Lower(Lower(b.eta + 2, b.i), most)

\* ... at most so many, and no more than are left before eta changes sign.
Cancellable(b, most) == Lower(Lower(b.eta + 1, b.i), most)

Swapped(b) == [b EXCEPT !.eta = -@, !.f = b.g, !.g = Word(-b.f), !.u = b.q,
                        !.q = Word(-b.u), !.v = b.r, !.r = Word(-b.v)]

SwappedAndCancelled(b) ==
  LET s == Swapped(b)
  IN  Cancelled(s, Cancellable(s, 6), Word(s.f * s.g) * Word(s.f * s.f - 2))

SwapAndCancel == /\ Batching("var") /\ bat.i > 0 /\ Odd(bat.g) /\ bat.eta < 0
                 /\ Within(SwappedAndCancelled(bat))

CancelledBits(b) ==
  LET w == b.f + (IF ((b.f + 1) \div 4) % 2 = 1 THEN 8 ELSE 0)
  IN  Cancelled(b, Cancellable(b, 4), (-w) * b.g)

CancelBits == /\ Batching("var") /\ bat.i > 0 /\ Odd(bat.g) /\ bat.eta >= 0
              /\ Within(CancelledBits(bat))

-----------------------------------------------------------------------------
(* Applying the matrix: t/2^W to [f, g], exactly, and to [d, e] modulo the   *)
(* modulus, by adding the multiple of it that clears the bottom limb.        *)
InverseOfModulus == CHOOSE k \in 0..(Base - 1) : (k * (modulus % Base)) % Base = 1 % Base

UpdatedFG(a, b) == (Signed(a) * f + Signed(b) * g) \div Base

\* Mutant: the multiple of the modulus is rounded up instead of down.
UpdatedDE_RoundsUp(a, b) ==
  LET c     == Signed(a) * d + Signed(b) * e
      start == (IF d < 0 THEN Signed(a) ELSE 0) + (IF e < 0 THEN Signed(b) ELSE 0)
      m     == start + ((-(InverseOfModulus * (c % Base)) - start) % Base)
  IN  (c + modulus * m) \div Base

UpdatedDE(a, b) ==
  LET c     == Signed(a) * d + Signed(b) * e
      start == (IF d < 0 THEN Signed(a) ELSE 0) + (IF e < 0 THEN Signed(b) ELSE 0)
      m     == start - ((InverseOfModulus * (c % Base) + start) % Base)
  IN  (c + modulus * m) \div Base

\* f and g can do with a limb less: their top limbs are copies of a sign.
SignOnly(n, l) == (n \div Pow2[W * (l - 1)]) \in {0, -1}
Shorter(ff, gg, l) == l > 1 /\ SignOnly(ff, l) /\ SignOnly(gg, l)

\* The top limb is or-ed into the word below it.
Shortened(n, l) == Wrapped(n, 4 * Pow2[W * (l - 1)])

NextBatch(ff, gg, l, loop) ==
  /\ f' = ff /\ g' = gg /\ len' = l
  /\ eta' = bat.eta
  /\ d' = UpdatedDE(bat.u, bat.v) /\ e' = UpdatedDE(bat.q, bat.r)
  /\ round' = round + 1
  /\ bat' = IF loop THEN Batch(algo, bat.eta, Limb0(ff, l), Limb0(gg, l)) ELSE bat
  /\ pc' = IF loop THEN "batch" ELSE "normalize"
  /\ UNCHANGED <<algo, modulus, x, result>>

\* Mutant: the loop ends a batch early.
UpdateConst_OneShort ==
  /\ Batching("const") /\ bat.i = W
  /\ NextBatch(UpdatedFG(bat.u, bat.v), UpdatedFG(bat.q, bat.r), len, round + 2 < Rounds)

UpdateConst ==
  /\ Batching("const") /\ bat.i = W
  /\ NextBatch(UpdatedFG(bat.u, bat.v), UpdatedFG(bat.q, bat.r), len, round + 1 < Rounds)

UpdateVar ==
  /\ Batching("var") /\ bat.i = 0
  /\ LET ff == UpdatedFG(bat.u, bat.v)
         gg == UpdatedFG(bat.q, bat.r)
     IN  \/ /\ gg = 0
            /\ NextBatch(ff, gg, len, FALSE)
         \/ /\ gg # 0 /\ Shorter(ff, gg, len)
            /\ NextBatch(Shortened(ff, len), Shortened(gg, len), len - 1, TRUE)
         \/ /\ gg # 0 /\ ~Shorter(ff, gg, len)
            /\ NextBatch(ff, gg, len, TRUE)

(* From (-2*modulus, modulus) to [0, modulus), negated when f is.            *)
Normalized(n, sign, m) ==
  LET near == IF n < 0 THEN n + m ELSE n
      neg  == IF sign < 0 THEN -near ELSE near
  IN  IF neg < 0 THEN neg + m ELSE neg

Normalize == /\ pc = "normalize"
             /\ result' = Normalized(d, f, modulus)
             /\ pc' = "done"
             /\ UNCHANGED <<algo, modulus, x, d, e, f, g, eta, len, round, bat>>

Next == Divstep \/ ShiftZeros \/ SwapAndCancel \/ CancelBits
        \/ UpdateConst \/ UpdateVar \/ Normalize

Spec == Init /\ [][Next]_vars
\* The call is straight-line code on one thread: it runs on.
FairSpec == Spec /\ WF_vars(Next)
=============================================================================
