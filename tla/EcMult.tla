-------------------------------- MODULE EcMult --------------------------------
(* Sums of multiples of points with interleaved window NAFs (ec_mult.c), the  *)
(* splitting of the generator's NAF into blocks when precomputed multiples    *)
(* are at hand, and what every failure on the way frees. A point is its       *)
(* logarithm modulo the order of the group: adding and doubling are the       *)
(* subject of EcPoint.                                                        *)
EXTENDS Integers, Sequences, FiniteSetsExt, Powers

CONSTANTS
  NULL,
  Order,       \* of the group
  Generators,  \* the points EC_GROUP_set_generator is given
  Calls,       \* [scalar, terms]: the sums asked for, terms a sequence of [s, P]
  Thresholds,  \* bit lengths from which a window is one wider
  BlockSize,   \* 8 in the code
  MinWindow    \* 4 in the code: windows of precomputed multiples

ASSUME ParametersAssumption ==
  /\ Order \in Nat /\ Order > 1 /\ Thresholds \subseteq Nat
  /\ BlockSize \in Nat /\ BlockSize > 2 /\ MinWindow \in Nat \ {0}
ASSUME CallsAssumption ==
  /\ Generators \subseteq 0 .. Order - 1
  /\ \A c \in Calls : /\ c.scalar = NULL \/ c.scalar \in Int
                      /\ c.terms \in Seq([s : Int, P : Int])

VARIABLES
  group,  \* [generator, pre_comp]
  req,    \* the call in progress, or the last
  pc, loc, heap,  \* its place, locals and memory
  r       \* its result

vars == <<group, req, pc, loc, heap, r>>

\* f[0] + ... + f[n - 1]
SumOf(f, n) == LET upto[m \in 0 .. n] == IF m = 0 THEN 0 ELSE upto[m - 1] + f[m - 1]
               IN upto[n]

-------------------------------------------------------------------------------
(* Windows and digits.                                                       *)

BN_num_bits(s) == LET n == IF s < 0 THEN -s ELSE s
                  IN CHOOSE b \in 0 .. n : n < Pow2[b] /\ (b = 0 \/ Pow2[b - 1] <= n)

EC_window_bits(b) == 1 + Cardinality({t \in Thresholds : b >= t})

\* Mutant: the digit at the top is made positive without a look at the length.
TopDigit_Always(window_val, w, j, len) == window_val % Pow2[w]

\* The digit of a window with its top bit set: negative, unless no bits follow
TopDigit(window_val, w, j, len) ==
  IF j + w + 1 >= len THEN window_val % Pow2[w] ELSE window_val - Pow2[w + 1]

DigitOf(window_val, w, j, len) ==
  IF window_val % 2 = 0 THEN 0
  ELSE IF window_val >= Pow2[w] THEN TopDigit(window_val, w, j, len) ELSE window_val

\* window_val at each turn of the loop
Windows(n, w, len) ==
  LET window[j \in 0 .. len + 1] ==
        IF j = 0 THEN n % Pow2[w + 1]
        ELSE LET val == window[j - 1]
             IN (val - DigitOf(val, w, j - 1, len)) \div 2 + Pow2[w] * ((n \div Pow2[j + w]) % 2)
  IN window

compute_wNAF(scalar, w) ==
  LET n == IF scalar < 0 THEN -scalar ELSE scalar
      len == BN_num_bits(scalar)
      window == Windows(n, w, len)
      Over(j) == window[j] = 0 /\ j + w + 1 >= len
      end == CHOOSE j \in 0 .. len + 1 : Over(j) /\ \A i \in 0 .. j - 1 : ~Over(i)
      digits == [j \in 1 .. end |-> DigitOf(window[j - 1], w, j - 1, len)]
  IN IF scalar = 0 THEN <<0>>
     ELSE [j \in 1 .. end |-> IF scalar < 0 THEN -digits[j] ELSE digits[j]]

OddMultiples(P, w) == [d \in 1 .. Pow2[w - 1] |-> ((2 * d - 1) * P) % Order]

-------------------------------------------------------------------------------
(* The group's precomputed multiples. The old ones are thrown away first.    *)

SetGenerator == /\ pc = "idle"
                /\ \E g \in Generators : group' = [group EXCEPT !.generator = g]
                /\ UNCHANGED <<req, pc, loc, heap, r>>

\* Mutant: the base of a block is doubled once too often.
PreComp_OneDoubleMore(g) ==
  LET w == Max({MinWindow, EC_window_bits(BN_num_bits(Order))})
      numblocks == (BN_num_bits(Order) + BlockSize - 1) \div BlockSize
  IN [w |-> w, numblocks |-> numblocks,
      points |-> [b \in 0 .. numblocks - 1 |->
                    OddMultiples((Pow2[(BlockSize + 1) * b] * g) % Order, w)]]

PreComp(g) ==
  LET w == Max({MinWindow, EC_window_bits(BN_num_bits(Order))})
      numblocks == (BN_num_bits(Order) + BlockSize - 1) \div BlockSize
  IN [w |-> w, numblocks |-> numblocks,
      points |-> [b \in 0 .. numblocks - 1 |->
                    OddMultiples((Pow2[BlockSize * b] * g) % Order, w)]]

PrecomputeMult == /\ pc = "idle"
                  /\ \E pre \in {PreComp(group.generator), NULL} :
                       group' = [group EXCEPT !.pre_comp = pre]
                  /\ UNCHANGED <<req, pc, loc, heap, r>>

-------------------------------------------------------------------------------
(* ec_wNAF_mul. An array of wNAFs ends at its first null entry: freeing them *)
(* must find one, and nothing that was never written before it.              *)

num == Len(req.terms)
Junk == [state |-> "junk", digits |-> <<>>]
Null == [state |-> "null", digits |-> <<>>]
Naf(digits) == [state |-> "block", digits |-> digits]

Matches(pre, g) == pre # NULL /\ pre.points[0][1] = g

\* Comparing the generator with the multiples' base may fail, as if they differed
Begin == /\ pc = "idle"
         /\ \E c \in Calls, compared \in BOOLEAN :
              LET usable == /\ c.scalar # NULL /\ compared
                            /\ Matches(group.pre_comp, group.generator)
                  blocks == Min({BN_num_bits(c.scalar) \div BlockSize + 1,
                                 group.pre_comp.numblocks})
                  numblocks == IF c.scalar = NULL THEN 0 ELSE IF usable THEN blocks ELSE 1
                  total == Len(c.terms) + numblocks
              IN /\ req' = c
                 /\ loc' = [pre |-> usable, numblocks |-> numblocks, total |-> total,
                            wNAF |-> [i \in 0 .. total |-> Junk], tmp |-> <<>>,
                            val_sub |-> [i \in 0 .. total - 1 |-> <<>>],
                            max_len |-> 0, i |-> 0, k |-> 0, val |-> <<>>,
                            inverted |-> FALSE, at_infinity |-> TRUE]
                 /\ pc' = IF c.scalar = NULL /\ c.terms = <<>> THEN "done" ELSE "arrays"
         /\ r' = 0
         /\ UNCHANGED <<group, heap>>

Step(place, next) == pc = place /\ pc' = next /\ UNCHANGED <<group, req>>

Arrays == {<<"wsize">>, <<"wNAF_len">>, <<"wNAF">>, <<"val_sub">>}

AllocArrays == \E got \in SUBSET Arrays :
  /\ Step("arrays", IF got = Arrays THEN "nafs" ELSE "err")
  /\ heap' = got
  /\ loc' = [loc EXCEPT !.wNAF[0] = Null]
  /\ UNCHANGED r

\* Another malloc or a computation on numbers fails
Fails == /\ pc \in {"nafs", "split", "val", "run"} /\ (pc = "split" => loc.tmp = <<>>)
         /\ pc' = "err"
         /\ UNCHANGED <<group, req, loc, heap, r>>

\* The scalars with a NAF of their own: the generator's if there are no multiples
Scalars == IF loc.pre \/ req.scalar = NULL THEN num ELSE num + 1
Scalar(i) == IF i < num THEN req.terms[i + 1].s ELSE req.scalar
Point(i) == IF i < num THEN req.terms[i + 1].P ELSE group.generator
Window(i) == EC_window_bits(BN_num_bits(Scalar(i)))

\* Mutant: the entry after the new one is cleared only if it is filled next.
NafSlots_NoPivot(digits) == [loc.wNAF EXCEPT ![loc.i] = Naf(digits)]

NafSlots(digits) == [loc.wNAF EXCEPT ![loc.i] = Naf(digits), ![loc.i + 1] = Null]

NextNaf == /\ Step("nafs", "nafs")
           /\ loc.i < Scalars
           /\ LET digits == compute_wNAF(Scalar(loc.i), Window(loc.i))
              IN loc' = [loc EXCEPT !.wNAF = NafSlots(digits), !.i = @ + 1,
                                    !.max_len = Max({@, Len(digits)})]
           /\ heap' = heap \cup {<<"naf", loc.i>>}
           /\ UNCHANGED r

NafsEnd == /\ Step("nafs", IF loc.pre THEN "split" ELSE "val")
           /\ loc.i = Scalars
           /\ UNCHANGED <<loc, heap, r>>

PreNaf == compute_wNAF(req.scalar, group.pre_comp.w)

\* Splitting would not make the loop shorter
SplitNot == /\ Step("split", "val")
            /\ loc.tmp = <<>> /\ Len(PreNaf) <= loc.max_len
            /\ loc' = [loc EXCEPT !.numblocks = 1, !.total = num + 1,
                                  !.wNAF = NafSlots(PreNaf),
                                  !.val_sub[num] = group.pre_comp.points[0]]
            /\ heap' = heap \cup {<<"naf", num>>}
            /\ UNCHANGED r

SplitBegins ==
  /\ Step("split", "split")
  /\ loc.tmp = <<>> /\ Len(PreNaf) > loc.max_len
  /\ LET blocks == IF Len(PreNaf) < loc.numblocks * BlockSize
                   THEN (Len(PreNaf) + BlockSize - 1) \div BlockSize
                   ELSE loc.numblocks
     IN loc' = [loc EXCEPT !.tmp = PreNaf, !.numblocks = blocks, !.total = num + blocks]
  /\ heap' = heap \cup {<<"tmp_wNAF">>}
  /\ UNCHANGED r

\* The last block gets what is left, be it more or less than BlockSize
SplitBlock ==
  /\ Step("split", "split")
  /\ loc.tmp # <<>> /\ loc.i < loc.total
  /\ LET b == loc.i - num
         last == loc.i = loc.total - 1
         digits == SubSeq(loc.tmp, b * BlockSize + 1,
                          IF last THEN Len(loc.tmp) ELSE (b + 1) * BlockSize)
     IN loc' = [loc EXCEPT !.wNAF = NafSlots(digits), !.i = @ + 1,
                           !.max_len = Max({@, Len(digits)}),
                           !.val_sub[loc.i] = group.pre_comp.points[b]]
  /\ heap' = heap \cup {<<"naf", loc.i>>}
  /\ UNCHANGED r

SplitFails == /\ Step("split", "err")
              /\ loc.tmp # <<>> /\ loc.i < loc.total
              /\ loc' = [loc EXCEPT !.wNAF[loc.i] = Null, !.wNAF[loc.i + 1] = Null]
              /\ heap' = heap \ {<<"tmp_wNAF">>}
              /\ UNCHANGED r

SplitEnds == /\ Step("split", "val")
             /\ loc.tmp # <<>> /\ loc.i = loc.total
             /\ heap' = heap \ {<<"tmp_wNAF">>}
             /\ UNCHANGED <<loc, r>>

num_val == SumOf([i \in 0 .. Scalars - 1 |-> Pow2[Window(i) - 1]], Scalars)

\* The array of points once n are allocated; the next is null when that fails
Val(n) == [j \in 0 .. num_val |-> IF j < n THEN "block"
                                  ELSE IF j \in {n, num_val} THEN "null" ELSE "junk"]
PointBlocks(n) == {<<"point", j>> : j \in 0 .. n - 1}

\* EC_POINT_new fails, for one of the points or, with n = num_val, for tmp
TablesFail == /\ Step("val", "err")
              /\ \E n \in 0 .. num_val :
                   /\ loc' = [loc EXCEPT !.val = Val(n)]
                   /\ heap' = heap \cup {<<"val">>} \cup PointBlocks(n)
              /\ UNCHANGED r

\* Odd multiples of the points that have none yet
Tables == /\ Step("val", "run")
          /\ loc' = [loc EXCEPT !.val = Val(num_val),
               !.val_sub = [i \in 0 .. loc.total - 1 |->
                              IF i < Scalars THEN OddMultiples(Point(i), Window(i))
                              ELSE loc.val_sub[i]],
               !.k = loc.max_len - 1, !.i = 0]
          /\ heap' = heap \cup {<<"val">>, <<"tmp">>} \cup PointBlocks(num_val)
          /\ UNCHANGED r

Doubled == IF loc.i = 0 /\ ~loc.at_infinity THEN (2 * r) % Order ELSE r
Digit == IF loc.k < Len(loc.wNAF[loc.i].digits)
         THEN loc.wNAF[loc.i].digits[loc.k + 1] ELSE 0
Multiple == loc.val_sub[loc.i][(IF Digit < 0 THEN -Digit ELSE Digit) \div 2 + 1]
NextPlace == [loc EXCEPT !.i = IF @ + 1 = loc.total THEN 0 ELSE @ + 1,
                         !.k = IF loc.i + 1 = loc.total THEN @ - 1 ELSE @]

SkipDigit == /\ Step("run", "run")
             /\ loc.k >= 0 /\ Digit = 0
             /\ loc' = NextPlace /\ r' = Doubled
             /\ UNCHANGED heap

\* r is kept with the sign of the digit added last
AddDigit == /\ Step("run", "run")
            /\ loc.k >= 0 /\ Digit # 0
            /\ loc' = [NextPlace EXCEPT !.inverted = Digit < 0, !.at_infinity = FALSE]
            /\ r' = IF loc.at_infinity THEN Multiple
                    ELSE ((IF (Digit < 0) # loc.inverted THEN -Doubled ELSE Doubled)
                          + Multiple) % Order
            /\ UNCHANGED heap

Finish == /\ Step("run", "done")
          /\ loc.k < 0
          /\ r' = IF loc.at_infinity THEN 0
                  ELSE IF loc.inverted THEN (-r) % Order ELSE r
          /\ UNCHANGED <<loc, heap>>

\* What a loop over an array frees: the entries before the first null one
Pivot(state) == CHOOSE i \in DOMAIN state :
                  /\ state[i] # "block"
                  /\ \A j \in 0 .. i - 1 : state[j] = "block"
NafPivot == Pivot([i \in DOMAIN loc.wNAF |-> loc.wNAF[i].state])

NoCall == [scalar |-> NULL, terms |-> <<>>]
NoLocals == [at_infinity |-> TRUE]

\* The caller has its answer when pc is "done"; no later call reads what is left
Cleanup == /\ pc \in {"err", "done"}
           /\ pc' = "idle"
           /\ heap' = heap \ (Arrays \cup {<<"val">>, <<"tmp">>}
                              \cup (IF <<"wNAF">> \in heap
                                    THEN {<<"naf", i>> : i \in 0 .. NafPivot - 1} ELSE {})
                              \cup (IF <<"val">> \in heap
                                    THEN PointBlocks(Pivot(loc.val)) ELSE {}))
           /\ req' = NoCall /\ loc' = NoLocals /\ r' = 0
           /\ UNCHANGED group

Init == /\ \E g \in Generators : group = [generator |-> g, pre_comp |-> NULL]
        /\ req = NoCall /\ loc = NoLocals
        /\ pc = "idle" /\ heap = {} /\ r = 0

Next == \/ SetGenerator \/ PrecomputeMult \/ Begin \/ AllocArrays \/ Fails
        \/ NextNaf \/ NafsEnd \/ SplitNot \/ SplitBegins \/ SplitBlock \/ SplitFails
        \/ SplitEnds \/ TablesFail \/ Tables \/ SkipDigit \/ AddDigit \/ Finish \/ Cleanup

Spec == Init /\ [][Next]_vars
===============================================================================
