------------------------------- MODULE EcdsaFlow ------------------------------
(* Signing and verifying in OpenSSL (ecs_ossl.c, ecs_sign.c, ecs_vrf.c): the   *)
(* two retry loops, values for a signature that a caller sets up beforehand,   *)
(* what each failure frees, and the verdicts. The objects on the heap have     *)
(* addresses that malloc uses again; a point is its logarithm.                 *)
EXTENDS EcdsaLaw, Powers, Sequences, FiniteSets

CONSTANTS
  NULL,
  PrivKey,   \* of the caller's EC_KEY
  Digests,   \* sequences of bytes
  ByteBits,  \* 8 in the code
  Offered    \* the signatures verify is called with, <<r, s>>

ASSUME KeyAssumption ==
  /\ PrivKey \in 1 .. Order - 1 /\ ByteBits \in Nat \ {0} /\ NULL \notin Nat
  /\ Digests # {} /\ \A dgst \in Digests : dgst \in Seq(0 .. Pow2[ByteBits] - 1)

Names == <<"sig", "sig_r", "sig_s", "ctx", "order", "tmp", "m", "kinv",
           "k", "r", "setup_order", "X", "point", "setup_ctx", "kept_kinv", "kept_r">>
Pointers == {Names[n] : n \in 1 .. Len(Names)}

VARIABLES
  heap,   \* what is allocated: the value at each address
  loc,    \* the pointers: the caller's ("kept", and "sig" of a result) and locals
  pc,
  req,    \* the call in progress, or the last
  ret,    \* what the last call returned
  fault   \* something was freed that was not allocated

vars == <<heap, loc, pc, req, ret, fault>>

-------------------------------------------------------------------------------
(* The heap.                                                                 *)

Addresses == 1 .. 2 * Len(Names)
Free(h) == Addresses \ DOMAIN h

\* Which free address an object gets is malloc's affair: here that of its rank.
Address(h, q) ==
  LET rank == CHOOSE n \in 1 .. Len(Names) : Names[n] = q
  IN CHOOSE a \in Free(h) : Cardinality({b \in Free(h) : b < a}) = rank - 1

\* The pointers get new objects.
Alloc(ptrs) ==
  LET fresh == {Address(heap, q) : q \in ptrs}
  IN /\ heap' = [a \in DOMAIN heap \cup fresh |-> IF a \in fresh THEN 0 ELSE heap[a]]
     /\ loc' = [q \in Pointers |-> IF q \in ptrs THEN Address(heap, q) ELSE loc[q]]

\* What these pointers point to is freed, where they are not NULL. It is a
\* fault to free what is not there, or twice.
Doomed(ptrs) == {q \in ptrs : loc[q] # NULL}
Dead(ptrs) == {loc[q] : q \in Doomed(ptrs)}
Without(ptrs) == [a \in DOMAIN heap \ Dead(ptrs) |-> heap[a]]
Cleared(ptrs) == [q \in Pointers |-> IF q \in ptrs THEN NULL ELSE loc[q]]
NoteFault(ptrs) ==
  fault' = \/ fault
           \/ ~(Dead(ptrs) \subseteq DOMAIN heap)
           \/ \E p, q \in Doomed(ptrs) : p # q /\ loc[p] = loc[q]

-------------------------------------------------------------------------------
(* Numbers.                                                                  *)

BN_num_bits(n) == CHOOSE b \in 0 .. n : n < Pow2[b] /\ (b = 0 \/ Pow2[b - 1] <= n)
OrderBits == BN_num_bits(Order)

BN_bin2bn(dgst) ==
  LET value[n \in 0 .. Len(dgst)] ==
        IF n = 0 THEN 0 ELSE value[n - 1] * Pow2[ByteBits] + dgst[n]
  IN value[Len(dgst)]

\* Mutant: the bits left over after whole bytes stay.
Truncated_WholeBytes(dgst) ==
  LET len == IF ByteBits * Len(dgst) > OrderBits
             THEN (OrderBits + ByteBits - 1) \div ByteBits ELSE Len(dgst)
  IN BN_bin2bn(SubSeq(dgst, 1, len))

\* The leading bits of the digest, as many as the order has
Truncated(dgst) ==
  LET len == IF ByteBits * Len(dgst) > OrderBits
             THEN (OrderBits + ByteBits - 1) \div ByteBits ELSE Len(dgst)
      m == BN_bin2bn(SubSeq(dgst, 1, len))
  IN IF ByteBits * len > OrderBits
     THEN m \div Pow2[ByteBits - (OrderBits % ByteBits)] ELSE m

BN_mod_add_quick(a, b) == IF a + b >= Order THEN a + b - Order ELSE a + b

\* The nonce as it is multiplied with: one bit longer than the order
FixedLength(k) == IF BN_num_bits(k + Order) > OrderBits THEN k + Order ELSE k + 2 * Order

-------------------------------------------------------------------------------
(* ecdsa_sign_setup, called by the caller with no context and by do_sign     *)
(* with its own: where it puts its results, and where it returns to.         *)

BySign == req.fn = "sign"
KinvPtr == IF BySign THEN "kinv" ELSE "kept_kinv"
RPtr == IF BySign THEN "sig_r" ELSE "kept_r"
SetupTemporaries == {"setup_order", "X", "point", "setup_ctx"}

\* A caller has freed a signature before it calls again.
CallSetup ==
  /\ pc = "idle" /\ loc["sig"] = NULL
  /\ req' = [fn |-> "setup"] /\ pc' = "setup" /\ ret' = 0
  /\ UNCHANGED <<heap, loc, fault>>

\* No method data, or no context, for a caller's set-up
SetupRefused ==
  /\ pc = "setup" /\ ~BySign
  /\ pc' = "idle" /\ ret' = 0
  /\ UNCHANGED <<heap, loc, req, fault>>

\* Every number is asked for before a missing one is noticed, the point after.
SetupAlloc(missing) ==
  /\ pc = "setup"
  /\ Alloc((SetupTemporaries \cup {"k", "r"})
           \ (missing \cup (IF BySign THEN {"setup_ctx"} ELSE {})
                      \cup (IF missing # {} THEN {"point"} ELSE {})))
  /\ pc' = IF missing = {} THEN "draw" ELSE "setup_err"
  /\ UNCHANGED <<req, ret, fault>>

\* A random nonce, once 0 has been thrown away; if r is 0 another is drawn.
DrawNonce(k) ==
  /\ pc = "draw"
  /\ LET r == XCoord[FixedLength(k) % Order] % Order
     IN /\ heap' = [heap EXCEPT ![loc["k"]] = FixedLength(k), ![loc["r"]] = r]
        /\ pc' = IF r = 0 THEN "draw" ELSE "invert"
  /\ UNCHANGED <<loc, req, ret, fault>>

\* The random numbers or the arithmetic fail, in any round.
SetupFails ==
  /\ pc \in {"draw", "invert"}
  /\ pc' = "setup_err"
  /\ UNCHANGED <<heap, loc, req, ret, fault>>

\* Mutant: the values that were there before stay allocated.
SetupDone_KeepsOld ==
  /\ pc = "invert"
  /\ heap' = [Without(SetupTemporaries) EXCEPT ![loc["k"]] = Invert(heap[loc["k"]] % Order)]
  /\ NoteFault(SetupTemporaries)
  /\ loc' = [Cleared(SetupTemporaries \cup {"k", "r"})
               EXCEPT ![KinvPtr] = loc["k"], ![RPtr] = loc["r"]]
  /\ pc' = IF BySign THEN "sum" ELSE "idle"
  /\ ret' = IF BySign THEN ret ELSE 1
  /\ UNCHANGED req

SetupDone ==
  /\ pc = "invert"
  /\ LET dead == SetupTemporaries \cup {KinvPtr, RPtr}
     IN /\ heap' = [Without(dead) EXCEPT ![loc["k"]] = Invert(heap[loc["k"]] % Order)]
        /\ NoteFault(dead)
  /\ loc' = [Cleared(SetupTemporaries \cup {"k", "r"})
               EXCEPT ![KinvPtr] = loc["k"], ![RPtr] = loc["r"]]
  /\ pc' = IF BySign THEN "sum" ELSE "idle"
  /\ ret' = IF BySign THEN ret ELSE 1
  /\ UNCHANGED req

SetupErr ==
  /\ pc = "setup_err"
  /\ LET dead == SetupTemporaries \cup {"k", "r"}
     IN heap' = Without(dead) /\ NoteFault(dead) /\ loc' = Cleared(dead)
  /\ pc' = IF BySign THEN "sign_err" ELSE "idle"
  /\ ret' = IF BySign THEN ret ELSE 0
  /\ UNCHANGED req

-------------------------------------------------------------------------------
(* ecdsa_do_sign.                                                            *)

\* The caller gives the values it set up, or only one of them, or none.
CallSign(dgst, given) ==
  /\ pc = "idle" /\ loc["sig"] = NULL
  /\ \A q \in given : loc[q] # NULL
  /\ req' = [fn |-> "sign", dgst |-> dgst, given |-> given]
  /\ pc' = "sign" /\ ret' = 0
  /\ UNCHANGED <<heap, loc, fault>>

Given == req.given = {"kept_kinv", "kept_r"}

\* No method data, or no memory for the signature
SignRefused ==
  /\ pc = "sign"
  /\ pc' = "idle" /\ ret' = 0
  /\ UNCHANGED <<heap, loc, req, fault>>

SignTemporaries == <<"ctx", "order", "tmp", "m">>

SignAlloc(n) ==
  /\ pc = "sign"
  /\ Alloc({"sig", "sig_r", "sig_s"} \cup {SignTemporaries[i] : i \in 1 .. n})
  /\ pc' = IF n = 4 THEN "values" ELSE "sign_err"
  /\ UNCHANGED <<req, ret, fault>>

SignValues ==
  /\ pc = "values"
  /\ IF Given
     THEN heap' = [heap EXCEPT ![loc["sig_r"]] = heap[loc["kept_r"]]] /\ pc' = "sum"
     ELSE UNCHANGED heap /\ pc' = "setup"
  /\ UNCHANGED <<loc, req, ret, fault>>

SumS ==
  LET kinv == heap[loc[IF Given THEN "kept_kinv" ELSE "kinv"]]
      tmp == (PrivKey * heap[loc["sig_r"]]) % Order
  IN (BN_mod_add_quick(tmp, Truncated(req.dgst)) * kinv) % Order

\* Mutant: with an s of 0 the loop goes on, whoever gave the values.
AfterSum_TriesAgain(s) == IF s # 0 THEN "sign_ok" ELSE "values"

\* With values the caller gave, another round would come out the same.
AfterSum(s) == IF s # 0 THEN "sign_ok" ELSE IF Given THEN "sign_err" ELSE "values"

SignSum ==
  /\ pc = "sum"
  /\ heap' = [heap EXCEPT ![loc["sig_s"]] = SumS]
  /\ pc' = AfterSum(SumS)
  /\ UNCHANGED <<loc, req, ret, fault>>

\* The conversion of the digest, a copy or the arithmetic fails.
SignFails ==
  /\ pc \in {"values", "sum"}
  /\ pc' = "sign_err"
  /\ UNCHANGED <<heap, loc, req, ret, fault>>

EndSign ==
  /\ pc \in {"sign_ok", "sign_err"}
  /\ LET dead == {"ctx", "m", "tmp", "order", "kinv"}
                 \cup IF pc = "sign_err" THEN {"sig", "sig_r", "sig_s"} ELSE {}
     IN heap' = Without(dead) /\ NoteFault(dead) /\ loc' = Cleared(dead)
  /\ ret' = IF pc = "sign_ok" THEN 1 ELSE 0
  /\ pc' = "idle"
  /\ UNCHANGED req

\* The caller frees a signature, or the values it set up.
CallerFrees(ptrs) ==
  /\ pc = "idle" /\ \A q \in ptrs : loc[q] # NULL
  /\ heap' = Without(ptrs) /\ NoteFault(ptrs) /\ loc' = Cleared(ptrs)
  /\ req' = [fn |-> "none"] /\ ret' = 0
  /\ UNCHANGED pc

-------------------------------------------------------------------------------
(* ECDSA_verify and ecdsa_do_verify: 1, 0 or -1.                             *)

InRange(n) == n \in 1 .. Order - 1

do_verify(dgst, r, s) ==
  IF ~InRange(r) \/ ~InRange(s) THEN 0
  ELSE LET u1 == (Truncated(dgst) * Invert(s)) % Order
           u2 == (r * Invert(s)) % Order
           point == (u1 + u2 * PrivKey) % Order
       IN IF point = 0 THEN -1  \* it has no affine coordinates
          ELSE IF XCoord[point] % Order = r THEN 1 ELSE 0

\* Mutant: octets after the signature's are not noticed.
Verdict_AnyEncoding(dgst, sg, form, failure) ==
  IF failure = "no_memory" \/ form = "no_der" THEN -1
  ELSE IF failure = "no_method_data" THEN 0
  ELSE do_verify(dgst, sg[1], sg[2])

\* Octets that are no DER, or not all of them, are no signature.
Verdict(dgst, sg, form, failure) ==
  IF failure = "no_memory" \/ form # "der" THEN -1
  ELSE IF failure = "no_method_data" THEN 0
  ELSE do_verify(dgst, sg[1], sg[2])

\* By a caller that holds nothing: verifying leaves its heap as it was.
Verify(dgst, sg, form, failure) ==
  /\ pc = "idle" /\ DOMAIN heap = {} /\ req.fn = "none"
  /\ req' = [fn |-> "verify", dgst |-> dgst, sig |-> sg, form |-> form, failure |-> failure]
  /\ ret' = Verdict(dgst, sg, form, failure)
  /\ UNCHANGED <<heap, loc, pc, fault>>

-------------------------------------------------------------------------------

Init ==
  /\ heap = << >> /\ loc = [q \in Pointers |-> NULL]
  /\ pc = "idle" /\ req = [fn |-> "none"] /\ ret = 0 /\ fault = FALSE

Forms == {"der", "trailing", "no_der"}
Failures == {"none", "no_method_data", "no_memory"}

CallStep ==
  \/ SetupRefused \/ SetupFails \/ SetupDone \/ SetupErr
  \/ \E missing \in SUBSET {"k", "r", "setup_order", "X", "point"} : SetupAlloc(missing)
  \/ \E k \in 1 .. Order - 1 : DrawNonce(k)
  \/ SignRefused \/ \E n \in 0 .. 4 : SignAlloc(n)
  \/ SignValues \/ SignSum \/ SignFails \/ EndSign

Next ==
  \/ CallSetup \/ CallStep
  \/ \E dgst \in Digests, given \in SUBSET {"kept_kinv", "kept_r"} : CallSign(dgst, given)
  \/ CallerFrees({"sig", "sig_r", "sig_s"}) \/ CallerFrees({"kept_kinv", "kept_r"})
  \/ \E dgst \in Digests, sg \in Offered, form \in Forms, failure \in Failures :
       Verify(dgst, sg, form, failure)

\* A call goes on, and the random numbers bring every nonce again.
Spec ==
  /\ Init /\ [][Next]_vars
  /\ WF_vars(CallStep)
  /\ \A k \in 1 .. Order - 1 : SF_vars(DrawNonce(k))
===============================================================================
