---------------------------- MODULE EcdsaFlowProps ----------------------------
(* What must hold of signing and verifying in EcdsaFlow.                     *)
EXTENDS EcdsaFlow

Held == {q \in Pointers : loc[q] # NULL}
Callers == {"sig", "sig_r", "sig_s", "kept_kinv", "kept_r"}

(* Everything allocated is held by exactly one pointer at every moment, is   *)
(* freed once, and after a call only the caller's own is left: a signature   *)
(* if one was returned and both of the values of a set-up, or neither        *)
(* (ecs_ossl.c:215-247, 347-362).                                            *)
NothingLost ==
  /\ ~fault
  /\ DOMAIN heap = {loc[q] : q \in Held}
  /\ \A p, q \in Held : loc[p] = loc[q] => p = q
  /\ pc = "idle" =>
       /\ Held \subseteq Callers
       /\ req.fn = "sign" => (ret = 1 <=> loc["sig"] # NULL)
       /\ loc["kept_kinv"] = NULL <=> loc["kept_r"] = NULL

Leading(dgst) ==
  LET n == Len(dgst) * ByteBits
  IN IF n <= OrderBits THEN BN_bin2bn(dgst) ELSE BN_bin2bn(dgst) \div Pow2[n - OrderBits]

(* A signature returned is one of the leading bits of the digest under the   *)
(* caller's key, whether its values were drawn or given and however often    *)
(* the two loops went round; values set up are those of one nonce; and the   *)
(* nonce multiplied with is always one bit longer than the order             *)
(* (ecs_ossl.c:131-213, 283-341).                                            *)
SignaturesCorrect ==
  /\ pc = "idle" /\ req.fn = "sign" /\ ret = 1 =>
       Correct(PrivKey, Leading(req.dgst), heap[loc["sig_r"]], heap[loc["sig_s"]])
  /\ loc["kept_kinv"] # NULL =>
       \E k \in 1 .. Order - 1 :
         /\ heap[loc["kept_kinv"]] = Invert(k)
         /\ heap[loc["kept_r"]] = NonceX(k) /\ NonceX(k) # 0
  /\ pc = "invert" => BN_num_bits(heap[loc["k"]]) = OrderBits + 1

(* The equation asks for the x coordinate of infinity.                       *)
LeadsToInfinity(dgst, r, s) ==
  /\ InRange(r) /\ InRange(s)
  /\ (Leading(dgst) + r * PrivKey) % Order = 0

(* Verification says 1 exactly of a correct signature, in the octets of its  *)
(* own encoding, by a call that does not fail. Of an incorrect one such a    *)
(* call says 0, or -1 if the equation leads to infinity; and what is not its *)
(* own encoding gets -1, as every call without memory does                   *)
(* (ecs_vrf.c:71-112, ecs_ossl.c:365-478).                                   *)
VerdictsRight ==
  req.fn = "verify" =>
    LET right == Correct(PrivKey, Leading(req.dgst), req.sig[1], req.sig[2])
        infinite == LeadsToInfinity(req.dgst, req.sig[1], req.sig[2])
    IN /\ ret = 1 <=> right /\ req.form = "der" /\ req.failure = "none"
       /\ req.form = "der" /\ req.failure = "none" /\ ~right =>
            ret = IF infinite THEN -1 ELSE 0
       /\ req.form # "der" \/ req.failure = "no_memory" => ret = -1

(* Every call ends: a failed draw, an r or an s of 0 ends it or tries again, *)
(* and trying again finds a nonce that signs (ecs_ossl.c:131-187, 296-341).  *)
CallsEnd == pc # "idle" ~> pc = "idle"

(* "0: incorrect signature, -1: error" (ecs_vrf.c:65-70, 80-85): no correct  *)
(* signature is answered with 0, whatever fails on the way to it.            *)
ErrorsAreNoVerdicts ==
  req.fn = "verify" /\ ret = 0 =>
    ~Correct(PrivKey, Leading(req.dgst), req.sig[1], req.sig[2])
===============================================================================
