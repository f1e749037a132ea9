---------------------------- MODULE SecpKeysProps -----------------------------
(* What the client of the calls in SecpKeys relies on.                       *)
EXTENDS SecpKeys

(* What an operation does to a key as a number, 0 where there is none.       *)
Meant(op, k) ==
  IF k = 0 THEN 0
  ELSE CASE op[1] = "negate" -> (-k) % Order
         [] op[1] = "tweak_add" -> IF op[2] < Order THEN (k + op[2]) % Order ELSE 0
         [] op[1] = "tweak_mul" -> IF op[2] < Order THEN (k * op[2]) % Order ELSE 0

ValidKey(b) == b \in 1 .. Order - 1
SecretOf(b) == IF ValidKey(b) THEN b ELSE 0

(* The public key after each of the operations it has yet to make.           *)
Ahead ==
  LET ahead[i \in 0 .. Len(todo)] ==
        IF i = 0 THEN pubkey ELSE Meant(todo[i].op, ahead[i - 1])
  IN ahead

(* The two keys stay a pair: the operations the public key has yet to make   *)
(* lead it to the secret key's point; an operation fails on both sides or on *)
(* neither, and a key is gone from both after a failure, whichever of the    *)
(* calls and detours made it (secp256k1.c:580-748).                          *)
KeysStayPaired ==
  /\ pubkey \in Scalars
  /\ Ahead[Len(todo)] = SecretOf(seckey)
  /\ call.ret = call.sec_ret

(* A signature that sign returned verifies under the public key, with every  *)
(* detour through bytes, unless its s was made high, and then normalizing it *)
(* repairs it. What a failed call left verifies for no hash under any key    *)
(* (secp256k1.c:330-423, 469-537; secp256k1.h:412-415, 434-436).             *)
SignaturesVerify ==
  /\ signed \in Bytes =>
       /\ ecdsa_verify(sig, signed, pubkey) <=> ~scalar_is_high(sig[2])
       /\ ecdsa_verify(signature_normalize(sig).sig, signed, pubkey)
       /\ parse_compact(serialize_compact(sig)).sig = sig
  /\ signed = FailedSig =>
       \A m \in Scalars, Q \in Scalars :
         /\ ~ecdsa_verify(sig, m, Q)
         /\ ~ecdsa_verify(signature_normalize(sig).sig, m, Q)

(* The loop of sign has no bound of its own: it ends because some nonce signs,  *)
(* whatever the hash and the key's bytes, an invalid key's included, and      *)
(* because what is tried does not depend on what was tried before             *)
(* (secp256k1.c:489-514).                                                    *)
SigningEnds == loop # NULL ~> loop = NULL
===============================================================================
