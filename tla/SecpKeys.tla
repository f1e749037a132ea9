------------------------------- MODULE SecpKeys -------------------------------
(* The calls of secp256k1.c on keys and signatures. A client keeps a secret   *)
(* key and its public key; it does operations to the one and, later and in    *)
(* order, to the other, as a wallet does whose public side knows no secrets.   *)
(* While both are level it signs, sends signatures and reads them back.        *)
(* A scalar is a number below Order, a point its logarithm; the 32 bytes of a  *)
(* key, tweak, hash or nonce are a number that may be Order or more.           *)
EXTENDS EcdsaLaw, Sequences

CONSTANTS
  NULL,
  YCoord,   \* of each point but infinity
  TopByte,  \* the largest number 32 bytes hold
  MaxLag    \* operations the public key may be behind

ASSUME BytesAssumption ==
  /\ TopByte \in Nat /\ TopByte >= Order /\ MaxLag \in Nat
  /\ NULL \notin (0 .. TopByte + 1) \cup ((0 .. TopByte) \X (0 .. TopByte))

\* The y coordinates of the two points of an x add up to the field's odd size.
ASSUME CurveAssumption ==
  /\ YCoord \in [1 .. Order - 1 -> Nat]
  /\ \A P, Q \in 1 .. Order - 1 :
       XCoord[P] = XCoord[Q] /\ YCoord[P] % 2 = YCoord[Q] % 2 => P = Q

Bytes == 0 .. TopByte
Scalars == 0 .. Order - 1

VARIABLES
  seckey,  \* the client's 32 bytes
  pubkey,  \* a secp256k1_pubkey
  todo,    \* [op, ret]: done to the secret key and not yet to the public key
  sig,     \* a secp256k1_ecdsa_signature
  signed,  \* the hash whose signature is in sig, FailedSig, or NULL
  loop,    \* locals of a call to sign in progress, or NULL
  call     \* the last call: what it returned, and what it did to the other key

vars == <<seckey, pubkey, todo, sig, signed, loop, call>>

-------------------------------------------------------------------------------
(* Scalars.                                                                  *)

scalar_set_b32(b) == b % Order
overflow(b) == b >= Order
set_b32_seckey(b) == [sec |-> b % Order, ret |-> b % Order # 0 /\ ~overflow(b)]
scalar_is_high(s) == s > Order \div 2
scalar_negate(s) == (Order - s) % Order
cmov(a, b, flag) == IF flag THEN b ELSE a

-------------------------------------------------------------------------------
(* Public keys in memory: the coordinates, zeros if there is no key. What is  *)
(* stored for the point at infinity is no key and does not read as zeros.     *)

ZeroKey == 0
NotAPoint == -1
pubkey_save(Q) == IF Q = 0 THEN NotAPoint ELSE Q
\* where FALSE, the illegal callback was called
pubkey_load(pk) == pk # ZeroKey

pubkey_create(b) ==
  LET key == set_b32_seckey(b)
      pk == pubkey_save(cmov(key.sec, 1, ~key.ret))
  IN [pubkey |-> cmov(pk, ZeroKey, ~key.ret), ret |-> key.ret]

SumOf(pks) ==
  LET sum[i \in 0 .. Len(pks)] == IF i = 0 THEN 0 ELSE (sum[i - 1] + pks[i]) % Order
  IN sum

pubkey_combine(pks) ==
  LET Q == SumOf(pks)[Len(pks)]
  IN [pubkey |-> IF Q = 0 THEN ZeroKey ELSE pubkey_save(Q), ret |-> Q # 0]

\* What the three forms of a public key say: x and a tag that is 2 or 3 by the
\* parity of y, or both coordinates and the tag 4, 6 or 7.
Tag(y) == 2 + (y % 2)

pubkey_serialize(pk, compressed) ==
  IF ~pubkey_load(pk) THEN NULL
  ELSE IF compressed THEN <<Tag(YCoord[pk]), XCoord[pk]>>
  ELSE <<4, XCoord[pk], YCoord[pk]>>

eckey_pubkey_parse(in) ==
  {Q \in 1 .. Order - 1 :
     \/ Len(in) = 2 /\ in = <<Tag(YCoord[Q]), XCoord[Q]>>
     \/ /\ Len(in) = 3 /\ in[2] = XCoord[Q] /\ in[3] = YCoord[Q]
        /\ in[1] = 4 \/ in[1] = 4 + Tag(YCoord[Q])}

pubkey_parse(in) ==
  LET Q == eckey_pubkey_parse(in)
  IN IF Q = {} THEN [pubkey |-> ZeroKey, ret |-> FALSE]
     ELSE [pubkey |-> pubkey_save(CHOOSE q \in Q : TRUE), ret |-> TRUE]

-------------------------------------------------------------------------------
(* Operations on keys. Each returns the bytes or the memory, and a verdict.   *)

Ops == {<<"negate">>} \cup ({"tweak_add", "tweak_mul"} \X Bytes)

\* privkey_tweak_add and privkey_tweak_mul of eckey
TweakSec(op, sec, t) ==
  IF op = "tweak_add" THEN [sec |-> (sec + t) % Order, ret |-> (sec + t) % Order # 0]
  ELSE [sec |-> (sec * t) % Order, ret |-> t # 0]

seckey_negate(b) ==
  LET key == set_b32_seckey(b)
  IN [seckey |-> scalar_negate(cmov(key.sec, 0, ~key.ret)), ret |-> key.ret]

seckey_tweak(op, b, tweak32) ==
  LET key == set_b32_seckey(b)
      tweaked == TweakSec(op, key.sec, scalar_set_b32(tweak32))
      ret == key.ret /\ ~overflow(tweak32) /\ tweaked.ret
  IN [seckey |-> cmov(tweaked.sec, 0, ~ret), ret |-> ret]

pubkey_negate(pk) ==
  LET ret == pubkey_load(pk)
  IN [pubkey |-> IF ret THEN pubkey_save(scalar_negate(pk)) ELSE ZeroKey, ret |-> ret]

\* Mutant: the sum is saved without a look whether it is infinity.
pubkey_tweak_SavesInfinity(op, pk, tweak32) ==
  LET t == scalar_set_b32(tweak32)
      p == IF op = "tweak_add" THEN (pk + t) % Order ELSE (pk * t) % Order
      ret == pubkey_load(pk) /\ ~overflow(tweak32) /\ (op = "tweak_add" \/ t # 0)
  IN [pubkey |-> IF ret THEN pubkey_save(p) ELSE ZeroKey, ret |-> ret]

\* The tweaked point is infinity after an addition, the factor 0 in a product.
pubkey_tweak(op, pk, tweak32) ==
  LET t == scalar_set_b32(tweak32)
      p == IF op = "tweak_add" THEN (pk + t) % Order ELSE (pk * t) % Order
      done == IF op = "tweak_add" THEN p # 0 ELSE t # 0
      ret == pubkey_load(pk) /\ ~overflow(tweak32) /\ done
  IN [pubkey |-> IF ret THEN pubkey_save(p) ELSE ZeroKey, ret |-> ret]

SecResult(op, b) == IF op[1] = "negate" THEN seckey_negate(b) ELSE seckey_tweak(op[1], b, op[2])
PubResult(op, pk) == IF op[1] = "negate" THEN pubkey_negate(pk) ELSE pubkey_tweak(op[1], pk, op[2])

-------------------------------------------------------------------------------
(* Signatures.                                                               *)

ZeroSig == <<0, 0>>
FailedSig == TopByte + 1

signature_normalize(sg) ==
  [sig |-> <<sg[1], cmov(sg[2], scalar_negate(sg[2]), scalar_is_high(sg[2]))>>,
   ret |-> scalar_is_high(sg[2])]

serialize_compact(sg) == sg

parse_compact(in) ==
  IF overflow(in[1]) \/ overflow(in[2]) THEN [sig |-> ZeroSig, ret |-> FALSE]
  ELSE [sig |-> <<scalar_set_b32(in[1]), scalar_set_b32(in[2])>>, ret |-> TRUE]

\* A number out of range in well-formed DER is read as 0; NULL is not well formed.
parse_der(in) ==
  LET scalar(n) == IF overflow(n) THEN 0 ELSE n
  IN IF in = NULL THEN [sig |-> ZeroSig, ret |-> FALSE]
     ELSE [sig |-> <<scalar(in[1]), scalar(in[2])>>, ret |-> TRUE]

ecdsa_verify(sg, msghash32, pk) ==
  /\ ~scalar_is_high(sg[2])
  /\ pubkey_load(pk)
  /\ Correct(pk, scalar_set_b32(msghash32), sg[1], sg[2])

\* The low one of the two numbers s that fit
ecdsa_sig_sign(sec, msg, non) ==
  LET s == SignatureS(sec, msg, non)
  IN [r |-> NonceX(non), s |-> cmov(s, scalar_negate(s), scalar_is_high(s)),
      ret |-> NonceX(non) # 0 /\ s # 0]

\* Mutant: the verdict leaves the key out.
Outcome_IgnoresKey(l, ret) ==
  LET good == ret
  IN [sig |-> cmov(<<l.r, l.s>>, ZeroSig, ~good), ret |-> good]

\* What sign returns; an invalid key has been signed with as if it were 1.
Outcome(l, ret) ==
  LET good == ret /\ set_b32_seckey(seckey).ret
  IN [sig |-> cmov(<<l.r, l.s>>, ZeroSig, ~good), ret |-> good]

-------------------------------------------------------------------------------
(* The client's calls.                                                       *)

Returned(r) == call' = [ret |-> r, sec_ret |-> r]
ForgetSig == sig' = ZeroSig /\ signed' = NULL

Init ==
  /\ seckey = 0 /\ pubkey = ZeroKey /\ todo = <<>>
  /\ sig = ZeroSig /\ signed = NULL /\ loop = NULL
  /\ call = [ret |-> FALSE, sec_ret |-> FALSE]

\* ec_seckey_verify, then ec_pubkey_create
NewPair(b) ==
  /\ loop = NULL /\ todo = <<>> /\ seckey = 0
  /\ seckey' = b /\ pubkey' = pubkey_create(b).pubkey
  /\ call' = [ret |-> pubkey_create(b).ret, sec_ret |-> set_b32_seckey(b).ret]
  /\ ForgetSig
  /\ UNCHANGED <<todo, loop>>

ChangeSeckey(op) ==
  /\ loop = NULL /\ Len(todo) < MaxLag
  /\ LET result == SecResult(op, seckey)
     IN /\ seckey' = result.seckey
        /\ todo' = Append(todo, [op |-> op, ret |-> result.ret])
        /\ Returned(result.ret)
  /\ ForgetSig
  /\ UNCHANGED <<pubkey, loop>>

ChangePubkey ==
  /\ todo # <<>>
  /\ LET result == PubResult(Head(todo).op, pubkey)
     IN /\ pubkey' = result.pubkey
        /\ call' = [ret |-> result.ret, sec_ret |-> Head(todo).ret]
  /\ todo' = Tail(todo)
  /\ UNCHANGED <<seckey, sig, signed, loop>>

\* An addition is done with pubkey_create and pubkey_combine instead.
CombinePubkey ==
  /\ todo # <<>> /\ Head(todo).op[1] = "tweak_add" /\ pubkey_load(pubkey)
  /\ LET term == pubkey_create(Head(todo).op[2])
         result == pubkey_combine(<<pubkey, term.pubkey>>)
     IN /\ term.ret
        /\ pubkey' = result.pubkey
        /\ call' = [ret |-> result.ret, sec_ret |-> Head(todo).ret]
  /\ todo' = Tail(todo)
  /\ UNCHANGED <<seckey, sig, signed, loop>>

\* The public key is written out and read back.
PassPubkey(compressed) ==
  /\ loop = NULL /\ pubkey_load(pubkey)
  /\ LET result == pubkey_parse(pubkey_serialize(pubkey, compressed))
     IN pubkey' = result.pubkey /\ Returned(result.ret)
  /\ UNCHANGED <<seckey, todo, sig, signed, loop>>

StartSign(m) ==
  /\ loop = NULL /\ todo = <<>>
  /\ loop' = [msg |-> m, r |-> 0, s |-> 0]
  /\ ForgetSig
  /\ UNCHANGED <<seckey, pubkey, todo, call>>

EndSign(l, ret) ==
  /\ sig' = Outcome(l, ret).sig
  /\ signed' = IF Outcome(l, ret).ret THEN l.msg ELSE FailedSig
  /\ Returned(Outcome(l, ret).ret)
  /\ loop' = NULL

\* Mutant: an invalid key signs as 0, as everywhere else.
TryNonce_NoDisguise(nonce32) ==
  /\ loop # NULL
  /\ LET key == set_b32_seckey(seckey)
         non == set_b32_seckey(nonce32)
         made == ecdsa_sig_sign(cmov(key.sec, 0, ~key.ret),
                                scalar_set_b32(loop.msg), non.sec)
         l == [msg |-> loop.msg, r |-> made.r, s |-> made.s]
     IN IF non.ret /\ made.ret THEN EndSign(l, TRUE)
        ELSE /\ loop' = IF non.ret THEN l ELSE loop
             /\ UNCHANGED <<sig, signed, call>>
  /\ UNCHANGED <<seckey, pubkey, todo>>

\* The nonce function returns a nonce: the loop ends if it signs.
TryNonce(nonce32) ==
  /\ loop # NULL
  /\ LET key == set_b32_seckey(seckey)
         non == set_b32_seckey(nonce32)
         made == ecdsa_sig_sign(cmov(key.sec, 1, ~key.ret),
                                scalar_set_b32(loop.msg), non.sec)
         l == [msg |-> loop.msg, r |-> made.r, s |-> made.s]
     IN IF non.ret /\ made.ret THEN EndSign(l, TRUE)
        ELSE /\ loop' = IF non.ret THEN l ELSE loop
             /\ UNCHANGED <<sig, signed, call>>
  /\ UNCHANGED <<seckey, pubkey, todo>>

\* The nonce function gives up.
NoNonce ==
  /\ loop # NULL
  /\ EndSign(loop, FALSE)
  /\ UNCHANGED <<seckey, pubkey, todo>>

\* The signature is written out and read back; a sender that does not know of
\* low signatures sends the other number s.
PassSig(high, der) ==
  /\ loop = NULL /\ signed \in Bytes
  /\ LET out == serialize_compact(sig)
         in == IF high THEN <<out[1], Order - out[2]>> ELSE out
         result == IF der THEN parse_der(in) ELSE parse_compact(in)
     IN sig' = result.sig /\ Returned(result.ret)
  /\ UNCHANGED <<seckey, pubkey, todo, signed, loop>>

\* Numbers out of range, or no DER at all, are read.
ReadBadSig(in, der) ==
  /\ loop = NULL /\ todo = <<>> /\ sig = ZeroSig
  /\ IF in = NULL THEN der ELSE overflow(in[1]) \/ overflow(in[2])
  /\ LET result == IF der THEN parse_der(in) ELSE parse_compact(in)
     IN sig' = result.sig /\ Returned(result.ret)
  /\ signed' = FailedSig
  /\ UNCHANGED <<seckey, pubkey, todo, loop>>

NormalizeSig ==
  /\ loop = NULL /\ signed \in Bytes
  /\ sig' = signature_normalize(sig).sig
  /\ Returned(signature_normalize(sig).ret)
  /\ UNCHANGED <<seckey, pubkey, todo, signed, loop>>

Next ==
  \/ \E b \in Bytes : NewPair(b) \/ StartSign(b) \/ TryNonce(b)
  \/ \E op \in Ops : ChangeSeckey(op)
  \/ ChangePubkey \/ CombinePubkey \/ NoNonce \/ NormalizeSig
  \/ \E compressed \in BOOLEAN : PassPubkey(compressed)
  \/ \E high, der \in BOOLEAN : PassSig(high, der)
  \/ \E in \in (Bytes \X Bytes) \cup {NULL}, der \in BOOLEAN : ReadBadSig(in, der)

Spec == Init /\ [][Next]_vars

\* While sign asks for nonces, each of them comes at some time.
FairSpec == Spec /\ \A nonce32 \in Bytes : WF_vars(TryNonce(nonce32))
===============================================================================
