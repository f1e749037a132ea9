-------------------------- MODULE OpensslProofs --------------------------
(* Two of OpenSSL's own structures, for any number of threads, kinds and     *)
(* addresses, and any size of bundles and stack: the method data of a shared *)
(* key is neither leaked nor freed twice nor used after it is freed, and     *)
(* implements MethodCell; a BN_CTX never confuses its callers' frames, and   *)
(* implements TempFrames.                                                    *)
EXTENDS MethodDataProps, BnCtxProps, FiniteSetTheorems, TLAPS

(* The invariant that is inductive: what the runs check, and what a call     *)
(* knows in each of its phases.                                              *)
Phases ==
  \A t \in Threads :
    /\ own[t] # NULL <=> pc[t] \in {"insert", "confirm"}
    /\ pc[t] = "confirm" /\ own[t] \notin Listed => failed[t]

Inv == TypeOK /\ OneOwner /\ HeldIsLive /\ KeyOutlivesHolders /\ Phases

-----------------------------------------------------------------------------
(* A lookup finds the one entry of its kind, or NULL when there is none.     *)
LEMMA Lookup ==
  ASSUME TypeOK, OneOwner, NEW k \in Kinds
  PROVE  /\ DataOf(k) \in Addresses \cup {NULL}
         /\ DataOf(k) # NULL => /\ [kind |-> k, data |-> DataOf(k)] \in method_data
                                /\ DataOf(k) \in Listed /\ DataOf(k) \in live
         /\ DataOf(k) = NULL => \A entry \in method_data : entry.kind # k
         /\ \A d \in Addresses : [kind |-> k, data |-> d] \in method_data => DataOf(k) = d
<1>1. CASE \E entry \in method_data : entry.kind = k
  <2> DEFINE entry == CHOOSE e \in method_data : e.kind = k
  <2>1. entry \in method_data /\ entry.kind = k
    BY <1>1
  <2>2. entry \in Entry
    BY <2>1 DEF TypeOK
  <2>3. DataOf(k) = entry.data
    BY <1>1 DEF DataOf
  <2>4. entry = [kind |-> k, data |-> entry.data] /\ entry.data \in Addresses
    BY <2>1, <2>2 DEF Entry
  <2>5. DataOf(k) \in Listed /\ DataOf(k) \in live
    BY <2>1, <2>3 DEF Listed, OneOwner
  <2>6. DataOf(k) # NULL
    BY <2>3, <2>4, NullAssumption
  <2>7. ASSUME NEW d \in Addresses, [kind |-> k, data |-> d] \in method_data
        PROVE  DataOf(k) = d
    BY <2>1, <2>3, <2>7 DEF OneOwner
  <2> QED
    BY <2>1, <2>3, <2>4, <2>5, <2>6, <2>7
<1>2. CASE ~ \E entry \in method_data : entry.kind = k
  BY <1>2 DEF DataOf
<1> QED
  BY <1>1, <1>2

-----------------------------------------------------------------------------
LEMMA InitInv == Init => Inv
<1> SUFFICES ASSUME Init PROVE Inv
  OBVIOUS
<1>1. TypeOK
  BY DEF Init, TypeOK, Entry
<1>2. OneOwner
  BY DEF Init, OneOwner, Listed
<1>3. HeldIsLive
  BY DEF Init, HeldIsLive
<1>4. KeyOutlivesHolders
  <2>1. PICK t \in Threads : holds = {t}
    BY DEF Init
  <2>2. Cardinality(holds) = 1
    BY <2>1, FS_Singleton
  <2> QED
    BY <2>2 DEF Init, KeyOutlivesHolders
<1>5. Phases
  BY DEF Init, Phases
<1> QED
  BY <1>1, <1>2, <1>3, <1>4, <1>5 DEF Inv
-----------------------------------------------------------------------------
(* Every action preserves it. *)
LEMMA NewInv ==
  ASSUME Inv, NEW t \in Threads, New(t)
  PROVE  Inv'
<1> USE DEF Inv
<1>1. TypeOK'
  BY DEF TypeOK, Entry, New, Return, Goto
<1>2. OneOwner'
  BY NullAssumption DEF TypeOK, Entry, OneOwner, Phases, Listed, New, Return, Goto
<1>3. HeldIsLive'
  BY DEF TypeOK, HeldIsLive, OneOwner, Listed, New, Return, Goto
<1>4. KeyOutlivesHolders'
  BY DEF TypeOK, KeyOutlivesHolders, New, Return, Goto
<1>5. Phases'
  BY NullAssumption DEF TypeOK, Phases, Listed, New, Return, Goto
<1> QED
  BY <1>1, <1>2, <1>3, <1>4, <1>5

LEMMA NewFailsInv ==
  ASSUME Inv, NEW t \in Threads, NewFails(t)
  PROVE  Inv'
<1> USE DEF Inv
<1>1. TypeOK'
  BY DEF TypeOK, Entry, NewFails, Return, Goto
<1>2. OneOwner'
  BY NullAssumption DEF TypeOK, Entry, OneOwner, Phases, Listed, NewFails, Return, Goto
<1>3. HeldIsLive'
  BY DEF TypeOK, HeldIsLive, OneOwner, Listed, NewFails, Return, Goto
<1>4. KeyOutlivesHolders'
  BY DEF TypeOK, KeyOutlivesHolders, NewFails, Return, Goto
<1>5. Phases'
  BY NullAssumption DEF TypeOK, Phases, Listed, NewFails, Return, Goto
<1> QED
  BY <1>1, <1>2, <1>3, <1>4, <1>5

LEMMA InsertInv ==
  ASSUME Inv, NEW t \in Threads, Insert(t)
  PROVE  Inv'
<1> USE DEF Inv
<1> DEFINE new == [kind |-> kind[t], data |-> own[t]]
<1>1. kind[t] \in Kinds /\ own[t] \in Addresses /\ own[t] \notin Listed /\ own[t] \in live
  BY DEF Insert, TypeOK, Phases, OneOwner
<1>2. \A entry \in method_data : entry.kind # kind[t]
  BY <1>1, Lookup DEF Insert
<1>3. /\ method_data' = method_data \cup {new} /\ Listed' = Listed \cup {own[t]}
      /\ new \in Entry /\ new.kind = kind[t] /\ new.data = own[t]
      /\ pc' = [pc EXCEPT ![t] = "confirm"]
      /\ UNCHANGED <<references, live, holds, kind, own, held, failed>>
  <2>1. new \in Entry /\ new.kind = kind[t] /\ new.data = own[t]
    BY <1>1 DEF Entry
  <2>2. /\ method_data' = method_data \cup {new}
        /\ pc' = [pc EXCEPT ![t] = "confirm"]
        /\ UNCHANGED <<references, live, holds, kind, own, held, failed>>
    BY DEF Insert, Goto
  <2> HIDE DEF new
  <2>3. Listed' = Listed \cup {own[t]}
    BY <2>1, <2>2 DEF Listed
  <2> QED
    BY <2>1, <2>2, <2>3
<1> HIDE DEF new
<1>4. TypeOK'
  BY <1>3 DEF TypeOK, Entry
<1>5. OneOwner'
  <2>1. live' = Listed' \cup {own'[u] : u \in {w \in Threads : own'[w] # NULL}}
    BY <1>1, <1>3, NullAssumption DEF OneOwner
  <2>2. ASSUME NEW a \in method_data', NEW b \in method_data', a.kind = b.kind \/ a.data = b.data
        PROVE  a = b
    <3>1. a \in method_data => a.data # new.data /\ a.kind # new.kind
      BY <1>1, <1>2, <1>3 DEF Listed
    <3>2. b \in method_data => b.data # new.data /\ b.kind # new.kind
      BY <1>1, <1>2, <1>3 DEF Listed
    <3> QED
      BY <1>3, <2>2, <3>1, <3>2 DEF OneOwner
  <2>3. ASSUME NEW u \in Threads, own'[u] \in Listed'
        PROVE  pc'[u] = "confirm" /\ [kind |-> kind'[u], data |-> own'[u]] \in method_data'
    <3>1. CASE u = t
      BY <1>3, <3>1 DEF TypeOK, new
    <3>2. CASE u # t
      <4>1. own[u] \in Listed
        BY <1>1, <1>3, <2>3, <3>2, NullAssumption DEF OneOwner
      <4> QED
        BY <1>3, <3>2, <4>1 DEF OneOwner, TypeOK
    <3> QED
      BY <3>1, <3>2
  <2>4. \A u, w \in Threads : own'[u] # NULL /\ own'[u] = own'[w] => u = w
    BY <1>3 DEF OneOwner
  <2> QED
    BY <2>1, <2>2, <2>3, <2>4 DEF OneOwner
<1>6. HeldIsLive'
  BY <1>3 DEF HeldIsLive
<1>7. KeyOutlivesHolders'
  BY DEF TypeOK, KeyOutlivesHolders, Insert, Goto
<1>8. Phases'
  <2> SUFFICES ASSUME NEW u \in Threads
               PROVE  /\ own'[u] # NULL <=> pc'[u] \in {"insert", "confirm"}
                      /\ pc'[u] = "confirm" /\ own'[u] \notin Listed' => failed'[u]
    BY DEF Phases
  <2>1. CASE u = t
    BY <1>1, <1>3, <2>1, NullAssumption DEF TypeOK
  <2>2. CASE u # t
    BY <1>3, <2>2 DEF TypeOK, Phases
  <2> QED
    BY <2>1, <2>2
<1> QED
  BY <1>4, <1>5, <1>6, <1>7, <1>8

LEMMA InsertFailsInv ==
  ASSUME Inv, NEW t \in Threads, InsertFails(t)
  PROVE  Inv'
<1> USE DEF Inv
<1>1. TypeOK'
  BY DEF TypeOK, Entry, InsertFails, Return, Goto
<1>2. OneOwner'
  BY NullAssumption DEF TypeOK, Entry, OneOwner, Phases, Listed, InsertFails, Return, Goto
<1>3. HeldIsLive'
  BY DEF TypeOK, HeldIsLive, OneOwner, Listed, InsertFails, Return, Goto
<1>4. KeyOutlivesHolders'
  BY DEF TypeOK, KeyOutlivesHolders, InsertFails, Return, Goto
<1>5. Phases'
  BY NullAssumption DEF TypeOK, Phases, Listed, InsertFails, Return, Goto
<1> QED
  BY <1>1, <1>2, <1>3, <1>4, <1>5

LEMMA InsertLostInv ==
  ASSUME Inv, NEW t \in Threads, InsertLost(t)
  PROVE  Inv'
<1> USE DEF Inv
<1>1. kind[t] \in Kinds /\ own[t] \in Addresses /\ own[t] \in live /\ t \in holds
  BY DEF InsertLost, TypeOK, Phases, OneOwner, KeyOutlivesHolders
<1>2. PICK d \in {NULL, DataOf(kind[t])} :
        /\ pc' = [pc EXCEPT ![t] = "idle"]
        /\ held' = [held EXCEPT ![t][kind[t]] = d]
        /\ own' = [own EXCEPT ![t] = NULL]
  BY DEF InsertLost, Return, Goto
<1>3. /\ UNCHANGED <<method_data, references, holds, kind, failed>>
      /\ Listed' = Listed
  BY DEF InsertLost, Listed
<1>4. d # NULL => d \in Addresses /\ [kind |-> kind[t], data |-> d] \in method_data /\ d \in Listed
  BY <1>1, <1>2, Lookup
<1>5. live' = live \ {own[t]} /\ own[t] \notin Listed /\ Listed \subseteq live'
  BY DEF InsertLost, OneOwner
<1>6. TypeOK'
  <2>1. d \in Addresses \cup {NULL} /\ live' \subseteq Addresses
    BY <1>2, <1>4, <1>5 DEF TypeOK
  <2> QED
    BY <1>1, <1>2, <1>3, <2>1 DEF TypeOK
<1>7. OneOwner'
  <2>1. \A u \in Threads : own'[u] = IF u = t THEN NULL ELSE own[u]
    BY <1>2 DEF TypeOK
  <2>2. \A u \in Threads : own'[u] # NULL => u # t /\ own[u] = own'[u]
    BY <2>1
  <2>3. live' = Listed' \cup {own'[w] : w \in {u \in Threads : own'[u] # NULL}}
    BY <1>1, <1>3, <1>5, <2>1, NullAssumption DEF OneOwner
  <2>4. NULL \notin Listed
    BY NullAssumption DEF Listed, TypeOK, Entry
  <2>5. ASSUME NEW u \in Threads, own'[u] \in Listed'
        PROVE  pc'[u] = "confirm" /\ [kind |-> kind'[u], data |-> own'[u]] \in method_data'
    BY <1>2, <1>3, <2>1, <2>4, <2>5 DEF OneOwner, TypeOK
  <2> QED
    BY <1>3, <2>2, <2>3, <2>5 DEF OneOwner
<1>8. HeldIsLive'
  <2> SUFFICES ASSUME NEW u \in Threads, NEW k \in Kinds, held'[u][k] # NULL
               PROVE  /\ u \in holds'
                      /\ held'[u][k] \in live'
                      /\ [kind |-> k, data |-> held'[u][k]] \in method_data'
    BY DEF HeldIsLive
  <2>1. CASE u = t /\ k = kind[t]
    <3>1. held'[u][k] = d
      BY <1>1, <1>2, <2>1 DEF TypeOK
    <3> QED
      BY <1>1, <1>3, <1>4, <1>5, <2>1, <3>1
  <2>2. CASE ~(u = t /\ k = kind[t])
    <3>1. held'[u][k] = held[u][k]
      BY <1>1, <1>2, <2>2 DEF TypeOK
    <3>2. u \in holds /\ [kind |-> k, data |-> held[u][k]] \in method_data
      BY <3>1 DEF HeldIsLive
    <3>3. held[u][k] \in Listed
      BY <3>2 DEF Listed
    <3> QED
      BY <1>3, <1>5, <3>1, <3>2, <3>3
  <2> QED
    BY <2>1, <2>2
<1>9. KeyOutlivesHolders'
  BY <1>2, <1>3 DEF TypeOK, KeyOutlivesHolders
<1>10. Phases'
  BY <1>2, <1>3, NullAssumption DEF TypeOK, Phases
<1> QED
  BY <1>6, <1>7, <1>8, <1>9, <1>10

LEMMA ConfirmInv ==
  ASSUME Inv, NEW t \in Threads, Confirm(t)
  PROVE  Inv'
<1> USE DEF Inv
<1>1. kind[t] \in Kinds /\ own[t] \in Addresses /\ own[t] \in live /\ t \in holds
  BY DEF Confirm, TypeOK, Phases, OneOwner, KeyOutlivesHolders
<1>2. PICK d \in {NULL, DataOf(kind[t])} :
        /\ pc' = [pc EXCEPT ![t] = "idle"]
        /\ held' = [held EXCEPT ![t][kind[t]] = d]
        /\ own' = [own EXCEPT ![t] = NULL]
  BY DEF Confirm, Return, Goto
<1>3. /\ UNCHANGED <<method_data, references, holds, kind, failed>>
      /\ Listed' = Listed
  BY DEF Confirm, Listed
<1>4. d # NULL => d \in Addresses /\ [kind |-> kind[t], data |-> d] \in method_data /\ d \in Listed
  BY <1>1, <1>2, Lookup
<1>5. live' = live /\ own[t] \in Listed /\ Listed \subseteq live'
  <2>1. DataOf(kind[t]) = own[t] /\ own[t] # NULL /\ live' = live
    BY <1>1, NullAssumption DEF Confirm
  <2>2. own[t] \in Listed
    BY <1>1, <2>1, Lookup
  <2> QED
    BY <2>1, <2>2 DEF OneOwner
<1>6. TypeOK'
  <2>1. d \in Addresses \cup {NULL} /\ live' \subseteq Addresses
    BY <1>2, <1>4, <1>5 DEF TypeOK
  <2> QED
    BY <1>1, <1>2, <1>3, <2>1 DEF TypeOK
<1>7. OneOwner'
  <2>1. \A u \in Threads : own'[u] = IF u = t THEN NULL ELSE own[u]
    BY <1>2 DEF TypeOK
  <2>2. \A u \in Threads : own'[u] # NULL => u # t /\ own[u] = own'[u]
    BY <2>1
  <2>3. live' = Listed' \cup {own'[w] : w \in {u \in Threads : own'[u] # NULL}}
    BY <1>1, <1>3, <1>5, <2>1, NullAssumption DEF OneOwner
  <2>4. NULL \notin Listed
    BY NullAssumption DEF Listed, TypeOK, Entry
  <2>5. ASSUME NEW u \in Threads, own'[u] \in Listed'
        PROVE  pc'[u] = "confirm" /\ [kind |-> kind'[u], data |-> own'[u]] \in method_data'
    BY <1>2, <1>3, <2>1, <2>4, <2>5 DEF OneOwner, TypeOK
  <2> QED
    BY <1>3, <2>2, <2>3, <2>5 DEF OneOwner
<1>8. HeldIsLive'
  <2> SUFFICES ASSUME NEW u \in Threads, NEW k \in Kinds, held'[u][k] # NULL
               PROVE  /\ u \in holds'
                      /\ held'[u][k] \in live'
                      /\ [kind |-> k, data |-> held'[u][k]] \in method_data'
    BY DEF HeldIsLive
  <2>1. CASE u = t /\ k = kind[t]
    <3>1. held'[u][k] = d
      BY <1>1, <1>2, <2>1 DEF TypeOK
    <3> QED
      BY <1>1, <1>3, <1>4, <1>5, <2>1, <3>1
  <2>2. CASE ~(u = t /\ k = kind[t])
    <3>1. held'[u][k] = held[u][k]
      BY <1>1, <1>2, <2>2 DEF TypeOK
    <3>2. u \in holds /\ [kind |-> k, data |-> held[u][k]] \in method_data
      BY <3>1 DEF HeldIsLive
    <3>3. held[u][k] \in Listed
      BY <3>2 DEF Listed
    <3> QED
      BY <1>3, <1>5, <3>1, <3>2, <3>3
  <2> QED
    BY <2>1, <2>2
<1>9. KeyOutlivesHolders'
  BY <1>2, <1>3 DEF TypeOK, KeyOutlivesHolders
<1>10. Phases'
  BY <1>2, <1>3, NullAssumption DEF TypeOK, Phases
<1> QED
  BY <1>6, <1>7, <1>8, <1>9, <1>10

LEMMA ConfirmFailsInv ==
  ASSUME Inv, NEW t \in Threads, ConfirmFails(t)
  PROVE  Inv'
<1> USE DEF Inv
<1>1. kind[t] \in Kinds /\ own[t] \in Addresses /\ own[t] \in live /\ t \in holds
  BY DEF ConfirmFails, TypeOK, Phases, OneOwner, KeyOutlivesHolders
<1>2. PICK d \in {NULL, DataOf(kind[t])} :
        /\ pc' = [pc EXCEPT ![t] = "idle"]
        /\ held' = [held EXCEPT ![t][kind[t]] = d]
        /\ own' = [own EXCEPT ![t] = NULL]
  BY DEF ConfirmFails, Return, Goto
<1>3. /\ UNCHANGED <<method_data, references, holds, kind, failed>>
      /\ Listed' = Listed
  BY DEF ConfirmFails, Listed
<1>4. d # NULL => d \in Addresses /\ [kind |-> kind[t], data |-> d] \in method_data /\ d \in Listed
  BY <1>1, <1>2, Lookup
<1>5. live' = live \ {own[t]} /\ own[t] \notin Listed /\ Listed \subseteq live'
  <2>1. own[t] \notin Listed
    BY <1>1, Lookup DEF OneOwner, ConfirmFails
  <2> QED
    BY <2>1 DEF ConfirmFails, OneOwner
<1>6. TypeOK'
  <2>1. d \in Addresses \cup {NULL} /\ live' \subseteq Addresses
    BY <1>2, <1>4, <1>5 DEF TypeOK
  <2> QED
    BY <1>1, <1>2, <1>3, <2>1 DEF TypeOK
<1>7. OneOwner'
  <2>1. \A u \in Threads : own'[u] = IF u = t THEN NULL ELSE own[u]
    BY <1>2 DEF TypeOK
  <2>2. \A u \in Threads : own'[u] # NULL => u # t /\ own[u] = own'[u]
    BY <2>1
  <2>3. live' = Listed' \cup {own'[w] : w \in {u \in Threads : own'[u] # NULL}}
    BY <1>1, <1>3, <1>5, <2>1, NullAssumption DEF OneOwner
  <2>4. NULL \notin Listed
    BY NullAssumption DEF Listed, TypeOK, Entry
  <2>5. ASSUME NEW u \in Threads, own'[u] \in Listed'
        PROVE  pc'[u] = "confirm" /\ [kind |-> kind'[u], data |-> own'[u]] \in method_data'
    BY <1>2, <1>3, <2>1, <2>4, <2>5 DEF OneOwner, TypeOK
  <2> QED
    BY <1>3, <2>2, <2>3, <2>5 DEF OneOwner
<1>8. HeldIsLive'
  <2> SUFFICES ASSUME NEW u \in Threads, NEW k \in Kinds, held'[u][k] # NULL
               PROVE  /\ u \in holds'
                      /\ held'[u][k] \in live'
                      /\ [kind |-> k, data |-> held'[u][k]] \in method_data'
    BY DEF HeldIsLive
  <2>1. CASE u = t /\ k = kind[t]
    <3>1. held'[u][k] = d
      BY <1>1, <1>2, <2>1 DEF TypeOK
    <3> QED
      BY <1>1, <1>3, <1>4, <1>5, <2>1, <3>1
  <2>2. CASE ~(u = t /\ k = kind[t])
    <3>1. held'[u][k] = held[u][k]
      BY <1>1, <1>2, <2>2 DEF TypeOK
    <3>2. u \in holds /\ [kind |-> k, data |-> held[u][k]] \in method_data
      BY <3>1 DEF HeldIsLive
    <3>3. held[u][k] \in Listed
      BY <3>2 DEF Listed
    <3> QED
      BY <1>3, <1>5, <3>1, <3>2, <3>3
  <2> QED
    BY <2>1, <2>2
<1>9. KeyOutlivesHolders'
  BY <1>2, <1>3 DEF TypeOK, KeyOutlivesHolders
<1>10. Phases'
  BY <1>2, <1>3, NullAssumption DEF TypeOK, Phases
<1> QED
  BY <1>6, <1>7, <1>8, <1>9, <1>10

LEMMA DestroyInv ==
  ASSUME Inv, NEW t \in Threads, Destroy(t)
  PROVE  Inv'
<1> USE DEF Inv
<1>1. holds = {}
  BY DEF Destroy, KeyOutlivesHolders
<1>2. \A u \in Threads : own[u] = NULL
  BY <1>1 DEF Phases, KeyOutlivesHolders
<1>3. \A u \in Threads, k \in Kinds : held[u][k] = NULL
  BY <1>1 DEF HeldIsLive
<1>4. /\ method_data' = {} /\ Listed' = {} /\ live' = {}
      /\ pc' = [pc EXCEPT ![t] = "idle"]
      /\ UNCHANGED <<references, holds, kind, own, held, failed>>
  BY <1>2 DEF Destroy, Goto, Listed, OneOwner
<1>5. TypeOK'
  BY <1>4 DEF TypeOK
<1>6. OneOwner'
  BY <1>2, <1>4 DEF OneOwner
<1>7. HeldIsLive'
  BY <1>3, <1>4 DEF HeldIsLive
<1>8. KeyOutlivesHolders'
  BY <1>4 DEF TypeOK, KeyOutlivesHolders
<1>9. Phases'
  BY <1>2, <1>4 DEF TypeOK, Phases, Destroy
<1> QED
  BY <1>5, <1>6, <1>7, <1>8, <1>9

LEMMA CheckInv ==
  ASSUME Inv, NEW t \in Threads, NEW k \in Kinds, Check(t, k)
  PROVE  Inv'
<1> USE DEF Inv
<1> DEFINE d == DataOf(k)
<1>1. /\ t \in holds /\ pc[t] = "idle"
      /\ kind' = [kind EXCEPT ![t] = k]
      /\ failed' = [failed EXCEPT ![t] = FALSE]
      /\ UNCHANGED <<method_data, references, live, holds, own>>
      /\ Listed' = Listed
  BY DEF Check, Listed
<1>2. \/ d # NULL /\ held' = [held EXCEPT ![t][k] = d] /\ pc' = pc
      \/ d = NULL /\ held' = held /\ pc' = [pc EXCEPT ![t] = "new"]
  BY DEF Check, Goto
<1>3. /\ d \in Addresses \cup {NULL}
      /\ d # NULL => [kind |-> k, data |-> d] \in method_data /\ d \in live
  BY Lookup
<1> HIDE DEF d
<1>4. TypeOK'
  <2>1. held' \in [Threads -> [Kinds -> Addresses \cup {NULL}]]
    <3>1. held \in [Threads -> [Kinds -> Addresses \cup {NULL}]]
      BY DEF TypeOK
    <3>2. CASE held' = held
      BY <3>1, <3>2
    <3>3. CASE held' = [held EXCEPT ![t][k] = d]
      <4>1. held[t] \in [Kinds -> Addresses \cup {NULL}]
        BY <3>1
      <4>2. [held[t] EXCEPT ![k] = d] \in [Kinds -> Addresses \cup {NULL}]
        BY <4>1, <1>3
      <4>3. held' = [held EXCEPT ![t] = [held[t] EXCEPT ![k] = d]]
        BY <3>3
      <4> QED BY <3>1, <4>2, <4>3
    <3> QED BY <1>2, <3>2, <3>3
  <2>2. pc' \in [Threads -> {"idle", "new", "insert", "confirm", "destroy"}]
    BY <1>2 DEF TypeOK
  <2>3. kind' \in [Threads -> Kinds] /\ failed' \in [Threads -> BOOLEAN]
    BY <1>1 DEF TypeOK
  <2> QED BY <1>1, <2>1, <2>2, <2>3 DEF TypeOK
<1>5. own[t] = NULL
  BY <1>1 DEF Phases
<1>6. OneOwner'
  <2>1. ASSUME NEW u \in Threads, own'[u] \in Listed'
        PROVE  pc'[u] = "confirm" /\ [kind |-> kind'[u], data |-> own'[u]] \in method_data'
    <3>1. pc[u] = "confirm" /\ [kind |-> kind[u], data |-> own[u]] \in method_data
      BY <1>1, <2>1 DEF OneOwner
    <3>2. u # t
      BY <1>1, <3>1
    <3> QED
      BY <1>1, <1>2, <3>1, <3>2 DEF TypeOK
  <2> QED
    BY <1>1, <2>1 DEF OneOwner
<1>7. HeldIsLive'
  <2> SUFFICES ASSUME NEW u \in Threads, NEW j \in Kinds, held'[u][j] # NULL
               PROVE  /\ u \in holds'
                      /\ held'[u][j] \in live'
                      /\ [kind |-> j, data |-> held'[u][j]] \in method_data'
    BY DEF HeldIsLive
  <2>1. held'[u][j] = held[u][j] \/ (u = t /\ j = k /\ held'[u][j] = d)
    BY <1>2 DEF TypeOK
  <2> QED
    BY <1>1, <1>3, <2>1 DEF HeldIsLive
<1>8. KeyOutlivesHolders'
  BY <1>1, <1>2 DEF TypeOK, KeyOutlivesHolders
<1>9. Phases'
  <2> SUFFICES ASSUME NEW u \in Threads
               PROVE  /\ own'[u] # NULL <=> pc'[u] \in {"insert", "confirm"}
                      /\ pc'[u] = "confirm" /\ own'[u] \notin Listed' => failed'[u]
    BY DEF Phases
  <2>1. CASE u = t
    BY <1>1, <1>2, <1>5, <2>1 DEF TypeOK
  <2>2. CASE u # t
    BY <1>1, <1>2, <2>2 DEF TypeOK, Phases
  <2> QED
    BY <2>1, <2>2
<1> QED
  BY <1>4, <1>6, <1>7, <1>8, <1>9

LEMMA UpRefInv ==
  ASSUME Inv, NEW t \in Threads, NEW u \in Threads, UpRef(t, u)
  PROVE  Inv'
<1> USE DEF Inv
<1>1. TypeOK'
  BY DEF TypeOK, Entry, UpRef, Return, Goto
<1>2. OneOwner'
  BY NullAssumption DEF TypeOK, Entry, OneOwner, Phases, Listed, UpRef, Return, Goto
<1>3. HeldIsLive'
  BY DEF TypeOK, HeldIsLive, OneOwner, Listed, UpRef, Return, Goto
<1>4. KeyOutlivesHolders'
  <2>1. IsFiniteSet(holds) /\ u \notin holds /\ holds' = holds \cup {u}
    BY ThreadsAssumption, FS_Subset DEF TypeOK, UpRef
  <2>2. Cardinality(holds') = Cardinality(holds) + 1
    BY <2>1, FS_AddElement
  <2> QED
    BY <2>2 DEF TypeOK, KeyOutlivesHolders, UpRef
<1>5. Phases'
  BY NullAssumption DEF TypeOK, Phases, Listed, UpRef, Return, Goto
<1> QED
  BY <1>1, <1>2, <1>3, <1>4, <1>5

LEMMA FreeInv ==
  ASSUME Inv, NEW t \in Threads, Free(t)
  PROVE  Inv'
<1> USE DEF Inv
<1>1. TypeOK'
  BY DEF TypeOK, Entry, Free, Return, Goto
<1>2. OneOwner'
  BY NullAssumption DEF TypeOK, Entry, OneOwner, Phases, Listed, Free, Return, Goto
<1>3. HeldIsLive'
  BY DEF TypeOK, HeldIsLive, OneOwner, Listed, Free, Return, Goto
<1>4. KeyOutlivesHolders'
  <2>1. IsFiniteSet(holds) /\ t \in holds /\ holds' = holds \ {t}
    BY ThreadsAssumption, FS_Subset DEF TypeOK, Free
  <2>2. Cardinality(holds') = Cardinality(holds) - 1 /\ Cardinality(holds') \in Nat /\ IsFiniteSet(holds')
    BY <2>1, FS_RemoveElement, FS_CardinalityType
  <2>3. references' = Cardinality(holds')
    BY <2>2 DEF TypeOK, KeyOutlivesHolders, Free
  <2>4. references' > 0 <=> holds' # {}
    BY <2>2, <2>3, FS_EmptySet
  <2>5. \/ holds' = {} /\ pc' = [pc EXCEPT ![t] = "destroy"]
        \/ holds' # {} /\ pc' = pc
    BY <2>4 DEF Free, Goto
  <2>6. \A u \in Threads : pc[u] # "destroy"
    BY <2>1 DEF KeyOutlivesHolders
  <2>7. \A u \in Threads : pc'[u] \in {"new", "insert", "confirm"} => u \in holds'
    BY <2>1, <2>5 DEF KeyOutlivesHolders, TypeOK, Free
  <2> QED
    BY <2>3, <2>5, <2>6, <2>7 DEF KeyOutlivesHolders, TypeOK
<1>5. Phases'
  BY NullAssumption DEF TypeOK, Phases, Listed, Free, Return, Goto
<1> QED
  BY <1>1, <1>2, <1>3, <1>4, <1>5

-----------------------------------------------------------------------------
LEMMA NextInv == Inv /\ [Next]_vars => Inv'
<1> SUFFICES ASSUME Inv, [Next]_vars PROVE Inv'
  OBVIOUS
<1>1. ASSUME NEW t \in Threads, InCall(t) PROVE Inv'
  <2>1. CASE New(t)
    BY <2>1, NewInv
  <2>2. CASE NewFails(t)
    BY <2>2, NewFailsInv
  <2>3. CASE Insert(t)
    BY <2>3, InsertInv
  <2>4. CASE InsertFails(t)
    BY <2>4, InsertFailsInv
  <2>5. CASE InsertLost(t)
    BY <2>5, InsertLostInv
  <2>6. CASE Confirm(t)
    BY <2>6, ConfirmInv
  <2>7. CASE ConfirmFails(t)
    BY <2>7, ConfirmFailsInv
  <2>8. CASE Destroy(t)
    BY <2>8, DestroyInv
  <2> QED
    BY <1>1, <2>1, <2>2, <2>3, <2>4, <2>5, <2>6, <2>7, <2>8 DEF InCall
<1>2. ASSUME NEW t \in Threads, NEW k \in Kinds, Check(t, k) PROVE Inv'
  BY <1>2, CheckInv
<1>3. ASSUME NEW t \in Threads, NEW u \in Threads, UpRef(t, u) PROVE Inv'
  BY <1>3, UpRefInv
<1>4. ASSUME NEW t \in Threads, Free(t) PROVE Inv'
  BY <1>4, FreeInv
<1>5. CASE UNCHANGED vars
  BY <1>5 DEF vars, Inv, TypeOK, OneOwner, Listed, HeldIsLive, KeyOutlivesHolders, Phases
<1> QED
  BY <1>1, <1>2, <1>3, <1>4, <1>5 DEF Next

LEMMA AlwaysInv == Spec => []Inv
BY InitInv, NextInv, PTL DEF Spec

(* The state has its type (all of ec_key.c and ecs_lib.c modelled here).     *)
THEOREM KeyTypeCorrect == Spec => []TypeOK
<1>1. Inv => TypeOK
  BY DEF Inv
<1> QED
  BY <1>1, AlwaysInv, PTL

(* Every record has one owner: no race of ecdsa_check leaks one or frees it  *)
(* twice, for any number of threads (ecs_lib.c:188-213).                     *)
THEOREM RecordsHaveOneOwner == Spec => []OneOwner
<1>1. Inv => OneOwner
  BY DEF Inv
<1> QED
  BY <1>1, AlwaysInv, PTL

(* What ecdsa_check returned to a holder of the key is live and the same for *)
(* all of them (ec_key.c:133).                                               *)
THEOREM HeldStaysLive == Spec => []HeldIsLive
<1>1. Inv => HeldIsLive
  BY DEF Inv
<1> QED
  BY <1>1, AlwaysInv, PTL

(* The key is destroyed once, by the last holder (ec_key.c:106-123).         *)
THEOREM KeyDiesLast == Spec => []KeyOutlivesHolders
<1>1. Inv => KeyOutlivesHolders
  BY DEF Inv
<1> QED
  BY <1>1, AlwaysInv, PTL

-----------------------------------------------------------------------------
(* A check that returns NULL had an allocation fail (ecs_lib.c:199-213).     *)
THEOREM NullOnlyWithoutMemory == Spec => NullMeansNoMemory
<1> DEFINE A == \A t \in Threads : InCheck(t) /\ pc'[t] = "idle" =>
                  held'[t][kind[t]] # NULL \/ failed'[t]
<1>1. Inv /\ [Next]_vars => [A]_vars
  <2> SUFFICES ASSUME Inv, Next, NEW t \in Threads, InCheck(t), pc'[t] = "idle",
                      ~failed'[t]
               PROVE  held'[t][kind[t]] # NULL
    OBVIOUS
  <2> USE DEF Inv
  <2>1. PICK u \in Threads : \/ \E k \in Kinds : Check(u, k)
                             \/ \E w \in Threads : UpRef(u, w)
                             \/ Free(u)
                             \/ InCall(u)
    BY DEF Next
  <2>2. kind[t] \in Kinds
    BY DEF TypeOK
  <2>3. u = t
    BY <2>1 DEF InCheck, TypeOK, Check, UpRef, Free, InCall, New, NewFails, Insert,
                InsertFails, InsertLost, Confirm, ConfirmFails, Destroy, Goto, Return
  <2>4. NewFails(t) \/ InsertLost(t) \/ Confirm(t) \/ ConfirmFails(t)
    BY <2>1, <2>3 DEF InCheck, TypeOK, Check, UpRef, Free, InCall, New, Insert,
                      InsertFails, Destroy, Goto
  <2>5. CASE NewFails(t)
    BY <2>5 DEF NewFails, TypeOK
  <2>6. CASE InsertLost(t)
    BY <2>2, <2>6 DEF InsertLost, Return, TypeOK
  <2>7. CASE Confirm(t)
    BY <2>2, <2>7 DEF Confirm, Return, TypeOK, Phases
  <2>8. CASE ConfirmFails(t)
    <3>1. own[t] \in Addresses /\ own[t] \in Listed
      BY <2>8 DEF ConfirmFails, Phases, TypeOK
    <3>2. [kind |-> kind[t], data |-> own[t]] \in method_data
      BY <3>1 DEF OneOwner
    <3> QED
      BY <2>2, <2>8, <3>1, <3>2, Lookup DEF ConfirmFails
  <2> QED
    BY <2>4, <2>5, <2>6, <2>7, <2>8
<1> QED
  BY <1>1, AlwaysInv, PTL DEF Spec, NullMeansNoMemory

-----------------------------------------------------------------------------
(* The refinement: the entries of the list are the cells.                    *)
Cell == [k \in Kinds |-> DataOf(k)]

LEMMA CellStable == UNCHANGED method_data => Cell' = Cell
BY DEF Cell, DataOf

CellFacts ==
  \A k \in Kinds :
    /\ Cell[k] = NULL => \A entry \in method_data : entry.kind # k
    /\ Cell[k] # NULL => /\ Cell[k] \in Listed
                         /\ [kind |-> k, data |-> Cell[k]] \in method_data
    /\ \A d \in Addresses : [kind |-> k, data |-> d] \in method_data => Cell[k] = d

LEMMA CellIs == Inv => CellFacts
BY Lookup DEF Inv, Cell, CellFacts

LEMMA AnswerStep ==
  ASSUME Inv, NEW t \in Threads, t \in holds, NEW k \in Kinds, NEW d \in {DataOf(k), NULL},
         held' = [held EXCEPT ![t][k] = d], UNCHANGED <<method_data, holds>>
  PROVE  M!CellNext
<1>1. Cell' = Cell
  BY CellStable
<1>2. M!Answer(t, k)
  BY <1>1 DEF M!Answer, Cell
<1> QED
  BY <1>2 DEF M!CellNext

LEMMA CellStep == Inv /\ Inv' /\ [Next]_vars => [M!CellNext]_(M!cellVars)
<1> SUFFICES ASSUME Inv, Inv', [Next]_vars PROVE [M!CellNext]_(M!cellVars)
  OBVIOUS
<1>1. TypeOK /\ OneOwner /\ HeldIsLive /\ KeyOutlivesHolders /\ Phases
  BY DEF Inv
<1>2. UNCHANGED <<method_data, holds, held>> => UNCHANGED M!cellVars
  BY CellStable DEF M!cellVars, Cell
<1>3. ASSUME NEW t \in Threads, InCall(t) PROVE [M!CellNext]_(M!cellVars)
  <2>1. kind[t] \in Kinds /\ (InCheck(t) => t \in holds)
    BY <1>1 DEF TypeOK, KeyOutlivesHolders, InCheck
  <2>2. CASE New(t) \/ InsertFails(t)
    BY <1>2, <2>2 DEF New, InsertFails
  <2>3. CASE NewFails(t)
    BY <2>1, <2>3, AnswerStep DEF NewFails, Return, InCheck
  <2>4. CASE Insert(t)
    <3>1. own[t] \in Addresses /\ Cell[kind[t]] = NULL /\ own[t] \notin Listed
      BY <1>1, <2>1, <2>4 DEF Insert, Phases, TypeOK, OneOwner, Cell
    <3>2. \A k \in Kinds : Cell[k] # own[t]
      BY <3>1, CellIs, NullAssumption DEF CellFacts
    <3>3. method_data' = method_data \cup {[kind |-> kind[t], data |-> own[t]]}
      BY <2>4 DEF Insert
    <3>4. \A k \in Kinds : Cell'[k] = IF k = kind[t] THEN own[t] ELSE Cell[k]
      <4> SUFFICES ASSUME NEW k \in Kinds
                   PROVE  Cell'[k] = IF k = kind[t] THEN own[t] ELSE Cell[k]
        OBVIOUS
      <4>1. CellFacts'
        BY CellIs, PTL
      <4>2. CASE k = kind[t]
        BY <3>1, <3>3, <4>1, <4>2 DEF CellFacts
      <4>3. CASE k # kind[t] /\ Cell[k] # NULL
        <5>1. [kind |-> k, data |-> Cell[k]] \in method_data /\ Cell[k] \in Addresses
          BY <1>1, <4>3, CellIs DEF TypeOK, Entry, CellFacts
        <5> QED
          BY <3>3, <4>1, <4>3, <5>1 DEF CellFacts
      <4>4. CASE k # kind[t] /\ Cell[k] = NULL
        <5>1. \A entry \in method_data : entry.kind # k
          BY <4>4, CellIs DEF CellFacts
        <5>2. \A entry \in method_data' : entry.kind # k
          BY <3>3, <4>4, <5>1
        <5> QED
          BY <4>1, <4>4, <5>2 DEF CellFacts
      <4> QED
        BY <4>2, <4>3, <4>4
    <3>5. Cell' = [Cell EXCEPT ![kind[t]] = own[t]]
      BY <2>1, <3>4 DEF Cell
    <3>6. M!Install(kind[t], own[t])
      BY <2>1, <2>4, <3>1, <3>2, <3>5 DEF M!Install, Cell, Insert, InCheck
    <3> QED
      BY <2>1, <3>1, <3>6 DEF M!CellNext
  <2>5. CASE InsertLost(t)
    BY <2>1, <2>5, AnswerStep DEF InsertLost, Return, InCheck
  <2>6. CASE Confirm(t)
    BY <2>1, <2>6, AnswerStep DEF Confirm, Return, InCheck
  <2>7. CASE ConfirmFails(t)
    BY <2>1, <2>7, AnswerStep DEF ConfirmFails, Return, InCheck
  <2>8. CASE Destroy(t)
    <3>1. holds = {} /\ UNCHANGED <<holds, held>> /\ method_data' = {}
      BY <1>1, <2>8 DEF Destroy, KeyOutlivesHolders
    <3>2. Cell' = [k \in Kinds |-> NULL]
      BY <3>1 DEF Cell, DataOf
    <3>3. M!Wipe
      BY <3>1, <3>2 DEF M!Wipe, Cell
    <3> QED
      BY <3>3 DEF M!CellNext
  <2> QED
    BY <1>3, <2>2, <2>3, <2>4, <2>5, <2>6, <2>7, <2>8 DEF InCall
<1>4. ASSUME NEW t \in Threads, NEW k \in Kinds, Check(t, k)
      PROVE  [M!CellNext]_(M!cellVars)
  <2>1. CASE DataOf(k) # NULL
    BY <1>4, <2>1, AnswerStep DEF Check
  <2>2. CASE DataOf(k) = NULL
    BY <1>2, <1>4, <2>2 DEF Check
  <2> QED
    BY <2>1, <2>2
<1>5. ASSUME NEW t \in Threads, NEW u \in Threads, UpRef(t, u)
      PROVE  [M!CellNext]_(M!cellVars)
  <2>1. M!Share(t, u)
    BY <1>5, CellStable DEF UpRef, M!Share, Cell
  <2> QED
    BY <2>1 DEF M!CellNext
<1>6. ASSUME NEW t \in Threads, Free(t) PROVE [M!CellNext]_(M!cellVars)
  <2>1. M!Leave(t)
    BY <1>6, CellStable DEF Free, M!Leave, Cell
  <2> QED
    BY <2>1 DEF M!CellNext
<1>7. CASE UNCHANGED vars
  BY <1>2, <1>7 DEF vars
<1> QED
  BY <1>3, <1>4, <1>5, <1>6, <1>7 DEF Next

(* The method data of a key is a cell per kind, set at most once while the   *)
(* key is held, for any number of threads (ecs_lib.c:186-225, ec_key.c).     *)
THEOREM KeyImplementsCell == Spec => ImplementsCell
<1>1. Init => M!CellInit
  <2> SUFFICES ASSUME Init PROVE M!CellInit
    OBVIOUS
  <2>1. [k \in Kinds |-> DataOf(k)] = [k \in Kinds |-> NULL]
    BY DEF Init, DataOf
  <2> QED
    BY <2>1 DEF Init, M!CellInit
<1> QED
  BY <1>1, AlwaysInv, CellStep, PTL DEF Spec, ImplementsCell, M!CellSpec

-----------------------------------------------------------------------------
LEMMA DivMod ==
  ASSUME NEW n \in Nat \ {0}, NEW a \in Int
  PROVE  /\ a \div n \in Int /\ a % n \in 0 .. n - 1
         /\ a = n * (a \div n) + (a % n)
  OBVIOUS

LEMMA DivUnique ==
  ASSUME NEW n \in Nat \ {0}, NEW a \in Int, NEW q \in Int, NEW r \in 0 .. n - 1,
         a = n * q + r
  PROVE  a \div n = q /\ a % n = r
<1>1. a = n * (a \div n) + (a % n) /\ a \div n \in Int /\ a % n \in 0 .. n - 1
  BY DivMod
<1> DEFINE d == (a \div n) - q
<1>2. n * d = r - (a % n)
  BY <1>1
<1>3. d \in Int /\ - n < r - (a % n) /\ r - (a % n) < n
  BY <1>1
<1> HIDE DEF d
<1>4. ~ (d >= 1)
  <2> SUFFICES ASSUME d >= 1 PROVE FALSE
    OBVIOUS
  <2>1. n * d >= n
    BY <1>3
  <2> QED
    BY <2>1, <1>2, <1>3
<1>5. ~ (d <= -1)
  <2> SUFFICES ASSUME d <= -1 PROVE FALSE
    OBVIOUS
  <2>1. n * d <= - n
    BY <1>3
  <2> QED
    BY <2>1, <1>2, <1>3
<1>6. d = 0
  BY <1>3, <1>4, <1>5
<1> QED
  BY <1>6, <1>1, <1>2 DEF d

\* The first slot of a bundle, any other slot, and the sizes of whole bundles.
LEMMA Slots ==
  ASSUME NEW n \in Nat \ {0}, NEW a \in Nat
  PROVE  /\ a % n = 0 => a \div n = (a - 1) \div n + 1 /\ (a + n) % n = 0
         /\ a % n # 0 => a \div n = (a - 1) \div n
         /\ 0 \div n = 0 /\ 0 % n = 0 /\ (0 - 1) \div n = -1
<1> DEFINE q == a \div n
<1>0. q \in Int /\ a = n * q + (a % n) /\ a % n \in 0 .. n - 1
  BY DivMod
<1> HIDE DEF q
<1>1. ASSUME a % n = 0 PROVE q = (a - 1) \div n + 1 /\ (a + n) % n = 0
  <2>1. a - 1 = n * (q - 1) + (n - 1) /\ a + n = n * (q + 1) + 0
    BY <1>0, <1>1
  <2>2. (a - 1) \div n = q - 1
    BY <2>1, <1>0, DivUnique, n - 1 \in 0 .. n - 1, q - 1 \in Int, a - 1 \in Int
  <2>3. (a + n) % n = 0
    BY <2>1, <1>0, DivUnique, 0 \in 0 .. n - 1, q + 1 \in Int, a + n \in Int
  <2> QED
    BY <2>2, <2>3, <1>0
<1>2. ASSUME a % n # 0 PROVE q = (a - 1) \div n
  <2>1. a - 1 = n * q + ((a % n) - 1) /\ (a % n) - 1 \in 0 .. n - 1
    BY <1>0, <1>2
  <2> QED
    BY <2>1, <1>0, DivUnique, a - 1 \in Int
<1>3. 0 \div n = 0 /\ 0 % n = 0
  BY DivUnique, 0 = n * 0 + 0, 0 \in 0 .. n - 1
<1>4. (0 - 1) \div n = -1
  BY DivUnique, 0 - 1 = n * (-1) + (n - 1), n - 1 \in 0 .. n - 1, 0 - 1 \in Int, -1 \in Int
<1> QED
  BY <1>1, <1>2, <1>3, <1>4 DEF q

CtxInv == CtxTypeOK /\ FramesMatch

LEMMA CtxInitInv == CtxInit => CtxInv
<1> SUFFICES ASSUME CtxInit PROVE CtxInv
  OBVIOUS
<1>1. 0 % PoolSize = 0
  BY Slots, PoolSizeAssumption
<1>2. <<>> \in Seq(Nat) /\ <<>> \in Seq(Number) /\ Len(<<>>) = 0
  OBVIOUS
<1>3. CtxTypeOK
  <2>1. pool \in [used : Nat, size : Nat, current : Nat] /\ pool.used <= pool.size
    BY DEF CtxInit
  <2>2. (pool.size % PoolSize) = 0
    BY <1>1 DEF CtxInit
  <2>3. stack \in [indexes : Seq(Nat), size : Nat] /\ Len(stack.indexes) <= stack.size
    BY <1>2 DEF CtxInit
  <2>4. stack.size # 1
    BY DEF CtxInit
  <2> QED
    BY <1>2, <2>1, <2>2, <2>3, <2>4 DEF CtxInit, CtxTypeOK
<1>4. FramesMatch
  BY <1>2 DEF CtxInit, FramesMatch, CountsMatch, MarksMatch, NumbersMatch
<1> QED
  BY <1>3, <1>4 DEF CtxInv

\* The types an invariant state gives, piece by piece.
LEMMA Types ==
  ASSUME CtxInv
  PROVE  /\ stack.indexes \in Seq(Nat) /\ Len(stack.indexes) \in Nat /\ stack.size \in Nat
         /\ DOMAIN stack.indexes = 1 .. Len(stack.indexes)
         /\ stack = [indexes |-> stack.indexes, size |-> stack.size]
         /\ pool.used \in Nat /\ pool.size \in Nat /\ pool.current \in Nat
         /\ pool = [used |-> pool.used, size |-> pool.size, current |-> pool.current]
         /\ marks \in Seq(Nat) /\ Len(marks) \in Nat /\ DOMAIN marks = 1 .. Len(marks)
         /\ given \in Seq(Number) /\ Len(given) = used /\ DOMAIN given = 1 .. used
         /\ used \in Nat /\ err_stack \in Nat /\ pool.used = used
         /\ Len(marks) = Len(stack.indexes) + err_stack
<1>1. stack.indexes \in Seq(Nat) /\ stack.size \in Nat
  BY DEF CtxInv, CtxTypeOK
<1>2. stack = [indexes |-> stack.indexes, size |-> stack.size]
  BY DEF CtxInv, CtxTypeOK
<1>3. /\ pool.used \in Nat /\ pool.size \in Nat /\ pool.current \in Nat
      /\ pool = [used |-> pool.used, size |-> pool.size, current |-> pool.current]
  BY DEF CtxInv, CtxTypeOK
<1>4. marks \in Seq(Nat) /\ given \in Seq(Number) /\ used \in Nat /\ err_stack \in Nat
  BY DEF CtxInv, CtxTypeOK
<1>5. /\ Len(given) = used /\ pool.used = used
      /\ Len(marks) = Len(stack.indexes) + err_stack
  BY DEF CtxInv, FramesMatch, CountsMatch
<1> QED
  BY <1>1, <1>2, <1>3, <1>4, <1>5

LEMMA StartInv == CtxInv /\ BN_CTX_start => CtxInv'
<1> SUFFICES ASSUME CtxInv, BN_CTX_start PROVE CtxInv'
  OBVIOUS
<1> DEFINE depth == Len(stack.indexes)  m == Len(marks)
<1>1. /\ marks' = Append(marks, used) /\ marks' \in Seq(Nat) /\ DOMAIN marks' = 1 .. m + 1
      /\ Len(marks') = m + 1 /\ marks'[m + 1] = used
      /\ \A i \in 1 .. m : marks'[i] = marks[i]
  BY Types DEF BN_CTX_start
<1>2. UNCHANGED <<pool, used, too_many, given>>
  BY DEF BN_CTX_start
<1>3. NumbersMatch'
  BY <1>2 DEF CtxInv, FramesMatch, NumbersMatch
<1>4. \A i, j \in DOMAIN marks' : i <= j => marks'[i] <= marks'[j] /\ marks'[j] <= used
  <2> SUFFICES ASSUME NEW i \in 1 .. m + 1, NEW j \in 1 .. m + 1, i <= j
               PROVE  marks'[i] <= marks'[j] /\ marks'[j] <= used
    BY <1>1
  <2>1. \A k \in 1 .. m : marks'[k] \in Nat /\ marks'[k] <= used
    BY <1>1, Types DEF CtxInv, FramesMatch, MarksMatch
  <2>2. CASE j \in 1 .. m
    BY <2>2, <1>1, Types DEF CtxInv, FramesMatch, MarksMatch
  <2>3. CASE j = m + 1
    BY <2>1, <2>3, <1>1, Types
  <2> QED
    BY <2>2, <2>3, Types
<1>5. CASE StartCounts \/ StartFails
  <2>1. err_stack' = err_stack + 1 /\ stack' = stack
    BY <1>5, Types DEF StartCounts, StartFails
  <2>2. CtxTypeOK'
    BY <1>1, <1>2, <2>1 DEF CtxInv, CtxTypeOK
  <2>3. CountsMatch'
    BY <1>1, <1>2, <2>1, Types DEF CtxInv, FramesMatch, CountsMatch
  <2>4. ASSUME NEW i \in DOMAIN stack.indexes PROVE stack.indexes[i] = marks'[i]
    <3>1. i \in 1 .. m
      BY Types
    <3> QED
      BY <3>1, <1>1 DEF CtxInv, FramesMatch, MarksMatch
  <2>5. ASSUME NEW i \in DOMAIN marks', i > depth PROVE marks'[i] = used
    <3>1. CASE i = m + 1
      BY <3>1, <1>1
    <3>2. CASE i \in 1 .. m
      BY <3>2, <1>1, <2>5, Types DEF CtxInv, FramesMatch, MarksMatch
    <3> QED
      BY <1>1, <3>1, <3>2, Types
  <2>6. MarksMatch'
    BY <1>2, <1>4, <2>1, <2>4, <2>5 DEF MarksMatch
  <2> QED
    BY <1>3, <2>2, <2>3, <2>6 DEF CtxInv, FramesMatch
<1>6. CASE StartPushes
  <2>1. err_stack = 0 /\ err_stack' = 0 /\ ~too_many /\ depth = m
    BY <1>6, Types DEF StartPushes
  <2>2. /\ stack'.indexes = Append(stack.indexes, used) /\ stack'.indexes \in Seq(Nat)
        /\ DOMAIN stack'.indexes = 1 .. m + 1
        /\ Len(stack'.indexes) = m + 1 /\ stack'.indexes[m + 1] = used
        /\ \A i \in 1 .. m : stack'.indexes[i] = stack.indexes[i]
    BY <1>6, <2>1, Types DEF StartPushes
  <2>3. /\ stack' = [indexes |-> stack'.indexes, size |-> stack'.size]
        /\ stack'.size \in Nat /\ stack'.size # 1 /\ m + 1 <= stack'.size
    BY <1>6, <2>1, StartFramesAssumption, Types DEF StartPushes, StackFull, CtxInv, CtxTypeOK
  <2>4. CtxTypeOK'
    BY <1>1, <1>2, <2>1, <2>2, <2>3 DEF CtxInv, CtxTypeOK
  <2>5. CountsMatch'
    BY <1>1, <1>2, <2>1, <2>2, Types DEF CtxInv, FramesMatch, CountsMatch
  <2>6. \A i \in 1 .. m + 1 : stack'.indexes[i] = marks'[i]
    BY <1>1, <2>1, <2>2, Types DEF CtxInv, FramesMatch, MarksMatch
  <2>7. MarksMatch'
    BY <1>1, <1>2, <1>4, <2>2, <2>6 DEF MarksMatch
  <2> QED
    BY <1>3, <2>4, <2>5, <2>7 DEF CtxInv, FramesMatch
<1> QED
  BY <1>5, <1>6 DEF BN_CTX_start

LEMMA Prefix ==
  ASSUME NEW S, NEW s \in Seq(S), NEW n \in 0 .. Len(s)
  PROVE  /\ SubSeq(s, 1, n) \in Seq(S) /\ Len(SubSeq(s, 1, n)) = n
         /\ DOMAIN SubSeq(s, 1, n) = 1 .. n
         /\ \A i \in 1 .. n : SubSeq(s, 1, n)[i] = s[i]
  OBVIOUS

LEMMA EndInv == CtxInv /\ BN_CTX_end => CtxInv'
<1> SUFFICES ASSUME CtxInv, BN_CTX_end PROVE CtxInv'
  OBVIOUS
<1> DEFINE m == Len(marks)  top == marks[m]
<1>1. m \in Nat \ {0} /\ top \in Nat /\ m \in DOMAIN marks /\ top <= used
  BY Types DEF BN_CTX_end, CtxInv, FramesMatch, MarksMatch
<1>2. /\ marks' = SubSeq(marks, 1, m - 1) /\ marks' \in Seq(Nat) /\ Len(marks') = m - 1
      /\ DOMAIN marks' = 1 .. m - 1 /\ \A i \in 1 .. m - 1 : marks'[i] = marks[i]
  <2>1. marks' = SubSeq(marks, 1, m - 1)
    BY DEF BN_CTX_end
  <2>2. m - 1 \in 0 .. Len(marks) /\ marks \in Seq(Nat)
    BY <1>1, Types
  <2> HIDE DEF m
  <2> QED
    BY <2>1, <2>2, Prefix
<1>3. given' = SubSeq(given, 1, top)
  BY DEF BN_CTX_end
<1>4. /\ given' \in Seq(Number) /\ Len(given') = top /\ DOMAIN given' = 1 .. top
      /\ \A i \in 1 .. top : given'[i] = given[i]
  BY <1>1, <1>3, Types, Prefix
<1>5. ASSUME NEW i \in 1 .. top
      PROVE  given'[i] = <<(i - 1) \div PoolSize + 1, (i - 1) % PoolSize>>
  <2>1. i \in DOMAIN given /\ given'[i] = given[i]
    BY <1>1, <1>4, Types
  <2> QED
    BY <2>1 DEF CtxInv, FramesMatch, NumbersMatch
<1>6. ASSUME NEW i \in 1 .. m - 1, NEW j \in 1 .. m - 1, i <= j
      PROVE  marks'[i] <= marks'[j] /\ marks'[j] <= top
  <2>1. i \in DOMAIN marks /\ j \in DOMAIN marks /\ j <= m
    BY <1>1, Types
  <2> QED
    BY <2>1, <1>1, <1>2, <1>6 DEF CtxInv, FramesMatch, MarksMatch
<1> HIDE DEF top
<1>7. CASE EndCounts
  <2>1. err_stack' = err_stack - 1 /\ UNCHANGED <<stack, pool, used, too_many>>
    BY <1>7 DEF EndCounts
  <2>2. err_stack \in Nat \ {0} /\ m > Len(stack.indexes)
    BY <1>1, <1>7, Types DEF EndCounts
  <2>3. top = used
    BY <1>1, <2>2 DEF CtxInv, FramesMatch, MarksMatch, top
  <2>4. given' = given
    BY <1>3, <2>3, Types
  <2>5. CtxTypeOK'
    BY <1>2, <2>1, <2>2, <2>4 DEF CtxInv, CtxTypeOK
  <2>6. CountsMatch'
    BY <1>2, <2>1, <2>2, <2>4, Types DEF CtxInv, FramesMatch, CountsMatch
  <2>7. ASSUME NEW i \in DOMAIN stack.indexes PROVE stack.indexes[i] = marks'[i]
    <3>1. i \in 1 .. m - 1
      BY <2>2, Types
    <3> QED
      BY <3>1, <1>2 DEF CtxInv, FramesMatch, MarksMatch
  <2>8. ASSUME NEW i \in 1 .. m - 1, i > Len(stack.indexes) PROVE marks'[i] = used
    <3>1. i \in DOMAIN marks
      BY <1>1, Types
    <3>2. marks[i] = used
      BY <2>8, <3>1 DEF CtxInv, FramesMatch, MarksMatch
    <3> QED
      BY <1>2, <3>2
  <2>9. MarksMatch'
    BY <1>2, <1>6, <2>1, <2>3, <2>7, <2>8 DEF MarksMatch
  <2>10. NumbersMatch'
    BY <2>1, <2>4 DEF CtxInv, FramesMatch, NumbersMatch
  <2> QED
    BY <2>5, <2>6, <2>9, <2>10 DEF CtxInv, FramesMatch
<1>8. CASE EndPops
  <2>1. err_stack = 0 /\ err_stack' = 0 /\ too_many' = FALSE
    BY <1>8 DEF EndPops
  <2>2. Len(stack.indexes) = m /\ stack.indexes[m] = top
    BY <1>1, <2>1, Types DEF CtxInv, FramesMatch, MarksMatch, top
  <2>3. /\ stack' = [stack EXCEPT !.indexes = SubSeq(@, 1, m - 1)]
        /\ IF top < used THEN BN_POOL_release(used - top) ELSE UNCHANGED pool
        /\ used' = top
    BY <1>8, <2>2 DEF EndPops
  <2>4. stack'.indexes = SubSeq(stack.indexes, 1, m - 1) /\ stack'.size = stack.size
    BY <2>3, Types
  <2>5. /\ stack'.indexes \in Seq(Nat) /\ Len(stack'.indexes) = m - 1
        /\ DOMAIN stack'.indexes = 1 .. m - 1
        /\ \A i \in 1 .. m - 1 : stack'.indexes[i] = stack.indexes[i]
    <3>1. m - 1 \in 0 .. Len(stack.indexes)
      BY <1>1, <2>2
    <3>2. stack.indexes \in Seq(Nat)
      BY Types
    <3> DEFINE front == SubSeq(stack.indexes, 1, m - 1)
    <3>3. /\ front \in Seq(Nat) /\ Len(front) = m - 1 /\ DOMAIN front = 1 .. m - 1
          /\ \A i \in 1 .. m - 1 : front[i] = stack.indexes[i]
      <4> HIDE DEF m
      <4> QED
        BY <3>1, <3>2, Prefix
    <3> HIDE DEF front
    <3>4. stack'.indexes = front
      BY <2>4 DEF front
    <3> QED
      BY <3>3, <3>4
  <2>6. stack' = [indexes |-> stack'.indexes, size |-> stack'.size]
    BY <2>3, Types
  <2>7. /\ pool'.used = top /\ pool'.size = pool.size /\ pool'.current \in Nat
        /\ pool' = [used |-> pool'.used, size |-> pool'.size, current |-> pool'.current]
        /\ top > 0 => pool'.current = (top - 1) \div PoolSize + 1
    <3>1. CASE top = used
      BY <1>1, <2>3, <3>1, Types DEF CtxInv, FramesMatch, NumbersMatch
    <3>2. CASE top < used
      <4> DEFINE a == (used - 1) \div PoolSize  b == (top - 1) \div PoolSize
      <4>1. pool.current = a + 1
        BY <1>1, <3>2, Types DEF CtxInv, FramesMatch, NumbersMatch
      <4>2. used - (used - top) - 1 = top - 1
        BY <1>1, Types
      <4>3. pool' = [used |-> used - (used - top), size |-> pool.size,
                     current |-> pool.current - (a - b)]
        BY <2>3, <3>2, <4>2, Types DEF BN_POOL_release
      <4>4. a \in Int /\ b \in Int /\ b >= -1
        <5>0. top \in Nat /\ top - 1 \in Int /\ used - 1 \in Int
          BY <1>1, Types
        <5>1. a \in Int /\ b \in Int
          BY <5>0, PoolSizeAssumption, DivMod
        <5>2. CASE top = 0
          <6>1. (0 - 1) \div PoolSize = -1
            BY Slots, PoolSizeAssumption, 0 \in Nat
          <6> QED
            BY <5>1, <5>2, <6>1
        <5>3. CASE top > 0
          BY <5>0, <5>1, <5>3, PoolSizeAssumption
        <5> QED
          BY <5>0, <5>1, <5>2, <5>3
      <4> HIDE DEF a, b
      <4>5. used - (used - top) = top /\ pool.current - (a - b) = b + 1 /\ b + 1 \in Nat
        <5>1. top \in Nat /\ used \in Nat
          BY <1>1, Types
        <5> QED
          BY <4>1, <4>4, <5>1
      <4>6. pool' = [used |-> top, size |-> pool.size, current |-> b + 1]
        BY <4>3, <4>5
      <4> QED
        BY <4>5, <4>6 DEF b
    <3> QED
      BY <1>1, <3>1, <3>2, Types
  <2>8. CtxTypeOK'
    <3>1. pool' \in [used : Nat, size : Nat, current : Nat] /\ pool'.used <= pool'.size
      BY <1>1, <2>7, Types DEF CtxInv, CtxTypeOK
    <3>2. pool'.size % PoolSize = 0
      BY <2>7 DEF CtxInv, CtxTypeOK
    <3>3. stack' \in [indexes : Seq(Nat), size : Nat]
      BY <2>4, <2>5, <2>6, Types
    <3>4. Len(stack'.indexes) <= stack'.size /\ stack'.size # 1
      BY <1>1, <2>2, <2>4, <2>5, Types DEF CtxInv, CtxTypeOK
    <3> QED
      BY <1>1, <1>2, <1>4, <2>1, <2>3, <3>1, <3>2, <3>3, <3>4 DEF CtxTypeOK
  <2>9. CountsMatch'
    BY <1>1, <1>2, <1>4, <2>1, <2>3, <2>5, <2>7 DEF CountsMatch
  <2>10. \A i \in 1 .. m - 1 : stack'.indexes[i] = marks'[i]
    <3>1. DOMAIN stack.indexes = 1 .. m
      BY <2>2, Types
    <3>2. \A i \in 1 .. m : stack.indexes[i] = marks[i]
      BY <3>1 DEF CtxInv, FramesMatch, MarksMatch
    <3>3. \A i \in 1 .. m - 1 : i \in 1 .. m
      BY <1>1
    <3> QED
      BY <1>2, <2>5, <3>2, <3>3
  <2>11. MarksMatch'
    BY <1>1, <1>2, <1>6, <2>3, <2>5, <2>10 DEF MarksMatch
  <2>12. NumbersMatch'
    BY <1>4, <1>5, <2>3, <2>7 DEF NumbersMatch
  <2> QED
    BY <2>8, <2>9, <2>11, <2>12 DEF CtxInv, FramesMatch
<1> QED
  BY <1>7, <1>8 DEF BN_CTX_end

LEMMA GetInv == CtxInv /\ BN_CTX_get => CtxInv'
<1> SUFFICES ASSUME CtxInv, BN_CTX_get PROVE CtxInv'
  OBVIOUS
<1>1. UNCHANGED <<stack, err_stack, marks>> /\ marks # <<>>
  BY DEF BN_CTX_get
<1>2. CASE GetBlocked
  BY <1>1, <1>2 DEF GetBlocked, CtxInv, CtxTypeOK, FramesMatch, CountsMatch, MarksMatch, NumbersMatch
<1>3. CASE GetFails
  <2>1. too_many' = TRUE /\ UNCHANGED <<pool, used, given>> /\ err_stack = 0
    BY <1>3 DEF GetFails
  <2>2. stack.indexes # <<>>
    BY <1>1, <2>1, Types
  <2>3. CtxTypeOK'
    BY <1>1, <2>1 DEF CtxInv, CtxTypeOK
  <2>4. CountsMatch'
    BY <1>1, <2>1, <2>2 DEF CtxInv, FramesMatch, CountsMatch
  <2>5. MarksMatch' /\ NumbersMatch'
    BY <1>1, <2>1 DEF CtxInv, FramesMatch, MarksMatch, NumbersMatch
  <2> QED
    BY <2>3, <2>4, <2>5 DEF CtxInv, FramesMatch
<1>4. CASE GetGives
  <2>1. err_stack = 0 /\ used' = used + 1 /\ too_many' = too_many /\ ~too_many
    BY <1>4 DEF GetGives
  <2> DEFINE q == used \div PoolSize  r == used % PoolSize
  <2>2. q \in Nat /\ r \in 0 .. PoolSize - 1
    <3>1. used \in Nat /\ PoolSize \in Nat \ {0}
      BY Types, PoolSizeAssumption
    <3> QED
      BY <3>1
  <2>3. /\ r = 0 => q = (used - 1) \div PoolSize + 1
        /\ r # 0 => q = (used - 1) \div PoolSize
        /\ used = 0 => q = 0 /\ r = 0
        /\ pool.size % PoolSize = 0 => (pool.size + PoolSize) % PoolSize = 0
    BY Types, PoolSizeAssumption, Slots
  <2>4. pool.size % PoolSize = 0 /\ pool.used <= pool.size
    BY DEF CtxInv, CtxTypeOK
  <2>5. used > 0 => pool.current = (used - 1) \div PoolSize + 1
    BY DEF CtxInv, FramesMatch, NumbersMatch
  <2>6. /\ pool'.used = used + 1 /\ pool'.current = q + 1
        /\ pool' = [used |-> pool'.used, size |-> pool'.size, current |-> pool'.current]
        /\ pool'.size = IF used = pool.size THEN pool.size + PoolSize ELSE pool.size
    <3>1. pool' = [used |-> used + 1, size |-> pool'.size, current |-> pool'.current]
      BY <1>4, Types DEF GetGives, BN_POOL_get
    <3>2. pool'.size = IF used = pool.size THEN pool.size + PoolSize ELSE pool.size
      BY <1>4, Types DEF GetGives, BN_POOL_get
    <3>3. pool'.current = IF used = pool.size THEN pool.size \div PoolSize + 1
                          ELSE IF used = 0 THEN 1
                          ELSE IF used % PoolSize = 0 THEN pool.current + 1
                          ELSE pool.current
      BY <1>4, Types DEF GetGives, BN_POOL_get
    <3>4. pool'.current = q + 1
      BY <2>2, <2>3, <2>5, <3>3, Types
    <3> QED
      BY <3>1, <3>2, <3>4
  <2>7. Slot = r
    BY <2>4, Types DEF Slot
  <2>8. given' = Append(given, <<q + 1, r>>)
    BY <1>4, <2>6, <2>7 DEF GetGives
  <2>9. <<q + 1, r>> \in Number
    BY <2>2, PoolSizeAssumption DEF Number
  <2> HIDE DEF q, r
  <2>10. /\ given' \in Seq(Number) /\ Len(given') = used + 1
         /\ DOMAIN given' = 1 .. used + 1 /\ given'[used + 1] = <<q + 1, r>>
         /\ \A i \in 1 .. used : given'[i] = given[i]
    BY <2>8, <2>9, Types
  <2>11. CtxTypeOK'
    <3>1. pool'.size \in Nat /\ pool'.size % PoolSize = 0 /\ pool'.used <= pool'.size
      <4>1. CASE used = pool.size
        <5>1. pool'.size = pool.size + PoolSize
          BY <4>1, <2>6
        <5>2. (pool.size + PoolSize) % PoolSize = 0
          BY <2>3, <2>4
        <5>3. pool'.size % PoolSize = 0
          BY <5>1, <5>2
        <5>4. pool'.size \in Nat /\ pool'.used <= pool'.size
          BY <4>1, <5>1, <2>6, Types, PoolSizeAssumption
        <5> QED
          BY <5>3, <5>4
      <4>2. CASE used # pool.size
        <5>1. pool'.size = pool.size
          BY <4>2, <2>6
        <5> QED
          BY <4>2, <5>1, <2>4, <2>6, Types
      <4> QED
        BY <4>1, <4>2
    <3>2. pool' \in [used : Nat, size : Nat, current : Nat]
      BY <2>2, <2>6, <3>1, Types
    <3>3. used' \in Nat
      BY <2>1, Types
    <3> QED
      BY <1>1, <2>1, <2>10, <3>1, <3>2, <3>3 DEF CtxInv, CtxTypeOK
  <2>12. CountsMatch'
    BY <1>1, <2>1, <2>6, <2>10, Types DEF CountsMatch
  <2>13. MarksMatch'
    <3>1. DOMAIN marks = DOMAIN stack.indexes
      BY <2>1, Types
    <3>2. \A i \in DOMAIN marks : marks[i] \in Nat /\ marks[i] <= used /\ ~(i > Len(stack.indexes))
      BY <2>1, Types DEF CtxInv, FramesMatch, MarksMatch
    <3>3. \A i \in DOMAIN marks : marks[i] <= used + 1
      BY <3>2, Types
    <3> QED
      BY <1>1, <2>1, <3>1, <3>2, <3>3 DEF CtxInv, FramesMatch, MarksMatch
  <2>14. NumbersMatch'
    <3>1. pool'.current = (used' - 1) \div PoolSize + 1
      BY <2>1, <2>6, Types, used + 1 - 1 = used DEF q
    <3>2. ASSUME NEW i \in 1 .. used + 1
          PROVE  given'[i] = <<(i - 1) \div PoolSize + 1, (i - 1) % PoolSize>>
      <4>1. CASE i = used + 1
        BY <2>10, <4>1, Types, used + 1 - 1 = used DEF q, r
      <4>2. CASE i \in 1 .. used
        BY <2>10, <4>2, Types DEF CtxInv, FramesMatch, NumbersMatch
      <4> QED
        BY <4>1, <4>2, Types
    <3> QED
      BY <2>10, <3>1, <3>2 DEF NumbersMatch
  <2> QED
    BY <2>11, <2>12, <2>13, <2>14 DEF CtxInv, FramesMatch
<1> QED
  BY <1>2, <1>3, <1>4 DEF BN_CTX_get

LEMMA InitAgainInv == CtxInv /\ BN_CTX_init => CtxInv'
<1> SUFFICES ASSUME CtxInv, BN_CTX_init PROVE CtxInv'
  OBVIOUS
<1>1. /\ pool'.used = 0 /\ pool'.size = pool.size
      /\ pool' \in [used : Nat, size : Nat, current : Nat]
  BY Types DEF BN_CTX_init
<1>2. stack'.indexes = <<>> /\ stack'.size = stack.size /\ stack' \in [indexes : Seq(Nat), size : Nat]
  <2>1. stack' = [stack EXCEPT !.indexes = <<>>]
    BY DEF BN_CTX_init
  <2>2. stack' = [indexes |-> <<>>, size |-> stack.size]
    BY <2>1, Types
  <2>3. <<>> \in Seq(Nat) /\ stack.size \in Nat
    BY Types
  <2> QED
    BY <2>2, <2>3
<1>3. <<>> \in Seq(Nat) /\ <<>> \in Seq(Number) /\ Len(<<>>) = 0 /\ DOMAIN <<>> = {}
  OBVIOUS
<1>4. CtxTypeOK'
  <2>1. pool'.used <= pool'.size /\ pool'.size % PoolSize = 0
    BY <1>1, Types DEF CtxInv, CtxTypeOK
  <2>2. Len(stack'.indexes) <= stack'.size /\ stack'.size # 1
    BY <1>2, <1>3, Types DEF CtxInv, CtxTypeOK
  <2> QED
    BY <1>1, <1>2, <1>3, <2>1, <2>2 DEF BN_CTX_init, CtxTypeOK
<1>5. FramesMatch'
  BY <1>1, <1>2, <1>3 DEF BN_CTX_init, FramesMatch, CountsMatch, MarksMatch, NumbersMatch
<1> QED
  BY <1>4, <1>5 DEF CtxInv

LEMMA CtxNextInv == CtxInv /\ [CtxNext]_ctxVars => CtxInv'
<1>1. CtxInv /\ UNCHANGED ctxVars => CtxInv'
  BY DEF ctxVars, CtxInv, CtxTypeOK, FramesMatch, CountsMatch, MarksMatch, NumbersMatch
<1> QED
  BY <1>1, StartInv, EndInv, GetInv, InitAgainInv DEF CtxNext

\* The starts counted and pushed, the caller's numbers and the bundles agree
\* in every reachable state.
THEOREM Invariance == CtxSpec => []CtxInv
  BY CtxInitInv, CtxNextInv, PTL DEF CtxSpec

THEOREM Typing == CtxSpec => []CtxTypeOK
  BY Invariance, PTL DEF CtxInv

THEOREM Matching == CtxSpec => []FramesMatch
  BY Invariance, PTL DEF CtxInv

\* The step of each action is a step of TempFrames.
LEMMA TakesFreshNumber ==
  CtxInv /\ BN_CTX_get => F!Take \/ F!Refuse
<1> SUFFICES ASSUME CtxInv, BN_CTX_get PROVE F!Take \/ F!Refuse
  OBVIOUS
<1>1. UNCHANGED <<stack, err_stack, marks>> /\ marks # <<>>
  BY DEF BN_CTX_get
<1>2. CASE GetBlocked
  <2>1. UNCHANGED <<given, too_many>> /\ (err_stack > 0 \/ too_many)
    BY <1>2 DEF GetBlocked
  <2>2. too_many => Len(stack.indexes) # 0
    BY Types DEF CtxInv, FramesMatch, CountsMatch
  <2>3. Len(stack.indexes) + 1 # 0
    BY Types
  <2>4. BadFrame # 0
    BY <2>1, <2>2, <2>3, Zenon DEF BadFrame
  <2>5. BadFrame' = BadFrame
    BY <1>1, <2>1, Zenon DEF BadFrame
  <2> QED
    BY <1>1, <2>1, <2>4, <2>5 DEF F!Refuse
<1>3. CASE GetFails
  <2>1. too_many' /\ UNCHANGED <<pool, used, given>> /\ err_stack = 0 /\ ~too_many
    BY <1>3 DEF GetFails
  <2>2. Len(marks) = Len(stack.indexes) /\ ~(err_stack > 0)
    BY <2>1, Types
  <2>3. BadFrame = 0 /\ BadFrame' = Len(marks)
    BY <1>1, <2>1, <2>2, Zenon DEF BadFrame
  <2> QED
    BY <1>1, <2>1, <2>3 DEF F!Refuse
<1>4. CASE GetGives
  <2> DEFINE n == <<pool'.current, Slot>>
  <2>1. given' = Append(given, n) /\ err_stack = 0 /\ ~too_many /\ too_many' = too_many
    BY <1>4 DEF GetGives
  <2> HIDE DEF n
  <2>2. CtxInv'
    BY GetInv
  <2>3. used' = used + 1 /\ Len(given') = used + 1 /\ given' \in Seq(Number)
    BY <1>4, <2>2, Types DEF GetGives, CtxInv, CtxTypeOK, FramesMatch, CountsMatch
  <2>4. given'[used + 1] = n /\ \A i \in 1 .. used : given'[i] = given[i]
    BY <2>1, Types
  <2>5. n \in Number
    BY <2>3, <2>4, Types
  <2>6. ASSUME NEW i \in 1 .. used, given[i] = n PROVE FALSE
    <3> DEFINE N == PoolSize
    <3>1. /\ given'[i] = <<(i - 1) \div N + 1, (i - 1) % N>>
          /\ given'[used + 1] = <<used \div N + 1, used % N>>
      <4>1. DOMAIN given' = 1 .. used + 1 /\ i \in 1 .. used + 1 /\ used + 1 \in 1 .. used + 1
        BY <2>3, Types
      <4>2. \A k \in DOMAIN given' :
              given'[k] = <<(k - 1) \div N + 1, (k - 1) % N>>
        BY <2>2 DEF CtxInv, FramesMatch, NumbersMatch
      <4>3. given'[i] = <<(i - 1) \div N + 1, (i - 1) % N>>
        BY <4>1, <4>2
      <4>4. PICK k \in 1 .. used + 1 : k = used + 1
        BY <4>1
      <4>5. given'[k] = <<(k - 1) \div N + 1, (k - 1) % N>>
        BY <4>1, <4>2, <4>4
      <4>6. k - 1 = used
        BY <4>4, Types
      <4>7. given'[used + 1] = <<used \div N + 1, used % N>>
        BY <4>4, <4>5, <4>6
      <4> QED
        BY <4>3, <4>7
    <3>2. i - 1 \in Int /\ used \in Int /\ N \in Nat \ {0}
      BY Types, PoolSizeAssumption
    <3>3. (i - 1) \div N \in Int /\ used \div N \in Int
      BY <3>2
    <3>4. (i - 1) \div N = used \div N /\ (i - 1) % N = used % N
      BY <2>4, <2>6, <3>1, <3>2, <3>3
    <3>5. /\ i - 1 = N * ((i - 1) \div N) + ((i - 1) % N)
          /\ used = N * (used \div N) + (used % N)
      BY <3>2, DivMod
    <3>6. i - 1 = used
      BY <3>4, <3>5
    <3> QED
      BY <3>6, Types
  <2>7. n \in Number \ F!InUse
    BY <2>5, <2>6, Types DEF F!InUse
  <2>8. BadFrame = 0 /\ BadFrame' = 0
    <3>1. ~(err_stack > 0)
      BY <2>1
    <3> QED
      BY <1>1, <2>1, <3>1, Zenon DEF BadFrame
  <2>9. F!Take
    BY <1>1, <2>1, <2>4, <2>7, <2>8, Types DEF F!Take
  <2> QED
    BY <2>9
<1> QED
  BY <1>2, <1>3, <1>4 DEF BN_CTX_get

LEMMA Refines == CtxInv /\ [CtxNext]_ctxVars => [F!FramesNext]_(F!frameVars)
<1> SUFFICES ASSUME CtxInv, [CtxNext]_ctxVars PROVE [F!FramesNext]_(F!frameVars)
  OBVIOUS
<1>1. CASE BN_CTX_start
  <2>1. marks' = Append(marks, Len(given)) /\ UNCHANGED <<too_many, given>>
    BY <1>1 DEF BN_CTX_start
  <2>2. CASE StartCounts
    <3>1. (err_stack > 0 \/ too_many) /\ err_stack' > 0 /\ stack' = stack
      BY <2>2, Types DEF StartCounts
    <3>2. BadFrame' = BadFrame
      BY <2>1, <3>1, Zenon DEF BadFrame
    <3> QED
      BY <2>1, <3>2 DEF F!FramesNext, F!Open
  <2>3. CASE StartPushes
    <3>1. ~(err_stack > 0) /\ ~too_many /\ err_stack' = err_stack
      BY <2>3, Types DEF StartPushes
    <3>2. BadFrame = 0 /\ BadFrame' = 0
      BY <2>1, <3>1, Zenon DEF BadFrame
    <3> QED
      BY <2>1, <3>2 DEF F!FramesNext, F!Open
  <2>4. CASE StartFails
    <3>1. ~(err_stack > 0) /\ ~too_many /\ err_stack' > 0 /\ stack' = stack
      BY <2>4 DEF StartFails
    <3>2. Len(marks) = Len(stack.indexes)
      BY <2>4, Types DEF StartFails
    <3>3. BadFrame = 0 /\ BadFrame' = Len(marks) + 1
      BY <2>1, <3>1, <3>2, Zenon DEF BadFrame
    <3> QED
      BY <2>1, <3>3 DEF F!FramesNext, F!Open
  <2> QED
    BY <1>1, <2>2, <2>3, <2>4 DEF BN_CTX_start
<1>2. CASE BN_CTX_end
  <2>1. /\ given' = SubSeq(given, 1, marks[Len(marks)])
        /\ marks' = SubSeq(marks, 1, Len(marks) - 1) /\ marks # <<>>
    BY <1>2 DEF BN_CTX_end
  <2>2. BadFrame' = IF BadFrame = Len(marks) THEN 0 ELSE BadFrame
    <3>1. CASE EndCounts
      <4>1. err_stack > 0 /\ err_stack' = err_stack - 1 /\ UNCHANGED <<stack, too_many>>
        BY <3>1 DEF EndCounts
      <4>0. /\ err_stack \in Nat /\ Len(stack.indexes) \in Nat
            /\ Len(marks) = Len(stack.indexes) + err_stack
        BY Types
      <4>2. CASE too_many
        <5>1. BadFrame = Len(stack.indexes) /\ BadFrame' = BadFrame
          BY <4>1, <4>2, Zenon DEF BadFrame
        <5>2. Len(stack.indexes) # Len(marks)
          BY <4>0, <4>1
        <5> QED
          BY <5>1, <5>2
      <4>3. CASE ~too_many
        <5>1. BadFrame = Len(stack.indexes) + 1
          BY <4>1, <4>3, Zenon DEF BadFrame
        <5>2. BadFrame' = IF err_stack' > 0 THEN Len(stack.indexes) + 1 ELSE 0
          BY <4>1, <4>3, Zenon DEF BadFrame
        <5>3. CASE err_stack = 1
          <6>1. ~(err_stack' > 0) /\ Len(marks) = Len(stack.indexes) + 1
            BY <4>0, <4>1, <5>3
          <6> QED
            BY <5>1, <5>2, <6>1
        <5>4. CASE err_stack # 1
          <6>1. err_stack' > 0 /\ Len(marks) # Len(stack.indexes) + 1
            BY <4>0, <4>1, <5>4
          <6> QED
            BY <5>1, <5>2, <6>1
        <5> QED
          BY <5>3, <5>4
      <4> QED
        BY <4>2, <4>3
    <3>2. CASE EndPops
      <4>1. err_stack = 0 /\ err_stack' = 0 /\ ~too_many'
        BY <3>2 DEF EndPops
      <4>2. /\ Len(marks) = Len(stack.indexes) /\ Len(marks) # 0
            /\ ~(err_stack > 0) /\ ~(err_stack' > 0)
        BY <2>1, <4>1, Types
      <4>3. BadFrame' = 0 /\ (BadFrame = 0 \/ BadFrame = Len(marks))
        BY <4>1, <4>2, Zenon DEF BadFrame
      <4> QED
        BY <4>3
    <3> QED
      BY <1>2, <3>1, <3>2 DEF BN_CTX_end
  <2> QED
    BY <2>1, <2>2 DEF F!FramesNext, F!Close
<1>3. CASE BN_CTX_get
  BY <1>3, TakesFreshNumber DEF F!FramesNext
<1>4. CASE BN_CTX_init
  <2>1. ~(err_stack' > 0) /\ ~too_many' /\ given' = <<>> /\ marks' = <<>>
    BY <1>4 DEF BN_CTX_init
  <2>2. BadFrame' = 0
    BY <2>1, Zenon DEF BadFrame
  <2> QED
    BY <2>1, <2>2 DEF F!FramesNext, F!Forget
<1>5. CASE UNCHANGED ctxVars
  BY <1>5 DEF ctxVars, F!frameVars, BadFrame
<1> QED
  BY <1>1, <1>2, <1>3, <1>4, <1>5 DEF CtxNext

\* A caller of the context sees frames of numbers, each in use once, and a
\* failure that is over with its frame.
THEOREM Implementation == CtxSpec => ImplementsFrames
<1>1. CtxInit => F!FramesInit
  <2> SUFFICES ASSUME CtxInit PROVE F!FramesInit
    OBVIOUS
  <2>1. ~(err_stack > 0) /\ ~too_many
    BY DEF CtxInit
  <2>2. BadFrame = 0
    BY <2>1, Zenon DEF BadFrame
  <2> QED
    BY <2>2 DEF CtxInit, F!FramesInit
<1> QED
  BY <1>1, CtxInitInv, CtxNextInv, Refines, PTL DEF CtxSpec, ImplementsFrames, F!FramesSpec
=============================================================================
