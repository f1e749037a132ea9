----------------------------- MODULE MethodData ------------------------------
(* The method data of an EC_KEY that several threads share: ecdsa_check and  *)
(* ecdh_check (ecs_lib.c, ech_lib.c) create it on first use, without holding *)
(* a lock while they do, and the last EC_KEY_free frees it (ec_key.c).       *)
(* A section under CRYPTO_LOCK_EC is one step; between two sections of a     *)
(* call any other thread may run. malloc may fail, and may give out an       *)
(* address that was freed.                                                   *)
EXTENDS Integers, FiniteSets

CONSTANTS
  Threads,    \* the threads that may hold a reference to the key
  Kinds,      \* whose data: {"ECDSA", "ECDH"}, told apart by their callbacks
  Addresses,  \* where malloc may put a data record
  NULL

ASSUME NullAssumption == NULL \notin Addresses
ASSUME ThreadsAssumption == IsFiniteSet(Threads)

VARIABLES
  method_data,  \* key->method_data: a list of entries [kind, data]
  references,   \* key->references
  live,         \* the addresses of the records malloc gave out and not freed
  holds,        \* the threads that own one of the references
  pc, kind,     \* where each thread is in its call, and for whose data
  own,          \* the record the call has made: ecdsa_data
  held,         \* what the thread's last check of each kind returned
  failed        \* history: an allocation of the thread's call failed

vars == <<method_data, references, live, holds, pc, kind, own, held, failed>>

Init == /\ method_data = {} /\ references = 1 /\ live = {}
        /\ \E t \in Threads : holds = {t}
        /\ pc = [t \in Threads |-> "idle"]
        /\ kind \in [Threads -> Kinds]
        /\ own = [t \in Threads |-> NULL]
        /\ held = [t \in Threads |-> [k \in Kinds |-> NULL]]
        /\ failed = [t \in Threads |-> FALSE]

\* EC_EX_DATA_get_data
DataOf(k) == IF \E entry \in method_data : entry.kind = k
             THEN (CHOOSE entry \in method_data : entry.kind = k).data
             ELSE NULL

Goto(t, label) == pc' = [pc EXCEPT ![t] = label]

\* The call returns d: a thread is at "idle" between its calls.
Return(t, d) == /\ Goto(t, "idle")
                /\ held' = [held EXCEPT ![t][kind[t]] = d]
                /\ own' = [own EXCEPT ![t] = NULL]

(* ecdsa_check: is the data there? (a section under the read lock)           *)
Check(t, k) ==
  /\ t \in holds /\ pc[t] = "idle"
  /\ kind' = [kind EXCEPT ![t] = k]
  /\ failed' = [failed EXCEPT ![t] = FALSE]
  /\ IF DataOf(k) # NULL
     THEN held' = [held EXCEPT ![t][k] = DataOf(k)] /\ pc' = pc
     ELSE Goto(t, "new") /\ held' = held
  /\ UNCHANGED <<method_data, references, live, holds, own>>

(* It is not: make it, holding no lock.                                      *)
New(t) ==
  /\ pc[t] = "new"
  /\ \E d \in Addresses \ live :
       /\ live' = live \cup {d}
       /\ own' = [own EXCEPT ![t] = d]
       /\ Goto(t, "insert")
  /\ UNCHANGED <<method_data, references, holds, kind, held, failed>>

NewFails(t) ==
  /\ pc[t] = "new"
  /\ failed' = [failed EXCEPT ![t] = TRUE]
  /\ Return(t, NULL)
  /\ UNCHANGED <<method_data, references, live, holds, kind>>

\* Mutant: the entry points to what the first lookup gave.
Insert_FirstLookup(t) ==
  /\ pc[t] = "insert" /\ DataOf(kind[t]) = NULL
  /\ method_data' = method_data \cup {[kind |-> kind[t], data |-> NULL]}
  /\ Goto(t, "confirm")
  /\ UNCHANGED <<references, live, holds, kind, own, held, failed>>

\* Mutant: no second look before inserting.
Insert_Unchecked(t) ==
  /\ pc[t] = "insert"
  /\ method_data' = method_data \cup {[kind |-> kind[t], data |-> own[t]]}
  /\ Goto(t, "confirm")
  /\ UNCHANGED <<references, live, holds, kind, own, held, failed>>

(* EC_KEY_insert_key_method_data: look again, under the write lock.          *)
Insert(t) ==
  /\ pc[t] = "insert" /\ DataOf(kind[t]) = NULL
  /\ method_data' = method_data \cup {[kind |-> kind[t], data |-> own[t]]}
  /\ Goto(t, "confirm")
  /\ UNCHANGED <<references, live, holds, kind, own, held, failed>>

\* There is no memory for the entry, and the section does not say so.
InsertFails(t) ==
  /\ pc[t] = "insert" /\ DataOf(kind[t]) = NULL
  /\ failed' = [failed EXCEPT ![t] = TRUE]
  /\ Goto(t, "confirm")
  /\ UNCHANGED <<method_data, references, live, holds, kind, own, held>>

\* Mutant: the loser of the race keeps its record.
InsertLost_Leaks(t) ==
  /\ pc[t] = "insert" /\ DataOf(kind[t]) # NULL
  /\ Return(t, DataOf(kind[t]))
  /\ UNCHANGED <<method_data, references, live, holds, kind, failed>>

\* Mutant: the loser of the race takes it for a failure.
InsertLost_GivesUp(t) ==
  /\ pc[t] = "insert" /\ DataOf(kind[t]) # NULL
  /\ live' = live \ {own[t]}
  /\ Return(t, NULL)
  /\ UNCHANGED <<method_data, references, holds, kind, failed>>

\* Another thread raced us and won.
InsertLost(t) ==
  /\ pc[t] = "insert" /\ DataOf(kind[t]) # NULL
  /\ live' = live \ {own[t]}
  /\ Return(t, DataOf(kind[t]))
  /\ UNCHANGED <<method_data, references, holds, kind, failed>>

(* Did it go in? (the read lock again)                                       *)
Confirm(t) ==
  /\ pc[t] = "confirm" /\ DataOf(kind[t]) = own[t]
  /\ Return(t, own[t])
  /\ UNCHANGED <<method_data, references, live, holds, kind, failed>>

\* Mutant: try to insert it again.
ConfirmFails_Retries(t) ==
  /\ pc[t] = "confirm" /\ DataOf(kind[t]) # own[t]
  /\ Goto(t, "insert")
  /\ UNCHANGED <<method_data, references, live, holds, kind, own, held, failed>>

ConfirmFails(t) ==
  /\ pc[t] = "confirm" /\ DataOf(kind[t]) # own[t]
  /\ live' = live \ {own[t]}
  /\ Return(t, NULL)
  /\ UNCHANGED <<method_data, references, holds, kind, failed>>

-----------------------------------------------------------------------------
\* Mutant: the increment of two threads is lost.
UpRef_Lost(t, u) ==
  /\ t \in holds /\ pc[t] = "idle" /\ u \notin holds /\ pc[u] = "idle"
  /\ holds' = holds \cup {u}
  /\ UNCHANGED <<method_data, references, live, pc, kind, own, held, failed>>

(* EC_KEY_up_ref, for a thread that is to share the key.                     *)
UpRef(t, u) ==
  /\ t \in holds /\ pc[t] = "idle" /\ u \notin holds /\ pc[u] = "idle"
  /\ references' = references + 1
  /\ holds' = holds \cup {u}
  /\ UNCHANGED <<method_data, live, pc, kind, own, held, failed>>

\* Mutant: the last but one reference already frees.
Free_OneEarly(t) ==
  /\ t \in holds /\ pc[t] = "idle"
  /\ references' = references - 1
  /\ holds' = holds \ {t}
  /\ held' = [held EXCEPT ![t] = [k \in Kinds |-> NULL]]
  /\ IF references - 1 > 1 THEN pc' = pc ELSE Goto(t, "destroy")
  /\ UNCHANGED <<method_data, live, kind, own, failed>>

(* EC_KEY_free: the decrement is a section, what follows is not.             *)
Free(t) ==
  /\ t \in holds /\ pc[t] = "idle"
  /\ references' = references - 1
  /\ holds' = holds \ {t}
  /\ held' = [held EXCEPT ![t] = [k \in Kinds |-> NULL]]
  /\ IF references - 1 > 0 THEN pc' = pc ELSE Goto(t, "destroy")
  /\ UNCHANGED <<method_data, live, kind, own, failed>>

\* Mutant: only one entry of the list is freed.
Destroy_FirstEntry(t) ==
  /\ pc[t] = "destroy"
  /\ IF method_data = {} THEN live' = live
     ELSE live' = live \ {(CHOOSE entry \in method_data : TRUE).data}
  /\ method_data' = {}
  /\ Goto(t, "idle")
  /\ UNCHANGED <<references, holds, kind, own, held, failed>>

Destroy(t) ==
  /\ pc[t] = "destroy"
  /\ live' = live \ {entry.data : entry \in method_data}
  /\ method_data' = {}
  /\ Goto(t, "idle")
  /\ UNCHANGED <<references, holds, kind, own, held, failed>>

InCall(t) == \/ New(t) \/ NewFails(t)
             \/ Insert(t) \/ InsertFails(t) \/ InsertLost(t)
             \/ Confirm(t) \/ ConfirmFails(t)
             \/ Destroy(t)

Next == \E t \in Threads :
          \/ \E k \in Kinds : Check(t, k)
          \/ \E u \in Threads : UpRef(t, u)
          \/ Free(t)
          \/ InCall(t)

Spec == Init /\ [][Next]_vars
\* A thread inside a call runs on; nothing makes it call, or free the key.
FairSpec == Spec /\ \A t \in Threads : WF_vars(InCall(t))
=============================================================================
