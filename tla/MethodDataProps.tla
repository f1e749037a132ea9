--------------------------- MODULE MethodDataProps ---------------------------
(* What must hold of a key's method data, and that it implements MethodCell. *)
EXTENDS MethodData

Entry == [kind : Kinds, data : Addresses]

(* The state has its type, and each phase of a call owns what it should.     *)
TypeOK ==
  /\ method_data \subseteq Entry /\ references \in Int
  /\ live \subseteq Addresses /\ holds \subseteq Threads
  /\ pc \in [Threads -> {"idle", "new", "insert", "confirm", "destroy"}]
  /\ kind \in [Threads -> Kinds]
  /\ own \in [Threads -> Addresses \cup {NULL}]
  /\ held \in [Threads -> [Kinds -> Addresses \cup {NULL}]]
  /\ failed \in [Threads -> BOOLEAN]

(* Every record in memory is in the key's list or in the hands of the one    *)
(* call that made it, and in one place only: nothing leaks and nothing is    *)
(* freed twice, whoever wins the race (ecs_lib.c:188-213). A call that has   *)
(* inserted its record has it in both places until it has looked.            *)
Listed == {entry.data : entry \in method_data}

OneOwner ==
  /\ live = Listed \cup {own[t] : t \in {u \in Threads : own[u] # NULL}}
  /\ \A t, u \in Threads : own[t] # NULL /\ own[t] = own[u] => t = u
  /\ \A t \in Threads : own[t] \in Listed =>
       pc[t] = "confirm" /\ [kind |-> kind[t], data |-> own[t]] \in method_data
  /\ \A a, b \in method_data : a.kind = b.kind \/ a.data = b.data => a = b

(* What a check returned stays good: while a thread holds the key, its       *)
(* pointer is to the live record of that kind, and so all threads have the   *)
(* same one. EC_EX_DATA_free_all_data (ec_key.c:133) frees none in use.      *)
HeldIsLive ==
  \A t \in Threads, k \in Kinds : held[t][k] # NULL =>
    /\ t \in holds
    /\ held[t][k] \in live
    /\ [kind |-> k, data |-> held[t][k]] \in method_data

(* The count is the number of holders, a call is made by a holder, and the   *)
(* key is destroyed once, by the last (ec_key.c:106-123).                    *)
KeyOutlivesHolders ==
  /\ references = Cardinality(holds)
  /\ \A t \in Threads : pc[t] \in {"new", "insert", "confirm"} => t \in holds
  /\ \A t \in Threads : pc[t] = "destroy" => holds = {}
  /\ \A t, u \in Threads : pc[t] = "destroy" /\ pc[u] = "destroy" => t = u

(* A check gives NULL only when an allocation failed in it; a lost race is   *)
(* no reason (ecs_lib.c:199-213).                                            *)
InCheck(t) == pc[t] \in {"new", "insert", "confirm"}

NullMeansNoMemory ==
  [][\A t \in Threads : InCheck(t) /\ pc'[t] = "idle" =>
       held'[t][kind[t]] # NULL \/ failed'[t]]_vars

(* The threads see one cell per kind, set once.                              *)
M == INSTANCE MethodCell WITH cell <- [k \in Kinds |-> DataOf(k)]
ImplementsCell == M!CellSpec

(* A call that has begun returns, and the last holder's departure leaves     *)
(* nothing behind.                                                           *)
ChecksReturn == \A t \in Threads : pc[t] # "idle" ~> pc[t] = "idle"
NothingLeft == holds = {} ~> live = {}
=============================================================================
