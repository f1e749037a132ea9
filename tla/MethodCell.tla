----------------------------- MODULE MethodCell ------------------------------
(* What the method data of a key promises to the threads that share it: one  *)
(* cell per kind, set at most once while anyone holds the key, and emptied   *)
(* once nobody does. A check answers with what is in the cell, or with NULL. *)
CONSTANTS Threads, Kinds, Addresses, NULL

VARIABLES cell, holds, held

cellVars == <<cell, holds, held>>

CellInit == /\ cell = [k \in Kinds |-> NULL]
            /\ \E t \in Threads : holds = {t}
            /\ held = [t \in Threads |-> [k \in Kinds |-> NULL]]

Install(k, d) == /\ holds # {} /\ cell[k] = NULL
                 /\ \A other \in Kinds : cell[other] # d
                 /\ cell' = [cell EXCEPT ![k] = d]
                 /\ UNCHANGED <<holds, held>>

Answer(t, k) == /\ t \in holds
                /\ \E d \in {cell[k], NULL} : held' = [held EXCEPT ![t][k] = d]
                /\ UNCHANGED <<cell, holds>>

Share(t, u) == /\ t \in holds /\ holds' = holds \cup {u}
               /\ UNCHANGED <<cell, held>>

Leave(t) == /\ t \in holds /\ holds' = holds \ {t}
            /\ held' = [held EXCEPT ![t] = [k \in Kinds |-> NULL]]
            /\ UNCHANGED cell

Wipe == /\ holds = {} /\ cell' = [k \in Kinds |-> NULL]
        /\ UNCHANGED <<holds, held>>

CellNext == \/ \E k \in Kinds, d \in Addresses : Install(k, d)
            \/ \E t \in Threads, k \in Kinds : Answer(t, k)
            \/ \E t, u \in Threads : Share(t, u)
            \/ \E t \in Threads : Leave(t)
            \/ Wipe

CellSpec == CellInit /\ [][CellNext]_cellVars
=============================================================================
