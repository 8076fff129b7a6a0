-------------------------- MODULE MemoryLifecycle --------------------------
(***************************************************************************)
(* What a store promises its readers, without indexes and tombstones: an   *)
(* id is fresh, then a row can be read under it, then it is gone for good. *)
(***************************************************************************)
CONSTANTS MemoryIds, VectorIds, Rows, None

VARIABLES
    row,     \* what get() returns for an id, or None
    vector,  \* what embedding_vector_id() returns for an id, or None
    spent    \* the ids that have ever named a row

lifecycleVars == <<row, vector, spent>>

LifecycleInit ==
    /\ row = [id \in MemoryIds |-> None]
    /\ vector = [id \in MemoryIds |-> None]
    /\ spent = {}

\* A row appears under an id that never named one before.
Remember(id, content) ==
    /\ id \notin spent
    /\ spent' = spent \cup {id}
    /\ row' = [row EXCEPT ![id] = content]
    /\ UNCHANGED vector

\* A readable row gets a vector id, or another one.
Link(id, v) ==
    /\ row[id] # None
    /\ vector' = [vector EXCEPT ![id] = v]
    /\ UNCHANGED <<row, spent>>

\* The row and its vector disappear from every read together.
Erase(id) ==
    /\ row[id] # None
    /\ row' = [row EXCEPT ![id] = None]
    /\ vector' = [vector EXCEPT ![id] = None]
    /\ UNCHANGED spent

\* Everything does.
EraseAll ==
    /\ row' = [id \in MemoryIds |-> None]
    /\ vector' = [id \in MemoryIds |-> None]
    /\ UNCHANGED spent

LifecycleNext ==
    \/ \E id \in MemoryIds, content \in Rows : Remember(id, content)
    \/ \E id \in MemoryIds, v \in VectorIds : Link(id, v)
    \/ \E id \in MemoryIds : Erase(id)
    \/ EraseAll

LifecycleSpec == LifecycleInit /\ [][LifecycleNext]_lifecycleVars
=============================================================================
