----------------------------- MODULE StoreSpec -----------------------------
(***************************************************************************)
(* An InMemoryStore used through its public methods by one caller at a     *)
(* time, and the promises it keeps.                                        *)
(***************************************************************************)
EXTENDS MemoryStore, RowsAndFilters

CONSTANT Callers  \* the principals that ask for deletions

ASSUME CallersAssumption == Callers \subseteq Text

StoreNext ==
    \/ \E id \in MemoryIds, row \in Rows : Insert(id, row)
    \/ \E id \in MemoryIds, principal \in Callers : Tombstone(id, principal)
    \/ \E id \in MemoryIds, vector \in VectorIds : BindEmbedding(id, vector)
    \/ Clear

StoreSpec == StoreInit /\ [][StoreNext]_storeVars

-----------------------------------------------------------------------------
(***************************************************************************)
(* Invariants.                                                             *)
(***************************************************************************)
\* list() answers from whichever index fits the filter, with tombstones
\* filtered out again on the way; the answer is that of a scan over every
\* live row, whatever the filter.
ListMatchesScan ==
    \A filters \in Filters :
        List(filters) = {id \in MemoryIds :
                            /\ Live(id)
                            /\ MatchesTags(entries[id], filters)
                            /\ PassesAcl(entries[id], filters) = "grant"}

\* A row that an entity marker protects reaches nobody whom neither its owner
\* nor its tags vouch for, through no combination of filters (ADR 0004).
\* Without requester and principal there is nobody to check.
ProtectedRowsStayHidden ==
    \A filters \in Filters : \A id \in List(filters) :
        LET reader == EffectiveRequester(filters)
        IN  \/ reader = None
            \/ LeakTargets(entries[id].metadata) = {}
            \/ reader = entries[id].principal
            \/ Vouched(reader, entries[id], filters.relationship)

\* A principal that reads its own rows is never failed by a malformed tag:
\* the TypeError is confined to reads that reach other principals' rows.
OwnReadsNeverRaise ==
    \A filters \in Filters :
        filters.principal # None /\ EffectiveRequester(filters) = filters.principal
            => ~ListRaises(filters)

-----------------------------------------------------------------------------
(***************************************************************************)
(* What a step may not do.                                                 *)
(***************************************************************************)
\* Once an id that named a row stops being readable it stays unreadable, its
\* embedding too: no later insert, bind or clear brings it back.
DeletionIsFinal ==
    [][\A id \in minted : Get(id) = None => Get(id)' = None /\ EmbeddingVectorId(id)' = None]_storeVars

\* A row is written once: while it is held, nothing rewrites its content, and
\* only clear() drops it, so that a deleted row stays there for audit.
RowsAreImmutable ==
    [][\A id \in MemoryIds :
          Known(id) => \/ entries'[id] = entries[id]
                       \/ entries' = [i \in MemoryIds |-> None]]_storeVars

-----------------------------------------------------------------------------
(***************************************************************************)
(* The store implements MemoryLifecycle, seen through its two point reads. *)
(***************************************************************************)
Lifecycle == INSTANCE MemoryLifecycle WITH
    row    <- [id \in MemoryIds |-> Get(id)],
    vector <- [id \in MemoryIds |-> EmbeddingVectorId(id)],
    spent  <- minted

\* Every call on the store is one step of the life of a memory, or none.
ImplementsLifecycle == Lifecycle!LifecycleSpec
=============================================================================
