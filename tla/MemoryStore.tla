---------------------------- MODULE MemoryStore ----------------------------
(***************************************************************************)
(* store.py: the in-memory store, its two indexes, its tombstones and its  *)
(* embedding index.  Each action is one whole method call.                 *)
(*                                                                         *)
(* A dict is a total function whose missing keys map to None; an index is  *)
(* a total function whose missing keys map to the empty set, which is what *)
(* its readers make of them.                                               *)
(***************************************************************************)
EXTENDS Governance

CONSTANTS MemoryIds,  \* what uuid4 can return; also bounds the rows ever made
          VectorIds   \* the ids of an external embedding index

ASSUME IdAssumption ==
    /\ None \notin MemoryEntry
    /\ None \notin VectorIds
    /\ IsFiniteSet(MemoryIds)

VARIABLES
    entries,      \* _entries: deleted rows stay in it
    byPrincipal,  \* _by_principal
    byScope,      \* _by_scope
    tombstones,   \* _tombstones: who deleted the row, or None
    embeddings,   \* _embedding_index
    minted        \* history: the ids uuid4 has handed out, which never repeat

storeVars == <<entries, byPrincipal, byScope, tombstones, embeddings, minted>>

StoreTypeOK ==
    /\ entries \in [MemoryIds -> Optional(MemoryEntry)]
    /\ byPrincipal \in [Text -> SUBSET MemoryIds]
    /\ byScope \in [Text -> SUBSET MemoryIds]
    /\ tombstones \in [MemoryIds -> Optional(Text)]
    /\ embeddings \in [MemoryIds -> Optional(VectorIds)]
    /\ minted \subseteq MemoryIds

Known(id)        == entries[id] # None
IsTombstoned(id) == tombstones[id] # None
Live(id)         == Known(id) /\ ~IsTombstoned(id)

-----------------------------------------------------------------------------
(***************************************************************************)
(* Reads.                                                                  *)
(***************************************************************************)
Get(id) == IF IsTombstoned(id) THEN None ELSE entries[id]

\* Mutant: tombstone() has dropped the vector, so that the index alone is asked.
EmbeddingVectorIdUnchecked(id) == embeddings[id]

EmbeddingVectorId(id) == IF IsTombstoned(id) THEN None ELSE embeddings[id]

\* Mutant: two named tags widen the candidate set instead of narrowing it.
IndexedIdsUnion(filters) ==
    IF filters.principal # None /\ filters.scope # None
    THEN byPrincipal[filters.principal] \cup byScope[filters.scope]
    ELSE IF filters.principal # None THEN byPrincipal[filters.principal]
    ELSE IF filters.scope # None THEN byScope[filters.scope]
    ELSE {id \in MemoryIds : Known(id)}

\* The ids list() considers: an intersection of index buckets when the
\* filter names a principal or a scope, every entry otherwise.
IndexedIds(filters) ==
    IF filters.principal # None /\ filters.scope # None
    THEN byPrincipal[filters.principal] \cap byScope[filters.scope]
    ELSE IF filters.principal # None THEN byPrincipal[filters.principal]
    ELSE IF filters.scope # None THEN byScope[filters.scope]
    ELSE {id \in MemoryIds : Known(id)}

HasClassification(id, filters) ==
    filters.classification # None => entries[id].classification = filters.classification

\* The rows that reach the ACL.
SelectedIds(filters) ==
    {id \in IndexedIds(filters) : ~IsTombstoned(id) /\ HasClassification(id, filters)}

\* list(filters) throws when the check of one selected row does.
ListRaises(filters) ==
    \E id \in SelectedIds(filters) : PassesAcl(entries[id], filters) = "raise"

\* list(filters), as the set of ids of the rows returned.
List(filters) == {id \in SelectedIds(filters) : PassesAcl(entries[id], filters) = "grant"}

\* list(None): no filter, and no ACL either.
ListAll == {id \in MemoryIds : Live(id)}

Count ==
    Cardinality({id \in MemoryIds : Known(id)})
        - Cardinality({id \in MemoryIds : IsTombstoned(id)})

-----------------------------------------------------------------------------
(***************************************************************************)
(* Writes.                                                                 *)
(***************************************************************************)
StoreInit ==
    /\ entries = [id \in MemoryIds |-> None]
    /\ byPrincipal = [p \in Text |-> {}]
    /\ byScope = [s \in Text |-> {}]
    /\ tombstones = [id \in MemoryIds |-> None]
    /\ embeddings = [id \in MemoryIds |-> None]
    /\ minted = {}

\* insert of a row that from_candidate has just made under a fresh id.
Insert(id, row) ==
    /\ id \notin minted
    /\ minted' = minted \cup {id}
    /\ entries' = [entries EXCEPT ![id] = row]
    /\ byPrincipal' = [byPrincipal EXCEPT ![row.principal] = @ \cup {id}]
    /\ byScope' = [byScope EXCEPT ![row.scope] = @ \cup {id}]
    /\ UNCHANGED <<tombstones, embeddings>>

\* The three conditions under which tombstone() returns True.
MayTombstone(id, principal) == Live(id) /\ principal = entries[id].principal

\* Mutant: anybody may delete a row.
TombstoneByAnyone(id, principal) ==
    IF Live(id)
    THEN /\ tombstones' = [tombstones EXCEPT ![id] = principal]
         /\ byPrincipal' = [byPrincipal EXCEPT ![entries[id].principal] = @ \ {id}]
         /\ byScope' = [byScope EXCEPT ![entries[id].scope] = @ \ {id}]
         /\ embeddings' = [embeddings EXCEPT ![id] = None]
         /\ UNCHANGED <<entries, minted>>
    ELSE UNCHANGED storeVars

\* Mutant: the row is dropped from the dict as well as tombstoned.
TombstoneErasesRow(id, principal) ==
    IF MayTombstone(id, principal)
    THEN /\ tombstones' = [tombstones EXCEPT ![id] = principal]
         /\ byPrincipal' = [byPrincipal EXCEPT ![entries[id].principal] = @ \ {id}]
         /\ byScope' = [byScope EXCEPT ![entries[id].scope] = @ \ {id}]
         /\ embeddings' = [embeddings EXCEPT ![id] = None]
         /\ entries' = [entries EXCEPT ![id] = None]
         /\ UNCHANGED minted
    ELSE UNCHANGED storeVars

\* tombstone(): a refused call returns False and changes nothing.
Tombstone(id, principal) ==
    IF MayTombstone(id, principal)
    THEN /\ tombstones' = [tombstones EXCEPT ![id] = principal]
         /\ byPrincipal' = [byPrincipal EXCEPT ![entries[id].principal] = @ \ {id}]
         /\ byScope' = [byScope EXCEPT ![entries[id].scope] = @ \ {id}]
         /\ embeddings' = [embeddings EXCEPT ![id] = None]
         /\ UNCHANGED <<entries, minted>>
    ELSE UNCHANGED storeVars

\* bind_embedding(): a later vector for the same row replaces the earlier.
BindEmbedding(id, vector) ==
    IF Live(id)
    THEN /\ embeddings' = [embeddings EXCEPT ![id] = vector]
         /\ UNCHANGED <<entries, byPrincipal, byScope, tombstones, minted>>
    ELSE UNCHANGED storeVars

\* Mutant: clear() misses the embedding index.
ClearKeepsEmbeddings ==
    /\ entries' = [id \in MemoryIds |-> None]
    /\ byPrincipal' = [p \in Text |-> {}]
    /\ byScope' = [s \in Text |-> {}]
    /\ tombstones' = [id \in MemoryIds |-> None]
    /\ UNCHANGED <<embeddings, minted>>

\* clear()
Clear ==
    /\ entries' = [id \in MemoryIds |-> None]
    /\ byPrincipal' = [p \in Text |-> {}]
    /\ byScope' = [s \in Text |-> {}]
    /\ tombstones' = [id \in MemoryIds |-> None]
    /\ embeddings' = [id \in MemoryIds |-> None]
    /\ UNCHANGED minted

-----------------------------------------------------------------------------
(***************************************************************************)
(* What the five structures must agree on.                                 *)
(***************************************************************************)
\* The row satisfies the three tag filters of the request.
MatchesTags(row, filters) ==
    /\ filters.principal # None => row.principal = filters.principal
    /\ filters.scope # None => row.scope = filters.scope
    /\ filters.classification # None => row.classification = filters.classification

\* Each index lists exactly the live rows that carry its tag.  insert() and
\* tombstone() maintain the two indexes by hand, one statement after another.
IndexCoherent ==
    \A id \in MemoryIds :
        /\ \A p \in Text : id \in byPrincipal[p] <=> Live(id) /\ entries[id].principal = p
        /\ \A s \in Text : id \in byScope[s] <=> Live(id) /\ entries[id].scope = s

\* No vector id is left behind for a row that is gone: the index itself is
\* clean, and not only what embedding_vector_id() lets through (ADR 0004,
\* "recoverable ghosts in retrieval").
NoGhostEmbedding ==
    \A id \in MemoryIds : embeddings[id] # None => Live(id)

\* A tombstone sits on a row that is still held for audit (ADR 0004), and
\* names the owner of that row as the one who deleted it.
TombstoneByOwner ==
    \A id \in MemoryIds :
        IsTombstoned(id) => Known(id) /\ tombstones[id] = entries[id].principal

\* An id in the dict is one that was handed out.
OnlyMintedKnown == \A id \in MemoryIds : Known(id) => id \in minted

\* count() subtracts one dict's size from another's; it is the number of live
\* rows only because tombstones never outnumber or miss the rows.
CountIsLive == Count = Cardinality(ListAll)

\* The inductive invariant: what a deletion or a query takes for granted.
StoreInv ==
    /\ StoreTypeOK
    /\ IndexCoherent
    /\ NoGhostEmbedding
    /\ TombstoneByOwner
    /\ OnlyMintedKnown
=============================================================================
