--------------------------- MODULE ThreadedStore ---------------------------
(***************************************************************************)
(* The store seen from outside while the threads of GateThreads write to   *)
(* it statement by statement: what its two point reads show, and where     *)
(* the vectors of deleted rows come from.                                  *)
(***************************************************************************)
EXTENDS GateThreads

VARIABLE raced  \* history: the ids deleted while a binding was at its bind

ThreadedStoreInit == ThreadsInit /\ raced = {}

\* tombstone() marks the row, in this step, for which some bind_embedding()
\* has passed its check and not yet bound its vector.
Overtaken(id) ==
    /\ ~IsTombstoned(id) /\ IsTombstoned(id)'
    /\ \E t \in Threads : frame[t].at = "bind" /\ frame[t].id = id

ThreadedStoreNext ==
    /\ ThreadsNext
    /\ raced' = raced \cup {id \in MemoryIds : Overtaken(id)}

ThreadedStoreSpec == ThreadedStoreInit /\ [][ThreadedStoreNext]_<<threadVars, raced>>

-----------------------------------------------------------------------------
\* The deletion of the row is between its mark and its last statement.
BeingDeleted(id) ==
    \E t \in Threads : frame[t].id = id /\ frame[t].at \in {"unindex", "unscope", "unbind"}

\* A vector stays with a deleted row only where the deletion overtook a
\* binding between its two statements (store.py:54-56), or has not come to its
\* own last one; no other interleaving of inserts, bindings and deletions, two
\* of one row included, leaves such a ghost.
GhostsComeOfRaces ==
    \A id \in MemoryIds :
        IsTombstoned(id) /\ embeddings[id] # None => id \in raced \/ BeingDeleted(id)

\* The rows that the submissions are worth.
VerifiedRows == {FromCandidate(Outcome[call].candidate) : call \in {c \in Submissions : Admissible(c)}}

Lifecycle == INSTANCE MemoryLifecycle WITH
    Rows   <- VerifiedRows,
    row    <- [id \in MemoryIds |-> Get(id)],
    vector <- [id \in MemoryIds |-> EmbeddingVectorId(id)],
    spent  <- minted

\* Refinement: through get() and embedding_vector_id() no race is seen.  Each
\* statement of each thread is one step in the life of a memory, or none: a
\* deletion takes effect at its mark, all at once and for good, whatever the
\* indexes and the embedding index still hold.
ThreadsImplementLifecycle == Lifecycle!LifecycleSpec
=============================================================================
