-------------------------- MODULE StoreSpec_proofs --------------------------
(***************************************************************************)
(* What StoreSpec promises, for any ids, rows, callers and filters.        *)
(***************************************************************************)
EXTENDS StoreSpec, AclProbe, StoreAndStages_proofs

\* Every state the store can be brought to satisfies the inductive invariant.
THEOREM StoreInvariant == StoreSpec => []StoreInv
<1>1. StoreInit => StoreInv
    BY StoreInitInv
<1>2. StoreInv /\ [StoreNext]_storeVars => StoreInv'
    <2> SUFFICES ASSUME StoreInv, [StoreNext]_storeVars PROVE StoreInv'
        OBVIOUS
    <2>1. ASSUME NEW id \in MemoryIds, NEW row \in Rows, Insert(id, row)
          PROVE  StoreInv'
        BY <2>1, InsertInv, RowsAndFiltersAssumption
    <2>2. ASSUME NEW id \in MemoryIds, NEW principal \in Callers, Tombstone(id, principal)
          PROVE  StoreInv'
        BY <2>2, TombstoneInv, CallersAssumption
    <2>3. ASSUME NEW id \in MemoryIds, NEW vector \in VectorIds, BindEmbedding(id, vector)
          PROVE  StoreInv'
        BY <2>3, BindEmbeddingInv
    <2>4. CASE Clear
        BY <2>4, ClearInv
    <2>5. CASE UNCHANGED storeVars
        BY <2>5, UnchangedInv
    <2> QED
        BY <2>1, <2>2, <2>3, <2>4, <2>5 DEF StoreNext
<1> QED
    BY <1>1, <1>2, PTL DEF StoreSpec

\* store.py's dicts keep the types that they are declared with.
THEOREM StoreTypes == StoreSpec => []StoreTypeOK
<1>1. StoreInv => StoreTypeOK
    BY DEF StoreInv
<1> QED
    BY <1>1, StoreInvariant, PTL

\* store.py's two tag indexes list exactly the live rows, in any history of calls.
THEOREM StoreSafety == StoreSpec => []IndexCoherent
<1>1. StoreInv => IndexCoherent
    BY DEF StoreInv
<1> QED
    BY <1>1, StoreInvariant, PTL

\* No deleted row keeps a vector: tombstone() pops it, and bind_embedding()
\* refuses a deleted row.
THEOREM GhostsExcluded == StoreSpec => []NoGhostEmbedding
<1>1. StoreInv => NoGhostEmbedding
    BY DEF StoreInv
<1> QED
    BY <1>1, StoreInvariant, PTL

\* A tombstone sits on a row and names its owner, whoever calls tombstone().
THEOREM TombstonesAreOwners == StoreSpec => []TombstoneByOwner
<1>1. StoreInv => TombstoneByOwner
    BY DEF StoreInv
<1> QED
    BY <1>1, StoreInvariant, PTL

\* count(), a difference of two sizes, is the number of rows that get() shows.
THEOREM CountRight == StoreSpec => []CountIsLive
<1>1. StoreInv => CountIsLive
    BY CountIsLiveInv
<1> QED
    BY <1>1, StoreInvariant, PTL

\* list() answers as a scan of the live rows would, for every filter.
THEOREM QueryCorrect == StoreSpec => []ListMatchesScan
<1>1. StoreInv => ListMatchesScan
    <2> SUFFICES ASSUME StoreInv, NEW filters \in Filters
                 PROVE  List(filters) = {id \in MemoryIds :
                                            /\ Live(id)
                                            /\ MatchesTags(entries[id], filters)
                                            /\ PassesAcl(entries[id], filters) = "grant"}
        BY DEF ListMatchesScan
    <2>1. filters \in RetrievalFilter
        BY RowsAndFiltersAssumption
    <2> QED
        BY <2>1, SelectedIsScan DEF List
<1> QED
    BY <1>1, StoreInvariant, PTL

\* A row under a leak target reaches only its owner and those its tags vouch
\* for, whatever else the filter says.
THEOREM ProtectionHolds == StoreSpec => []ProtectedRowsStayHidden
<1>1. StoreInv => ProtectedRowsStayHidden
    <2> SUFFICES ASSUME StoreInv, NEW filters \in Filters, NEW id \in List(filters),
                        EffectiveRequester(filters) # None,
                        LeakTargets(entries[id].metadata) # {},
                        EffectiveRequester(filters) # entries[id].principal
                 PROVE  Vouched(EffectiveRequester(filters), entries[id], filters.relationship)
        BY DEF ProtectedRowsStayHidden
    <2>1. CanRead(EffectiveRequester(filters), entries[id],
                  filters.relationship, filters.team_id) = "grant"
        BY DEF List, PassesAcl
    <2>2. VouchedFor(EffectiveRequester(filters), entries[id], filters.relationship) = "grant"
        BY <2>1 DEF CanRead, LeakTargetAuthorized
    <2> QED
        BY <2>2 DEF VouchedFor, Vouched
<1> QED
    BY <1>1, StoreInvariant, PTL

\* A principal that lists its own rows gets them: no tag makes that read throw.
THEOREM OwnReadsSucceed == StoreSpec => []OwnReadsNeverRaise
<1>1. StoreInv => OwnReadsNeverRaise
    <2> SUFFICES ASSUME StoreInv, NEW filters \in Filters, filters.principal # None,
                        EffectiveRequester(filters) = filters.principal,
                        NEW id \in SelectedIds(filters)
                 PROVE  PassesAcl(entries[id], filters) = "grant"
        BY DEF OwnReadsNeverRaise, ListRaises
    <2>1. entries[id].principal = filters.principal
        BY SelectedIsScan, RowsAndFiltersAssumption DEF MatchesTags
    <2> QED
        BY <2>1 DEF PassesAcl, CanRead, LeakTargetAuthorized
<1> QED
    BY <1>1, StoreInvariant, PTL

-----------------------------------------------------------------------------
\* An id that has been used and reads as None never reads as anything else.
THEOREM DeletionFinal == StoreSpec => DeletionIsFinal
<1> DEFINE Final == \A id \in minted :
                        Get(id) = None => Get(id)' = None /\ EmbeddingVectorId(id)' = None
<1>1. StoreInv /\ StoreInv' /\ [StoreNext]_storeVars => Final \/ UNCHANGED storeVars
    <2> SUFFICES ASSUME StoreInv, StoreInv', StoreNext, NEW id \in minted, Get(id) = None
                 PROVE  Get(id)' = None /\ EmbeddingVectorId(id)' = None
        OBVIOUS
    <2>1. id \in MemoryIds /\ ~Live(id)
        BY DEF StoreInv, StoreTypeOK, Get, Live, Known
    <2>2. ~Live(id)'
        <3>1. ASSUME NEW other \in MemoryIds, NEW row \in Rows, Insert(other, row)
              PROVE  ~Live(id)'
            BY <2>1, <3>1 DEF StoreInv, StoreTypeOK, Insert, Live, Known, IsTombstoned
        <3>2. ASSUME NEW other \in MemoryIds, NEW principal \in Callers,
                     Tombstone(other, principal)
              PROVE  ~Live(id)'
            BY <2>1, <3>2, CallersAssumption, TextAssumption
            DEF StoreInv, StoreTypeOK, Tombstone, Live, Known, IsTombstoned, storeVars
        <3>3. ASSUME NEW other \in MemoryIds, NEW vector \in VectorIds,
                     BindEmbedding(other, vector)
              PROVE  ~Live(id)'
            BY <2>1, <3>3 DEF BindEmbedding, Live, Known, IsTombstoned, storeVars
        <3>4. CASE Clear
            BY <2>1, <3>4 DEF Clear, Live, Known, IsTombstoned
        <3> QED
            BY <3>1, <3>2, <3>3, <3>4 DEF StoreNext
    <2>3. embeddings'[id] = None
        BY <2>1, <2>2 DEF StoreInv, NoGhostEmbedding
    <2> QED
        BY <2>2, <2>3 DEF Get, EmbeddingVectorId, Live, Known, IsTombstoned
<1>2. StoreInv /\ StoreInv' /\ [StoreNext]_storeVars => [Final]_storeVars
    BY <1>1
<1> QED
    BY <1>2, StoreInvariant, PTL DEF StoreSpec, DeletionIsFinal

\* Nothing rewrites a row, and only clear() drops one.
THEOREM RowsImmutable == StoreSpec => RowsAreImmutable
<1> DEFINE Kept == \A id \in MemoryIds :
                       Known(id) => \/ entries'[id] = entries[id]
                                    \/ entries' = [i \in MemoryIds |-> None]
<1>1. StoreInv /\ [StoreNext]_storeVars => [Kept]_storeVars
    <2> SUFFICES ASSUME StoreInv, StoreNext, NEW id \in MemoryIds, Known(id)
                 PROVE  \/ entries'[id] = entries[id]
                        \/ entries' = [i \in MemoryIds |-> None]
        OBVIOUS
    <2>1. ASSUME NEW other \in MemoryIds, NEW row \in Rows, Insert(other, row)
          PROVE  entries'[id] = entries[id]
        BY <2>1 DEF StoreInv, StoreTypeOK, OnlyMintedKnown, Insert
    <2>2. ASSUME NEW other \in MemoryIds, NEW principal \in Callers,
                 Tombstone(other, principal)
          PROVE  entries'[id] = entries[id]
        BY <2>2 DEF Tombstone, storeVars
    <2>3. ASSUME NEW other \in MemoryIds, NEW vector \in VectorIds,
                 BindEmbedding(other, vector)
          PROVE  entries'[id] = entries[id]
        BY <2>3 DEF BindEmbedding, storeVars
    <2>4. CASE Clear
        BY <2>4 DEF Clear
    <2> QED
        BY <2>1, <2>2, <2>3, <2>4 DEF StoreNext
<1> QED
    BY <1>1, StoreInvariant, PTL DEF StoreSpec, RowsAreImmutable

-----------------------------------------------------------------------------
(***************************************************************************)
(* Refinement.                                                             *)
(***************************************************************************)
\* Seen through get() and embedding_vector_id(), each call on the store is one
\* step in the life of a memory, or changes nothing that a reader sees.
LEMMA StepRefines ==
    StoreInv /\ StoreInv' /\ [StoreNext]_storeVars
        => [Lifecycle!LifecycleNext]_(Lifecycle!lifecycleVars)
<1> SUFFICES ASSUME StoreInv, StoreInv', [StoreNext]_storeVars
             PROVE  [Lifecycle!LifecycleNext]_(Lifecycle!lifecycleVars)
    OBVIOUS
<1> USE DEF StoreInv, StoreTypeOK, Lifecycle!lifecycleVars, Lifecycle!LifecycleNext,
            Get, EmbeddingVectorId, IsTombstoned
<1>1. ASSUME NEW id \in MemoryIds, NEW row \in Rows, Insert(id, row)
      PROVE  Lifecycle!Remember(id, row)
    <2>1. ~Known(id) /\ ~IsTombstoned(id)
        BY <1>1 DEF Insert, OnlyMintedKnown, TombstoneByOwner
    <2> QED
        BY <1>1, <2>1 DEF Insert, Lifecycle!Remember
<1>2. ASSUME NEW id \in MemoryIds, NEW principal \in Callers, Tombstone(id, principal)
      PROVE  Lifecycle!Erase(id) \/ UNCHANGED Lifecycle!lifecycleVars
    <2>1. CASE MayTombstone(id, principal)
        <3>1. principal # None
            BY CallersAssumption, TextAssumption
        <3> QED
            BY <1>2, <2>1, <3>1
            DEF Tombstone, MayTombstone, Live, Known, Lifecycle!Erase
    <2>2. CASE ~MayTombstone(id, principal)
        BY <1>2, <2>2 DEF Tombstone, storeVars
    <2> QED
        BY <2>1, <2>2
<1>3. ASSUME NEW id \in MemoryIds, NEW vector \in VectorIds, BindEmbedding(id, vector)
      PROVE  Lifecycle!Link(id, vector) \/ UNCHANGED Lifecycle!lifecycleVars
    BY <1>3 DEF BindEmbedding, Live, Known, storeVars, Lifecycle!Link
<1>4. CASE Clear
    BY <1>4 DEF Clear, Lifecycle!EraseAll
<1>5. CASE UNCHANGED storeVars
    BY <1>5 DEF storeVars
<1> QED
    BY <1>1, <1>2, <1>3, <1>4, <1>5 DEF StoreNext

\* The store implements the abstract life of a memory.
THEOREM StoreRefinesLifecycle == StoreSpec => ImplementsLifecycle
<1>1. StoreInit => Lifecycle!LifecycleInit
    BY DEF StoreInit, Lifecycle!LifecycleInit, Get, EmbeddingVectorId, IsTombstoned
<1> QED
    BY <1>1, StepRefines, StoreInvariant, PTL
    DEF StoreSpec, ImplementsLifecycle, Lifecycle!LifecycleSpec

-----------------------------------------------------------------------------
(***************************************************************************)
(* The access rules, for every row and every filter.                       *)
(***************************************************************************)
\* On tags that can be iterated the delegate and relationship tests succeed
\* exactly when one of the two tags vouches for the reader, and never throw.
LEMMA VouchedForIsVouched ==
    ASSUME NEW requester, NEW entry, NEW relationship, WellTagged(entry)
    PROVE  /\ VouchedFor(requester, entry, relationship) = "grant"
                 <=> Vouched(requester, entry, relationship)
           /\ VouchedFor(requester, entry, relationship) # "raise"
BY DEF WellTagged, VouchedFor, Vouched, Delegates, AllowedRelationships

\* Those tests throw exactly where the tag that they get to is null.
LEMMA RaiseNeedsNullVoucher ==
    ASSUME Reader # None
    PROVE  VouchedFor(Reader, probed, asked.relationship) = "raise" <=> VoucherIsNull
BY DEF VouchedFor, VoucherIsNull

\* The row and the filter under probe keep their types.
THEOREM ProbeTyped == ProbeSpec => [](probed \in Rows /\ asked \in Filters)
<1>1. ProbeInit => probed \in Rows /\ asked \in Filters
    BY DEF ProbeInit
<1>2. probed \in Rows /\ asked \in Filters /\ [ProbeNext]_probeVars
          => (probed \in Rows /\ asked \in Filters)'
    BY DEF ProbeNext, Read, probeVars
<1> QED
    BY <1>1, <1>2, PTL DEF ProbeSpec

\* can_read grants what ADR 0004 grants, on every row whose tags can be
\* iterated: the owner, an open enough scope, a voucher for protected rows.
THEOREM AclIsAdr == ProbeSpec => []AclMatchesAdr
<1>1. AclMatchesAdr
    <2> SUFFICES ASSUME Reader # None, WellTagged(probed)
                 PROVE  PassesAcl(probed, asked) = "grant"
                           <=> Authorized(Reader, probed, asked.relationship, asked.team_id)
        BY DEF AclMatchesAdr
    <2>1. PassesAcl(probed, asked)
              = CanRead(Reader, probed, asked.relationship, asked.team_id)
        BY DEF PassesAcl, Reader
    <2>2. VouchedFor(Reader, probed, asked.relationship) = "grant"
              <=> Vouched(Reader, probed, asked.relationship)
        BY VouchedForIsVouched
    <2>3. LeakTargetAuthorized(Reader, probed, asked.relationship) = "grant"
              <=> \/ LeakTargets(probed.metadata) = {}
                  \/ Reader = probed.principal
                  \/ Vouched(Reader, probed, asked.relationship)
        BY <2>2 DEF LeakTargetAuthorized
    <2>4. Team # Shared
        BY DEF Team, Shared
    <2> QED
        BY <2>1, <2>2, <2>3, <2>4 DEF CanRead, Authorized
<1> QED
    BY <1>1, PTL

\* Protecting an entity takes readers away and never adds one.
THEOREM LeakTargetsNarrow == ProbeSpec => []LeakTargetsOnlyNarrow
<1>1. probed \in Rows /\ asked \in Filters => LeakTargetsOnlyNarrow
    <2> SUFFICES ASSUME probed \in Rows, PassesAcl(probed, asked) = "grant"
                 PROVE  PassesAcl(Unprotected(probed), asked) = "grant"
        BY DEF LeakTargetsOnlyNarrow
    <2> DEFINE bare == Unprotected(probed)
               r == Reader
               rel == asked.relationship
    <2>1. probed \in MemoryEntry /\ probed.metadata \in [MetaKeys -> Optional(MetaValue)]
        BY RowsAndFiltersAssumption DEF MemoryEntry, Metadata
    <2>2. /\ bare.principal = probed.principal /\ bare.scope = probed.scope
          /\ bare.metadata["leak_targets"] = None
          /\ \A key \in MetaKeys \ {"leak_targets"} : bare.metadata[key] = probed.metadata[key]
        BY <2>1, MetaKeyAssumption DEF Unprotected, MemoryEntry
    <2>3. LeakTargets(bare.metadata) = {}
        BY <2>2 DEF LeakTargets, Tag, Absent
    <2>4. /\ Delegates(bare) = Delegates(probed)
          /\ AllowedRelationships(bare) = AllowedRelationships(probed)
          /\ SameTeam(bare, asked.team_id) <=> SameTeam(probed, asked.team_id)
        BY <2>2, MetaKeyAssumption DEF Delegates, AllowedRelationships, SameTeam, Tag
    <2>5. VouchedFor(r, bare, rel) = VouchedFor(r, probed, rel)
        BY <2>4 DEF VouchedFor
    <2>6. LeakTargetAuthorized(r, bare, rel) = "grant"
        BY <2>3 DEF LeakTargetAuthorized
    <2> HIDE DEF bare
    <2> QED
        BY <2>2, <2>4, <2>5, <2>6 DEF PassesAcl, CanRead, Reader, bare
<1> QED
    BY <1>1, ProbeTyped, PTL

\* A read throws exactly where a voucher is sought in a null tag: on another's
\* row that protects an entity, and on another team's row even if it does not.
THEOREM RaiseConfined == ProbeSpec => []RaiseIsConfined
<1>1. RaiseIsConfined
    <2> DEFINE vouched == VouchedFor(Reader, probed, asked.relationship)
               unleaked == LeakTargetAuthorized(Reader, probed, asked.relationship)
    <2>1. CASE Reader = None
        BY <2>1 DEF RaiseIsConfined, VoucherSought, PassesAcl, Reader
    <2>2. CASE Reader # None
        <3>1. PassesAcl(probed, asked)
                  = CanRead(Reader, probed, asked.relationship, asked.team_id)
            BY <2>2 DEF PassesAcl, Reader
        <3>2. vouched = "raise" <=> VoucherIsNull
            BY <2>2, RaiseNeedsNullVoucher
        <3>3. unleaked = "raise"
                  <=> /\ LeakTargets(probed.metadata) # {} /\ Reader # probed.principal
                      /\ vouched = "raise"
            BY DEF LeakTargetAuthorized
        <3>4. vouched \in {"grant", "deny", "raise"}
            BY DEF VouchedFor
        <3>5. Team # Shared
            BY DEF Team, Shared
        <3>6. CanRead(Reader, probed, asked.relationship, asked.team_id) = "raise"
                  <=> /\ Reader # probed.principal
                      /\ \/ probed.scope = Team /\ ~SameTeam(probed, asked.team_id)
                         \/ probed.scope \in {Team, Shared} /\ LeakTargets(probed.metadata) # {}
                      /\ vouched = "raise"
            BY <3>3, <3>4, <3>5 DEF CanRead
        <3> QED
            BY <2>2, <3>1, <3>2, <3>6 DEF RaiseIsConfined, VoucherSought
    <2> QED
        BY <2>1, <2>2
<1> QED
    BY <1>1, PTL
=============================================================================
