----------------------- MODULE StoreAndStages_proofs -----------------------
(***************************************************************************)
(* What every writer of the store relies on: each operation of the store   *)
(* preserves StoreInv, and a pipeline's candidate is endorsed by its       *)
(* quorum.  The lemmas are about single actions and operators, so that     *)
(* every specification built on them can cite them.                        *)
(***************************************************************************)
EXTENDS MemoryStore, EDVStages, FiniteSetTheorems, WellFoundedInduction, TLAPS

\* A row's tags index the store's dicts.
LEMMA EntryTags ==
    ASSUME NEW row \in MemoryEntry
    PROVE  row.principal \in Text /\ row.scope \in Text /\ row # None
BY IdAssumption DEF MemoryEntry

\* A new store satisfies the invariant.
LEMMA StoreInitInv == StoreInit => StoreInv
<1> SUFFICES ASSUME StoreInit PROVE StoreInv
    OBVIOUS
<1>1. StoreTypeOK
    BY DEF StoreInit, StoreTypeOK, Optional
<1>2. \A id \in MemoryIds : ~Known(id) /\ ~IsTombstoned(id) /\ embeddings[id] = None
    BY DEF StoreInit, Known, IsTombstoned
<1>3. IndexCoherent
    BY <1>2 DEF StoreInit, IndexCoherent, Live
<1> QED
    BY <1>1, <1>2, <1>3
    DEF StoreInv, NoGhostEmbedding, TombstoneByOwner, OnlyMintedKnown

\* insert() under a fresh id.
LEMMA InsertInv ==
    ASSUME StoreInv, NEW id \in MemoryIds, NEW row \in MemoryEntry, Insert(id, row)
    PROVE  StoreInv'
<1> USE DEF StoreInv
<1>1. row.principal \in Text /\ row.scope \in Text /\ row # None
    BY EntryTags
<1>2. StoreTypeOK'
    BY <1>1 DEF StoreTypeOK, Insert, Optional
<1>3. ~Known(id) /\ ~IsTombstoned(id) /\ embeddings[id] = None
    BY DEF Insert, OnlyMintedKnown, TombstoneByOwner, NoGhostEmbedding, Live
<1>4. /\ Known(id)' /\ ~IsTombstoned(id)' /\ entries'[id] = row
      /\ \A other \in MemoryIds \ {id} :
            /\ entries'[other] = entries[other]
            /\ Known(other)' <=> Known(other)
            /\ Live(other)' <=> Live(other)
      /\ Live(id)'
    BY <1>1, <1>3 DEF Insert, StoreTypeOK, Known, IsTombstoned, Live
<1>5. IndexCoherent'
    <2> SUFFICES ASSUME NEW other \in MemoryIds
                 PROVE  /\ \A p \in Text : other \in byPrincipal'[p]
                              <=> Live(other)' /\ entries'[other].principal = p
                        /\ \A s \in Text : other \in byScope'[s]
                              <=> Live(other)' /\ entries'[other].scope = s
        BY DEF IndexCoherent
    <2>1. /\ \A p \in Text : other \in byPrincipal'[p]
                <=> other \in byPrincipal[p] \/ (other = id /\ p = row.principal)
          /\ \A s \in Text : other \in byScope'[s]
                <=> other \in byScope[s] \/ (other = id /\ s = row.scope)
        BY <1>1 DEF Insert, StoreTypeOK
    <2>2. CASE other = id
        BY <1>3, <1>4, <2>1, <2>2 DEF IndexCoherent, Live
    <2>3. CASE other # id
        BY <1>4, <2>1, <2>3 DEF IndexCoherent
    <2> QED
        BY <2>2, <2>3
<1>6. NoGhostEmbedding'
    BY <1>3, <1>4 DEF NoGhostEmbedding, Insert
<1>7. TombstoneByOwner'
    BY <1>3, <1>4 DEF TombstoneByOwner, Insert, IsTombstoned
<1>8. OnlyMintedKnown'
    BY <1>4 DEF OnlyMintedKnown, Insert
<1> QED
    BY <1>2, <1>5, <1>6, <1>7, <1>8

\* Whatever leaves the store alone.
LEMMA UnchangedInv == StoreInv /\ UNCHANGED storeVars => StoreInv'
BY DEF StoreInv, storeVars, StoreTypeOK, IndexCoherent, NoGhostEmbedding,
       TombstoneByOwner, OnlyMintedKnown, Known, IsTombstoned, Live

\* tombstone(), granted or refused.
LEMMA TombstoneInv ==
    ASSUME StoreInv, NEW id \in MemoryIds, NEW principal \in Text, Tombstone(id, principal)
    PROVE  StoreInv'
<1> USE DEF StoreInv
<1>1. CASE ~MayTombstone(id, principal)
    BY <1>1, UnchangedInv DEF Tombstone
<1>2. CASE MayTombstone(id, principal)
    <2>1. /\ entries[id] \in MemoryEntry /\ principal = entries[id].principal
          /\ entries[id].scope \in Text /\ principal # None
          /\ Live(id)
        BY <1>2, EntryTags, TextAssumption
        DEF MayTombstone, Live, Known, StoreTypeOK, Optional
    <2>2. StoreTypeOK'
        BY <1>2, <2>1 DEF StoreTypeOK, Tombstone, Optional
    <2>3. /\ IsTombstoned(id)' /\ ~Live(id)' /\ tombstones'[id] = principal
          /\ embeddings'[id] = None /\ entries' = entries
          /\ \A other \in MemoryIds : Known(other)' <=> Known(other)
          /\ \A other \in MemoryIds \ {id} :
                /\ tombstones'[other] = tombstones[other]
                /\ embeddings'[other] = embeddings[other]
                /\ Live(other)' <=> Live(other)
        BY <1>2, <2>1 DEF Tombstone, StoreTypeOK, Known, IsTombstoned, Live
    <2>4. IndexCoherent'
        <3> SUFFICES ASSUME NEW other \in MemoryIds
                     PROVE  /\ \A p \in Text : other \in byPrincipal'[p]
                                  <=> Live(other)' /\ entries'[other].principal = p
                            /\ \A s \in Text : other \in byScope'[s]
                                  <=> Live(other)' /\ entries'[other].scope = s
            BY DEF IndexCoherent
        <3>1. /\ \A p \in Text : other \in byPrincipal'[p]
                    <=> other \in byPrincipal[p] /\ ~(other = id /\ p = entries[id].principal)
              /\ \A s \in Text : other \in byScope'[s]
                    <=> other \in byScope[s] /\ ~(other = id /\ s = entries[id].scope)
            BY <1>2, <2>1 DEF Tombstone, StoreTypeOK
        <3>2. CASE other = id
            BY <2>1, <2>3, <3>1, <3>2 DEF IndexCoherent
        <3>3. CASE other # id
            BY <2>3, <3>1, <3>3 DEF IndexCoherent
        <3> QED
            BY <3>2, <3>3
    <2>5. NoGhostEmbedding'
        BY <2>3 DEF NoGhostEmbedding
    <2>6. TombstoneByOwner'
        BY <2>1, <2>3 DEF TombstoneByOwner, IsTombstoned, Live
    <2>7. OnlyMintedKnown'
        BY <1>2, <2>3 DEF OnlyMintedKnown, Tombstone
    <2> QED
        BY <2>2, <2>4, <2>5, <2>6, <2>7
<1> QED
    BY <1>1, <1>2

\* bind_embedding(), granted or refused.
LEMMA BindEmbeddingInv ==
    ASSUME StoreInv, NEW id \in MemoryIds, NEW vector \in VectorIds,
           BindEmbedding(id, vector)
    PROVE  StoreInv'
<1>1. CASE ~Live(id)
    BY <1>1, UnchangedInv DEF BindEmbedding
<1>2. CASE Live(id)
    BY <1>2 DEF StoreInv, BindEmbedding, StoreTypeOK, Optional, IndexCoherent,
                NoGhostEmbedding, TombstoneByOwner, OnlyMintedKnown,
                Known, IsTombstoned, Live
<1> QED
    BY <1>1, <1>2

\* clear().
LEMMA ClearInv == ASSUME StoreInv, Clear PROVE StoreInv'
<1>1. \A id \in MemoryIds : ~Known(id)' /\ ~IsTombstoned(id)' /\ embeddings'[id] = None
    BY DEF Clear, Known, IsTombstoned
<1>2. StoreTypeOK'
    BY DEF StoreInv, StoreTypeOK, Clear, Optional
<1>3. IndexCoherent'
    BY <1>1 DEF Clear, IndexCoherent, Live
<1> QED
    BY <1>1, <1>2, <1>3
    DEF StoreInv, NoGhostEmbedding, TombstoneByOwner, OnlyMintedKnown

\* Whichever index list() starts from, what reaches the ACL is the set of live
\* rows with the tags asked for.
LEMMA SelectedIsScan ==
    ASSUME StoreInv, NEW filters \in RetrievalFilter
    PROVE  SelectedIds(filters)
              = {id \in MemoryIds : Live(id) /\ MatchesTags(entries[id], filters)}
<1>1. /\ filters.principal # None => filters.principal \in Text
      /\ filters.scope # None => filters.scope \in Text
    BY DEF RetrievalFilter, Optional
<1>2. \A id \in MemoryIds :
          id \in IndexedIds(filters) /\ ~IsTombstoned(id)
            <=> /\ Live(id)
                /\ filters.principal # None => entries[id].principal = filters.principal
                /\ filters.scope # None => entries[id].scope = filters.scope
    BY <1>1 DEF StoreInv, IndexCoherent, IndexedIds, Live
<1>3. IndexedIds(filters) \subseteq MemoryIds
    BY <1>1 DEF StoreInv, StoreTypeOK, IndexedIds
<1> QED
    BY <1>2, <1>3 DEF SelectedIds, HasClassification, MatchesTags

\* count() is the number of live rows in every state of the invariant: each
\* tombstone is matched by the row it sits on.
LEMMA CountIsLiveInv == StoreInv => CountIsLive
<1> SUFFICES ASSUME StoreInv PROVE CountIsLive
    OBVIOUS
<1> DEFINE K == {id \in MemoryIds : Known(id)}
           D == {id \in MemoryIds : IsTombstoned(id)}
<1>1. IsFiniteSet(K)
    BY IdAssumption, FS_Subset
<1>2. K \cap D = D
    BY DEF StoreInv, TombstoneByOwner
<1>3. ListAll = K \ D
    BY DEF ListAll, Live
<1>4. Cardinality(K \ D) = Cardinality(K) - Cardinality(K \cap D)
    BY <1>1, FS_Difference
<1>5. Cardinality(ListAll) = Cardinality(K) - Cardinality(D)
    BY <1>2, <1>3, <1>4
<1> QED
    BY <1>5 DEF CountIsLive, Count

-----------------------------------------------------------------------------
(***************************************************************************)
(* The quorum, for every registry; what a pipeline run returns, whatever   *)
(* it is called with; and what its candidate is promoted to.               *)
(***************************************************************************)
\* Both index sets of an answer tuple are finite, one within the other.
LEMMA AnswerSets ==
    ASSUME NEW results \in Seq(VerifierOutcome)
    PROVE  /\ Passing(results) \subseteq Applicable(results)
           /\ IsFiniteSet(Applicable(results)) /\ IsFiniteSet(Passing(results))
           /\ Cardinality(Applicable(results)) \in Nat
           /\ Cardinality(Passing(results)) \in Nat
<1>1. Passing(results) \subseteq Applicable(results)
    BY DEF Passing, Applicable
<1>2. IsFiniteSet(1..Len(results))
    BY FS_Interval
<1>3. Applicable(results) \subseteq 1..Len(results)
    BY DEF Applicable
<1> QED
    BY <1>1, <1>2, <1>3, FS_Subset, FS_CardinalityType

\* QuorumConfig.reached, with its cap and its special case, says that nobody
\* who applies objects, or that min_passes approve (ADR 0002).
THEOREM QuorumRule ==
    ASSUME NEW registry \in VerifierRegistry
    PROVE  Evaluate(registry).passed <=> Endorsed(registry.min_passes, registry.answers)
<1> DEFINE answers == registry.answers
           A == Applicable(answers)
           P == Passing(answers)
<1>1. answers \in Seq(VerifierOutcome) /\ registry.min_passes \in Nat \ {0}
    BY DEF VerifierRegistry
<1>2. /\ P \subseteq A /\ IsFiniteSet(A) /\ IsFiniteSet(P)
      /\ Cardinality(A) \in Nat /\ Cardinality(P) \in Nat
    BY <1>1, AnswerSets
<1>3. Cardinality(P) <= Cardinality(A) /\ (Cardinality(P) = Cardinality(A) => P = A)
    BY <1>2, FS_Subset
<1>4. P = A <=> \A i \in DOMAIN answers : answers[i] # "fail"
    BY <1>1 DEF Passing, Applicable, VerifierOutcome
<1>5. A = {} => P = A
    BY <1>2
<1>6. answers = <<>> => A = {}
    BY DEF Applicable
<1>7. Evaluate(registry).passed <=> A = {} \/ P = A \/ Cardinality(P) >= registry.min_passes
    <2>1. Evaluate(registry).passed <=> answers = <<>> \/ Reached(registry.min_passes, answers)
        BY DEF Evaluate
    <2> HIDE DEF answers, A, P
    <2>2. Reached(registry.min_passes, answers)
              <=> \/ A = {}
                  \/ Cardinality(P) >= IF registry.min_passes <= Cardinality(A)
                                       THEN registry.min_passes ELSE Cardinality(A)
        BY DEF Reached, A, P
    <2>3. Cardinality(P) >= Cardinality(A) <=> P = A
        BY <1>2, <1>3
    <2> QED
        BY <1>1, <1>2, <1>6, <2>1, <2>2, <2>3
<1> QED
    BY <1>4, <1>5, <1>7 DEF Endorsed

\* A run stops after the execute stage, after the distil stage, or succeeds or
\* fails as its verify stage does.
LEMMA RunCases ==
    ASSUME NEW call
    PROVE  \/ /\ ~Run(call).ok
              /\ Run(call).stages = <<Ingest(call.min_traces, call.traces)>>
           \/ /\ ~Run(call).ok
              /\ Run(call).stages = <<Ingest(call.min_traces, call.traces), Distilled(call)>>
           \/ /\ Run(call).ok = Verify(call.registry, Distilled(call).candidate).ok
              /\ Run(call).candidate # None
              /\ Run(call).stages = <<Ingest(call.min_traces, call.traces), Distilled(call),
                                          Verify(call.registry, Distilled(call).candidate)>>
<1>1. CASE ~Ingest(call.min_traces, call.traces).ok
    <2>1. Run(call) = [ok |-> FALSE, candidate |-> None,
                       stages |-> <<Ingest(call.min_traces, call.traces)>>]
        BY <1>1 DEF Run
    <2>2. /\ Run(call).ok = FALSE
          /\ Run(call).stages = <<Ingest(call.min_traces, call.traces)>>
        BY <2>1
    <2> QED
        BY <2>2
<1>2. CASE /\ Ingest(call.min_traces, call.traces).ok
           /\ ~Distilled(call).ok \/ Distilled(call).candidate = None
    <2>1. Run(call) = [ok |-> FALSE, candidate |-> None,
                       stages |-> <<Ingest(call.min_traces, call.traces), Distilled(call)>>]
        BY <1>2 DEF Run
    <2>2. /\ Run(call).ok = FALSE
          /\ Run(call).stages = <<Ingest(call.min_traces, call.traces), Distilled(call)>>
        BY <2>1
    <2> QED
        BY <2>2
<1>3. CASE /\ Ingest(call.min_traces, call.traces).ok
           /\ ~(~Distilled(call).ok \/ Distilled(call).candidate = None)
    BY <1>3 DEF Run
<1> QED
    BY <1>1, <1>2, <1>3

\* A run that succeeds, succeeds with a candidate the quorum endorsed.
LEMMA RunEndorsed ==
    ASSUME NEW call \in PipelineCall, Run(call).ok, call.registry # None
    PROVE  Endorsed(call.registry.min_passes, call.registry.answers)
<1>1. Verify(call.registry, Distilled(call).candidate).ok
    BY RunCases
<1>2. call.registry \in VerifierRegistry
    BY DEF PipelineCall, Optional
<1>3. Evaluate(call.registry).passed
    BY <1>1 DEF Verify
<1> QED
    BY <1>2, <1>3, QuorumRule

\* Promotion makes a well-formed row of a candidate.
LEMMA RowOfCandidate ==
    ASSUME NEW candidate \in CandidateExperience
    PROVE  /\ FromCandidate(candidate) \in MemoryEntry
           /\ NormalizedScope(candidate.scope) \in Text
           /\ candidate.principal \in Text /\ candidate.trace_id \in Optional(Text)
<1>1. NormalizedScope(candidate.scope) \in Text
    BY ScopeAssumption
    DEF CandidateExperience, NormalizedScope, ScopeValue, MemoryScope, Private, Team, Shared
<1> QED
    BY <1>1, TextAssumption DEF CandidateExperience, MemoryEntry, FromCandidate

(***************************************************************************)
(* Folds.  Induction is by least counterexample over a set of numbers, the *)
(* form that needs no predicate as a parameter; the fold of the community  *)
(* modules, a CHOOSE over the subsets of the places, is brought down to the *)
(* place by place recursion of a loop.                                     *)
(***************************************************************************)
\* Every inhabited set of numbers has a least one.
LEMMA LeastOf ==
    ASSUME NEW T \in SUBSET Nat, T # {}
    PROVE  \E least \in T : \A n \in T : least <= n
<1>1. PICK least \in T : \A n \in T : ~(<<n, least>> \in OpToRel(<, Nat))
    BY WFMin, NatLessThanWellFounded
<1>2. ASSUME NEW n \in T PROVE least <= n
    <2>1. n \in Nat /\ least \in Nat
        OBVIOUS
    <2>2. ~(<<n, least>> \in OpToRel(<, Nat))
        BY <1>1
    <2>3. ~(n < least)
        BY <2>1, <2>2 DEF OpToRel
    <2> QED
        BY <2>1, <2>3
<1> QED
    BY <1>2

\* Induction, with a set for the predicate.
LEMMA Upward ==
    ASSUME NEW S, 0 \in S, \A n \in Nat : n \in S => n + 1 \in S
    PROVE  Nat \subseteq S
<1> SUFFICES ASSUME Nat \ S # {} PROVE FALSE
    OBVIOUS
<1>1. PICK least \in Nat \ S : \A n \in Nat \ S : least <= n
    BY LeastOf
<1>2. least # 0 /\ least \in Nat /\ least \notin S
    OBVIOUS
<1>3. least - 1 \in Nat /\ ~(least <= least - 1) /\ (least - 1) + 1 = least
    BY <1>2
<1>4. least - 1 \in S
    BY <1>1, <1>3
<1> QED
    BY <1>2, <1>3, <1>4

\* Min names the least.
LEMMA HasMin ==
    ASSUME NEW s \in SUBSET Nat, s # {}
    PROVE  Min(s) \in s /\ \A i \in s : Min(s) <= i
BY LeastOf DEF Min

\* Max names the greatest.
LEMMA HasMax ==
    ASSUME NEW n \in Nat, NEW s \in SUBSET (1 .. n), s # {}
    PROVE  Max(s) \in s /\ \A i \in s : Max(s) >= i
<1> DEFINE Above == {m \in Nat : \A i \in s : m >= i}
<1>1. n \in Above
    OBVIOUS
<1>2. PICK top \in Above : \A m \in Above : top <= m
    <2> HIDE DEF Above
    <2>1. Above \in SUBSET Nat /\ Above # {}
        BY <1>1 DEF Above
    <2> QED
        BY <2>1, LeastOf
<1>3. top \in s
    <2> SUFFICES ASSUME top \notin s PROVE FALSE
        OBVIOUS
    <2>1. \A i \in s : i \in Nat /\ i >= 1 /\ top >= i /\ top # i
        OBVIOUS
    <2>2. PICK i \in s : TRUE
        OBVIOUS
    <2>3. top \in Nat /\ top - 1 \in Nat
        BY <2>1, <2>2
    <2>4. \A j \in s : top - 1 >= j
        BY <2>1, <2>3
    <2>5. top - 1 \in Above
        BY <2>3, <2>4
    <2> QED
        BY <1>2, <2>3, <2>5
<1>4. \A i \in s : top >= i
    BY <1>2
<1> QED
    BY <1>3, <1>4 DEF Max

\* The steps of a fold over n places: what each makes of a value in A.
Steps(n, A) == [1 .. n -> [A -> A]]

\* A fold from the left, seen as a function of the set of places it has taken,
\* as long as its values stay in A.
IsFold(h, n, A, base, Op) ==
    /\ h[{}] = base
    /\ \A s \in SUBSET (1 .. n) :
           s # {} /\ h[s \ {Max(s)}] \in A => h[s] = Op[Max(s)][h[s \ {Max(s)}]]

\* The same, place by place.
IsPrefixFold(acc, n, base, Op) ==
    /\ acc[0] = base
    /\ \A m \in 1 .. n : acc[m] = Op[m][acc[m - 1]]

\* Folds exist.
LEMMA FoldExists ==
    ASSUME NEW A, NEW base \in A, NEW n \in Nat, NEW Op \in Steps(n, A)
    PROVE  \E g \in [SUBSET (1 .. n) -> A] : IsFold(g, n, A, base, Op)
<1> DEFINE Step(g, s) == g[s] = IF s = {} THEN base ELSE Op[Max(s)][g[s \ {Max(s)}]]
           Defined(m) == m <= n => \E g \in [SUBSET (1 .. m) -> A] :
                                       \A s \in SUBSET (1 .. m) : Step(g, s)
           S == {m \in Nat : Defined(m)}
<1>1. Defined(0)
    <2>1. \A s \in SUBSET (1 .. 0) : s = {}
        OBVIOUS
    <2>2. PICK g : g = [s \in SUBSET (1 .. 0) |-> base]
        OBVIOUS
    <2>3. g \in [SUBSET (1 .. 0) -> A] /\ \A s \in SUBSET (1 .. 0) : Step(g, s)
        BY <2>1, <2>2
    <2> QED
        BY <2>3
<1>2. ASSUME NEW m \in Nat, Defined(m), m + 1 <= n
      PROVE  \E h \in [SUBSET (1 .. (m + 1)) -> A] : \A s \in SUBSET (1 .. (m + 1)) : Step(h, s)
    <2>1. PICK g \in [SUBSET (1 .. m) -> A] : \A s \in SUBSET (1 .. m) : Step(g, s)
        <3>1. m <= n
            BY <1>2
        <3> QED
            BY <1>2, <3>1
    <2>2. PICK h : h = [s \in SUBSET (1 .. (m + 1)) |->
                          IF m + 1 \in s THEN Op[m + 1][g[s \ {m + 1}]] ELSE g[s]]
        OBVIOUS
    <2>3. ASSUME NEW s \in SUBSET (1 .. (m + 1))
          PROVE  /\ s \ {m + 1} \in SUBSET (1 .. m)
                 /\ m + 1 \notin s => s \in SUBSET (1 .. m) /\ h[s] = g[s]
                 /\ m + 1 \in s => h[s] = Op[m + 1][g[s \ {m + 1}]]
        BY <2>2
    <2>4. h \in [SUBSET (1 .. (m + 1)) -> A]
        <3>1. Op[m + 1] \in [A -> A]
            BY <1>2 DEF Steps
        <3>2. \A s \in SUBSET (1 .. (m + 1)) : h[s] \in A
            BY <2>1, <2>3, <3>1
        <3> QED
            BY <2>2, <3>2
    <2>5. ASSUME NEW s \in SUBSET (1 .. (m + 1))
          PROVE  Step(h, s)
        <3>1. m + 1 \in Nat
            OBVIOUS
        <3>2. s # {} => Max(s) \in s /\ \A i \in s : Max(s) >= i
            BY <3>1, HasMax
        <3>3. CASE m + 1 \in s
            <4>1. Max(s) \in 1 .. (m + 1) /\ Max(s) >= m + 1
                BY <3>2, <3>3
            <4>2. Max(s) = m + 1
                BY <4>1
            <4>3. h[s \ {m + 1}] = g[s \ {m + 1}]
                <5>1. s \ {m + 1} \in SUBSET (1 .. (m + 1)) /\ m + 1 \notin s \ {m + 1}
                    OBVIOUS
                <5> QED
                    BY <2>3, <5>1
            <4> QED
                BY <2>3, <3>3, <4>2, <4>3
        <3>4. CASE m + 1 \notin s
            <4>1. s \in SUBSET (1 .. m) /\ h[s] = g[s]
                BY <2>3, <3>4
            <4>2. Step(g, s)
                BY <2>1, <4>1
            <4>3. h[s \ {Max(s)}] = g[s \ {Max(s)}]
                <5>1. s \ {Max(s)} \in SUBSET (1 .. (m + 1)) /\ m + 1 \notin s \ {Max(s)}
                    BY <3>4
                <5> QED
                    BY <2>3, <5>1
            <4> QED
                BY <4>1, <4>2, <4>3
        <3> QED
            BY <3>3, <3>4
    <2> QED
        BY <2>4, <2>5
<1>3. n \in S
    <2> HIDE DEF Defined
    <2>1. 0 \in S
        BY <1>1
    <2>2. ASSUME NEW m \in Nat, m \in S PROVE m + 1 \in S
        <3>1. Defined(m)
            BY <2>2
        <3>2. Defined(m + 1)
            BY <1>2, <3>1 DEF Defined
        <3> QED
            BY <3>2
    <2> HIDE DEF S
    <2> QED
        BY <2>1, <2>2, Upward
<1>4. Defined(n)
    <2> HIDE DEF Defined
    <2> QED
        BY <1>3
<1>5. n <= n
    OBVIOUS
<1>6. PICK g \in [SUBSET (1 .. n) -> A] : \A s \in SUBSET (1 .. n) : Step(g, s)
    BY <1>4, <1>5, Zenon
<1>7. g[{}] = base
    BY <1>6
<1>8. \A s \in SUBSET (1 .. n) : s # {} => g[s] = Op[Max(s)][g[s \ {Max(s)}]]
    BY <1>6
<1> QED
    BY <1>7, <1>8 DEF IsFold

\* Such a fold takes the places in their order.
LEMMA FoldSteps ==
    ASSUME NEW A, NEW base \in A, NEW n \in Nat, NEW Op \in Steps(n, A),
           NEW h, IsFold(h, n, A, base, Op)
    PROVE  \E acc \in [0 .. n -> A] : IsPrefixFold(acc, n, base, Op) /\ acc[n] = h[1 .. n]
<1>0. /\ h[{}] = base
      /\ \A s \in SUBSET (1 .. n) :
             s # {} /\ h[s \ {Max(s)}] \in A => h[s] = Op[Max(s)][h[s \ {Max(s)}]]
    BY DEF IsFold
<1>1. ASSUME NEW m \in 1 .. n, h[1 .. (m - 1)] \in A
      PROVE  h[1 .. m] = Op[m][h[1 .. (m - 1)]] /\ h[1 .. m] \in A
    <2>1. m \in Nat /\ m \in 1 .. m /\ 1 .. m \in SUBSET (1 .. n)
        OBVIOUS
    <2>2. 1 .. m \in SUBSET (1 .. m) /\ 1 .. m # {}
        BY <2>1
    <2>3. Max(1 .. m) \in 1 .. m /\ \A i \in 1 .. m : Max(1 .. m) >= i
        BY <2>1, <2>2, HasMax
    <2>4. Max(1 .. m) = m
        BY <2>1, <2>3
    <2>5. (1 .. m) \ {m} = 1 .. (m - 1)
        OBVIOUS
    <2>6. h[1 .. m] = Op[m][h[1 .. (m - 1)]]
        BY <1>0, <1>1, <2>1, <2>2, <2>4, <2>5
    <2> QED
        BY <1>1, <2>6 DEF Steps
<1> DEFINE S == {m \in Nat : m <= n => h[1 .. m] \in A}
<1>2. 0 \in S
    <2>1. 1 .. 0 = {}
        OBVIOUS
    <2> QED
        BY <1>0, <2>1
<1>3. ASSUME NEW m \in Nat, m \in S PROVE m + 1 \in S
    <2> SUFFICES ASSUME m + 1 <= n PROVE h[1 .. (m + 1)] \in A
        OBVIOUS
    <2>1. m + 1 \in 1 .. n /\ (m + 1) - 1 = m /\ m <= n
        OBVIOUS
    <2>2. h[1 .. m] \in A
        BY <1>3, <2>1
    <2> HIDE DEF S
    <2> QED
        BY <1>1, <2>1, <2>2
<1>4. \A m \in 0 .. n : h[1 .. m] \in A
    <2>1. Nat \subseteq S
        <3> HIDE DEF S
        <3> QED
            BY <1>2, <1>3, Upward
    <2> QED
        BY <2>1
<1>5. PICK acc : acc = [m \in 0 .. n |-> h[1 .. m]]
    OBVIOUS
<1>6. \A m \in 0 .. n : acc[m] = h[1 .. m]
    BY <1>5
<1>7. acc \in [0 .. n -> A]
    BY <1>4, <1>5
<1>8. acc[0] = base
    <2>1. 1 .. 0 = {} /\ 0 \in 0 .. n
        OBVIOUS
    <2> QED
        BY <1>0, <1>6, <2>1
<1>9. ASSUME NEW m \in 1 .. n PROVE acc[m] = Op[m][acc[m - 1]]
    <2>1. m \in 0 .. n /\ m - 1 \in 0 .. n
        OBVIOUS
    <2> QED
        BY <1>1, <1>4, <1>6, <2>1
<1>10. acc[n] = h[1 .. n]
    BY <1>6
<1> QED
    BY <1>7, <1>8, <1>9, <1>10 DEF IsPrefixFold

(***************************************************************************)
(* The rule-based distiller: its loops over the bundle, and what every     *)
(* stage and every run return, whatever they are called with.              *)
(***************************************************************************)
\* dict.update, trace by trace.
LEMMA MetadataFold ==
    ASSUME NEW traces \in Seq(ExecutorTrace), NEW context \in DistillContext
    PROVE  \E acc \in [0 .. Len(traces) -> Metadata] :
               /\ acc[0] = context.metadata /\ acc[Len(traces)] = MergedMetadata(context, traces)
               /\ \A m \in 1 .. Len(traces) : acc[m] = Update(acc[m - 1], traces[m].metadata)
<1> DEFINE Solves(h) == h = [s \in SUBSET DOMAIN traces |->
               IF s = {} THEN context.metadata
               ELSE Update(h[s \ {Max(s)}], traces[Max(s)].metadata)]
           iter == CHOOSE h : Solves(h)
<1>1. MergedMetadata(context, traces) = iter[DOMAIN traces]
    BY DEF MergedMetadata, FoldLeft, MapThenFoldSet
<1>2. PICK n \in Nat : n = Len(traces)
    OBVIOUS
<1>3. DOMAIN traces = 1 .. n /\ context.metadata \in Metadata
    BY <1>2 DEF DistillContext
<1>4. \A i \in 1 .. n : traces[i].metadata \in Metadata
    <2>1. \A i \in 1 .. n : traces[i] \in ExecutorTrace
        BY <1>2
    <2> QED
        BY <2>1 DEF ExecutorTrace
<1>5. \A a, b \in Metadata : Update(a, b) \in Metadata
    BY DEF Update, Metadata
<1>6. PICK base \in Metadata : base = context.metadata
    BY <1>3
<1>7. PICK Op \in Steps(n, Metadata) :
          \A i \in 1 .. n, a \in Metadata : Op[i][a] = Update(a, traces[i].metadata)
    <2>1. [i \in 1 .. n |-> [a \in Metadata |-> Update(a, traces[i].metadata)]]
              \in Steps(n, Metadata)
        BY <1>4, <1>5 DEF Steps
    <2> QED
        BY <2>1
<1>8. Solves(iter)
    <2>1. PICK g \in [SUBSET (1 .. n) -> Metadata] : IsFold(g, n, Metadata, base, Op)
        BY FoldExists
    <2>2. ASSUME NEW s \in SUBSET (1 .. n), s # {}
          PROVE  g[s] = Update(g[s \ {Max(s)}], traces[Max(s)].metadata)
        <3>1. Max(s) \in 1 .. n
            BY <2>2, HasMax
        <3>2. g[s \ {Max(s)}] \in Metadata
            OBVIOUS
        <3> QED
            BY <1>7, <2>1, <2>2, <3>1, <3>2 DEF IsFold
    <2>3. Solves(g)
        BY <1>3, <1>6, <2>1, <2>2 DEF IsFold
    <2> HIDE DEF Solves
    <2> QED
        BY <2>3
<1> HIDE DEF iter
<1>9. iter[{}] = base
    BY <1>6, <1>8
<1>10. ASSUME NEW s \in SUBSET (1 .. n), s # {}, iter[s \ {Max(s)}] \in Metadata
       PROVE  iter[s] = Op[Max(s)][iter[s \ {Max(s)}]]
    <2>1. Max(s) \in 1 .. n
        BY <1>10, HasMax
    <2> QED
        BY <1>3, <1>7, <1>8, <1>10, <2>1
<1>11. PICK acc \in [0 .. n -> Metadata] :
           IsPrefixFold(acc, n, base, Op) /\ acc[n] = iter[1 .. n]
    <2>1. IsFold(iter, n, Metadata, base, Op)
        BY <1>9, <1>10 DEF IsFold
    <2> QED
        BY <2>1, FoldSteps
<1>12. \A m \in 1 .. n : acc[m] = Update(acc[m - 1], traces[m].metadata)
    <2>1. \A m \in 1 .. n : m - 1 \in 0 .. n
        OBVIOUS
    <2> QED
        BY <1>7, <1>11, <2>1 DEF IsPrefixFold
<1> QED
    BY <1>1, <1>2, <1>3, <1>6, <1>11, <1>12 DEF IsPrefixFold

\* A fold from the left, place by place.
LEMMA PrefixFoldExists ==
    ASSUME NEW A, NEW base \in A, NEW n \in Nat, NEW Op \in Steps(n, A)
    PROVE  \E acc \in [0 .. n -> A] : IsPrefixFold(acc, n, base, Op)
<1>1. PICK g \in [SUBSET (1 .. n) -> A] : IsFold(g, n, A, base, Op)
    BY FoldExists
<1> QED
    BY <1>1, FoldSteps

\* FlattenSeq concatenates, part by part.
LEMMA FlattenFold ==
    ASSUME NEW T, NEW parts \in Seq(Seq(T)), parts # <<>>
    PROVE  \E acc \in [0 .. Len(parts) -> Seq(T)] :
               /\ acc[0] = <<>> /\ acc[Len(parts)] = FlattenSeq(parts)
               /\ \A m \in 1 .. Len(parts) : acc[m] = acc[m - 1] \o parts[m]
<1> DEFINE Solves(f) == f = [i \in 1 .. Len(parts) |->
                                IF i = 1 THEN parts[i] ELSE f[i - 1] \o parts[i]]
           flatten == CHOOSE f : Solves(f)
<1>1. PICK n \in Nat : n = Len(parts)
    OBVIOUS
<1>2. n # 0 /\ \A i \in 1 .. n : parts[i] \in Seq(T)
    BY <1>1
<1>3. FlattenSeq(parts) = flatten[n]
    BY <1>1, <1>2 DEF FlattenSeq
<1>4. PICK empty \in Seq(T) : empty = <<>>
    <2>1. <<>> \in Seq(T)
        OBVIOUS
    <2> QED
        BY <2>1
<1>5. PICK Op \in Steps(n, Seq(T)) : \A i \in 1 .. n, a \in Seq(T) : Op[i][a] = a \o parts[i]
    <2>1. [i \in 1 .. n |-> [a \in Seq(T) |-> a \o parts[i]]] \in Steps(n, Seq(T))
        BY <1>2 DEF Steps
    <2> QED
        BY <2>1
<1>6. PICK acc \in [0 .. n -> Seq(T)] : IsPrefixFold(acc, n, empty, Op)
    BY PrefixFoldExists
<1>7. /\ acc[0] = <<>>
      /\ \A m \in 1 .. n : acc[m] = acc[m - 1] \o parts[m]
    <2>1. \A m \in 1 .. n : m - 1 \in 0 .. n
        OBVIOUS
    <2> QED
        BY <1>4, <1>5, <1>6, <2>1 DEF IsPrefixFold
<1>8. acc[1] = parts[1]
    <2>1. 1 \in 1 .. n /\ 1 - 1 = 0
        BY <1>2
    <2>2. parts[1] \in Seq(T) /\ acc[1] = <<>> \o parts[1]
        BY <1>2, <1>7, <2>1
    <2> QED
        BY <2>2
<1>9. Solves(flatten)
    <2>1. PICK f : f = [m \in 1 .. n |-> acc[m]]
        OBVIOUS
    <2>2. ASSUME NEW m \in 1 .. n
          PROVE  f[m] = IF m = 1 THEN parts[m] ELSE f[m - 1] \o parts[m]
        <3>1. CASE m = 1
            BY <1>8, <2>1, <3>1
        <3>2. CASE m # 1
            <4>1. m - 1 \in 1 .. n
                BY <3>2
            <4> QED
                BY <1>7, <2>1, <3>2, <4>1
        <3> QED
            BY <3>1, <3>2
    <2>3. Solves(f)
        BY <1>1, <2>1, <2>2
    <2> HIDE DEF Solves
    <2> QED
        BY <2>3
<1> HIDE DEF flatten
<1>10. \A m \in 1 .. n : flatten[m] = IF m = 1 THEN parts[m] ELSE flatten[m - 1] \o parts[m]
    BY <1>1, <1>9
<1> DEFINE S == {m \in Nat : m \in 1 .. n => flatten[m] = acc[m]}
<1>11. 0 \in S
    OBVIOUS
<1>12. ASSUME NEW m \in Nat, m \in S PROVE m + 1 \in S
    <2> SUFFICES ASSUME m + 1 \in 1 .. n PROVE flatten[m + 1] = acc[m + 1]
        OBVIOUS
    <2>1. CASE m = 0
        BY <1>8, <1>10, <2>1
    <2>2. CASE m # 0
        <3>1. m \in 1 .. n /\ (m + 1) - 1 = m /\ m + 1 # 1
            BY <2>2
        <3>2. flatten[m] = acc[m]
            BY <1>12, <3>1
        <3>3. flatten[m + 1] = flatten[m] \o parts[m + 1]
            BY <1>10, <3>1
        <3>4. acc[m + 1] = acc[m] \o parts[m + 1]
            BY <1>7, <3>1
        <3> QED
            BY <3>2, <3>3, <3>4
    <2> QED
        BY <2>1, <2>2
<1>13. n \in S
    <2> HIDE DEF S
    <2> QED
        BY <1>11, <1>12, Upward
<1>14. flatten[n] = acc[n]
    BY <1>2, <1>13
<1> QED
    BY <1>1, <1>3, <1>7, <1>14

\* What is in the parts is in the whole.
LEMMA FlattenFacts ==
    ASSUME NEW T, NEW parts \in Seq(Seq(T))
    PROVE  /\ FlattenSeq(parts) \in Seq(T)
           /\ ToSet(FlattenSeq(parts)) = UNION {ToSet(parts[i]) : i \in DOMAIN parts}
<1>1. CASE parts = <<>>
    BY <1>1 DEF FlattenSeq, ToSet
<1>2. CASE parts # <<>>
    <2>1. PICK acc \in [0 .. Len(parts) -> Seq(T)] :
              /\ acc[0] = <<>> /\ acc[Len(parts)] = FlattenSeq(parts)
              /\ \A m \in 1 .. Len(parts) : acc[m] = acc[m - 1] \o parts[m]
        BY <1>2, FlattenFold
    <2>2. PICK n \in Nat : n = Len(parts)
        OBVIOUS
    <2>3. \A i \in 1 .. n : parts[i] \in Seq(T)
        BY <2>2
    <2> DEFINE Gathered(m) == UNION {ToSet(parts[i]) : i \in 1 .. m}
               S == {m \in Nat : m <= n => ToSet(acc[m]) = Gathered(m)}
    <2>4. 0 \in S
        <3>1. ToSet(acc[0]) = {}
            BY <2>1 DEF ToSet
        <3>2. 1 .. 0 = {}
            OBVIOUS
        <3>3. Gathered(0) = {}
            BY <3>2
        <3> QED
            BY <3>1, <3>3
    <2>5. ASSUME NEW m \in Nat, m \in S PROVE m + 1 \in S
        <3> SUFFICES ASSUME m + 1 <= n PROVE ToSet(acc[m + 1]) = Gathered(m + 1)
            OBVIOUS
        <3>1. /\ m <= n /\ m \in 0 .. n /\ m + 1 \in 1 .. n /\ (m + 1) - 1 = m
              /\ 1 .. (m + 1) = (1 .. m) \cup {m + 1}
            OBVIOUS
        <3>2. ToSet(acc[m]) = Gathered(m)
            BY <2>5, <3>1
        <3>3. acc[m + 1] = acc[m] \o parts[m + 1]
            BY <2>1, <2>2, <3>1
        <3>4. acc[m] \in Seq(T) /\ parts[m + 1] \in Seq(T)
            BY <2>2, <2>3, <3>1
        <3>5. \A a, b \in Seq(T) : ToSet(a \o b) = ToSet(a) \cup ToSet(b)
            <4> SUFFICES ASSUME NEW a \in Seq(T), NEW b \in Seq(T)
                         PROVE  ToSet(a \o b) = ToSet(a) \cup ToSet(b)
                OBVIOUS
            <4>1. /\ \A i \in 1 .. Len(a) : i \in 1 .. Len(a \o b) /\ (a \o b)[i] = a[i]
                  /\ \A i \in 1 .. Len(b) : /\ Len(a) + i \in 1 .. Len(a \o b)
                                            /\ (a \o b)[Len(a) + i] = b[i]
                  /\ \A i \in 1 .. Len(a \o b) :
                         IF i <= Len(a) THEN i \in 1 .. Len(a) /\ (a \o b)[i] = a[i]
                         ELSE i - Len(a) \in 1 .. Len(b) /\ (a \o b)[i] = b[i - Len(a)]
                OBVIOUS
            <4>2. DOMAIN (a \o b) = 1 .. Len(a \o b)
                OBVIOUS
            <4>3. DOMAIN a = 1 .. Len(a) /\ DOMAIN b = 1 .. Len(b)
                OBVIOUS
            <4>4. ASSUME NEW i \in 1 .. Len(a \o b)
                  PROVE  (a \o b)[i] \in ToSet(a) \cup ToSet(b)
                BY <4>1, <4>3 DEF ToSet
            <4>5. ASSUME NEW i \in 1 .. Len(a) PROVE a[i] \in ToSet(a \o b)
                BY <4>1, <4>2 DEF ToSet
            <4>6. ASSUME NEW i \in 1 .. Len(b) PROVE b[i] \in ToSet(a \o b)
                BY <4>1, <4>2 DEF ToSet
            <4>7. ToSet(a \o b) \subseteq ToSet(a) \cup ToSet(b)
                BY <4>2, <4>4 DEF ToSet
            <4>8. ToSet(a) \subseteq ToSet(a \o b) /\ ToSet(b) \subseteq ToSet(a \o b)
                BY <4>3, <4>5, <4>6 DEF ToSet
            <4> QED
                BY <4>7, <4>8
        <3>6. Gathered(m + 1) = Gathered(m) \cup ToSet(parts[m + 1])
            BY <3>1
        <3> HIDE DEF Gathered
        <3> QED
            BY <3>2, <3>3, <3>4, <3>5, <3>6
    <2>6. n \in S
        <3> HIDE DEF S
        <3> QED
            BY <2>4, <2>5, Upward
    <2>7. ToSet(acc[n]) = Gathered(n)
        BY <2>6
    <2>8. n \in 0 .. n /\ DOMAIN parts = 1 .. n
        BY <2>2
    <2> QED
        BY <2>1, <2>2, <2>7, <2>8
<1> QED
    BY <1>1, <1>2

\* What dict.fromkeys has kept of the items so far, one more item.
OneMore(all, item) == IF Contains(all, item) THEN all ELSE Append(all, item)

\* What each trace of a bundle contributes to the evidence.
Parts(traces) ==
    [i \in DOMAIN traces |->
        Append(traces[i].evidence, ExecutorTag[traces[i].executor_id])]

\* Its items and its executor's tag.
LEMMA PartsTyped ==
    ASSUME NEW traces \in Seq(ExecutorTrace)
    PROVE  /\ Parts(traces) \in Seq(Seq(Text))
           /\ \A i \in DOMAIN traces :
                  /\ traces[i] \in ExecutorTrace
                  /\ ToSet(Parts(traces)[i]) =
                         ToSet(traces[i].evidence) \cup {ExecutorTag[traces[i].executor_id]}
<1>1. \A i \in DOMAIN traces : traces[i] \in ExecutorTrace
    OBVIOUS
<1>2. ASSUME NEW i \in DOMAIN traces
      PROVE  traces[i].evidence \in Seq(Text) /\ ExecutorTag[traces[i].executor_id] \in Text
    BY <1>1, ExecutorTagAssumption DEF ExecutorTrace
<1>3. ASSUME NEW a \in Seq(Text), NEW e \in Text
      PROVE  Append(a, e) \in Seq(Text) /\ ToSet(Append(a, e)) = ToSet(a) \cup {e}
    <2>1. /\ DOMAIN Append(a, e) = (1 .. Len(a)) \cup {Len(a) + 1}
          /\ \A i \in 1 .. Len(a) : Append(a, e)[i] = a[i]
          /\ Append(a, e)[Len(a) + 1] = e /\ DOMAIN a = 1 .. Len(a)
        OBVIOUS
    <2> QED
        BY <2>1 DEF ToSet
<1>4. Parts(traces) \in Seq(Seq(Text))
    <2>1. DOMAIN traces = 1 .. Len(traces) /\ Len(traces) \in Nat
        OBVIOUS
    <2> QED
        BY <1>2, <1>3, <2>1 DEF Parts
<1>5. ASSUME NEW i \in DOMAIN traces
      PROVE  ToSet(Parts(traces)[i]) =
                 ToSet(traces[i].evidence) \cup {ExecutorTag[traces[i].executor_id]}
    BY <1>2, <1>3 DEF Parts
<1> QED
    BY <1>1, <1>4, <1>5

\* dict.fromkeys, item by item.
LEMMA EvidenceFold ==
    ASSUME NEW traces \in Seq(ExecutorTrace),
           NEW flat \in Seq(Text), flat = FlattenSeq(Parts(traces))
    PROVE  \E acc \in [0 .. Len(flat) -> Seq(Text)] :
               /\ acc[0] = <<>> /\ acc[Len(flat)] = MergedEvidence(traces)
               /\ \A m \in 1 .. Len(flat) : acc[m] = OneMore(acc[m - 1], flat[m])
<1> DEFINE Solves(h) == h = [s \in SUBSET DOMAIN flat |->
               IF s = {} THEN <<>>
               ELSE IF Contains(h[s \ {Max(s)}], flat[Max(s)]) THEN h[s \ {Max(s)}]
                    ELSE Append(h[s \ {Max(s)}], flat[Max(s)])]
           iter == CHOOSE h : Solves(h)
<1>1. MergedEvidence(traces) = iter[DOMAIN flat]
    BY DEF MergedEvidence, FoldLeft, MapThenFoldSet, Parts
<1>2. PICK n \in Nat : n = Len(flat)
    OBVIOUS
<1>3. DOMAIN flat = 1 .. n /\ \A i \in 1 .. n : flat[i] \in Text
    BY <1>2
<1>4. \A a \in Seq(Text), b \in Text : OneMore(a, b) \in Seq(Text)
    BY DEF OneMore
<1>5. PICK base \in Seq(Text) : base = <<>>
    <2>1. <<>> \in Seq(Text)
        OBVIOUS
    <2> QED
        BY <2>1
<1>6. PICK Op \in Steps(n, Seq(Text)) :
          \A i \in 1 .. n, a \in Seq(Text) : Op[i][a] = OneMore(a, flat[i])
    <2>1. [i \in 1 .. n |-> [a \in Seq(Text) |-> OneMore(a, flat[i])]] \in Steps(n, Seq(Text))
        BY <1>3, <1>4 DEF Steps
    <2> QED
        BY <2>1
<1>7. Solves(iter)
    <2>1. PICK g \in [SUBSET (1 .. n) -> Seq(Text)] : IsFold(g, n, Seq(Text), base, Op)
        BY FoldExists
    <2>2. ASSUME NEW s \in SUBSET (1 .. n), s # {}
          PROVE  g[s] = OneMore(g[s \ {Max(s)}], flat[Max(s)])
        <3>1. Max(s) \in 1 .. n
            BY <2>2, HasMax
        <3>2. g[s \ {Max(s)}] \in Seq(Text)
            OBVIOUS
        <3> QED
            BY <1>6, <2>1, <2>2, <3>1, <3>2 DEF IsFold
    <2>3. Solves(g)
        BY <1>3, <1>5, <2>1, <2>2 DEF IsFold, OneMore
    <2> HIDE DEF Solves
    <2> QED
        BY <2>3
<1> HIDE DEF iter
<1>8. iter[{}] = base
    BY <1>5, <1>7
<1>9. ASSUME NEW s \in SUBSET (1 .. n), s # {}, iter[s \ {Max(s)}] \in Seq(Text)
      PROVE  iter[s] = Op[Max(s)][iter[s \ {Max(s)}]]
    <2>1. Max(s) \in 1 .. n
        BY <1>9, HasMax
    <2>2. iter[s] = OneMore(iter[s \ {Max(s)}], flat[Max(s)])
        BY <1>3, <1>7, <1>9 DEF OneMore
    <2> QED
        BY <1>6, <1>9, <2>1, <2>2
<1>10. PICK acc \in [0 .. n -> Seq(Text)] : IsPrefixFold(acc, n, base, Op) /\ acc[n] = iter[1 .. n]
    <2>1. IsFold(iter, n, Seq(Text), base, Op)
        BY <1>8, <1>9 DEF IsFold
    <2>2. PICK A : A = Seq(Text)
        OBVIOUS
    <2>3. base \in A /\ Op \in Steps(n, A) /\ IsFold(iter, n, A, base, Op)
        BY <2>1, <2>2
    <2>4. \E acc \in [0 .. n -> A] : IsPrefixFold(acc, n, base, Op) /\ acc[n] = iter[1 .. n]
        BY <2>3, FoldSteps
    <2> QED
        BY <2>2, <2>4
<1>11. \A m \in 1 .. n : acc[m] = OneMore(acc[m - 1], flat[m])
    <2>1. \A m \in 1 .. n : m - 1 \in 0 .. n
        OBVIOUS
    <2> QED
        BY <1>6, <1>10, <2>1 DEF IsPrefixFold
<1> QED
    BY <1>1, <1>2, <1>3, <1>5, <1>10, <1>11 DEF IsPrefixFold

\* The merged evidence names every item of the bundle, and none twice.
LEMMA EvidenceFacts ==
    ASSUME NEW traces \in Seq(ExecutorTrace)
    PROVE  /\ MergedEvidence(traces) \in Seq(Text)
           /\ IsInjective(MergedEvidence(traces))
           /\ ToSet(MergedEvidence(traces)) =
                  UNION {ToSet(traces[i].evidence) \cup {ExecutorTag[traces[i].executor_id]} :
                            i \in DOMAIN traces}
<1>1. PICK flat \in Seq(Text) :
          /\ flat = FlattenSeq(Parts(traces))
          /\ ToSet(flat) = UNION {ToSet(Parts(traces)[i]) : i \in DOMAIN Parts(traces)}
    BY PartsTyped, FlattenFacts
<1>2. PICK n \in Nat : n = Len(flat)
    OBVIOUS
<1>3. PICK acc \in [0 .. n -> Seq(Text)] :
          /\ acc[0] = <<>> /\ acc[n] = MergedEvidence(traces)
          /\ \A m \in 1 .. n : acc[m] = OneMore(acc[m - 1], flat[m])
    BY <1>1, <1>2, EvidenceFold
<1>4. DOMAIN flat = 1 .. n /\ \A i \in 1 .. n : flat[i] \in Text
    BY <1>2
<1> DEFINE Kept(m) == IsInjective(acc[m]) /\ ToSet(acc[m]) = {flat[i] : i \in 1 .. m}
           S == {m \in Nat : m <= n => Kept(m)}
<1>5. Kept(0)
    <2>1. {flat[i] : i \in 1 .. 0} = {}
        OBVIOUS
    <2> QED
        BY <1>3, <2>1 DEF IsInjective, ToSet
<1>6. ASSUME NEW m \in Nat, m + 1 <= n, Kept(m) PROVE Kept(m + 1)
    <2>1. /\ m \in 0 .. n /\ m + 1 \in 1 .. n /\ (m + 1) - 1 = m
          /\ 1 .. (m + 1) = (1 .. m) \cup {m + 1}
        BY <1>6
    <2>2. PICK all \in Seq(Text) : all = acc[m]
        BY <2>1
    <2>3. PICK item \in Text : item = flat[m + 1]
        BY <1>4, <2>1
    <2>4. acc[m + 1] = OneMore(all, item)
        BY <1>3, <2>1, <2>2, <2>3
    <2>5. {flat[i] : i \in 1 .. (m + 1)} = ToSet(all) \cup {item}
        BY <1>6, <2>1, <2>2, <2>3
    <2>6. IsInjective(all) /\ DOMAIN all = 1 .. Len(all)
        BY <1>6, <2>2
    <2>7. CASE Contains(all, item)
        <3>1. OneMore(all, item) = all
            BY <2>7 DEF OneMore
        <3>2. item \in ToSet(all)
            BY <2>6, <2>7 DEF Contains, ToSet
        <3> QED
            BY <2>4, <2>5, <2>6, <3>1, <3>2
    <2>8. CASE ~Contains(all, item)
        <3>1. PICK longer \in Seq(Text) : longer = Append(all, item)
            <4>1. Append(all, item) \in Seq(Text)
                OBVIOUS
            <4> QED
                BY <4>1
        <3>2. /\ OneMore(all, item) = longer
              /\ DOMAIN longer = (1 .. Len(all)) \cup {Len(all) + 1}
              /\ \A i \in 1 .. Len(all) : longer[i] = all[i]
              /\ longer[Len(all) + 1] = item
            BY <2>8, <3>1 DEF OneMore
        <3>3. ToSet(longer) = ToSet(all) \cup {item}
            BY <2>6, <3>2 DEF ToSet
        <3>4. \A i \in 1 .. Len(all) : all[i] # item
            BY <2>8 DEF Contains
        <3>5. IsInjective(longer)
            BY <2>6, <3>2, <3>4 DEF IsInjective
        <3> QED
            BY <2>4, <2>5, <3>2, <3>3, <3>5
    <2> QED
        BY <2>7, <2>8
<1>7. n \in S
    <2> HIDE DEF Kept
    <2>1. 0 \in S
        BY <1>5
    <2>2. ASSUME NEW m \in Nat, m \in S PROVE m + 1 \in S
        <3>1. m + 1 <= n => m <= n
            BY <1>2
        <3> QED
            BY <1>6, <2>2, <3>1
    <2> HIDE DEF S
    <2> QED
        BY <2>1, <2>2, Upward
<1>8. Kept(n)
    <2>1. n <= n
        OBVIOUS
    <2> HIDE DEF Kept
    <2> QED
        BY <1>7, <2>1
<1>9. ToSet(flat) = {flat[i] : i \in 1 .. n}
    BY <1>4 DEF ToSet
<1>10. ToSet(MergedEvidence(traces)) = UNION {ToSet(Parts(traces)[i]) : i \in DOMAIN Parts(traces)}
    BY <1>1, <1>3, <1>8, <1>9
<1>11. DOMAIN Parts(traces) = DOMAIN traces
    BY DEF Parts
<1>12. \A i \in DOMAIN traces :
           ToSet(Parts(traces)[i]) =
               ToSet(traces[i].evidence) \cup {ExecutorTag[traces[i].executor_id]}
    BY PartsTyped
<1>13. MergedEvidence(traces) \in Seq(Text) /\ IsInjective(MergedEvidence(traces))
    <2>1. n \in 0 .. n
        OBVIOUS
    <2> QED
        BY <1>3, <1>8, <2>1
<1> QED
    BY <1>10, <1>11, <1>12, <1>13

\* Of several values for one key the last one stays.
LEMMA MetadataFacts ==
    ASSUME NEW traces \in Seq(ExecutorTrace), NEW context \in DistillContext, NEW key \in MetaKeys
    PROVE  LET givers == {i \in DOMAIN traces : traces[i].metadata[key] # None}
           IN  IF givers = {}
               THEN MergedMetadata(context, traces)[key] = context.metadata[key]
               ELSE \E last \in givers :
                        /\ \A i \in givers : i <= last
                        /\ MergedMetadata(context, traces)[key] = traces[last].metadata[key]
<1>1. PICK n \in Nat : n = Len(traces)
    OBVIOUS
<1>2. PICK acc \in [0 .. n -> Metadata] :
          /\ acc[0] = context.metadata /\ acc[n] = MergedMetadata(context, traces)
          /\ \A m \in 1 .. n : acc[m] = Update(acc[m - 1], traces[m].metadata)
    BY <1>1, MetadataFold
<1> DEFINE Givers(m) == {i \in 1 .. m : traces[i].metadata[key] # None}
           LastWins(m) ==
               IF Givers(m) = {} THEN acc[m][key] = context.metadata[key]
               ELSE \E last \in Givers(m) : /\ \A i \in Givers(m) : i <= last
                                            /\ acc[m][key] = traces[last].metadata[key]
           S == {m \in Nat : m <= n => LastWins(m)}
<1>3. LastWins(0)
    <2>1. Givers(0) = {}
        OBVIOUS
    <2> QED
        BY <1>2, <2>1
<1>4. ASSUME NEW m \in Nat, m + 1 <= n, LastWins(m) PROVE LastWins(m + 1)
    <2>1. m + 1 \in 1 .. n /\ (m + 1) - 1 = m /\ m \in 0 .. n
        BY <1>4
    <2>2. PICK new : new = traces[m + 1].metadata
        OBVIOUS
    <2>3. acc[m + 1] = Update(acc[m], new)
        BY <1>2, <2>1, <2>2
    <2>4. acc[m + 1][key] = IF new[key] # None THEN new[key] ELSE acc[m][key]
        BY <2>3 DEF Update
    <2>5. CASE new[key] = None
        <3>1. Givers(m + 1) = Givers(m)
            BY <2>2, <2>5
        <3> QED
            BY <1>4, <2>4, <2>5, <3>1
    <2>6. CASE new[key] # None
        <3>1. Givers(m + 1) = Givers(m) \cup {m + 1}
            BY <2>2, <2>6
        <3>2. \A i \in Givers(m + 1) : i <= m + 1
            OBVIOUS
        <3>3. m + 1 \in Givers(m + 1)
            BY <3>1
        <3> QED
            BY <2>2, <2>4, <2>6, <3>2, <3>3
    <2> QED
        BY <2>5, <2>6
<1>5. LastWins(n)
    <2> HIDE DEF LastWins
    <2>1. 0 \in S
        BY <1>3
    <2>2. ASSUME NEW m \in Nat, m \in S PROVE m + 1 \in S
        <3>1. m + 1 <= n => m <= n
            OBVIOUS
        <3> QED
            BY <1>4, <2>2, <3>1
    <2>3. n \in S
        <3> HIDE DEF S
        <3> QED
            BY <2>1, <2>2, Upward
    <2>4. n <= n
        OBVIOUS
    <2> QED
        BY <2>3, <2>4
<1>6. Givers(n) = {i \in DOMAIN traces : traces[i].metadata[key] # None}
    BY <1>1
<1> HIDE DEF Givers
<1> QED
    BY <1>2, <1>5, <1>6

\* The lesson is taken from the first trace of the executor asked for, or from
\* the first one.
LEMMA LessonIndexFacts ==
    ASSUME NEW traces \in Seq(ExecutorTrace), NEW executor_id
    PROVE  /\ LessonIndex(executor_id, traces) \in 0 .. Len(traces)
           /\ LessonIndex(executor_id, traces) # 0 =>
                  executor_id \in {None, traces[LessonIndex(executor_id, traces)].executor_id}
<1>1. CASE executor_id = None
    <2>1. traces # <<>> => 1 \in 0 .. Len(traces)
        OBVIOUS
    <2> QED
        BY <1>1, <2>1 DEF LessonIndex
<1>2. CASE executor_id # None
    <2> DEFINE I == {i \in 1 .. Len(traces) : traces[i].executor_id = executor_id}
    <2>1. LessonIndex(executor_id, traces) = IF I # {} THEN Min(I) ELSE 0
        BY <1>2 DEF LessonIndex, SelectInSeq
    <2>2. I \in SUBSET Nat
        OBVIOUS
    <2>3. I # {} => Min(I) \in I
        <3> HIDE DEF I
        <3> QED
            BY <2>2, HasMin
    <2>4. I # {} => Min(I) \in 1 .. Len(traces) /\ traces[Min(I)].executor_id = executor_id
        BY <2>3
    <2> HIDE DEF I
    <2> QED
        BY <2>1, <2>4
<1> QED
    BY <1>1, <1>2

\* The trace id is the context's or one of the traces'.
LEMMA TraceIdTyped ==
    ASSUME NEW traces \in Seq(ExecutorTrace), NEW context \in DistillContext
    PROVE  MergedTraceId(context, traces) \in Optional(Text)
<1> DEFINE I == {i \in 1 .. Len(traces) : traces[i].trace_id \notin {None, Empty}}
           named == IF I # {} THEN Min(I) ELSE 0
<1>1. MergedTraceId(context, traces) =
          IF context.trace_id # None THEN context.trace_id
          ELSE IF named # 0 THEN traces[named].trace_id ELSE None
    BY DEF MergedTraceId, SelectInSeq
<1>2. I \in SUBSET Nat
    OBVIOUS
<1>3. I # {} => Min(I) \in I
    <2> HIDE DEF I
    <2> QED
        BY <1>2, HasMin
<1>4. named # 0 => named \in 1 .. Len(traces)
    BY <1>3
<1> HIDE DEF named
<1>5. named # 0 => traces[named] \in ExecutorTrace
    BY <1>4
<1> QED
    BY <1>1, <1>5 DEF ExecutorTrace, DistillContext, Optional

\* The distil stage answers with a result of its type, whatever the bundle.
LEMMA DistilledTyped ==
    ASSUME NEW call \in PipelineCall
    PROVE  Distilled(call) \in StageResult
<1>1. /\ call.traces \in Seq(ExecutorTrace) /\ call.context \in DistillContext
      /\ call.distiller \in {None} \cup [ok : BOOLEAN, candidate : Optional(CandidateExperience)]
    BY DEF PipelineCall
<1>2. CASE call.distiller # None
    BY <1>1, <1>2 DEF Distilled, StageResult, Stages, Optional
<1>3. CASE call.distiller = None
    <2>1. PICK traces \in Seq(ExecutorTrace) : traces = call.traces
        BY <1>1
    <2>2. PICK context \in DistillContext : context = call.context
        BY <1>1
    <2>3. PICK lesson \in 0 .. Len(traces) : lesson = LessonIndex(call.lesson_executor_id, traces)
        BY LessonIndexFacts
    <2>4. PICK text : lesson # 0 => text = Strip[traces[lesson].content] /\ text \in Text
        <3>1. lesson # 0 => traces[lesson] \in ExecutorTrace
            OBVIOUS
        <3>2. lesson # 0 => Strip[traces[lesson].content] \in Text
            BY <3>1, TextAssumption DEF ExecutorTrace
        <3> QED
            BY <3>2
    <2>5. PICK evidence \in Seq(Text) : evidence = MergedEvidence(traces)
        BY EvidenceFacts
    <2>6. PICK metadata \in Metadata : metadata = MergedMetadata(context, traces)
        <3>1. PICK n \in Nat : n = Len(traces)
            OBVIOUS
        <3>2. PICK acc \in [0 .. n -> Metadata] : acc[n] = MergedMetadata(context, traces)
            BY <3>1, MetadataFold
        <3>3. n \in 0 .. n
            OBVIOUS
        <3>4. MergedMetadata(context, traces) \in Metadata
            BY <3>2, <3>3
        <3> QED
            BY <3>4
    <2>7. PICK trace_id \in Optional(Text) : trace_id = MergedTraceId(context, traces)
        BY TraceIdTyped
    <2>8. PICK candidate : candidate =
              [lesson |-> text, principal |-> context.principal, scope |-> context.scope,
               relationship |-> context.relationship, classification |-> context.classification,
               trace_id |-> trace_id, evidence |-> evidence, metadata |-> metadata]
        OBVIOUS
    <2>9. lesson # 0 => candidate \in CandidateExperience
        BY <2>4, <2>8 DEF DistillContext, CandidateExperience
    <2>10. Distilled(call) = [stage |-> "distill", ok |-> lesson # 0,
                              candidate |-> IF lesson = 0 THEN None ELSE candidate,
                              consensus |-> None]
        BY <1>3, <2>1, <2>2, <2>3, <2>4, <2>5, <2>6, <2>7, <2>8
        DEF Distilled, RuleBasedDistill
    <2> QED
        BY <2>9, <2>10 DEF StageResult, Stages, Optional
<1> QED
    BY <1>2, <1>3

\* Every stage of a run is well formed.
LEMMA StagesTyped ==
    ASSUME NEW c \in PipelineCall
    PROVE  /\ Ingest(c.min_traces, c.traces) \in StageResult
           /\ Distilled(c) \in StageResult
           /\ Verify(c.registry, Distilled(c).candidate) \in StageResult
<1>1. Distilled(c) \in StageResult
    BY DistilledTyped
<1>2. Ingest(c.min_traces, c.traces) \in StageResult
    BY DEF Ingest, StageResult, Stages, Optional
<1>3. Distilled(c).candidate \in Optional(CandidateExperience)
    BY <1>1 DEF StageResult
<1>4. c.registry \in Optional(VerifierRegistry)
    BY DEF PipelineCall
<1>5. c.registry # None => Evaluate(c.registry) \in Consensus
    BY <1>4 DEF Evaluate, Consensus, VerifierRegistry, Optional, Reached
<1>6. c.registry = None \/ Evaluate(c.registry).passed \in BOOLEAN
    BY <1>5 DEF Consensus
<1>7. Verify(c.registry, Distilled(c).candidate) \in StageResult
    BY <1>3, <1>5 DEF Verify, StageResult, Stages, Optional, Evaluate
<1> QED
    BY <1>1, <1>2, <1>7

\* So is the result of a run.
LEMMA RunTyped ==
    ASSUME NEW c \in PipelineCall
    PROVE  Run(c) \in PipelineResult
<1> DEFINE executed == Ingest(c.min_traces, c.traces)
           distilled == Distilled(c)
           verified == Verify(c.registry, distilled.candidate)
<1>1. /\ executed \in StageResult /\ distilled \in StageResult /\ verified \in StageResult
      /\ distilled.candidate \in Optional(CandidateExperience) /\ verified.ok \in BOOLEAN
    BY StagesTyped DEF StageResult
<1>2. /\ <<executed>> \in Seq(StageResult)
      /\ <<executed, distilled>> \in Seq(StageResult)
      /\ <<executed, distilled, verified>> \in Seq(StageResult)
    BY <1>1
<1>3. Run(c) = IF ~executed.ok
               THEN [ok |-> FALSE, candidate |-> None, stages |-> <<executed>>]
               ELSE IF ~distilled.ok \/ distilled.candidate = None
               THEN [ok |-> FALSE, candidate |-> None, stages |-> <<executed, distilled>>]
               ELSE [ok |-> verified.ok, candidate |-> distilled.candidate,
                     stages |-> <<executed, distilled, verified>>]
    BY DEF Run
<1> HIDE DEF executed, distilled, verified
<1> QED
    BY <1>1, <1>2, <1>3 DEF PipelineResult, Optional

\* What a window shows of a result is an output.
LEMMA OutputTyped ==
    ASSUME NEW result \in PipelineResult, NEW stage \in Stages
    PROVE  OutputFor(result, stage) \in StageOutput
<1>1. PICK stages \in Seq(StageResult) : stages = result.stages
    BY DEF PipelineResult
<1> DEFINE I == {i \in 1 .. Len(stages) : stages[i].stage = stage}
           reached == IF I # {} THEN Min(I) ELSE 0
<1>2. OutputFor(result, stage) =
          IF reached = 0 THEN [stage |-> stage, content |-> "not reached", candidate |-> None]
          ELSE StageDisplay(stages[reached])
    BY <1>1 DEF OutputFor, SelectInSeq
<1>3. I \in SUBSET Nat
    OBVIOUS
<1>4. I # {} => Min(I) \in I
    <2> HIDE DEF I
    <2> QED
        BY <1>3, HasMin
<1>5. reached # 0 => stages[reached] \in StageResult
    BY <1>4
<1> HIDE DEF reached
<1>6. ASSUME NEW outcome \in StageResult PROVE StageDisplay(outcome) \in StageOutput
    BY DEF StageDisplay, StageResult, StageOutput, Optional, CandidateExperience
<1>7. CASE reached = 0
    <2>1. None \in Optional(CandidateExperience)
        BY DEF Optional
    <2>2. [stage |-> stage, content |-> "not reached", candidate |-> None] \in StageOutput
        BY <2>1 DEF StageOutput
    <2> QED
        BY <1>2, <1>7, <2>2
<1>8. CASE reached # 0
    BY <1>2, <1>5, <1>6, <1>8
<1> QED
    BY <1>7, <1>8
=============================================================================
