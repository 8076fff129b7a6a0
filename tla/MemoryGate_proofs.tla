-------------------------- MODULE MemoryGate_proofs --------------------------
(***************************************************************************)
(* What GateSpec promises, for any submissions, callers, ids and length of *)
(* the history, with a log from the start or attached late.                *)
(***************************************************************************)
EXTENDS MemoryGate, StoreAndStages_proofs

(***************************************************************************)
(* Outcomes and records.                                                   *)
(***************************************************************************)
\* What a submission comes to.
LEMMA OutcomeFacts ==
    ASSUME NEW call \in Submissions
    PROVE  /\ call \in PipelineCall /\ Outcome[call] = Run(call)
           /\ Outcome[call] \in PipelineResult
           /\ Outcome[call].candidate \in Optional(CandidateExperience)
           /\ call.context.principal \in Text
<1>1. call \in PipelineCall /\ Outcome[call] = Run(call)
    BY GateAssumption DEF Outcome
<1>2. Outcome[call] \in PipelineResult
    BY <1>1, RunTyped
<1> QED
    BY <1>1, <1>2 DEF PipelineResult, PipelineCall, DistillContext

\* The verifier outcomes of a submission: the verify stage is the third one,
\* or there is none.
LEMMA VerifierAuditsType ==
    ASSUME NEW call \in Submissions
    PROVE  VerifierAudits(Outcome[call]) \in Seq(VerifierOutcome)
<1> DEFINE stages == Outcome[call].stages
           I == {i \in 1..Len(stages) : stages[i].stage = "verify"}
<1>1. stages \in Seq(StageResult)
    BY OutcomeFacts DEF PipelineResult
<1>2. I = {} \/ I = {3}
    <2> DEFINE executed == Ingest(call.min_traces, call.traces)
               distilled == Distilled(call)
               verified == Verify(call.registry, distilled.candidate)
    <2>1. executed.stage = "execute" /\ distilled.stage = "distill" /\ verified.stage = "verify"
        BY DEF Ingest, Distilled, RuleBasedDistill, Verify
    <2>2. \/ stages = <<executed>>
          \/ stages = <<executed, distilled>>
          \/ stages = <<executed, distilled, verified>>
        BY OutcomeFacts, RunCases
    <2> HIDE DEF stages, executed, distilled, verified
    <2> QED
        BY <2>1, <2>2
<1>3. I = {3} => Min(I) = 3
    BY DEF Min
<1>4. I = {3} => 3 \in 1..Len(stages)
    OBVIOUS
<1>5. VerifierAudits(Outcome[call])
          = LET verify == IF I # {} THEN Min(I) ELSE 0
            IN  IF verify = 0 \/ stages[verify].consensus = None
                THEN <<>> ELSE stages[verify].consensus.results
    BY DEF VerifierAudits, SelectInSeq
<1>6. I = {3} => stages[3] \in StageResult
    BY <1>1, <1>4
<1> HIDE DEF stages, I
<1> QED
    BY <1>2, <1>3, <1>5, <1>6 DEF StageResult, Consensus, Optional

\* Both record builders make well-formed rows.
LEMMA RecordTypes ==
    /\ \A actor \in Text, status \in CommitStatus, id \in Optional(MemoryIds),
          pid \in Optional(PendingIds), candidate \in Optional(CandidateExperience),
          verifiers \in Seq(VerifierOutcome) :
              LET record == WriteRecord(actor, status, id, pid, candidate, verifiers)
              IN  /\ record \in AuditRecord
                  /\ record.kind = "write" /\ record.status = status
                  /\ record.memory_id = id
                  /\ record.success = (status # "rejected")
    /\ \A actor \in Text, id \in MemoryIds, success \in BOOLEAN :
              LET record == DeletionRecord(actor, id, success)
              IN  /\ record \in AuditRecord
                  /\ record.kind = "deletion" /\ record.status = None
                  /\ record.memory_id = id /\ record.actor = actor
                  /\ record.success = success
<1>1. ASSUME NEW actor \in Text, NEW status \in CommitStatus, NEW id \in Optional(MemoryIds),
             NEW pid \in Optional(PendingIds), NEW candidate \in Optional(CandidateExperience),
             NEW verifiers \in Seq(VerifierOutcome)
      PROVE  WriteRecord(actor, status, id, pid, candidate, verifiers) \in AuditRecord
    BY RowOfCandidate, GateAssumption DEF WriteRecord, AuditRecord, Optional
<1>2. ASSUME NEW actor \in Text, NEW id \in MemoryIds, NEW success \in BOOLEAN
      PROVE  DeletionRecord(actor, id, success) \in AuditRecord
    BY DEF DeletionRecord, AuditRecord, Optional
<1> QED
    BY <1>1, <1>2 DEF WriteRecord, DeletionRecord

\* The types of what Audit touches.
AuditTypeOK ==
    /\ auditLog \in Seq(AuditRecord)
    /\ unlogged \in [written : SUBSET MemoryIds, deleted : SUBSET MemoryIds]
    /\ calls \in Nat

LEMMA AuditTyped ==
    ASSUME GateTypeOK, NEW record \in AuditRecord, Audit(record),
           record.status = "committed" \/ record.kind = "deletion" => record.memory_id \in MemoryIds
    PROVE  AuditTypeOK'
<1>1. CASE attached
    BY <1>1 DEF GateTypeOK, AuditTypeOK, Audit
<1>2. CASE ~attached
    <2>1. unlogged' \in [written : SUBSET MemoryIds, deleted : SUBSET MemoryIds]
        BY <1>2 DEF GateTypeOK, Audit
    <2> QED
        BY <1>2, <2>1 DEF GateTypeOK, AuditTypeOK, Audit
<1> QED
    BY <1>1, <1>2

-----------------------------------------------------------------------------
(***************************************************************************)
(* The log against the store.                                              *)
(***************************************************************************)
LogInv == UnloggedStays /\ WritesReconcile /\ DeletionsReconcile

\* The log after one more record.
LEMMA Appended ==
    ASSUME GateTypeOK, NEW record \in AuditRecord, auditLog' = Append(auditLog, record)
    PROVE  /\ Len(auditLog) \in Nat
           /\ DOMAIN auditLog = 1..Len(auditLog)
           /\ DOMAIN auditLog' = 1..(Len(auditLog) + 1)
           /\ \A i \in 1..Len(auditLog) : auditLog'[i] = auditLog[i]
           /\ auditLog'[Len(auditLog) + 1] = record
BY DEF GateTypeOK

\* WritesReconcile for one id, and DeletionsReconcile for one id.
WriteReconciles(id) ==
    IF Known(id) /\ id \notin unlogged.written
    THEN /\ \E i \in DOMAIN auditLog : IsCommitRow(auditLog[i], id)
         /\ \A i, j \in DOMAIN auditLog :
                IsCommitRow(auditLog[i], id) /\ IsCommitRow(auditLog[j], id) => i = j
    ELSE \A i \in DOMAIN auditLog : ~IsCommitRow(auditLog[i], id)

DeletionReconciles(id) ==
    IF IsTombstoned(id) /\ id \notin unlogged.deleted
    THEN /\ \E i \in DOMAIN auditLog : IsDeletionRow(auditLog[i], id)
         /\ \A i, j \in DOMAIN auditLog :
                IsDeletionRow(auditLog[i], id) /\ IsDeletionRow(auditLog[j], id) => i = j
         /\ \A i, j \in DOMAIN auditLog :
                IsDeletionRow(auditLog[i], id) =>
                    /\ auditLog[i].actor = entries[id].principal
                    /\ IsCommitRow(auditLog[j], id) => j < i
    ELSE \A i \in DOMAIN auditLog : ~IsDeletionRow(auditLog[i], id)

LEMMA ById ==
    /\ WritesReconcile <=> \A id \in MemoryIds : WriteReconciles(id)
    /\ DeletionsReconcile <=> \A id \in MemoryIds : DeletionReconciles(id)
BY DEF WritesReconcile, WriteReconciles, DeletionsReconcile, DeletionReconciles, LoggedOnce

LEMMA ByIdNext ==
    /\ WritesReconcile' <=> \A id \in MemoryIds : WriteReconciles(id)'
    /\ DeletionsReconcile' <=> \A id \in MemoryIds : DeletionReconciles(id)'
BY DEF WritesReconcile, WriteReconciles, DeletionsReconcile, DeletionReconciles, LoggedOnce

\* A row written under a fresh id, audited as committed.
LEMMA LogCommit ==
    ASSUME StoreInv, GateTypeOK, LogInv,
           NEW id \in MemoryIds, NEW row \in MemoryEntry, Insert(id, row),
           NEW record \in AuditRecord, Audit(record),
           record.kind = "write", record.status = "committed", record.memory_id = id
    PROVE  LogInv'
<1>1. ~Known(id) /\ ~IsTombstoned(id) /\ row # None
    BY EntryTags DEF Insert, StoreInv, OnlyMintedKnown, TombstoneByOwner
<1>2. /\ Known(id)'
      /\ \A other \in MemoryIds \ {id} :
             entries'[other] = entries[other] /\ (Known(other)' <=> Known(other))
      /\ \A other \in MemoryIds : IsTombstoned(other)' <=> IsTombstoned(other)
    BY <1>1 DEF StoreInv, StoreTypeOK, Insert, Known, IsTombstoned
<1>3. /\ \A other \in MemoryIds : WriteReconciles(other) /\ DeletionReconciles(other)
      /\ UnloggedStays /\ id \notin unlogged.written
      /\ unlogged.written \subseteq MemoryIds /\ unlogged.deleted \subseteq MemoryIds
    BY <1>1, ById DEF LogInv, UnloggedStays, GateTypeOK
<1>4. /\ \A other \in MemoryIds \ {id} : ~IsCommitRow(record, other)
      /\ \A other \in MemoryIds : ~IsDeletionRow(record, other)
      /\ IsCommitRow(record, id)
    BY DEF IsCommitRow, IsDeletionRow
<1>5. CASE attached
    <2>1. auditLog' = Append(auditLog, record) /\ unlogged' = unlogged
        BY <1>5 DEF Audit
    <2>2. UnloggedStays'
        BY <1>2, <1>3, <2>1 DEF UnloggedStays
    <2>3. ASSUME NEW other \in MemoryIds PROVE WriteReconciles(other)'
        BY <1>1, <1>2, <1>3, <1>4, <2>1, Appended DEF WriteReconciles
    <2>4. ASSUME NEW other \in MemoryIds PROVE DeletionReconciles(other)'
        BY <1>1, <1>2, <1>3, <1>4, <2>1, Appended DEF DeletionReconciles
    <2> QED
        BY <2>2, <2>3, <2>4, ByIdNext DEF LogInv
<1>6. CASE ~attached
    <2>1. auditLog' = auditLog /\ unlogged' = [unlogged EXCEPT !.written = @ \cup {id}]
        BY <1>6 DEF Audit
    <2>2. unlogged'.written = unlogged.written \cup {id} /\ unlogged'.deleted = unlogged.deleted
        BY <2>1 DEF GateTypeOK
    <2>3. UnloggedStays'
        BY <1>2, <1>3, <2>2 DEF UnloggedStays
    <2>4. ASSUME NEW other \in MemoryIds PROVE WriteReconciles(other)'
        BY <1>1, <1>2, <1>3, <2>1, <2>2 DEF WriteReconciles
    <2>5. ASSUME NEW other \in MemoryIds PROVE DeletionReconciles(other)'
        BY <1>1, <1>2, <1>3, <2>1, <2>2 DEF DeletionReconciles
    <2> QED
        BY <2>3, <2>4, <2>5, ByIdNext DEF LogInv
<1> QED
    BY <1>5, <1>6

\* A write attempt that leaves the store alone.
LEMMA LogWriteless ==
    ASSUME GateTypeOK, LogInv, UNCHANGED storeVars,
           NEW record \in AuditRecord, Audit(record),
           record.kind = "write", record.status # "committed"
    PROVE  LogInv'
<1>1. \A id \in MemoryIds : /\ entries'[id] = entries[id]
                            /\ Known(id)' <=> Known(id)
                            /\ IsTombstoned(id)' <=> IsTombstoned(id)
    BY DEF storeVars, Known, IsTombstoned
<1>2. /\ \A id \in MemoryIds : WriteReconciles(id) /\ DeletionReconciles(id)
      /\ UnloggedStays
      /\ unlogged.written \subseteq MemoryIds /\ unlogged.deleted \subseteq MemoryIds
    BY ById DEF LogInv, GateTypeOK
<1>3. \A id \in MemoryIds : ~IsCommitRow(record, id) /\ ~IsDeletionRow(record, id)
    BY DEF IsCommitRow, IsDeletionRow
<1>4. unlogged' = unlogged /\ (auditLog' = auditLog \/ auditLog' = Append(auditLog, record))
    BY DEF Audit
<1>5. UnloggedStays'
    BY <1>1, <1>2, <1>4 DEF UnloggedStays
<1>6. ASSUME NEW id \in MemoryIds PROVE WriteReconciles(id)' /\ DeletionReconciles(id)'
    <2>1. CASE auditLog' = auditLog
        BY <1>1, <1>2, <1>4, <2>1 DEF WriteReconciles, DeletionReconciles
    <2>2. CASE auditLog' = Append(auditLog, record)
        BY <1>1, <1>2, <1>3, <1>4, <2>2, Appended DEF WriteReconciles, DeletionReconciles
    <2> QED
        BY <1>4, <2>1, <2>2
<1> QED
    BY <1>5, <1>6, ByIdNext DEF LogInv

\* Whatever touches neither the log nor the rows and their tombstones.
LEMMA LogUntouched ==
    ASSUME LogInv, UNCHANGED <<entries, tombstones, auditLog, unlogged>>
    PROVE  LogInv'
BY DEF LogInv, UnloggedStays, WritesReconcile, DeletionsReconcile, LoggedOnce,
       Known, IsTombstoned

\* A deletion, granted or refused.
LEMMA LogDeletion ==
    ASSUME StoreInv, GateTypeOK, LogInv,
           NEW id \in MemoryIds, NEW principal \in Text, Tombstone(id, principal),
           NEW record \in AuditRecord, Audit(record),
           record.kind = "deletion", record.status = None, record.memory_id = id,
           record.actor = principal, record.success = MayTombstone(id, principal)
    PROVE  LogInv'
<1>1. /\ \A other \in MemoryIds : WriteReconciles(other) /\ DeletionReconciles(other)
      /\ UnloggedStays
      /\ unlogged.written \subseteq MemoryIds /\ unlogged.deleted \subseteq MemoryIds
    BY ById DEF LogInv, GateTypeOK
<1>2. None # "committed"
    BY GateAssumption DEF CommitStatus
<1>3. /\ \A other \in MemoryIds : ~IsCommitRow(record, other)
      /\ \A other \in MemoryIds :
             IsDeletionRow(record, other) <=> other = id /\ MayTombstone(id, principal)
    BY <1>2 DEF IsCommitRow, IsDeletionRow
<1>4. /\ entries' = entries
      /\ \A other \in MemoryIds :
             /\ Known(other)' <=> Known(other)
             /\ IsTombstoned(other)'
                    <=> IsTombstoned(other) \/ (other = id /\ MayTombstone(id, principal))
    BY TextAssumption
    DEF Tombstone, StoreInv, StoreTypeOK, Known, IsTombstoned, storeVars
<1>5. MayTombstone(id, principal) =>
          Known(id) /\ ~IsTombstoned(id) /\ principal = entries[id].principal
    BY DEF MayTombstone, Live
<1>6. CASE attached
    <2>1. auditLog' = Append(auditLog, record) /\ unlogged' = unlogged
        BY <1>6 DEF Audit
    <2>2. UnloggedStays'
        BY <1>1, <1>4, <2>1 DEF UnloggedStays
    <2>3. ASSUME NEW other \in MemoryIds PROVE WriteReconciles(other)'
        BY <1>1, <1>3, <1>4, <2>1, Appended DEF WriteReconciles
    <2>4. ASSUME NEW other \in MemoryIds PROVE DeletionReconciles(other)'
        <3>1. CASE other = id /\ MayTombstone(id, principal)
            <4>1. \A i \in DOMAIN auditLog : ~IsDeletionRow(auditLog[i], id)
                BY <1>1, <1>5, <3>1 DEF DeletionReconciles
            <4>2. id \notin unlogged.deleted
                BY <1>1, <1>5, <3>1 DEF UnloggedStays
            <4> QED
                BY <1>3, <1>4, <1>5, <2>1, <3>1, <4>1, <4>2, Appended DEF DeletionReconciles
        <3>2. CASE ~(other = id /\ MayTombstone(id, principal))
            BY <1>1, <1>3, <1>4, <2>1, <3>2, Appended DEF DeletionReconciles
        <3> QED
            BY <3>1, <3>2
    <2> QED
        BY <2>2, <2>3, <2>4, ByIdNext DEF LogInv
<1>7. CASE ~attached
    <2>1. auditLog' = auditLog
        BY <1>7 DEF Audit
    <2>2. /\ unlogged'.written = unlogged.written
          /\ unlogged'.deleted = unlogged.deleted
                 \cup (IF MayTombstone(id, principal) THEN {id} ELSE {})
        BY <1>2, <1>7 DEF Audit, GateTypeOK
    <2>3. UnloggedStays'
        BY <1>1, <1>4, <2>2 DEF UnloggedStays
    <2>4. ASSUME NEW other \in MemoryIds PROVE WriteReconciles(other)'
        BY <1>1, <1>4, <2>1, <2>2 DEF WriteReconciles
    <2>5. ASSUME NEW other \in MemoryIds PROVE DeletionReconciles(other)'
        BY <1>1, <1>4, <1>5, <2>1, <2>2 DEF DeletionReconciles
    <2> QED
        BY <2>3, <2>4, <2>5, ByIdNext DEF LogInv
<1> QED
    BY <1>6, <1>7

-----------------------------------------------------------------------------
(***************************************************************************)
(* Each call preserves GateInv.                                            *)
(***************************************************************************)
\* What an admissible submission brings.
LEMMA AdmissibleFacts ==
    ASSUME NEW call \in Submissions, Admissible(call)
    PROVE  /\ Outcome[call].candidate \in CandidateExperience
           /\ Outcome[call].candidate # None
           /\ FromCandidate(Outcome[call].candidate) \in MemoryEntry
           /\ Outcome[call].ok
           /\ Validate(Outcome[call].candidate) = {}
           /\ call.registry # None =>
                  Endorsed(call.registry.min_passes, call.registry.answers)
BY OutcomeFacts, RunEndorsed, RowOfCandidate DEF Admissible, Optional

\* The audit row of a submission.
LEMMA AuditWriteFacts ==
    ASSUME NEW call \in Submissions, NEW status \in CommitStatus,
           NEW id \in Optional(MemoryIds), NEW pid \in Optional(PendingIds),
           latest' = Outcome[call], AuditWrite(call, status, id, pid)
    PROVE  \E record \in AuditRecord :
              /\ Audit(record) /\ record.kind = "write" /\ record.status = status
              /\ record.memory_id = id /\ record.success = (status # "rejected")
BY OutcomeFacts, VerifierAuditsType, RecordTypes DEF AuditWrite

\* The row of a candidate that was held for review.
LEMMA HeldFacts ==
    ASSUME GateInv, NEW pid \in PendingIds, pending[pid] # None
    PROVE  /\ pending[pid] \in CandidateExperience
           /\ FromCandidate(pending[pid]) \in MemoryEntry
           /\ held[pid] = pending[pid] /\ promoted[pid] = None
           /\ \E call \in Submissions : Admissible(call) /\ pending[pid] = Outcome[call].candidate
<1>1. pending[pid] \in CandidateExperience
    BY DEF GateInv, GateTypeOK, Optional
<1> QED
    BY <1>1, RowOfCandidate DEF GateInv, PendingConserved, HeldAreAdmissible

LEMMA RejectedInv ==
    ASSUME GateInv, NEW call \in Submissions, CommitRejected(call)
    PROVE  GateInv'
<1>1. PICK record \in AuditRecord :
          Audit(record) /\ record.kind = "write" /\ record.status = "rejected"
    BY AuditWriteFacts DEF CommitRejected, CommitStatus, Optional
<1>2. record.status # "committed"
    BY <1>1
<1>3. LogInv'
    BY <1>1, <1>2, LogWriteless DEF GateInv, LogInv, CommitRejected
<1>4. AuditTypeOK'
    BY <1>1, <1>2, AuditTyped DEF GateInv
<1>5. StoreInv'
    BY UnchangedInv DEF GateInv, CommitRejected
<1>6. GateTypeOK'
    BY <1>4, <1>5, OutcomeFacts
    DEF GateInv, GateTypeOK, StoreInv, AuditTypeOK, CommitRejected, inboxVars, Optional
<1> QED
    BY <1>3, <1>5, <1>6
    DEF GateInv, LogInv, CommitRejected, storeVars, inboxVars, PendingConserved,
        HeldAreAdmissible, OnlyVerifiedRows, Known

LEMMA HeldInv ==
    ASSUME GateInv, NEW call \in Submissions, NEW pid \in PendingIds, CommitHeld(call, pid)
    PROVE  GateInv'
<1>1. PICK record \in AuditRecord :
          Audit(record) /\ record.kind = "write" /\ record.status = "pending"
    BY AuditWriteFacts DEF CommitHeld, CommitStatus, Optional
<1>2. record.status # "committed"
    BY <1>1
<1>3. LogInv'
    BY <1>1, <1>2, LogWriteless DEF GateInv, LogInv, CommitHeld
<1>4. AuditTypeOK'
    BY <1>1, <1>2, AuditTyped DEF GateInv
<1>5. StoreInv'
    BY UnchangedInv DEF GateInv, CommitHeld
<1>6. /\ Outcome[call].candidate \in CandidateExperience /\ Outcome[call].candidate # None
      /\ Admissible(call)
    BY AdmissibleFacts DEF CommitHeld
<1>7. GateTypeOK'
    BY <1>4, <1>5, <1>6, OutcomeFacts
    DEF GateInv, GateTypeOK, StoreInv, AuditTypeOK, CommitHeld, Optional
<1>8. PendingConserved'
    BY <1>6 DEF GateInv, GateTypeOK, PendingConserved, CommitHeld, storeVars
<1>9. HeldAreAdmissible'
    BY <1>6 DEF GateInv, GateTypeOK, HeldAreAdmissible, CommitHeld
<1> QED
    BY <1>3, <1>5, <1>7, <1>8, <1>9
    DEF GateInv, LogInv, CommitHeld, storeVars, OnlyVerifiedRows, Known

\* A row that is made of an admissible candidate under a fresh id leaves every
\* other row as it is.
LEMMA VerifiedInsert ==
    ASSUME GateInv, NEW id \in MemoryIds, NEW call \in Submissions, Admissible(call),
           Insert(id, FromCandidate(Outcome[call].candidate))
    PROVE  /\ OnlyVerifiedRows' /\ StoreInv'
           /\ ~Known(id) /\ entries'[id] = FromCandidate(Outcome[call].candidate)
           /\ \A other \in MemoryIds \ {id} : entries'[other] = entries[other]
<1>1. ~Known(id)
    BY DEF GateInv, StoreInv, OnlyMintedKnown, Insert
<1>2. /\ entries'[id] = FromCandidate(Outcome[call].candidate)
      /\ \A other \in MemoryIds \ {id} : entries'[other] = entries[other]
    BY DEF GateInv, StoreInv, StoreTypeOK, Insert
<1>3. StoreInv'
    BY AdmissibleFacts, InsertInv DEF GateInv
<1>4. OnlyVerifiedRows'
    BY <1>2, AdmissibleFacts DEF GateInv, OnlyVerifiedRows, Known
<1> QED
    BY <1>1, <1>2, <1>3, <1>4

\* A promoted candidate is in the store.
LEMMA PromotedKnown ==
    ASSUME GateInv, NEW pid \in PendingIds, promoted[pid] # None
    PROVE  promoted[pid] \in MemoryIds /\ Known(promoted[pid])
<1>1. /\ promoted[pid] \in MemoryIds /\ held[pid] \in CandidateExperience
      /\ entries[promoted[pid]] = FromCandidate(held[pid])
    BY DEF GateInv, GateTypeOK, PendingConserved, Optional
<1> QED
    BY <1>1, RowOfCandidate, IdAssumption DEF Known

LEMMA StoredInv ==
    ASSUME GateInv, NEW call \in Submissions, NEW id \in MemoryIds, CommitStored(call, id)
    PROVE  GateInv'
<1>1. PICK record \in AuditRecord :
          /\ Audit(record) /\ record.kind = "write" /\ record.status = "committed"
          /\ record.memory_id = id
    BY AuditWriteFacts DEF CommitStored, CommitStatus, Optional
<1>2. Admissible(call) /\ FromCandidate(Outcome[call].candidate) \in MemoryEntry
    BY AdmissibleFacts DEF CommitStored
<1>3. LogInv'
    BY <1>1, <1>2, LogCommit DEF GateInv, LogInv, CommitStored
<1>4. AuditTypeOK'
    BY <1>1, AuditTyped DEF GateInv
<1>5. /\ OnlyVerifiedRows' /\ StoreInv' /\ ~Known(id)
      /\ \A other \in MemoryIds \ {id} : entries'[other] = entries[other]
    BY <1>2, VerifiedInsert DEF CommitStored
<1>6. GateTypeOK'
    BY <1>4, <1>5, OutcomeFacts
    DEF GateInv, GateTypeOK, StoreInv, AuditTypeOK, CommitStored, inboxVars, Optional
<1>7. PendingConserved'
    <2>1. \A pid \in PendingIds : promoted[pid] # None =>
              promoted[pid] \in MemoryIds /\ promoted[pid] # id
        BY <1>5, PromotedKnown
    <2> QED
        BY <1>5, <2>1 DEF GateInv, PendingConserved, CommitStored, inboxVars
<1>8. HeldAreAdmissible'
    BY DEF GateInv, HeldAreAdmissible, CommitStored, inboxVars
<1> QED
    BY <1>3, <1>5, <1>6, <1>7, <1>8 DEF GateInv, LogInv

\* The audit row of an approval.
LEMMA ApprovalRecord ==
    ASSUME GateInv, NEW pid \in PendingIds, pending[pid] # None, NEW id \in MemoryIds
    PROVE  LET record == WriteRecord(pending[pid].principal, "committed", id, None,
                                     pending[pid], <<>>)
           IN  /\ record \in AuditRecord /\ record.kind = "write"
               /\ record.status = "committed" /\ record.memory_id = id
               /\ record.success = ("committed" # "rejected")
<1> DEFINE record == WriteRecord(pending[pid].principal, "committed", id, None,
                                 pending[pid], <<>>)
<1>1. /\ pending[pid] \in CandidateExperience /\ pending[pid].principal \in Text
      /\ pending[pid].trace_id \in Optional(Text)
      /\ NormalizedScope(pending[pid].scope) \in Text
    BY HeldFacts, RowOfCandidate
<1>2. record \in AuditRecord
    BY <1>1 DEF WriteRecord, AuditRecord, Optional, CommitStatus
<1> QED
    BY <1>2 DEF WriteRecord

LEMMA ApproveInv ==
    ASSUME GateInv, NEW pid \in PendingIds, NEW id \in MemoryIds, Approve(pid, id)
    PROVE  GateInv'
<1> DEFINE record == WriteRecord(pending[pid].principal, "committed", id, None, pending[pid], <<>>)
<1>1. PICK call \in Submissions : Admissible(call) /\ pending[pid] = Outcome[call].candidate
    BY HeldFacts DEF Approve
<1>2. /\ pending[pid] \in CandidateExperience /\ FromCandidate(pending[pid]) \in MemoryEntry
      /\ held[pid] = pending[pid] /\ promoted[pid] = None /\ pending[pid] # None
    BY HeldFacts DEF Approve
<1>3. /\ record \in AuditRecord /\ record.kind = "write" /\ record.status = "committed"
      /\ record.memory_id = id
    BY ApprovalRecord DEF Approve
<1>4. Audit(record)
    BY DEF Approve
<1> HIDE DEF record
<1>5. LogInv'
    BY <1>2, <1>3, <1>4, LogCommit DEF GateInv, LogInv, Approve
<1>6. AuditTypeOK'
    BY <1>3, <1>4, AuditTyped DEF GateInv
<1>7. /\ OnlyVerifiedRows' /\ StoreInv' /\ ~Known(id) /\ entries'[id] = FromCandidate(pending[pid])
      /\ \A other \in MemoryIds \ {id} : entries'[other] = entries[other]
    BY <1>1, VerifiedInsert DEF Approve
<1>8. GateTypeOK'
    BY <1>6, <1>7 DEF GateInv, GateTypeOK, StoreInv, AuditTypeOK, Approve, Optional
<1>9. PendingConserved'
    <2>1. \A other \in PendingIds : promoted[other] # None =>
              promoted[other] \in MemoryIds /\ promoted[other] # id
        BY <1>7, PromotedKnown
    <2>2. /\ \A other \in PendingIds \ {pid} :
                 pending'[other] = pending[other] /\ promoted'[other] = promoted[other]
          /\ pending'[pid] = None /\ promoted'[pid] = id /\ held' = held /\ id # None
        BY GateAssumption DEF Approve, GateInv, GateTypeOK
    <2> QED
        BY <1>2, <1>7, <2>1, <2>2 DEF GateInv, PendingConserved
<1>10. HeldAreAdmissible'
    BY DEF GateInv, HeldAreAdmissible, Approve
<1> QED
    BY <1>5, <1>7, <1>8, <1>9, <1>10 DEF GateInv, LogInv

LEMMA ForgetInv ==
    ASSUME GateInv, NEW id \in MemoryIds, NEW principal \in Text, Forget(id, principal)
    PROVE  GateInv'
<1> DEFINE record == DeletionRecord(principal, id, MayTombstone(id, principal))
<1>2. /\ record \in AuditRecord /\ record.kind = "deletion" /\ record.status = None
      /\ record.memory_id = id /\ record.actor = principal
      /\ record.success = MayTombstone(id, principal)
    <2>1. MayTombstone(id, principal) \in BOOLEAN
        BY DEF MayTombstone, Live, Known, IsTombstoned
    <2> QED
        BY <2>1, RecordTypes
<1>3. Audit(record)
    BY DEF Forget
<1> HIDE DEF record
<1>4. LogInv'
    BY <1>2, <1>3, LogDeletion DEF GateInv, LogInv, Forget
<1>5. AuditTypeOK'
    BY <1>2, <1>3, AuditTyped DEF GateInv
<1>6. StoreInv' /\ entries' = entries
    BY TombstoneInv DEF GateInv, Forget, Tombstone, storeVars
<1>7. GateTypeOK'
    BY <1>5, <1>6 DEF GateInv, GateTypeOK, StoreInv, AuditTypeOK, Forget, inboxVars
<1> QED
    BY <1>4, <1>6, <1>7
    DEF GateInv, LogInv, Forget, inboxVars, PendingConserved, HeldAreAdmissible,
        OnlyVerifiedRows, Known

\* The calls that change neither the rows, their tombstones, the inbox nor the
\* content of the log.
LEMMA QuietInv ==
    ASSUME GateInv, StoreInv', UNCHANGED <<entries, tombstones, inboxVars, auditLog, unlogged>>,
           mode' \in GateMode, attached' \in BOOLEAN, latest' \in Optional(PipelineResult),
           calls' \in Nat
    PROVE  GateInv'
<1>1. LogInv'
    BY LogUntouched DEF GateInv, LogInv
<1>2. GateTypeOK'
    BY DEF GateInv, GateTypeOK, StoreInv, inboxVars
<1> QED
    BY <1>1, <1>2
    DEF GateInv, LogInv, inboxVars, PendingConserved, HeldAreAdmissible, OnlyVerifiedRows, Known

-----------------------------------------------------------------------------
(***************************************************************************)
(* The theorems.                                                           *)
(***************************************************************************)
\* A new gate satisfies the invariant, and every call preserves it.
LEMMA GateInitInv == GateInit => GateInv
<1> SUFFICES ASSUME GateInit PROVE GateInv
    OBVIOUS
<1>1. StoreInv
    BY StoreInitInv DEF GateInit
<1>2. /\ \A id \in MemoryIds : ~Known(id) /\ ~IsTombstoned(id)
      /\ \A pid \in PendingIds : pending[pid] = None /\ held[pid] = None /\ promoted[pid] = None
      /\ auditLog = <<>> /\ unlogged.written = {} /\ unlogged.deleted = {}
    BY DEF GateInit, StoreInit, Known, IsTombstoned
<1>3. GateTypeOK
    BY <1>1, GateAssumption DEF GateInit, GateTypeOK, StoreInv, Optional
<1>4. LogInv
    BY <1>2, ById DEF LogInv, UnloggedStays, WriteReconciles, DeletionReconciles
<1> QED
    BY <1>1, <1>2, <1>3, <1>4
    DEF GateInv, LogInv, PendingConserved, HeldAreAdmissible, OnlyVerifiedRows

LEMMA GateStepInv == GateInv /\ [GateNext]_gateVars => GateInv'
<1> SUFFICES ASSUME GateInv, [GateNext]_gateVars PROVE GateInv'
    OBVIOUS
<1>1. ASSUME NEW call \in Submissions, CommitRejected(call) PROVE GateInv'
    BY <1>1, RejectedInv
<1>2. ASSUME NEW call \in Submissions, CommitRaises(call) PROVE GateInv'
    BY <1>2, QuietInv, UnchangedInv, OutcomeFacts
    DEF CommitRaises, auditVars, storeVars, GateInv, GateTypeOK, Optional
<1>3. ASSUME NEW call \in Submissions, NEW pid \in PendingIds, CommitHeld(call, pid)
      PROVE  GateInv'
    BY <1>3, HeldInv
<1>4. ASSUME NEW call \in Submissions, NEW id \in MemoryIds, CommitStored(call, id)
      PROVE  GateInv'
    BY <1>4, StoredInv
<1>5. ASSUME NEW pid \in PendingIds, NEW id \in MemoryIds, Approve(pid, id) PROVE GateInv'
    BY <1>5, ApproveInv
<1>6. ASSUME NEW pid \in PendingIds, ApproveUnknown(pid) PROVE GateInv'
    BY <1>6, QuietInv, UnchangedInv DEF ApproveUnknown, storeVars, GateInv, GateTypeOK
<1>7. ASSUME NEW id \in MemoryIds, NEW principal \in Callers, Forget(id, principal)
      PROVE  GateInv'
    BY <1>7, ForgetInv, GateAssumption
<1>8. ASSUME NEW id \in MemoryIds, NEW vector \in VectorIds, GateBindEmbedding(id, vector)
      PROVE  GateInv'
    BY <1>8, QuietInv, BindEmbeddingInv
    DEF GateBindEmbedding, BindEmbedding, auditVars, storeVars, GateInv, GateTypeOK
<1>9. ASSUME NEW m \in GateMode, SetMode(m) PROVE GateInv'
    BY <1>9, QuietInv, UnchangedInv DEF SetMode, auditVars, storeVars, GateInv, GateTypeOK
<1>10. CASE AttachLog
    BY <1>10, QuietInv, UnchangedInv DEF AttachLog, auditVars, storeVars, GateInv, GateTypeOK
<1>11. CASE UNCHANGED gateVars
    BY <1>11, QuietInv, UnchangedInv
    DEF gateVars, inboxVars, auditVars, storeVars, GateInv, GateTypeOK
<1> QED
    BY <1>1, <1>2, <1>3, <1>4, <1>5, <1>6, <1>7, <1>8, <1>9, <1>10, <1>11 DEF GateNext

\* Every state that calls on the gate lead to satisfies the inductive invariant.
THEOREM GateInvariant == GateSpec => []GateInv
BY GateInitInv, GateStepInv, PTL DEF GateSpec

\* The gate's attributes keep the types that gate.py and models.py declare.
THEOREM GateTypes == GateSpec => []GateTypeOK
<1>1. GateInv => GateTypeOK
    BY DEF GateInv
<1> QED
    BY <1>1, GateInvariant, PTL

\* Every row was logged by the commit() or approve() that stored it, once, and
\* nothing is logged as stored that was not: for any history, and with a log
\* attached at any time.
THEOREM AuditReconciles == GateSpec => []WritesReconcile
<1>1. GateInv => WritesReconcile
    BY DEF GateInv
<1> QED
    BY <1>1, GateInvariant, PTL

\* The same of forget(): the log's successful deletions are the store's.
THEOREM DeletionsReconciled == GateSpec => []DeletionsReconcile
<1>1. GateInv => DeletionsReconcile
    BY DEF GateInv
<1> QED
    BY <1>1, GateInvariant, PTL

\* commit() and approve() let nothing into the store that did not pass its
\* pipeline, its quorum and validate().
THEOREM RowsAreVerified == GateSpec => []OnlyVerifiedRows
<1>1. GateInv => OnlyVerifiedRows
    BY DEF GateInv
<1> QED
    BY <1>1, GateInvariant, PTL

\* The inbox neither loses a candidate nor promotes one twice.
THEOREM InboxConserves == GateSpec => []PendingConserved
<1>1. GateInv => PendingConserved
    BY DEF GateInv
<1> QED
    BY <1>1, GateInvariant, PTL

\* from_candidate and validate() together leave no row with a blank or padded
\* owner.
THEOREM RowsTagged == GateSpec => []RowsAreWellTagged
<1>1. GateInv => RowsAreWellTagged
    <2> SUFFICES ASSUME GateInv, NEW id \in MemoryIds, Known(id)
                 PROVE  /\ entries[id].principal # Empty
                        /\ Strip[entries[id].principal] = entries[id].principal
                        /\ entries[id].scope # Empty
                        /\ entries[id].classification \in ValidClassifications
        BY DEF RowsAreWellTagged
    <2>1. PICK call \in Submissions :
              /\ Outcome[call].ok /\ Validate(Outcome[call].candidate) = {}
              /\ entries[id] = FromCandidate(Outcome[call].candidate)
        BY DEF GateInv, OnlyVerifiedRows
    <2> DEFINE candidate == Outcome[call].candidate
    <2>2. /\ ~IsBlank(candidate.principal)
          /\ NormalizedScope(candidate.scope) # Empty
          /\ Strip[candidate.classification] \in ValidClassifications
        BY <2>1 DEF Validate
    <2>3. candidate.principal \in Text
        BY <2>1, OutcomeFacts, RunCases, RowOfCandidate DEF Optional
    <2> HIDE DEF candidate
    <2>4. /\ entries[id].principal = Strip[candidate.principal]
          /\ entries[id].scope = NormalizedScope(candidate.scope)
          /\ entries[id].classification = Strip[candidate.classification]
        BY <2>1 DEF FromCandidate, candidate
    <2> QED
        BY <2>2, <2>3, <2>4, TextAssumption DEF IsBlank
<1> QED
    BY <1>1, GateInvariant, PTL

\* A tidy candidate is listed under the filters that will find its row.
THEOREM InboxFilters == GateSpec => []InboxFiltersLikeStore
<1>1. GateInv => InboxFiltersLikeStore
    BY HeldFacts DEF InboxFiltersLikeStore, ListPending, MatchesTags, FromCandidate, Tidy
<1> QED
    BY <1>1, GateInvariant, PTL

-----------------------------------------------------------------------------
\* The only record Audit can have added to the log is its argument.
LEMMA LastRecord ==
    ASSUME GateTypeOK, NEW record \in AuditRecord, Audit(record),
           Len(auditLog') > Len(auditLog)
    PROVE  auditLog'[Len(auditLog')] = record
BY DEF GateTypeOK, Audit

\* What commit() and forget() audit as failures has had no effect.
THEOREM FailuresAreInert == GateSpec => FailuresChangeNothing
<1> DEFINE Inert == Len(auditLog') > Len(auditLog) /\ ~auditLog'[Len(auditLog')].success
                        => UNCHANGED <<storeVars, inboxVars>>
<1>1. GateInv /\ [GateNext]_gateVars => [Inert]_gateVars
    <2> SUFFICES ASSUME GateInv, GateNext,
                        Len(auditLog') > Len(auditLog), ~auditLog'[Len(auditLog')].success
                 PROVE  UNCHANGED <<storeVars, inboxVars>>
        OBVIOUS
    <2>0. Len(auditLog) \in Nat
        BY DEF GateInv, GateTypeOK
    <2>1. ASSUME NEW call \in Submissions, CommitRejected(call)
          PROVE  UNCHANGED <<storeVars, inboxVars>>
        BY <2>1 DEF CommitRejected
    <2>2. ASSUME NEW call \in Submissions, CommitRaises(call)
          PROVE  UNCHANGED <<storeVars, inboxVars>>
        BY <2>2 DEF CommitRaises
    <2>3. ASSUME NEW call \in Submissions, NEW pid \in PendingIds, CommitHeld(call, pid)
          PROVE  FALSE
        <3>1. PICK record \in AuditRecord : Audit(record) /\ record.success = ("pending" # "rejected")
            BY <2>3, AuditWriteFacts DEF CommitHeld, CommitStatus, Optional
        <3> QED
            BY <3>1, LastRecord DEF GateInv
    <2>4. ASSUME NEW call \in Submissions, NEW id \in MemoryIds, CommitStored(call, id)
          PROVE  FALSE
        <3>1. PICK record \in AuditRecord : Audit(record) /\ record.success = ("committed" # "rejected")
            BY <2>4, AuditWriteFacts DEF CommitStored, CommitStatus, Optional
        <3> QED
            BY <3>1, LastRecord DEF GateInv
    <2>5. ASSUME NEW pid \in PendingIds, NEW id \in MemoryIds, Approve(pid, id) PROVE FALSE
        <3> DEFINE record ==
                WriteRecord(pending[pid].principal, "committed", id, None, pending[pid], <<>>)
        <3>1. record \in AuditRecord /\ record.success = ("committed" # "rejected")
            BY <2>5, ApprovalRecord DEF Approve
        <3>2. Audit(record)
            BY <2>5 DEF Approve
        <3> HIDE DEF record
        <3> QED
            BY <3>1, <3>2, LastRecord DEF GateInv
    <2>6. ASSUME NEW pid \in PendingIds, ApproveUnknown(pid)
          PROVE  UNCHANGED <<storeVars, inboxVars>>
        BY <2>6 DEF ApproveUnknown
    <2>7. ASSUME NEW id \in MemoryIds, NEW principal \in Callers, Forget(id, principal)
          PROVE  UNCHANGED <<storeVars, inboxVars>>
        <3> DEFINE record == DeletionRecord(principal, id, MayTombstone(id, principal))
        <3>1. record \in AuditRecord /\ record.success = MayTombstone(id, principal)
            <4>1. MayTombstone(id, principal) \in BOOLEAN
                BY DEF MayTombstone, Live, Known, IsTombstoned
            <4> QED
                BY <4>1, RecordTypes, GateAssumption
        <3>2. Audit(record)
            BY <2>7 DEF Forget
        <3> HIDE DEF record
        <3>3. ~MayTombstone(id, principal)
            BY <3>1, <3>2, LastRecord DEF GateInv
        <3> QED
            BY <2>7, <3>3 DEF Forget, Tombstone
    <2>8. ASSUME NEW id \in MemoryIds, NEW vector \in VectorIds, GateBindEmbedding(id, vector)
          PROVE  FALSE
        BY <2>0, <2>8 DEF GateBindEmbedding, auditVars
    <2>9. ASSUME NEW m \in GateMode, SetMode(m) PROVE UNCHANGED <<storeVars, inboxVars>>
        BY <2>9 DEF SetMode
    <2>10. CASE AttachLog
        BY <2>10 DEF AttachLog
    <2> QED
        BY <2>1, <2>2, <2>3, <2>4, <2>5, <2>6, <2>7, <2>8, <2>9, <2>10 DEF GateNext
<1> QED
    BY <1>1, GateInvariant, PTL DEF GateSpec, FailuresChangeNothing

\* In review mode only approve() puts a row into the store.
THEOREM ReviewRespected == GateSpec => ReviewIsRespected
<1> DEFINE Reviewed ==
        \A id \in MemoryIds :
            mode = "manual_review" /\ ~Known(id) /\ Known(id)' =>
                \E pid \in PendingIds :
                    /\ pending[pid] # None /\ pending'[pid] = None
                    /\ entries'[id] = FromCandidate(pending[pid])
<1>1. GateInv /\ [GateNext]_gateVars => [Reviewed]_gateVars
    <2> SUFFICES ASSUME GateInv, GateNext, NEW id \in MemoryIds,
                        mode = "manual_review", ~Known(id), Known(id)'
                 PROVE  \E pid \in PendingIds :
                            /\ pending[pid] # None /\ pending'[pid] = None
                            /\ entries'[id] = FromCandidate(pending[pid])
        OBVIOUS
    <2>1. ~UNCHANGED entries
        BY DEF Known
    <2>2. ASSUME NEW call \in Submissions,
                 CommitRejected(call) \/ CommitRaises(call)
                     \/ \E pid \in PendingIds : CommitHeld(call, pid)
          PROVE  FALSE
        BY <2>1, <2>2 DEF CommitRejected, CommitRaises, CommitHeld, storeVars
    <2>3. ASSUME NEW call \in Submissions, NEW other \in MemoryIds, CommitStored(call, other)
          PROVE  FALSE
        BY <2>3 DEF CommitStored
    <2>4. ASSUME NEW pid \in PendingIds, NEW other \in MemoryIds, Approve(pid, other)
          PROVE  /\ pending[pid] # None /\ pending'[pid] = None
                 /\ entries'[id] = FromCandidate(pending[pid])
        <3>1. other = id
            BY <2>4 DEF Approve, Insert, Known, GateInv, StoreInv, StoreTypeOK
        <3> QED
            BY <2>4, <3>1 DEF Approve, Insert, GateInv, GateTypeOK, StoreInv, StoreTypeOK
    <2>5. ASSUME NEW pid \in PendingIds, ApproveUnknown(pid) PROVE FALSE
        BY <2>1, <2>5 DEF ApproveUnknown, storeVars
    <2>6. ASSUME NEW other \in MemoryIds, NEW principal \in Callers, Forget(other, principal)
          PROVE  FALSE
        BY <2>1, <2>6 DEF Forget, Tombstone, storeVars
    <2>7. ASSUME NEW other \in MemoryIds, NEW vector \in VectorIds,
                 GateBindEmbedding(other, vector)
          PROVE  FALSE
        BY <2>1, <2>7 DEF GateBindEmbedding, BindEmbedding, storeVars
    <2>8. CASE AttachLog \/ \E m \in GateMode : SetMode(m)
        BY <2>1, <2>8 DEF AttachLog, SetMode, storeVars
    <2> QED
        BY <2>2, <2>3, <2>4, <2>5, <2>6, <2>7, <2>8 DEF GateNext
<1> QED
    BY <1>1, GateInvariant, PTL DEF GateSpec, ReviewIsRespected
=============================================================================
