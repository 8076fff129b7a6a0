----------------------------- MODULE MemoryGate -----------------------------
(***************************************************************************)
(* gate.py: the write gate over a store it owns, with its inbox of         *)
(* candidates held for review and its optional audit log (audit_log.py).   *)
(* Each action is one whole call of one public method; callers take turns. *)
(***************************************************************************)
EXTENDS MemoryStore, EDVStages, GateValidation

CONSTANTS
    Submissions,  \* the pipeline runs that commit() is called for
    Callers,      \* the principals that call forget()
    PendingIds,   \* what uuid4 can return for an inbox item
    Filters,      \* the filters the inbox is listed with
    Renders,      \* whether windows are bound and on_render is set
    LogAtStart,   \* whether the gate is built with an audit log
    MaxCalls      \* bound: calls made while a log is attached

CommitStatus == {"committed", "pending", "rejected"}

\* What pipeline.run returns for each of them.
Outcome == [call \in Submissions |-> Run(call)]

ASSUME GateAssumption ==
    /\ Submissions \subseteq PipelineCall
    /\ Callers \subseteq Text
    /\ None \notin CandidateExperience \cup MemoryIds \cup PendingIds \cup CommitStatus
    /\ Renders \in BOOLEAN /\ LogAtStart \in BOOLEAN
    /\ MaxCalls \in Nat

GateMode == {"auto_commit", "manual_review"}

AuditRecord ==
    [kind       : {"write", "deletion"},
     actor      : Text,
     status     : Optional(CommitStatus),
     memory_id  : Optional(MemoryIds),
     pending_id : Optional(PendingIds),
     trace_id   : Optional(Text),
     scope      : Optional(Text),
     verifiers  : Seq(VerifierOutcome),
     success    : BOOLEAN]

VARIABLES
    pending,   \* _pending
    mode,      \* mode, a public attribute that callers change
    attached,  \* whether audit_log is not None
    auditLog,  \* the rows of the log, once it is attached
    latest,    \* _latest
    held,      \* history: the candidate first held under a pending id
    promoted,  \* history: the row a pending id was approved into
    unlogged,  \* history: the rows written, and the rows deleted,
               \* before there was a log
    calls      \* history: the calls of commit, approve and forget that
               \* returned while a log was attached

inboxVars == <<pending, held, promoted>>
auditVars == <<auditLog, unlogged, calls>>
gateVars  == <<storeVars, inboxVars, auditVars, mode, attached, latest>>

GateTypeOK ==
    /\ StoreTypeOK
    /\ pending \in [PendingIds -> Optional(CandidateExperience)]
    /\ mode \in GateMode
    /\ attached \in BOOLEAN
    /\ auditLog \in Seq(AuditRecord)
    /\ latest \in Optional(PipelineResult)
    /\ held \in [PendingIds -> Optional(CandidateExperience)]
    /\ promoted \in [PendingIds -> Optional(MemoryIds)]
    /\ unlogged \in [written : SUBSET MemoryIds, deleted : SUBSET MemoryIds]
    /\ calls \in Nat

GateInit ==
    /\ StoreInit
    /\ pending = [pid \in PendingIds |-> None]
    /\ mode \in GateMode
    /\ attached = LogAtStart
    /\ auditLog = <<>>
    /\ latest = None
    /\ held = pending
    /\ promoted = [pid \in PendingIds |-> None]
    /\ unlogged = [written |-> {}, deleted |-> {}]
    /\ calls = 0

-----------------------------------------------------------------------------
(***************************************************************************)
(* Admission and audit rows.                                               *)
(***************************************************************************)
\* The candidate of a submission may be written or held.
Admissible(call) ==
    /\ Outcome[call].ok
    /\ Outcome[call].candidate # None
    /\ Validate(Outcome[call].candidate) = {}

\* _verify_consensus, as the verifier outcomes that go into the audit row.
VerifierAudits(result) ==
    LET verify == SelectInSeq(result.stages, LAMBDA s : s.stage = "verify")
    IN  IF verify = 0 \/ result.stages[verify].consensus = None
        THEN <<>> ELSE result.stages[verify].consensus.results

\* build_write_record
WriteRecord(actor, status, memory_id, pending_id, candidate, verifiers) ==
    [kind       |-> "write",
     actor      |-> actor,
     status     |-> status,
     memory_id  |-> memory_id,
     pending_id |-> pending_id,
     trace_id   |-> IF candidate = None THEN None ELSE candidate.trace_id,
     scope      |-> IF candidate = None THEN None ELSE NormalizedScope(candidate.scope),
     verifiers  |-> verifiers,
     success    |-> status # "rejected"]

\* build_deletion_record
DeletionRecord(actor, memory_id, success) ==
    [kind       |-> "deletion",
     actor      |-> actor,
     status     |-> None,
     memory_id  |-> memory_id,
     pending_id |-> None,
     trace_id   |-> None,
     scope      |-> None,
     verifiers  |-> <<>>,
     success    |-> success]

\* The call returns, and has left this row if there is a log.
Audit(record) ==
    IF attached
    THEN /\ calls < MaxCalls
         /\ calls' = calls + 1
         /\ auditLog' = Append(auditLog, record)
         /\ UNCHANGED unlogged
    ELSE /\ unlogged' = CASE record.status = "committed" ->
                               [unlogged EXCEPT !.written = @ \cup {record.memory_id}]
                          [] record.kind = "deletion" /\ record.success ->
                               [unlogged EXCEPT !.deleted = @ \cup {record.memory_id}]
                          [] OTHER -> unlogged
         /\ UNCHANGED <<auditLog, calls>>

\* _audit_write: without a candidate of its own the row takes the latest one's,
\* and latest is, in a call that nothing interrupts, the call's own result.
AuditWrite(call, status, memory_id, pending_id) ==
    LET result == Outcome[call]
        candidate == IF result.candidate # None THEN result.candidate ELSE latest'.candidate
    IN  Audit(WriteRecord(call.context.principal, status, memory_id, pending_id,
                          candidate, VerifierAudits(result)))

-----------------------------------------------------------------------------
(***************************************************************************)
(* commit(), by outcome.                                                   *)
(***************************************************************************)
\* The pipeline or validate() refuses the submission.
CommitRejected(call) ==
    /\ ~Admissible(call)
    /\ latest' = Outcome[call]
    /\ AuditWrite(call, "rejected", None, None)
    /\ UNCHANGED <<storeVars, inboxVars, mode, attached>>

\* The candidate goes to the inbox under a fresh id.
CommitHeld(call, pid) ==
    /\ Admissible(call)
    /\ mode = "manual_review"
    /\ held[pid] = None
    /\ latest' = Outcome[call]
    /\ pending' = [pending EXCEPT ![pid] = Outcome[call].candidate]
    /\ held' = [held EXCEPT ![pid] = Outcome[call].candidate]
    /\ AuditWrite(call, "pending", None, pid)
    /\ UNCHANGED <<storeVars, promoted, mode, attached>>

\* The candidate is promoted to a row of the store.
CommitStored(call, id) ==
    /\ Admissible(call)
    /\ mode = "auto_commit"
    /\ latest' = Outcome[call]
    /\ Insert(id, FromCandidate(Outcome[call].candidate))
    /\ AuditWrite(call, "committed", id, None)
    /\ UNCHANGED <<inboxVars, mode, attached>>

\* on_render throws: the result is the latest one, and nothing else happens.
CommitRaises(call) ==
    /\ Renders
    /\ latest' = Outcome[call]
    /\ UNCHANGED <<storeVars, inboxVars, auditVars, mode, attached>>

-----------------------------------------------------------------------------
(***************************************************************************)
(* The other methods.                                                      *)
(***************************************************************************)
\* Mutant: the approved candidate stays in the inbox.
ApproveKeeps(pid, id) ==
    /\ pending[pid] # None
    /\ promoted' = [promoted EXCEPT ![pid] = id]
    /\ Insert(id, FromCandidate(pending[pid]))
    /\ Audit(WriteRecord(pending[pid].principal, "committed", id, None, pending[pid], <<>>))
    /\ UNCHANGED <<pending, held, mode, attached, latest>>

\* Mutant: an approval is not audited.
ApproveUnaudited(pid, id) ==
    /\ pending[pid] # None
    /\ pending' = [pending EXCEPT ![pid] = None]
    /\ promoted' = [promoted EXCEPT ![pid] = id]
    /\ Insert(id, FromCandidate(pending[pid]))
    /\ UNCHANGED <<held, mode, attached, latest, auditVars>>

\* approve() of a waiting candidate.  Its audit row names the candidate's
\* principal as it was given, and neither the pending id nor the verifiers.
Approve(pid, id) ==
    /\ pending[pid] # None
    /\ pending' = [pending EXCEPT ![pid] = None]
    /\ promoted' = [promoted EXCEPT ![pid] = id]
    /\ Insert(id, FromCandidate(pending[pid]))
    /\ Audit(WriteRecord(pending[pid].principal, "committed", id, None, pending[pid], <<>>))
    /\ UNCHANGED <<held, mode, attached, latest>>

\* approve() of an id the inbox does not hold returns a rejection, unaudited.
ApproveUnknown(pid) ==
    /\ pending[pid] = None
    /\ attached /\ calls < MaxCalls
    /\ calls' = calls + 1
    /\ UNCHANGED <<storeVars, inboxVars, auditLog, unlogged, mode, attached, latest>>

\* Mutant: every deletion is audited as a success.
ForgetAlwaysSucceeds(id, principal) ==
    /\ Tombstone(id, principal)
    /\ Audit(DeletionRecord(principal, id, TRUE))
    /\ UNCHANGED <<inboxVars, mode, attached, latest>>

\* forget(), whether the store agrees or not.
Forget(id, principal) ==
    /\ Tombstone(id, principal)
    /\ Audit(DeletionRecord(principal, id, MayTombstone(id, principal)))
    /\ UNCHANGED <<inboxVars, mode, attached, latest>>

\* bind_embedding() is not audited.
GateBindEmbedding(id, vector) ==
    /\ BindEmbedding(id, vector)
    /\ UNCHANGED <<inboxVars, auditVars, mode, attached, latest>>

\* gate.mode = ...
SetMode(m) ==
    /\ mode' = m
    /\ UNCHANGED <<storeVars, inboxVars, auditVars, attached, latest>>

\* gate.audit_log = ..., by a caller or by the daemon that finds none.
AttachLog ==
    /\ ~attached
    /\ attached' = TRUE
    /\ UNCHANGED <<storeVars, inboxVars, auditVars, mode, latest>>

GateNext ==
    \/ \E call \in Submissions : CommitRejected(call) \/ CommitRaises(call)
    \/ \E call \in Submissions, pid \in PendingIds : CommitHeld(call, pid)
    \/ \E call \in Submissions, id \in MemoryIds : CommitStored(call, id)
    \/ \E pid \in PendingIds, id \in MemoryIds : Approve(pid, id)
    \/ \E pid \in PendingIds : ApproveUnknown(pid)
    \/ \E id \in MemoryIds, principal \in Callers : Forget(id, principal)
    \/ \E id \in MemoryIds, vector \in VectorIds : GateBindEmbedding(id, vector)
    \/ \E m \in GateMode : SetMode(m)
    \/ AttachLog

GateSpec == GateInit /\ [][GateNext]_gateVars

-----------------------------------------------------------------------------
(***************************************************************************)
(* Reads of the inbox.                                                     *)
(***************************************************************************)
\* Mutant: the scope is compared as it was given, enum member or string.
ListPendingRawScope(filters) ==
    {pid \in PendingIds :
        /\ pending[pid] # None
        /\ filters.principal # None => pending[pid].principal = filters.principal
        /\ filters.scope # None => pending[pid].scope = filters.scope
        /\ filters.classification # None =>
               pending[pid].classification = filters.classification}

\* list_pending(filters): the tags as they were given, but for the scope.
ListPending(filters) ==
    {pid \in PendingIds :
        /\ pending[pid] # None
        /\ filters.principal # None => pending[pid].principal = filters.principal
        /\ filters.scope # None => NormalizedScope(pending[pid].scope) = filters.scope
        /\ filters.classification # None =>
               pending[pid].classification = filters.classification}

-----------------------------------------------------------------------------
(***************************************************************************)
(* Invariants.                                                             *)
(***************************************************************************)
IsCommitRow(record, id)   == record.status = "committed" /\ record.memory_id = id
IsDeletionRow(record, id) == record.kind = "deletion" /\ record.success /\ record.memory_id = id

\* Exactly one row of the log satisfies Test.
LoggedOnce(Test(_)) ==
    /\ \E i \in DOMAIN auditLog : Test(auditLog[i])
    /\ \A i, j \in DOMAIN auditLog : Test(auditLog[i]) /\ Test(auditLog[j]) => i = j

\* The log and the store tell the same story.  Every row of the store written
\* under a log has one "committed" audit row, whichever of commit and approve
\* wrote it; there is no "committed" row without a memory.
WritesReconcile ==
    \A id \in MemoryIds :
        IF Known(id) /\ id \notin unlogged.written
        THEN LoggedOnce(LAMBDA record : IsCommitRow(record, id))
        ELSE \A i \in DOMAIN auditLog : ~IsCommitRow(auditLog[i], id)

\* Every tombstone set under a log has one successful deletion row, which
\* names the owner of the row and comes after the row's own "committed" row;
\* refused deletions never pass for successful ones.
DeletionsReconcile ==
    \A id \in MemoryIds :
        IF IsTombstoned(id) /\ id \notin unlogged.deleted
        THEN /\ LoggedOnce(LAMBDA record : IsDeletionRow(record, id))
             /\ \A i, j \in DOMAIN auditLog :
                    IsDeletionRow(auditLog[i], id) =>
                        /\ auditLog[i].actor = entries[id].principal
                        /\ IsCommitRow(auditLog[j], id) => j < i
        ELSE \A i \in DOMAIN auditLog : ~IsDeletionRow(auditLog[i], id)

\* A row is in the store only if some submission passed its whole pipeline,
\* quorum included, and the governance checks, and the row is that candidate
\* with its tags normalised: no order of mode changes, approvals, refusals and
\* failed renderings lets anything else in.
OnlyVerifiedRows ==
    \A id \in MemoryIds : Known(id) =>
        \E call \in Submissions :
            /\ Outcome[call].ok /\ Validate(Outcome[call].candidate) = {}
            /\ call.registry # None =>
                   Endorsed(call.registry.min_passes, call.registry.answers)
            /\ entries[id] = FromCandidate(Outcome[call].candidate)

\* Every row carries the three tags that reads and deletions compare, none of
\* them blank, and none so padded that its owner could not name it.
RowsAreWellTagged ==
    \A id \in MemoryIds : Known(id) =>
        /\ entries[id].principal # Empty /\ Strip[entries[id].principal] = entries[id].principal
        /\ entries[id].scope # Empty
        /\ entries[id].classification \in ValidClassifications

\* A held candidate waits, unchanged, until it is promoted, and is promoted
\* once, into the row that its candidate makes; there is no third way out of
\* the inbox, and no two candidates share a row.
PendingConserved ==
    /\ \A pid \in PendingIds :
          IF held[pid] = None
          THEN pending[pid] = None /\ promoted[pid] = None
          ELSE \/ pending[pid] = held[pid] /\ promoted[pid] = None
               \/ /\ pending[pid] = None /\ promoted[pid] # None
                  /\ entries[promoted[pid]] = FromCandidate(held[pid])
    /\ \A p, q \in PendingIds :
          promoted[p] # None /\ promoted[p] = promoted[q] => p = q

\* The candidate's tags are such that normalising them changes nothing.
Tidy(candidate) ==
    \A field \in {"principal", "classification"} : Strip[candidate[field]] = candidate[field]

\* The inbox and the store filter alike: a tidy candidate is listed under the
\* tag filters that will find its row once it is approved.  (With a padded tag
\* it is not: the inbox compares what was given, the store what was stripped.)
InboxFiltersLikeStore ==
    \A pid \in PendingIds : pending[pid] # None /\ Tidy(pending[pid]) =>
        \A filters \in Filters :
            pid \in ListPending(filters) <=> MatchesTags(FromCandidate(pending[pid]), filters)

\* What an approval takes for granted: only an admissible candidate is held.
HeldAreAdmissible ==
    \A pid \in PendingIds : held[pid] # None =>
        \E call \in Submissions : Admissible(call) /\ held[pid] = Outcome[call].candidate

\* What was written or deleted before the log was attached stays so.
UnloggedStays ==
    /\ \A id \in unlogged.written : Known(id)
    /\ \A id \in unlogged.deleted : IsTombstoned(id)

\* The inductive invariant.  A fresh id has no rows in the log because the log
\* speaks of known rows only, and an approved row is verified because the
\* candidate it is made from was when it was held.
GateInv ==
    /\ StoreInv
    /\ GateTypeOK
    /\ PendingConserved
    /\ HeldAreAdmissible
    /\ OnlyVerifiedRows
    /\ UnloggedStays
    /\ WritesReconcile
    /\ DeletionsReconcile

-----------------------------------------------------------------------------
(***************************************************************************)
(* What a step may not do.                                                 *)
(***************************************************************************)
\* A call that is audited as a failure has changed neither the store nor the
\* inbox.
FailuresChangeNothing ==
    [][Len(auditLog') > Len(auditLog) /\ ~auditLog'[Len(auditLog')].success
          => UNCHANGED <<storeVars, inboxVars>>]_gateVars

\* In review mode a row appears only as a candidate leaves the inbox for it,
\* even one held before the mode was last changed.
ReviewIsRespected ==
    [][\A id \in MemoryIds :
          mode = "manual_review" /\ ~Known(id) /\ Known(id)' =>
              \E pid \in PendingIds :
                  /\ pending[pid] # None /\ pending'[pid] = None
                  /\ entries'[id] = FromCandidate(pending[pid])]_gateVars
=============================================================================
