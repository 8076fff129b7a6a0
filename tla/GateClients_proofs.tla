------------------------- MODULE GateClients_proofs -------------------------
(***************************************************************************)
(* The programs beside the gate, for any number of runs, requests, ids and *)
(* rows.  Whatever the LangGraph hook and the audit daemon do between the  *)
(* calls of the gate, a gate is all that they can make of it: each         *)
(* implements GateSpec, and its own invariant rests on GateInv.  The       *)
(* regression harness replaces its gate by a new one now and then.         *)
(***************************************************************************)
EXTENDS AuditDaemon, AgentHook, GateMemHarness, MemoryGate_proofs

(***************************************************************************)
(* What both rely on: whatever a gate has shown stays as it was.           *)
(***************************************************************************)
LogGrows ==
    auditLog' = auditLog \/ \E record \in AuditRecord : auditLog' = Append(auditLog, record)

\* The row a call stores, and the audit row it leaves.
LEMMA AuditGrows ==
    ASSUME NEW record \in AuditRecord, Audit(record)
    PROVE  LogGrows
BY DEF Audit, LogGrows

\* A new row takes a fresh id, so it replaces none and revives none.
LEMMA InsertKeeps ==
    ASSUME GateInv, NEW id \in MemoryIds, NEW row, Insert(id, row)
    PROVE  /\ \A other \in MemoryIds : Known(other) => entries'[other] = entries[other]
           /\ tombstones' = tombstones
BY DEF GateInv, StoreInv, StoreTypeOK, OnlyMintedKnown, Insert

\* No call changes or forgets a row, revives a deleted one, replaces a
\* candidate that was held, or rewrites the log.
LEMMA GateGrows ==
    ASSUME GateInv, [GateNext]_gateVars
    PROVE  /\ \A id \in MemoryIds :
                 /\ Known(id) => Known(id)' /\ entries'[id] = entries[id]
                 /\ IsTombstoned(id) => IsTombstoned(id)'
           /\ \A pid \in PendingIds : held[pid] # None => held'[pid] = held[pid]
           /\ LogGrows
<1> DEFINE Rows == /\ \A id \in MemoryIds : Known(id) => entries'[id] = entries[id]
                   /\ \A id \in MemoryIds : IsTombstoned(id) => IsTombstoned(id)'
           Holds == \A pid \in PendingIds : held[pid] # None => held'[pid] = held[pid]
<1>1. ASSUME NEW call \in Submissions, CommitRejected(call) PROVE Rows /\ Holds /\ LogGrows
    <2>1. PICK record \in AuditRecord : Audit(record)
        BY <1>1, AuditWriteFacts DEF CommitRejected, CommitStatus, Optional
    <2> QED
        BY <1>1, <2>1, AuditGrows DEF CommitRejected, storeVars, inboxVars, IsTombstoned
<1>2. ASSUME NEW call \in Submissions, CommitRaises(call) PROVE Rows /\ Holds /\ LogGrows
    BY <1>2 DEF CommitRaises, storeVars, inboxVars, auditVars, IsTombstoned, LogGrows
<1>3. ASSUME NEW call \in Submissions, NEW pid \in PendingIds, CommitHeld(call, pid)
      PROVE  Rows /\ Holds /\ LogGrows
    <2>1. PICK record \in AuditRecord : Audit(record)
        BY <1>3, AuditWriteFacts DEF CommitHeld, CommitStatus, Optional
    <2>2. Holds
        BY <1>3 DEF CommitHeld, GateInv, GateTypeOK
    <2> QED
        BY <1>3, <2>1, <2>2, AuditGrows DEF CommitHeld, storeVars, IsTombstoned
<1>4. ASSUME NEW call \in Submissions, NEW id \in MemoryIds, CommitStored(call, id)
      PROVE  Rows /\ Holds /\ LogGrows
    <2>1. PICK record \in AuditRecord : Audit(record)
        BY <1>4, AuditWriteFacts DEF CommitStored, CommitStatus, Optional
    <2> QED
        BY <1>4, <2>1, AuditGrows, InsertKeeps DEF CommitStored, inboxVars, IsTombstoned
<1>5. ASSUME NEW pid \in PendingIds, NEW id \in MemoryIds, Approve(pid, id)
      PROVE  Rows /\ Holds /\ LogGrows
    <2> DEFINE record == WriteRecord(pending[pid].principal, "committed", id, None, pending[pid], <<>>)
    <2>1. record \in AuditRecord
        BY <1>5, ApprovalRecord DEF Approve
    <2>2. Audit(record)
        BY <1>5 DEF Approve
    <2> HIDE DEF record
    <2>3. LogGrows
        BY <2>1, <2>2, AuditGrows
    <2> QED
        BY <1>5, <2>3, InsertKeeps DEF Approve, IsTombstoned
<1>6. ASSUME NEW pid \in PendingIds, ApproveUnknown(pid) PROVE Rows /\ Holds /\ LogGrows
    BY <1>6 DEF ApproveUnknown, storeVars, inboxVars, IsTombstoned, LogGrows
<1>7. ASSUME NEW id \in MemoryIds, NEW principal \in Callers, Forget(id, principal)
      PROVE  Rows /\ Holds /\ LogGrows
    <2> DEFINE record == DeletionRecord(principal, id, MayTombstone(id, principal))
    <2>1. record \in AuditRecord
        <3>1. MayTombstone(id, principal) \in BOOLEAN
            BY DEF MayTombstone, Live, Known, IsTombstoned
        <3> QED
            BY <3>1, RecordTypes, GateAssumption
    <2>2. Audit(record)
        BY <1>7 DEF Forget
    <2> HIDE DEF record
    <2>3. LogGrows
        BY <2>1, <2>2, AuditGrows
    <2>4. Rows
        BY <1>7, GateAssumption, TextAssumption
        DEF Forget, Tombstone, MayTombstone, Live, storeVars, IsTombstoned, GateInv, StoreInv, StoreTypeOK
    <2> QED
        BY <1>7, <2>3, <2>4 DEF Forget, inboxVars
<1>8. ASSUME NEW id \in MemoryIds, NEW vector \in VectorIds, GateBindEmbedding(id, vector)
      PROVE  Rows /\ Holds /\ LogGrows
    BY <1>8 DEF GateBindEmbedding, BindEmbedding, storeVars, inboxVars, auditVars, IsTombstoned, LogGrows
<1>9. ASSUME (\E m \in GateMode : SetMode(m)) \/ AttachLog \/ UNCHANGED gateVars
      PROVE  Rows /\ Holds /\ LogGrows
    BY <1>9 DEF SetMode, AttachLog, gateVars, storeVars, inboxVars, auditVars, IsTombstoned, LogGrows
<1>10. Rows /\ Holds /\ LogGrows
    BY <1>1, <1>2, <1>3, <1>4, <1>5, <1>6, <1>7, <1>8, <1>9 DEF GateNext
<1>11. \A id \in MemoryIds : Known(id) => Known(id)' /\ entries'[id] = entries[id]
    BY <1>10 DEF Known
<1> HIDE DEF Holds
<1> QED
    BY <1>10, <1>11 DEF Holds

(***************************************************************************)
(* The hook.                                                               *)
(***************************************************************************)
\* The row that a run makes as a checkpoint stores it, if it makes one.
RowOf(run) == FromCandidate(Distilled(CommitCall(Serialized(run))).candidate)

\* A proposal made that row, and a run that only a checkpoint gets admitted
\* had a null.
IsTwin(s) == s.row = RowOf(s.run) /\ (Admitted(s.run) \/ HasNull(s.run))

\* The ids are those of a row and of an inbox item that the agent proposed.
AreOwn(memory_id, pending_id) ==
    /\ memory_id # None =>
          memory_id \in MemoryIds /\ Known(memory_id) /\ Makes(entries[memory_id])
    /\ pending_id # None =>
          /\ pending_id \in PendingIds /\ held[pending_id] # None
          /\ Makes(FromCandidate(held[pending_id]))

\* What a result says of the gate is so.
IsSo(result) ==
    /\ AreOwn(result.memory_id, result.pending_id)
    /\ result.status = "committed" => result.memory_id # None
    /\ result.status = "pending" => result.pending_id # None

\* The two patches there are.
IsProposal(patch) ==
    \E result \in Result, reasons \in Reasons : patch = RejectionPatch(result, reasons) /\ IsSo(result)

IsBlocking(patch) ==
    \E blocked \in Seq(Tools) :
        patch = [blocked |-> [form |-> "tuple", calls |-> blocked],
                 rejections |-> "bypass", review |-> TRUE]

\* What the agent's state says of its proposals.
AgentIsSo ==
    /\ AreOwn(agent.memory_id, agent.pending_id)
    /\ agent.result # None =>
          /\ agent.result.status = "committed" =>
                agent.memory_id = agent.result.memory_id /\ agent.memory_id # None
          /\ agent.result.status = "pending" =>
                agent.pending_id = agent.result.pending_id /\ agent.pending_id # None
          /\ agent.result.status # "committed" => agent.review

\* The inductive invariant.  A patch may be merged long after the gate has
\* answered, so what it says has to stay so while it is in flight.
HookInv ==
    /\ GateInv
    /\ HookTypeOK
    /\ IsFiniteSet(inflight)
    /\ \A s \in sent : IsTwin(s)
    /\ \A patch \in inflight : IsProposal(patch) \/ IsBlocking(patch)
    /\ AgentIsSo

\* A scope normalised twice is one normalised once; a scope that is missing
\* stays so.
LEMMA ScopeOnce ==
    ASSUME NEW scope \in MemoryScope \cup Text \cup {Missing}
    PROVE  /\ NormalizedScope(scope) \in Text \cup {Missing}
           /\ NormalizedScope(NormalizedScope(scope)) = NormalizedScope(scope)
           /\ scope = Missing <=> NormalizedScope(scope) = Missing
<1>1. /\ Missing \notin Text /\ Missing \notin MemoryScope
      /\ \A t \in Text : t \notin MemoryScope
    BY HookAssumption, ScopeAssumption
<1>2. \A member \in MemoryScope : ScopeValue(member) \in Text
    BY ScopeAssumption DEF MemoryScope, ScopeValue
<1> QED
    BY <1>1, <1>2 DEF NormalizedScope

\* The fields of a trace, an object's being none of them missing.
LEMMA TraceFields ==
    ASSUME NEW trace \in HookTrace
    PROVE  /\ trace.form \in {"object", "dict"}
           /\ IsObject(trace) => trace.executor_id \in Optional(Text) /\ trace.content \in Optional(Text)
                                 /\ trace.trace_id \in Optional(Text)
           /\ LET dict == [trace EXCEPT !.form = "dict"]
              IN  /\ dict.form = "dict"
                  /\ dict.executor_id = trace.executor_id /\ dict.content = trace.content
                  /\ dict.trace_id = trace.trace_id /\ dict.evidence = trace.evidence
                  /\ dict.metadata = trace.metadata
                  /\ [dict EXCEPT !.form = "dict"] = dict
BY DEF HookTrace, IsObject

\* Without a null, a trace makes the same of its call in both forms.
LEMMA TraceTwin ==
    ASSUME NEW trace \in HookTrace,
           IsObject(trace) => None \notin {trace.executor_id, trace.content}
    PROVE  CoerceTrace([trace EXCEPT !.form = "dict"]) = CoerceTrace(trace)
<1> DEFINE dict == [trace EXCEPT !.form = "dict"]
<1>1. /\ dict.form = "dict"
      /\ dict.executor_id = trace.executor_id /\ dict.content = trace.content
      /\ dict.trace_id = trace.trace_id /\ dict.evidence = trace.evidence
      /\ dict.metadata = trace.metadata
    BY TraceFields
<1> HIDE DEF dict
<1>2. CASE trace.form = "dict"
    BY <1>1, <1>2 DEF CoerceTrace
<1>3. CASE trace.form = "object"
    <2>1. trace.executor_id # None /\ trace.content # None /\ trace.trace_id # Missing
        BY <1>3, TraceFields, HookAssumption DEF IsObject, Optional
    <2> QED
        BY <1>1, <1>3, <2>1 DEF CoerceTrace, Falsy, Str, GetOr
<1> QED
    BY <1>2, <1>3, TraceFields DEF dict

\* A context that went through a dict keeps every field but the spelling of its scope.
LEMMA ContextAsDict ==
    ASSUME NEW context \in HookContext
    PROVE  LET dict == [context EXCEPT !.form = "dict", !.scope = NormalizedScope(@)]
           IN  /\ dict \in HookContext /\ dict.form = "dict"
               /\ dict.principal = context.principal
               /\ dict.scope = NormalizedScope(context.scope)
               /\ dict.relationship = context.relationship
               /\ dict.classification = context.classification
               /\ dict.trace_id = context.trace_id /\ dict.metadata = context.metadata
               /\ [dict EXCEPT !.form = "dict", !.scope = NormalizedScope(@)] = dict
<1> DEFINE scope == NormalizedScope(context.scope)
           dict == [context EXCEPT !.form = "dict", !.scope = scope]
<1>1. context.scope \in MemoryScope \cup Text \cup {Missing}
    BY DEF HookContext
<1>2. scope \in Text \cup {Missing} /\ NormalizedScope(scope) = scope
    BY <1>1, ScopeOnce
<1> HIDE DEF scope
<1>3. /\ dict.scope = scope /\ dict.form = "dict"
      /\ dict.principal = context.principal
      /\ dict.relationship = context.relationship
      /\ dict.classification = context.classification
      /\ dict.trace_id = context.trace_id /\ dict.metadata = context.metadata
    BY DEF HookContext
<1>4. dict \in HookContext
    BY <1>2 DEF HookContext, Optional, Keyed
<1>5. [dict EXCEPT !.form = "dict", !.scope = NormalizedScope(dict.scope)] = dict
    BY <1>2, <1>3, <1>4 DEF HookContext
<1> QED
    BY <1>3, <1>4, <1>5 DEF scope

\* Without a null, a context makes the same of its call in both forms, but for
\* the spelling of its scope.
LEMMA ContextTwin ==
    ASSUME NEW context \in HookContext,
           IsObject(context) =>
               None \notin {context.principal, context.relationship, context.classification}
    PROVE  LET first == CoerceContext(context)
               twin == CoerceContext([context EXCEPT !.form = "dict", !.scope = NormalizedScope(@)])
           IN  /\ twin.principal = first.principal /\ twin.relationship = first.relationship
               /\ twin.classification = first.classification
               /\ twin.trace_id = first.trace_id /\ twin.metadata = first.metadata
               /\ NormalizedScope(twin.scope) = NormalizedScope(first.scope)
<1> DEFINE dict == [context EXCEPT !.form = "dict", !.scope = NormalizedScope(@)]
<1>1. /\ dict.form = "dict" /\ dict.principal = context.principal
      /\ dict.scope = NormalizedScope(context.scope)
      /\ dict.relationship = context.relationship
      /\ dict.classification = context.classification
      /\ dict.trace_id = context.trace_id /\ dict.metadata = context.metadata
    BY ContextAsDict
<1> HIDE DEF dict
<1>2. context.scope \in MemoryScope \cup Text \cup {Missing} /\ context.form \in {"object", "dict"}
    BY DEF HookContext
<1>3. /\ context.scope = Missing <=> dict.scope = Missing
      /\ NormalizedScope(dict.scope) = NormalizedScope(context.scope)
    BY <1>1, <1>2, ScopeOnce
<1>4. CASE context.form = "dict"
    BY <1>1, <1>3, <1>4 DEF CoerceContext, DictContext, GetOr
<1>5. CASE context.form = "object"
    <2>1. /\ context.principal # None /\ context.relationship # None
          /\ context.classification # None
        BY <1>5 DEF IsObject
    <2>2. Missing \notin {context.relationship, context.classification, context.trace_id, context.scope}
        BY <1>5, HookAssumption DEF HookContext, Optional
    <2>3. dict.scope # Missing
        BY <1>3, <2>2
    <2>4. /\ CoerceContext(context) = ObjectContext(context)
          /\ CoerceContext(dict) = DictContext(dict)
        BY <1>1, <1>5 DEF CoerceContext
    <2>5. /\ CoerceContext(context).principal = context.principal
          /\ CoerceContext(context).relationship = context.relationship
          /\ CoerceContext(context).classification = context.classification
          /\ CoerceContext(context).trace_id = context.trace_id
          /\ CoerceContext(context).scope = context.scope
          /\ CoerceContext(context).metadata = OrEmpty(context.metadata, NoKeys)
        BY <2>1, <2>4 DEF ObjectContext, Falsy
    <2>6. /\ CoerceContext(dict).principal = context.principal
          /\ CoerceContext(dict).relationship = context.relationship
          /\ CoerceContext(dict).classification = context.classification
          /\ CoerceContext(dict).trace_id = context.trace_id
          /\ CoerceContext(dict).scope = dict.scope
          /\ CoerceContext(dict).metadata = OrEmpty(context.metadata, NoKeys)
        BY <1>1, <2>1, <2>2, <2>3, <2>4 DEF DictContext, Str, GetOr
    <2> QED
        BY <1>3, <2>5, <2>6 DEF dict
<1> QED
    BY <1>2, <1>4, <1>5 DEF dict

\* What a checkpoint does to a run.
LEMMA SerializedFacts ==
    ASSUME NEW run \in AgentRuns
    PROVE  /\ Incomplete(Serialized(run)) <=> Incomplete(run)
           /\ Serialized(Serialized(run)) = Serialized(run)
           /\ run.traces \in Seq(HookTrace)
           /\ Serialized(run).registry = run.registry
           /\ Serialized(run).traces =
                 [i \in DOMAIN run.traces |-> [run.traces[i] EXCEPT !.form = "dict"]]
           /\ ~Incomplete(run) =>
                 /\ run.context \in HookContext
                 /\ Serialized(run).context =
                       [run.context EXCEPT !.form = "dict", !.scope = NormalizedScope(@)]
<1> DEFINE copy == Serialized(run)
<1>1. /\ run \in CapturedRun /\ run.traces \in Seq(HookTrace)
      /\ run.context \in HookContext \cup {None}
      /\ None \notin HookContext
    BY HookAssumption DEF CapturedRun, Optional
<1>2. /\ copy.traces = [i \in DOMAIN run.traces |-> [run.traces[i] EXCEPT !.form = "dict"]]
      /\ copy.context = IF run.context = None THEN None
                        ELSE [run.context EXCEPT !.form = "dict", !.scope = NormalizedScope(@)]
      /\ copy.registry = run.registry
    BY <1>1 DEF Serialized, CapturedRun
<1>2a. copy = [run EXCEPT !.traces = copy.traces, !.context = copy.context]
    BY <1>1, <1>2 DEF Serialized, CapturedRun
<1> HIDE DEF copy
<1>3. DOMAIN copy.traces = DOMAIN run.traces
    BY <1>2
<1>4. Incomplete(copy) <=> Incomplete(run)
    <2>1. copy.traces = <<>> <=> run.traces = <<>>
        BY <1>1, <1>2, <1>3
    <2>2. copy.context = None <=> run.context = None
        <3>1. ASSUME run.context # None PROVE copy.context \in HookContext
            BY <1>1, <1>2, <3>1, ContextAsDict
        <3> QED
            BY <1>1, <1>2, <3>1
    <2> QED
        BY <2>1, <2>2 DEF Incomplete
<1>5. \A i \in DOMAIN run.traces :
          [copy.traces[i] EXCEPT !.form = "dict"] = copy.traces[i]
    <2> SUFFICES ASSUME NEW i \in DOMAIN run.traces
                 PROVE  LET dict == copy.traces[i] IN [dict EXCEPT !.form = "dict"] = dict
        OBVIOUS
    <2>1. run.traces[i] \in HookTrace
        BY <1>1
    <2>2. copy.traces[i] = [run.traces[i] EXCEPT !.form = "dict"]
        BY <1>2
    <2> QED
        BY <2>1, <2>2, TraceFields
<1>6. copy.context # None =>
          copy.context = [run.context EXCEPT !.form = "dict", !.scope = NormalizedScope(@)]
              /\ run.context \in HookContext
    BY <1>1, <1>2
<1>7. Serialized(copy) = copy
    <2>1. [i \in DOMAIN copy.traces |-> [copy.traces[i] EXCEPT !.form = "dict"]] = copy.traces
        BY <1>2, <1>3, <1>5
    <2>2. copy.context # None =>
              [copy.context EXCEPT !.form = "dict", !.scope = NormalizedScope(@)] = copy.context
        <3> SUFFICES ASSUME copy.context # None
                     PROVE  [copy.context EXCEPT !.form = "dict", !.scope = NormalizedScope(@)]
                                = copy.context
            OBVIOUS
        <3>1. PICK context \in HookContext :
                  copy.context = [context EXCEPT !.form = "dict", !.scope = NormalizedScope(@)]
            BY <1>6
        <3>2. PICK dict : dict = [context EXCEPT !.form = "dict", !.scope = NormalizedScope(@)]
            OBVIOUS
        <3>3. [dict EXCEPT !.form = "dict", !.scope = NormalizedScope(@)] = dict
            BY <3>2, ContextAsDict
        <3> QED
            BY <3>1, <3>2, <3>3
    <2> QED
        BY <1>1, <1>2a, <2>1, <2>2 DEF Serialized, CapturedRun
<1>8. ~Incomplete(run) =>
          /\ run.context \in HookContext
          /\ copy.context = [run.context EXCEPT !.form = "dict", !.scope = NormalizedScope(@)]
    BY <1>1, <1>2 DEF Incomplete
<1> QED
    BY <1>1, <1>2, <1>4, <1>7, <1>8 DEF copy

\* Two calls that are the same but for the spelling of a scope.
SameCall(call, twin) ==
    /\ twin.traces = call.traces /\ twin.registry = call.registry
    /\ twin.context.principal = call.context.principal
    /\ twin.context.relationship = call.context.relationship
    /\ twin.context.classification = call.context.classification
    /\ twin.context.trace_id = call.context.trace_id
    /\ twin.context.metadata = call.context.metadata
    /\ NormalizedScope(twin.context.scope) = NormalizedScope(call.context.scope)

\* A run without nulls makes the same call before and after a checkpoint.
LEMMA TwinCalls ==
    ASSUME NEW run \in AgentRuns, ~Incomplete(run), ~HasNull(run)
    PROVE  SameCall(CommitCall(run), CommitCall(Serialized(run)))
<1> DEFINE copy == Serialized(run)
<1>1. /\ run.traces \in Seq(HookTrace) /\ run.context \in HookContext
      /\ copy.traces = [i \in DOMAIN run.traces |-> [run.traces[i] EXCEPT !.form = "dict"]]
      /\ copy.context = [run.context EXCEPT !.form = "dict", !.scope = NormalizedScope(@)]
      /\ copy.registry = run.registry
    BY SerializedFacts
<1> HIDE DEF copy
<1>2. \A i \in DOMAIN run.traces : CoerceTrace(copy.traces[i]) = CoerceTrace(run.traces[i])
    <2> SUFFICES ASSUME NEW i \in DOMAIN run.traces
                 PROVE  CoerceTrace(copy.traces[i]) = CoerceTrace(run.traces[i])
        OBVIOUS
    <2>1. PICK trace \in HookTrace : trace = run.traces[i]
        BY <1>1
    <2>2. IsObject(trace) => None \notin {trace.executor_id, trace.content}
        BY <2>1 DEF HasNull
    <2>3. copy.traces[i] = [trace EXCEPT !.form = "dict"]
        BY <1>1, <2>1
    <2> QED
        BY <2>1, <2>2, <2>3, TraceTwin
<1>3. [i \in DOMAIN copy.traces |-> CoerceTrace(copy.traces[i])] =
          [i \in DOMAIN run.traces |-> CoerceTrace(run.traces[i])]
    <2>1. DOMAIN copy.traces = DOMAIN run.traces
        BY <1>1
    <2> QED
        BY <1>2, <2>1
<1>4. PICK context \in HookContext : context = run.context
    BY <1>1
<1>5. IsObject(context) =>
          None \notin {context.principal, context.relationship, context.classification}
    BY <1>4 DEF HasNull
<1>6. PICK twin : twin = CoerceContext(copy.context)
    OBVIOUS
<1>7. twin = CoerceContext([context EXCEPT !.form = "dict", !.scope = NormalizedScope(@)])
    BY <1>1, <1>4, <1>6
<1>8. PICK first : first = CoerceContext(context)
    OBVIOUS
<1>9. /\ twin.principal = first.principal /\ twin.relationship = first.relationship
      /\ twin.classification = first.classification
      /\ twin.trace_id = first.trace_id /\ twin.metadata = first.metadata
      /\ NormalizedScope(twin.scope) = NormalizedScope(first.scope)
    BY <1>5, <1>7, <1>8, ContextTwin
<1>10. /\ CommitCall(run).context = first /\ CommitCall(copy).context = twin
       /\ CommitCall(copy).traces = CommitCall(run).traces
       /\ CommitCall(copy).registry = CommitCall(run).registry
    BY <1>1, <1>3, <1>4, <1>6, <1>8 DEF CommitCall
<1> QED
    BY <1>9, <1>10 DEF SameCall, copy

\* A run that succeeds got through all its stages.
LEMMA RunOk ==
    ASSUME NEW call, Run(call).ok
    PROVE  /\ Ingest(call.min_traces, call.traces).ok
           /\ Distilled(call).ok /\ Distilled(call).candidate # None
           /\ Verify(call.registry, Distilled(call).candidate).ok
           /\ Run(call).candidate = Distilled(call).candidate
<1>1. CASE \/ ~Ingest(call.min_traces, call.traces).ok
           \/ ~Distilled(call).ok \/ Distilled(call).candidate = None
    <2>1. Run(call).ok = FALSE
        BY <1>1 DEF Run
    <2> QED
        BY <2>1
<1>2. CASE /\ Ingest(call.min_traces, call.traces).ok
           /\ Distilled(call).ok /\ Distilled(call).candidate # None
    <2>1. /\ Run(call).ok = Verify(call.registry, Distilled(call).candidate).ok
          /\ Run(call).candidate = Distilled(call).candidate
        BY <1>2 DEF Run
    <2> QED
        BY <1>2, <2>1
<1> QED
    BY <1>1, <1>2

\* Where the one is admitted so is the other, and makes the same row.
LEMMA SameRows ==
    ASSUME NEW call \in Submissions, NEW twin \in Submissions, SameCall(call, twin),
           call.min_traces = twin.min_traces,
           call.lesson_executor_id = None, twin.lesson_executor_id = None,
           call.distiller = None, twin.distiller = None,
           Admissible(call)
    PROVE  /\ Admissible(twin)
           /\ FromCandidate(Distilled(call).candidate) = FromCandidate(Distilled(twin).candidate)
<1> DEFINE traces == call.traces
           lesson == LessonIndex(None, traces)
           Candidate(context) ==
               [lesson         |-> Strip[traces[lesson].content],
                principal      |-> context.principal,
                scope          |-> context.scope,
                relationship   |-> context.relationship,
                classification |-> context.classification,
                trace_id       |-> MergedTraceId(context, traces),
                evidence       |-> MergedEvidence(traces),
                metadata       |-> MergedMetadata(context, traces)]
           first == Candidate(call.context)
           second == Candidate(twin.context)
<1>1. /\ Distilled(call).ok = (lesson # 0) /\ Distilled(twin).ok = (lesson # 0)
      /\ lesson # 0 => Distilled(call).candidate = first /\ Distilled(twin).candidate = second
    BY DEF Distilled, RuleBasedDistill, SameCall
<1>2. /\ MergedTraceId(twin.context, traces) = MergedTraceId(call.context, traces)
      /\ MergedMetadata(twin.context, traces) = MergedMetadata(call.context, traces)
    <2>1. twin.context.trace_id = call.context.trace_id /\ twin.context.metadata = call.context.metadata
        BY DEF SameCall
    <2> QED
        BY <2>1, Zenon DEF MergedTraceId, MergedMetadata
<1>3. /\ second = [first EXCEPT !.scope = twin.context.scope]
      /\ second.lesson = first.lesson /\ second.principal = first.principal
      /\ second.relationship = first.relationship
      /\ second.classification = first.classification
      /\ second.trace_id = first.trace_id /\ second.evidence = first.evidence
      /\ second.metadata = first.metadata
      /\ NormalizedScope(second.scope) = NormalizedScope(first.scope)
    BY <1>2 DEF SameCall
<1>4. /\ first["lesson"] = second["lesson"] /\ first["principal"] = second["principal"]
      /\ first["relationship"] = second["relationship"]
    BY <1>3
<1>5. /\ Outcome[call] = Run(call) /\ Outcome[twin] = Run(twin)
      /\ twin.context.scope \in MemoryScope \cup Text
      /\ None \notin CandidateExperience
    BY OutcomeFacts, GateAssumption DEF PipelineCall, DistillContext
<1>6. /\ Ingest(twin.min_traces, twin.traces) = Ingest(call.min_traces, call.traces)
      /\ \A c, d : Verify(twin.registry, c).ok = Verify(call.registry, d).ok
    BY DEF SameCall, Verify
<1> HIDE DEF first, second, traces, lesson
<1>7. FromCandidate(first) = FromCandidate(second) /\ Validate(first) = Validate(second)
    BY <1>3, <1>4 DEF FromCandidate, Validate
<1>8. /\ Ingest(call.min_traces, call.traces).ok /\ lesson # 0
      /\ Outcome[call].candidate = first /\ first \in CandidateExperience
      /\ Verify(call.registry, first).ok
    <2>1. Run(call).ok /\ Run(call).candidate \in CandidateExperience
        BY <1>5, AdmissibleFacts
    <2>2. /\ Ingest(call.min_traces, call.traces).ok
          /\ Distilled(call).ok
          /\ Verify(call.registry, Distilled(call).candidate).ok
          /\ Run(call).candidate = Distilled(call).candidate
        BY <2>1, RunOk
    <2> QED
        BY <1>1, <1>5, <2>1, <2>2
<1>9. second \in CandidateExperience
    BY <1>3, <1>5, <1>8 DEF CandidateExperience
<1>10. Outcome[twin].ok /\ Outcome[twin].candidate = second
    <2>1. /\ Ingest(twin.min_traces, twin.traces).ok
          /\ Distilled(twin).ok /\ Distilled(twin).candidate = second /\ second # None
          /\ Verify(twin.registry, second).ok
        BY <1>1, <1>5, <1>6, <1>8, <1>9
    <2> QED
        BY <1>5, <2>1 DEF Run
<1> QED
    BY <1>1, <1>5, <1>7, <1>8, <1>9, <1>10 DEF Admissible

\* The gate admits no run that has a null as it was captured.
LEMMA AdmittedHasNoNull ==
    ASSUME NEW run \in AgentRuns, ~Incomplete(run), Admitted(run), CommitCall(run) \in Submissions
    PROVE  ~HasNull(run)
<1> DEFINE call == CommitCall(run)
<1>1. /\ call.traces = [i \in DOMAIN run.traces |-> CoerceTrace(run.traces[i])]
      /\ call.context = CoerceContext(run.context)
      /\ call.distiller = None /\ call.lesson_executor_id = None
      /\ call.min_traces = MinTraces
    BY DEF CommitCall
<1> HIDE DEF call
<1>2. call \in Submissions /\ Admissible(call) /\ Outcome[call] = Run(call)
    BY OutcomeFacts DEF Admitted, call
<1>3. /\ Run(call).ok /\ Run(call).candidate # None
      /\ Validate(Run(call).candidate) = {}
    BY <1>2, AdmissibleFacts
<1>4. /\ Ingest(MinTraces, call.traces).ok
      /\ Distilled(call).candidate # None
      /\ Run(call).candidate = Distilled(call).candidate
    BY <1>1, <1>3, RunOk
<1>5. \A i \in DOMAIN run.traces :
          IsObject(run.traces[i]) =>
              None \notin {run.traces[i].executor_id, run.traces[i].content}
    <2> SUFFICES ASSUME NEW i \in DOMAIN run.traces, IsObject(run.traces[i])
                 PROVE  None \notin {run.traces[i].executor_id, run.traces[i].content}
        OBVIOUS
    <2>1. /\ ~IsBlank(call.traces[i].executor_id) /\ ~IsBlank(call.traces[i].content)
        BY <1>1, <1>4 DEF Ingest
    <2>2. /\ call.traces[i].executor_id = Falsy(run.traces[i].executor_id)
          /\ call.traces[i].content = Falsy(run.traces[i].content)
        BY <1>1 DEF CoerceTrace, IsObject
    <2> QED
        BY <2>1, <2>2 DEF IsBlank, Falsy
<1>6. /\ Distilled(call).candidate.principal = call.context.principal
      /\ Distilled(call).candidate.relationship = call.context.relationship
      /\ Distilled(call).candidate.classification = call.context.classification
    BY <1>1, <1>4 DEF Distilled, RuleBasedDistill
<1>7. /\ ~IsBlank(call.context.principal) /\ ~IsBlank(call.context.relationship)
      /\ Strip[call.context.classification] \in ValidClassifications
    <2> DEFINE candidate == Distilled(call).candidate
    <2>1. Validate(candidate) = {}
        BY <1>3, <1>4
    <2> HIDE DEF candidate
    <2>2. /\ ~IsBlank(candidate["principal"]) /\ ~IsBlank(candidate["relationship"])
          /\ Strip[candidate.classification] \in ValidClassifications
        BY <2>1 DEF Validate
    <2> QED
        BY <1>6, <2>2 DEF candidate
<1>8. IsObject(run.context) =>
          None \notin {run.context.principal, run.context.relationship, run.context.classification}
    <2> SUFFICES ASSUME IsObject(run.context)
                 PROVE  None \notin {run.context.principal, run.context.relationship,
                                     run.context.classification}
        OBVIOUS
    <2>1. /\ call.context.principal = Falsy(run.context.principal)
          /\ call.context.relationship = Falsy(run.context.relationship)
          /\ call.context.classification = Falsy(run.context.classification)
        BY <1>1 DEF CoerceContext, ObjectContext, IsObject
    <2>2. Strip[Empty] \notin ValidClassifications
        BY TextAssumption DEF Empty, ValidClassifications
    <2> QED
        BY <1>7, <2>1, <2>2 DEF IsBlank, Falsy
<1>9. ~DistillRaises(run)
    BY DEF Admitted, ProposalRaises
<1> QED
    BY <1>4, <1>5, <1>8, <1>9 DEF HasNull, DistillRaises, call

\* A run without nulls that is not refused throws in both forms or in none.
LEMMA TwinRaises ==
    ASSUME NEW run \in AgentRuns, ~Incomplete(run), ~HasNull(run)
    PROVE  /\ ~ProposalRaises(Serialized(run)) => ~ProposalRaises(run)
           /\ ~ProposalRaises(run) /\ Ingest(MinTraces, CommitCall(run).traces).ok
                 => ~ProposalRaises(Serialized(run))
<1> DEFINE copy == Serialized(run)
<1>1. /\ run.traces \in Seq(HookTrace) /\ run.context \in HookContext
      /\ copy.traces = [i \in DOMAIN run.traces |-> [run.traces[i] EXCEPT !.form = "dict"]]
      /\ copy.context = [run.context EXCEPT !.form = "dict", !.scope = NormalizedScope(@)]
    BY SerializedFacts
<1> HIDE DEF copy
<1>2. \A i \in DOMAIN run.traces :
          /\ ~IsObject(copy.traces[i])
          /\ copy.traces[i].evidence = run.traces[i].evidence
          /\ copy.traces[i].executor_id = run.traces[i].executor_id
          /\ copy.traces[i].content = run.traces[i].content
          /\ IsObject(run.traces[i]) =>
                Missing \notin {run.traces[i].executor_id, run.traces[i].content}
    <2> SUFFICES ASSUME NEW i \in DOMAIN run.traces
                 PROVE  /\ ~IsObject(copy.traces[i])
                        /\ copy.traces[i].evidence = run.traces[i].evidence
                        /\ copy.traces[i].executor_id = run.traces[i].executor_id
                        /\ copy.traces[i].content = run.traces[i].content
                        /\ IsObject(run.traces[i]) =>
                              Missing \notin {run.traces[i].executor_id, run.traces[i].content}
        OBVIOUS
    <2>1. PICK trace \in HookTrace : trace = run.traces[i]
        BY <1>1
    <2>2. copy.traces[i] = [trace EXCEPT !.form = "dict"]
        BY <1>1, <2>1
    <2>3. IsObject(trace) => Missing \notin {trace.executor_id, trace.content}
        BY TraceFields, HookAssumption DEF Optional
    <2>4. PICK dict : dict = [trace EXCEPT !.form = "dict"]
        OBVIOUS
    <2>5. /\ dict.form = "dict" /\ dict.executor_id = trace.executor_id
          /\ dict.content = trace.content /\ dict.evidence = trace.evidence
        BY <2>4, TraceFields
    <2> QED
        BY <2>1, <2>2, <2>3, <2>4, <2>5 DEF IsObject
<1>3. /\ ~IsObject(copy.context) /\ copy.context.principal = run.context.principal
      /\ IsObject(run.context) => run.context.principal # Missing
    <2>1. PICK context \in HookContext : context = run.context
        BY <1>1
    <2>2. PICK dict : dict = [context EXCEPT !.form = "dict", !.scope = NormalizedScope(@)]
        OBVIOUS
    <2>3. dict.form = "dict" /\ dict.principal = context.principal
        BY <2>2, ContextAsDict
    <2>4. IsObject(context) => context.principal # Missing
        BY HookAssumption DEF HookContext, IsObject, Optional
    <2> QED
        BY <1>1, <2>1, <2>2, <2>3, <2>4 DEF IsObject
<1>4. DOMAIN copy.traces = DOMAIN run.traces
    BY <1>1
<1>5. ~DistillRaises(copy)
    BY <1>2, <1>3, <1>4 DEF DistillRaises
<1>6. ASSUME ~CoercionRaises(copy) PROVE ~CoercionRaises(run) /\ ~DistillRaises(run)
    BY <1>2, <1>3, <1>4, <1>6 DEF CoercionRaises, DistillRaises, HasNull
<1>7. ASSUME ~CoercionRaises(run), ~DistillRaises(run), Ingest(MinTraces, CommitCall(run).traces).ok
      PROVE  ~CoercionRaises(copy)
    BY <1>2, <1>3, <1>4, <1>7 DEF CoercionRaises, DistillRaises
<1> QED
    BY <1>5, <1>6, <1>7 DEF ProposalRaises, copy

\* What commit() is called with, and what row it admits.
LEMMA ProposedCall ==
    ASSUME HookTypeOK, ~Incomplete(raw), ~ProposalRaises(raw)
    PROVE  /\ CommitCall(raw) \in Submissions
           /\ Admissible(CommitCall(raw)) =>
                 /\ FromCandidate(Outcome[CommitCall(raw)].candidate) = RowOf(given)
                 /\ Admitted(given) \/ HasNull(given)
<1> DEFINE copy == Serialized(given)
<1>1. /\ given \in AgentRuns /\ raw \in {given, copy}
      /\ ~Incomplete(given) /\ ~Incomplete(copy)
    <2>1. given \in AgentRuns /\ raw \in {given, copy}
        BY DEF HookTypeOK
    <2>2. Incomplete(copy) <=> Incomplete(given)
        BY <2>1, SerializedFacts
    <2> QED
        BY <2>1, <2>2
<1>2. \A form \in {given, copy} : ~ProposalRaises(form) => CommitCall(form) \in Submissions
    BY <1>1, HookAssumption
<1>3. CommitCall(raw) \in Submissions
    BY <1>1, <1>2
<1>4. ASSUME Admissible(CommitCall(raw))
      PROVE  Outcome[CommitCall(raw)].candidate = Distilled(CommitCall(raw)).candidate
    <2> DEFINE call == CommitCall(raw)
    <2> HIDE DEF call
    <2>1. Outcome[call] = Run(call) /\ Run(call).candidate # None
        BY <1>3, <1>4, OutcomeFacts DEF Admissible, call
    <2>2. Run(call).candidate = Distilled(call).candidate
        BY <2>1 DEF Run
    <2> QED
        BY <2>1, <2>2 DEF call
<1>5. PICK first, twin : first = CommitCall(given) /\ twin = CommitCall(copy)
    OBVIOUS
<1>6. /\ first.min_traces = MinTraces /\ twin.min_traces = MinTraces
      /\ first.lesson_executor_id = None /\ twin.lesson_executor_id = None
      /\ first.distiller = None /\ twin.distiller = None
    BY <1>5 DEF CommitCall
<1>7. CASE raw = given
    <2> SUFFICES ASSUME Admissible(first)
                 PROVE  /\ Admitted(given)
                        /\ FromCandidate(Distilled(first).candidate) = RowOf(given)
        BY <1>3, <1>4, <1>5, <1>7
    <2>1. Admitted(given) /\ first \in Submissions
        BY <1>2, <1>5, <1>7 DEF Admitted
    <2>2. ~HasNull(given)
        BY <1>1, <1>5, <2>1, AdmittedHasNoNull
    <2>3. SameCall(first, twin)
        BY <1>1, <1>5, <2>2, TwinCalls
    <2>4. Ingest(MinTraces, first.traces).ok
        <3>1. Run(first).ok
            BY <2>1, OutcomeFacts DEF Admissible
        <3> QED
            BY <1>6, <3>1, RunOk
    <2>5. twin \in Submissions
        BY <1>1, <1>2, <1>5, <1>7, <2>2, <2>4, TwinRaises
    <2>6. FromCandidate(Distilled(first).candidate) = FromCandidate(Distilled(twin).candidate)
        BY <1>6, <2>1, <2>3, <2>5, SameRows
    <2> QED
        BY <1>5, <2>1, <2>6 DEF RowOf
<1>8. CASE raw = copy
    <2> SUFFICES ASSUME Admissible(twin), ~HasNull(given) PROVE Admitted(given)
        BY <1>3, <1>4, <1>5, <1>8 DEF RowOf
    <2>1. twin \in Submissions /\ ~ProposalRaises(copy)
        BY <1>2, <1>5, <1>8
    <2>2. ~ProposalRaises(given)
        BY <1>1, <2>1, TwinRaises
    <2>3. first \in Submissions
        BY <1>1, <1>2, <1>5, <2>2
    <2>4. SameCall(first, twin)
        BY <1>1, <1>5, TwinCalls
    <2>5. SameCall(twin, first)
        BY <2>4 DEF SameCall
    <2>6. Admissible(first)
        BY <1>6, <2>1, <2>3, <2>5, SameRows
    <2> QED
        BY <1>5, <2>2, <2>6 DEF Admitted
<1> QED
    BY <1>1, <1>3, <1>7, <1>8

-----------------------------------------------------------------------------
\* The keys of a patch, and what merging it makes of the agent's state.
LEMMA ProposalKeys ==
    ASSUME NEW result \in Result, NEW reasons \in Reasons
    PROVE  LET patch == RejectionPatch(result, reasons)
           IN  /\ DOMAIN patch = {"result", "rejections", "review"}
                     \cup {key \in {"memory_id", "pending_id"} : result[key] # None}
               /\ patch["result"] = result /\ patch["rejections"] = reasons
               /\ patch["review"] = (result.status # "committed")
               /\ result.memory_id # None => patch["memory_id"] = result.memory_id
               /\ result.pending_id # None => patch["pending_id"] = result.pending_id
<1> DEFINE base == [result |-> result, rejections |-> reasons, review |-> result.status # "committed"]
           ids == Ids(result)
<1>1. /\ DOMAIN base = {"result", "rejections", "review"}
      /\ base["result"] = result /\ base["rejections"] = reasons
      /\ base["review"] = (result.status # "committed")
    OBVIOUS
<1>2. /\ DOMAIN ids = {key \in {"memory_id", "pending_id"} : result[key] # None}
      /\ \A key \in DOMAIN ids : ids[key] = result[key]
    BY DEF Ids
<1>3. RejectionPatch(result, reasons) = Updated(base, ids)
    BY DEF RejectionPatch
<1> HIDE DEF base, ids
<1>4. DOMAIN Updated(base, ids) = DOMAIN base \cup DOMAIN ids
    BY DEF Updated
<1>5. \A key \in DOMAIN base \cup DOMAIN ids :
          Updated(base, ids)[key] = IF key \in DOMAIN ids THEN ids[key] ELSE base[key]
    BY DEF Updated
<1> QED
    BY <1>1, <1>2, <1>3, <1>4, <1>5

\* What the state holds once the patch of a proposal is merged into it.
LEMMA MergedProposal ==
    ASSUME agent \in AgentState, NEW result \in Result, NEW reasons \in Reasons,
           agent' = Updated(agent, RejectionPatch(result, reasons))
    PROVE  /\ agent' \in AgentState
           /\ agent'.result = result /\ agent'.blocked = agent.blocked
           /\ agent'.review = (result.status # "committed")
           /\ agent'.memory_id =
                 IF result.memory_id # None THEN result.memory_id ELSE agent.memory_id
           /\ agent'.pending_id =
                 IF result.pending_id # None THEN result.pending_id ELSE agent.pending_id
<1> DEFINE patch == RejectionPatch(result, reasons)
<1>1. /\ DOMAIN patch = {"result", "rejections", "review"}
            \cup {key \in {"memory_id", "pending_id"} : result[key] # None}
      /\ patch["result"] = result /\ patch["rejections"] = reasons
      /\ patch["review"] = (result.status # "committed")
      /\ result.memory_id # None => patch["memory_id"] = result.memory_id
      /\ result.pending_id # None => patch["pending_id"] = result.pending_id
    BY ProposalKeys
<1> HIDE DEF patch
<1>2. DOMAIN agent = {"result", "rejections", "review", "memory_id", "pending_id", "blocked"}
    BY DEF AgentState
<1>3. agent' = [key \in DOMAIN agent |-> IF key \in DOMAIN patch THEN patch[key] ELSE agent[key]]
    BY <1>1, <1>2 DEF Updated, patch
<1>4. result.memory_id \in Optional(MemoryIds) /\ result.pending_id \in Optional(PendingIds)
    BY DEF Result
<1> QED
    BY <1>1, <1>2, <1>3, <1>4 DEF AgentState, Optional

\* What the state holds once the patch of a blocked call is merged into it.
LEMMA MergedBlocking ==
    ASSUME agent \in AgentState, NEW blocked \in Seq(Tools),
           NEW patch, patch = [blocked |-> [form |-> "tuple", calls |-> blocked],
                               rejections |-> "bypass", review |-> TRUE],
           agent' = Updated(agent, patch)
    PROVE  /\ agent' \in AgentState
           /\ agent'.result = agent.result /\ agent'.review = TRUE
           /\ agent'.memory_id = agent.memory_id /\ agent'.pending_id = agent.pending_id
           /\ agent'.blocked.calls = blocked
<1>1. DOMAIN agent = {"result", "rejections", "review", "memory_id", "pending_id", "blocked"}
    BY DEF AgentState
<1>2. /\ DOMAIN patch = {"blocked", "rejections", "review"}
      /\ patch["blocked"] = [form |-> "tuple", calls |-> blocked]
      /\ patch["rejections"] = "bypass" /\ patch["review"] = TRUE
    OBVIOUS
<1>3. agent' = [key \in DOMAIN agent |-> IF key \in DOMAIN patch THEN patch[key] ELSE agent[key]]
    BY <1>1, <1>2 DEF Updated
<1>4. /\ DOMAIN agent' = DOMAIN agent
      /\ agent'["blocked"] = [form |-> "tuple", calls |-> blocked]
      /\ agent'["rejections"] = "bypass" /\ agent'["review"] = TRUE
      /\ \A key \in {"result", "memory_id", "pending_id"} : agent'[key] = agent[key]
    BY <1>1, <1>2, <1>3
<1>5. agent' \in AgentState
    <2>1. [form |-> "tuple", calls |-> blocked] \in [form : {"tuple", "list"}, calls : Seq(Tools)]
        OBVIOUS
    <2>2. agent' = [result |-> agent'["result"], rejections |-> agent'["rejections"],
                    review |-> agent'["review"], memory_id |-> agent'["memory_id"],
                    pending_id |-> agent'["pending_id"], blocked |-> agent'["blocked"]]
        BY <1>1, <1>3, <1>4
    <2> QED
        BY <1>1, <1>4, <2>1, <2>2 DEF AgentState, Reasons
<1> QED
    BY <1>4, <1>5

-----------------------------------------------------------------------------
\* What the hook calls, the gate offers.
LEMMA HookCallsGate ==
    ASSUME HookTypeOK, [HookNext]_<<gateVars, hookVars>>
    PROVE  [GateNext]_gateVars
<1>1. CASE Propose
    <2>1. CASE ProposeIncomplete
        BY <2>1 DEF ProposeIncomplete
    <2>2. CASE ~ProposeIncomplete
        <3>1. /\ ~Incomplete(raw) /\ ~ProposalRaises(raw)
              /\ \/ ProposeRejected(CommitCall(raw))
                 \/ \E pid \in PendingIds : ProposeHeld(CommitCall(raw), pid)
                 \/ \E id \in MemoryIds : ProposeStored(CommitCall(raw), id)
            BY <1>1, <2>2 DEF Propose
        <3>2. CommitCall(raw) \in Submissions
            BY <3>1, ProposedCall
        <3> QED
            BY <3>1, <3>2 DEF ProposeRejected, ProposeHeld, ProposeStored, GateNext
    <2> QED
        BY <2>1, <2>2
<1>2. CASE Elsewhere
    BY <1>2 DEF Elsewhere, GateNext
<1>3. CASE \/ \E tool \in Tools : Guard(tool)
           \/ \E patch \in inflight : Merge(patch) \/ Discard(patch)
           \/ TakeCheckpoint
           \/ \E run \in AgentRuns : Capture(run)
    BY <1>3 DEF Guard, Merge, Discard, TakeCheckpoint, Capture
<1>4. CASE UNCHANGED <<gateVars, hookVars>>
    BY <1>4
<1> QED
    BY <1>1, <1>2, <1>3, <1>4 DEF HookNext

\* What is the agent's own stays so.
LEMMA OwnStay ==
    ASSUME GateInv, [GateNext]_gateVars, sent \subseteq sent',
           NEW memory_id \in Optional(MemoryIds), NEW pending_id \in Optional(PendingIds),
           AreOwn(memory_id, pending_id)
    PROVE  AreOwn(memory_id, pending_id)'
BY GateGrows DEF AreOwn, Makes, Optional

\* What a result said stays so.
LEMMA StaysSo ==
    ASSUME GateInv, [GateNext]_gateVars, sent \subseteq sent', NEW result \in Result, IsSo(result)
    PROVE  IsSo(result)'
BY OwnStay DEF IsSo, Result

\* The steps that leave the patches alone.
LEMMA AgentKept ==
    ASSUME HookInv, [GateNext]_gateVars, UNCHANGED <<given, agent, inflight, sent>>,
           GateInv', raw' \in {given, Serialized(given)}
    PROVE  HookInv'
<1>1. HookTypeOK'
    BY DEF HookInv, HookTypeOK, GateInv
<1>2. \A patch \in inflight' : (IsProposal(patch) \/ IsBlocking(patch))'
    <2> SUFFICES ASSUME NEW patch \in inflight PROVE (IsProposal(patch) \/ IsBlocking(patch))'
        OBVIOUS
    <2>1. CASE IsProposal(patch)
        <3>1. PICK result \in Result, reasons \in Reasons :
                  patch = RejectionPatch(result, reasons) /\ IsSo(result)
            BY <2>1 DEF IsProposal
        <3>2. IsSo(result)'
            BY <3>1, StaysSo DEF HookInv
        <3> QED
            BY <3>1, <3>2 DEF IsProposal
    <2>2. CASE IsBlocking(patch)
        BY <2>2 DEF IsBlocking
    <2> QED
        BY <2>1, <2>2 DEF HookInv
<1>3. AgentIsSo'
    BY OwnStay DEF HookInv, HookTypeOK, AgentState, AgentIsSo
<1> QED
    BY <1>1, <1>2, <1>3 DEF HookInv

\* A node returns a patch, and perhaps has admitted a row.
LEMMA ReturnInv ==
    ASSUME HookInv, [GateNext]_gateVars, GateInv', NEW patch, Return(patch), sent \subseteq sent',
           \A s \in sent' \ sent : s.run \in AgentRuns /\ IsTwin(s) /\ s.row \in MemoryEntry,
           IsProposal(patch)' \/ IsBlocking(patch)
    PROVE  HookInv'
<1>1. /\ Cardinality(inflight) < MaxInFlight /\ inflight' = inflight \cup {patch}
      /\ UNCHANGED <<raw, given, agent>>
    BY DEF Return
<1>2. /\ IsFiniteSet(inflight') /\ Cardinality(inflight') <= MaxInFlight
    <2>1. IsFiniteSet(inflight) /\ Cardinality(inflight) \in Nat /\ MaxInFlight \in Nat
        BY FS_CardinalityType, HookAssumption DEF HookInv
    <2>2. /\ IsFiniteSet(inflight \cup {patch})
          /\ \/ Cardinality(inflight \cup {patch}) = Cardinality(inflight)
             \/ Cardinality(inflight \cup {patch}) = Cardinality(inflight) + 1
        BY <2>1, FS_AddElement
    <2> QED
        BY <1>1, <2>1, <2>2
<1>3. HookTypeOK'
    BY <1>1, <1>2 DEF HookInv, HookTypeOK, GateInv
<1>4. \A s \in sent' : IsTwin(s)
    BY DEF HookInv
<1>5. \A other \in inflight' : (IsProposal(other) \/ IsBlocking(other))'
    <2> SUFFICES ASSUME NEW other \in inflight, other # patch
                 PROVE  (IsProposal(other) \/ IsBlocking(other))'
        BY <1>1 DEF IsBlocking
    <2>1. CASE IsProposal(other)
        <3>1. PICK result \in Result, reasons \in Reasons :
                  other = RejectionPatch(result, reasons) /\ IsSo(result)
            BY <2>1 DEF IsProposal
        <3>2. IsSo(result)'
            BY <3>1, StaysSo DEF HookInv
        <3> QED
            BY <3>1, <3>2 DEF IsProposal
    <2>2. CASE IsBlocking(other)
        BY <2>2 DEF IsBlocking
    <2> QED
        BY <2>1, <2>2 DEF HookInv
<1>6. AgentIsSo'
    BY <1>1, OwnStay DEF HookInv, HookTypeOK, AgentState, AgentIsSo
<1> QED
    BY <1>2, <1>3, <1>4, <1>5, <1>6 DEF HookInv

\* A proposal returns, with what it says of the gate's new state.
LEMMA ProposalInv ==
    ASSUME HookInv, [GateNext]_gateVars, GateInv', NEW result \in Result, NEW reasons \in Reasons,
           Return(RejectionPatch(result, reasons)), sent \subseteq sent', IsSo(result)',
           \A s \in sent' \ sent : s.run \in AgentRuns /\ IsTwin(s) /\ s.row \in MemoryEntry
    PROVE  HookInv'
<1>1. PICK patch : patch = RejectionPatch(result, reasons)
    OBVIOUS
<1>2. Return(patch) /\ IsProposal(patch)'
    BY <1>1 DEF IsProposal
<1> QED
    BY <1>2, ReturnInv

\* The proposal node: a distiller that raises, a ready proposal, or a refusal.
LEMMA ProposeInv ==
    ASSUME HookInv, Propose, GateInv'
    PROVE  HookInv'
<1>1. [GateNext]_gateVars
    BY HookCallsGate DEF HookInv, HookNext
<1>2. /\ None \in Optional(MemoryIds) /\ None \in Optional(PendingIds)
      /\ None \notin CommitStatus /\ None \notin MemoryIds /\ None \notin PendingIds
    BY GateAssumption DEF Optional
<1>3. CASE ProposeIncomplete
    <2> DEFINE result == CommitResult("rejected", None, None)
    <2>1. result \in Result /\ IsSo(result)'
        BY <1>2 DEF CommitResult, Result, CommitStatus, IsSo, AreOwn
    <2> HIDE DEF result
    <2> QED
        BY <1>1, <1>3, <2>1, ProposalInv DEF ProposeIncomplete, Reasons, result
<1>4. CASE /\ ~Incomplete(raw) /\ ~ProposalRaises(raw)
           /\ \/ ProposeRejected(CommitCall(raw))
              \/ \E pid \in PendingIds : ProposeHeld(CommitCall(raw), pid)
              \/ \E id \in MemoryIds : ProposeStored(CommitCall(raw), id)
    <2>1. PICK call \in Submissions : call = CommitCall(raw)
        BY <1>4, ProposedCall DEF HookInv
    <2>2. ASSUME Admissible(call)
          PROVE  /\ FromCandidate(Outcome[call].candidate) = RowOf(given)
                 /\ FromCandidate(Outcome[call].candidate) \in MemoryEntry
                 /\ Outcome[call].candidate # None
                 /\ Admitted(given) \/ HasNull(given)
        BY <1>4, <2>1, <2>2, ProposedCall, AdmissibleFacts DEF HookInv
    <2>3. ASSUME Admissible(call), Admit(call)
          PROVE  /\ sent \subseteq sent'
                 /\ \A s \in sent' \ sent :
                       s.run \in AgentRuns /\ IsTwin(s) /\ s.row \in MemoryEntry
                 /\ Makes(FromCandidate(Outcome[call].candidate))'
        <3>1. PICK row : row = FromCandidate(Outcome[call].candidate)
            OBVIOUS
        <3>2. sent' = sent \cup {[run |-> given, row |-> row]} /\ given \in AgentRuns
            BY <2>3, <3>1 DEF Admit, HookInv, HookTypeOK
        <3>3. row = RowOf(given) /\ row \in MemoryEntry
            BY <2>2, <2>3, <3>1
        <3>4. [run |-> given, row |-> row] \in sent'
            BY <3>2
        <3>5. Makes(row)'
            BY <3>4, Zenon DEF Makes
        <3>6. PICK s : s = [run |-> given, row |-> row]
            OBVIOUS
        <3>7. s.run \in AgentRuns /\ IsTwin(s) /\ s.row \in MemoryEntry
            BY <2>2, <2>3, <3>2, <3>3, <3>6 DEF IsTwin
        <3> QED
            BY <3>1, <3>2, <3>5, <3>6, <3>7
    <2>4. CASE ProposeRejected(call)
        <3> DEFINE result == CommitResult("rejected", None, None)
        <3>1. result \in Result /\ IsSo(result)'
            BY <1>2 DEF CommitResult, Result, CommitStatus, IsSo, AreOwn
        <3> HIDE DEF result
        <3> QED
            BY <1>1, <2>4, <3>1, ProposalInv DEF ProposeRejected, Reasons, result
    <2>5. ASSUME NEW pid \in PendingIds, ProposeHeld(call, pid) PROVE HookInv'
        <3> DEFINE result == CommitResult("pending", None, pid)
        <3>1. Admissible(call) /\ held'[pid] = Outcome[call].candidate
            BY <2>5 DEF ProposeHeld, CommitHeld, HookInv, GateInv, GateTypeOK
        <3>2. result \in Result
            BY <1>2 DEF CommitResult, Result, CommitStatus, Optional
        <3>3. IsSo(result)'
            BY <1>2, <2>2, <2>3, <2>5, <3>1 DEF ProposeHeld, CommitResult, IsSo, AreOwn
        <3> HIDE DEF result
        <3> QED
            BY <1>1, <2>3, <2>5, <3>1, <3>2, <3>3, ProposalInv DEF ProposeHeld, Reasons, result
    <2>6. ASSUME NEW id \in MemoryIds, ProposeStored(call, id) PROVE HookInv'
        <3> DEFINE result == CommitResult("committed", id, None)
        <3>1. Admissible(call) /\ entries'[id] = FromCandidate(Outcome[call].candidate)
            BY <2>6 DEF ProposeStored, CommitStored, Insert, HookInv, GateInv, StoreInv, StoreTypeOK
        <3>2. result \in Result
            BY <1>2 DEF CommitResult, Result, CommitStatus, Optional
        <3>3. IsSo(result)'
            BY <1>2, <2>2, <2>3, <2>6, <3>1, EntryTags DEF ProposeStored, CommitResult, IsSo, AreOwn, Known
        <3> HIDE DEF result
        <3> QED
            BY <1>1, <2>3, <2>6, <3>1, <3>2, <3>3, ProposalInv DEF ProposeStored, Reasons, result
    <2> QED
        BY <1>4, <2>1, <2>4, <2>5, <2>6
<1> QED
    BY <1>3, <1>4 DEF Propose

\* The guard adds the blocked tool to the calls it saw, in a patch.
LEMMA GuardInv ==
    ASSUME HookInv, NEW tool \in Tools, Guard(tool), GateInv'
    PROVE  HookInv'
<1>1. PICK blocked : blocked = Append(agent.blocked.calls, tool)
    OBVIOUS
<1>2. blocked \in Seq(Tools)
    BY <1>1 DEF HookInv, HookTypeOK, AgentState
<1>3. PICK patch : patch = [blocked |-> [form |-> "tuple", calls |-> blocked],
                            rejections |-> "bypass", review |-> TRUE]
    OBVIOUS
<1>4. Return(patch) /\ IsBlocking(patch)
    BY <1>1, <1>2, <1>3 DEF Guard, MergeBlockedTool, AppendBlocked, IsBlocking
<1> QED
    BY <1>4, ReturnInv DEF Guard

\* A patch is merged: a result with all that belongs to it, or a blocked call,
\* which leaves the result and its ids alone and only ever raises the flag.
LEMMA MergeInv ==
    ASSUME HookInv, NEW patch \in inflight, Merge(patch), GateInv'
    PROVE  HookInv'
<1>1. /\ agent' = Updated(agent, patch) /\ inflight' = inflight \ {patch}
      /\ UNCHANGED <<gateVars, raw, given, sent>> /\ agent \in AgentState
    BY DEF Merge, HookInv, HookTypeOK
<1>2. IsFiniteSet(inflight') /\ Cardinality(inflight') <= MaxInFlight
    <2>1. IsFiniteSet(inflight) /\ Cardinality(inflight) \in Nat /\ MaxInFlight \in Nat
        BY FS_CardinalityType, HookAssumption DEF HookInv
    <2>2. /\ IsFiniteSet(inflight \ {patch})
          /\ Cardinality(inflight \ {patch}) = Cardinality(inflight) - 1
        BY <2>1, FS_RemoveElement
    <2> QED
        BY <1>1, <2>1, <2>2 DEF HookInv, HookTypeOK
<1>3. agent' \in AgentState /\ AgentIsSo'
    <2>1. CASE IsProposal(patch)
        <3>1. PICK result \in Result, reasons \in Reasons :
                  patch = RejectionPatch(result, reasons) /\ IsSo(result)
            BY <2>1 DEF IsProposal
        <3>2. /\ agent' \in AgentState /\ agent'.result = result
              /\ agent'.review = (result.status # "committed")
              /\ agent'.memory_id =
                    IF result.memory_id # None THEN result.memory_id ELSE agent.memory_id
              /\ agent'.pending_id =
                    IF result.pending_id # None THEN result.pending_id ELSE agent.pending_id
            BY <1>1, <3>1, MergedProposal
        <3>3. /\ AreOwn(agent.memory_id, agent.pending_id)
              /\ AreOwn(result.memory_id, result.pending_id)
            BY <3>1 DEF HookInv, AgentIsSo, IsSo
        <3>4. AreOwn(agent'.memory_id, agent'.pending_id)
            BY <3>2, <3>3 DEF AreOwn
        <3>5. AreOwn(agent.memory_id, agent.pending_id)'
            BY <1>1, <3>4 DEF AreOwn, Makes, Known, gateVars, storeVars, inboxVars
        <3>6. /\ result.status = "committed" => result.memory_id # None
              /\ result.status = "pending" => result.pending_id # None
            BY <3>1 DEF IsSo
        <3> QED
            BY <3>2, <3>5, <3>6 DEF AgentIsSo
    <2>2. CASE IsBlocking(patch)
        <3>1. /\ agent' \in AgentState
              /\ agent'.result = agent.result /\ agent'.review = TRUE
              /\ agent'.memory_id = agent.memory_id /\ agent'.pending_id = agent.pending_id
            BY <1>1, <2>2, MergedBlocking DEF IsBlocking
        <3> QED
            BY <1>1, <3>1
            DEF HookInv, AgentIsSo, AreOwn, Makes, Known, gateVars, storeVars, inboxVars
    <2> QED
        BY <2>1, <2>2 DEF HookInv
<1>4. HookTypeOK'
    BY <1>1, <1>2, <1>3 DEF HookInv, HookTypeOK, GateInv
<1>5. \A other \in inflight' : (IsProposal(other) \/ IsBlocking(other))'
    BY <1>1
    DEF HookInv, IsProposal, IsBlocking, IsSo, AreOwn, Makes, Known, gateVars, storeVars, inboxVars
<1> QED
    BY <1>1, <1>2, <1>3, <1>4, <1>5 DEF HookInv

\* A patch that is dropped leaves the state as it is.
LEMMA DiscardInv ==
    ASSUME HookInv, NEW patch \in inflight, Discard(patch), GateInv'
    PROVE  HookInv'
<1>1. inflight' = inflight \ {patch} /\ UNCHANGED <<gateVars, raw, given, agent, sent>>
    BY DEF Discard
<1>2. IsFiniteSet(inflight') /\ Cardinality(inflight') <= MaxInFlight
    <2>1. IsFiniteSet(inflight) /\ Cardinality(inflight) \in Nat /\ MaxInFlight \in Nat
        BY FS_CardinalityType, HookAssumption DEF HookInv
    <2>2. /\ IsFiniteSet(inflight \ {patch})
          /\ Cardinality(inflight \ {patch}) = Cardinality(inflight) - 1
        BY <2>1, FS_RemoveElement
    <2> QED
        BY <1>1, <2>1, <2>2 DEF HookInv, HookTypeOK
<1>3. HookTypeOK'
    BY <1>1, <1>2 DEF HookInv, HookTypeOK, GateInv
<1>4. \A other \in inflight' : (IsProposal(other) \/ IsBlocking(other))'
    BY <1>1
    DEF HookInv, IsProposal, IsBlocking, IsSo, AreOwn, Makes, Known, gateVars, storeVars, inboxVars
<1>5. AgentIsSo'
    BY <1>1 DEF HookInv, AgentIsSo, AreOwn, Makes, Known, gateVars, storeVars, inboxVars
<1> QED
    BY <1>1, <1>2, <1>3, <1>4, <1>5 DEF HookInv

\* Between nodes: the state is serialized, or a new run is captured.
LEMMA CheckpointInv ==
    ASSUME HookInv, TakeCheckpoint, GateInv'
    PROVE  HookInv'
<1>1. /\ inflight = {} /\ raw' = Serialized(raw)
      /\ agent' = [agent EXCEPT !.blocked.form = "list"]
      /\ UNCHANGED <<gateVars, given, inflight, sent>>
    BY DEF TakeCheckpoint
<1>2. given \in AgentRuns /\ raw \in {given, Serialized(given)} /\ agent \in AgentState
    BY DEF HookInv, HookTypeOK
<1>3. raw' \in {given, Serialized(given)}
    <2>1. Serialized(Serialized(given)) = Serialized(given)
        BY <1>2, SerializedFacts
    <2> QED
        BY <1>1, <1>2, <2>1
<1>4. /\ agent' \in AgentState /\ agent'.result = agent.result /\ agent'.review = agent.review
      /\ agent'.memory_id = agent.memory_id /\ agent'.pending_id = agent.pending_id
    BY <1>1, <1>2 DEF AgentState
<1>5. HookTypeOK'
    BY <1>1, <1>3, <1>4 DEF HookInv, HookTypeOK, GateInv
<1>6. AgentIsSo'
    BY <1>1, <1>4 DEF HookInv, AgentIsSo, AreOwn, Makes, Known, gateVars, storeVars, inboxVars
<1> QED
    BY <1>1, <1>5, <1>6 DEF HookInv

\* A new run is captured once no node is under way.
LEMMA CaptureInv ==
    ASSUME HookInv, NEW run \in AgentRuns, Capture(run), GateInv'
    PROVE  HookInv'
<1>1. /\ inflight = {} /\ given' = run /\ raw' = run
      /\ UNCHANGED <<gateVars, agent, inflight, sent>>
    BY DEF Capture
<1>2. HookTypeOK'
    BY <1>1 DEF HookInv, HookTypeOK, GateInv
<1>3. AgentIsSo'
    BY <1>1 DEF HookInv, AgentIsSo, AreOwn, Makes, Known, gateVars, storeVars, inboxVars
<1> QED
    BY <1>1, <1>2, <1>3 DEF HookInv

-----------------------------------------------------------------------------
\* The hook and the other callers use the gate as any caller may: what holds
\* of a gate holds beside an agent.
THEOREM HookKeepsGate == HookSpec => GateSpec /\ []HookInv
<1>1. HookInit => GateInit
    BY DEF HookInit
<1>2. HookInit /\ GateInv => HookInv
    <2> SUFFICES ASSUME HookInit, GateInv PROVE HookInv
        OBVIOUS
    <2>1. Cardinality(inflight) = 0 /\ IsFiniteSet(inflight)
        BY FS_EmptySet DEF HookInit
    <2>2. agent \in AgentState
        BY DEF HookInit, AgentState, Optional, Reasons
    <2>3. HookTypeOK
        BY <2>1, <2>2, HookAssumption DEF HookInit, HookTypeOK, GateInv
    <2> QED
        BY <2>1, <2>3 DEF HookInit, HookInv, AgentIsSo, AreOwn
<1>3. HookInv /\ [HookNext]_<<gateVars, hookVars>> => [GateNext]_gateVars
    BY HookCallsGate DEF HookInv
<1>4. GateInv' /\ HookInv /\ [HookNext]_<<gateVars, hookVars>> => HookInv'
    <2> SUFFICES ASSUME GateInv', HookInv, [HookNext]_<<gateVars, hookVars>> PROVE HookInv'
        OBVIOUS
    <2>1. raw \in {given, Serialized(given)}
        BY DEF HookInv, HookTypeOK
    <2>2. CASE Propose
        BY <2>2, ProposeInv
    <2>3. ASSUME NEW tool \in Tools, Guard(tool) PROVE HookInv'
        BY <2>3, GuardInv
    <2>4. ASSUME NEW patch \in inflight, Merge(patch) \/ Discard(patch) PROVE HookInv'
        BY <2>4, MergeInv, DiscardInv
    <2>5. CASE TakeCheckpoint
        BY <2>5, CheckpointInv
    <2>6. ASSUME NEW run \in AgentRuns, Capture(run) PROVE HookInv'
        BY <2>6, CaptureInv
    <2>7. CASE Elsewhere
        BY <1>3, <2>1, <2>7, AgentKept DEF Elsewhere, hookVars
    <2>8. CASE UNCHANGED <<gateVars, hookVars>>
        BY <1>3, <2>1, <2>8, AgentKept DEF hookVars
    <2> QED
        BY <2>2, <2>3, <2>4, <2>5, <2>6, <2>7, <2>8 DEF HookNext
<1> QED
    BY <1>1, <1>2, <1>3, <1>4, GateInitInv, GateStepInv, PTL DEF HookSpec, GateSpec

\* Where the agent's state names a row or an inbox item as the outcome of its
\* last proposal, the gate has it, and it is one of the agent's own.
THEOREM ResultTruth == HookSpec => []ResultTellsTheTruth
<1>1. HookInv => ResultTellsTheTruth
    BY DEF HookInv, AgentIsSo, AreOwn, ResultTellsTheTruth
<1> QED
    BY <1>1, HookKeepsGate, PTL

\* No patch of a guard, an earlier or a later node takes the flag for review
\* from a proposal that was not committed.
THEOREM UnsettledFlagged == HookSpec => []UnsettledIsFlagged
<1>1. HookInv => UnsettledIsFlagged
    BY DEF HookInv, AgentIsSo, UnsettledIsFlagged
<1> QED
    BY <1>1, HookKeepsGate, PTL

\* However often a run is proposed, before and after checkpoints and in
\* whatever form, the proposals that are admitted make one and the same row;
\* only a null that a checkpoint converts gets one admitted that was not.
THEOREM TwinsAreEqual == HookSpec => []RerunsAreTwins
<1>1. HookInv => RerunsAreTwins
    BY DEF HookInv, IsTwin, RerunsAreTwins
<1> QED
    BY <1>1, HookKeepsGate, PTL

-----------------------------------------------------------------------------
\* A patch in flight holds the calls that were blocked when it was made, and
\* while nodes take turns those are still all there are.
BlockedInv ==
    \A patch \in inflight :
        IsBlocking(patch) => IsPrefix(agent.blocked.calls, patch.blocked.calls)

\* A list is a prefix of itself and of what it is extended to.
LEMMA PrefixFacts ==
    ASSUME NEW S, NEW s \in Seq(S), NEW e \in S
    PROVE  IsPrefix(s, s) /\ IsPrefix(s, Append(s, e))
BY DEF IsPrefix

\* With one node at a time, the patch of that node is the only one under way.
LEMMA TakingTurns ==
    ASSUME MaxInFlight = 1, HookInv
    PROVE  /\ Cardinality(inflight) < MaxInFlight => inflight = {}
           /\ \A patch \in inflight : inflight = {patch}
<1>1. IsFiniteSet(inflight) /\ Cardinality(inflight) \in Nat /\ Cardinality(inflight) <= 1
    BY FS_CardinalityType DEF HookInv, HookTypeOK
<1>2. Cardinality(inflight) = 0 => inflight = {}
    BY <1>1, FS_EmptySet
<1>3. ASSUME NEW patch \in inflight PROVE inflight = {patch}
    <2>1. /\ IsFiniteSet(inflight \ {patch})
          /\ Cardinality(inflight \ {patch}) = Cardinality(inflight) - 1
          /\ Cardinality(inflight \ {patch}) \in Nat
        BY <1>1, FS_RemoveElement, FS_CardinalityType
    <2>2. inflight \ {patch} = {}
        BY <1>1, <2>1, FS_EmptySet
    <2> QED
        BY <2>2
<1> QED
    BY <1>1, <1>2, <1>3

\* What merging a patch does to the calls that were blocked.
LEMMA MergeExtends ==
    ASSUME HookInv, BlockedInv, NEW patch \in inflight, Merge(patch)
    PROVE  IsPrefix(agent.blocked.calls, agent'.blocked.calls)
<1>1. agent' = Updated(agent, patch) /\ agent \in AgentState /\ agent.blocked.calls \in Seq(Tools)
    BY DEF Merge, HookInv, HookTypeOK, AgentState
<1>2. CASE IsProposal(patch)
    <2>1. agent'.blocked = agent.blocked
        BY <1>1, <1>2, MergedProposal DEF IsProposal
    <2> QED
        BY <1>1, <2>1 DEF IsPrefix
<1>3. CASE IsBlocking(patch)
    <2>1. PICK blocked \in Seq(Tools) :
              patch = [blocked |-> [form |-> "tuple", calls |-> blocked],
                       rejections |-> "bypass", review |-> TRUE]
        BY <1>3 DEF IsBlocking
    <2>2. agent'.blocked.calls = blocked /\ patch.blocked.calls = blocked
        BY <1>1, <2>1, MergedBlocking
    <2> QED
        BY <1>3, <2>2 DEF BlockedInv
<1> QED
    BY <1>2, <1>3 DEF HookInv

\* No step takes a blocked call out of the state when nodes take turns.
LEMMA BlockedStep ==
    ASSUME MaxInFlight = 1, HookInv, BlockedInv, [HookNext]_<<gateVars, hookVars>>
    PROVE  BlockedInv' /\ [IsPrefix(agent.blocked.calls, agent'.blocked.calls)]_agent
<1>1. agent \in AgentState /\ agent.blocked.calls \in Seq(Tools)
    BY DEF HookInv, HookTypeOK, AgentState
<1>2. ASSUME NEW patch, Return(patch),
             IsBlocking(patch) => IsPrefix(agent.blocked.calls, patch.blocked.calls)
      PROVE  BlockedInv' /\ UNCHANGED agent
    BY <1>2, TakingTurns DEF Return, BlockedInv, IsBlocking
<1>3. ASSUME NEW result \in Result, NEW reasons \in Reasons, Return(RejectionPatch(result, reasons))
      PROVE  BlockedInv' /\ UNCHANGED agent
    <2>1. PICK patch : patch = RejectionPatch(result, reasons)
        OBVIOUS
    <2>2. "result" \in DOMAIN patch
        <3>1. DOMAIN RejectionPatch(result, reasons)
                  = {"result", "rejections", "review"}
                        \cup {key \in {"memory_id", "pending_id"} : result[key] # None}
            BY ProposalKeys
        <3> QED
            BY <2>1, <3>1
    <2>3. ~IsBlocking(patch)
        BY <2>2 DEF IsBlocking
    <2> QED
        BY <1>2, <1>3, <2>1, <2>3
<1>4. CASE Propose
    <2>1. None \in Optional(MemoryIds) /\ None \in Optional(PendingIds)
        BY DEF Optional
    <2>2. /\ CommitResult("rejected", None, None) \in Result
          /\ \A pid \in PendingIds : CommitResult("pending", None, pid) \in Result
          /\ \A id \in MemoryIds : CommitResult("committed", id, None) \in Result
        BY <2>1 DEF CommitResult, Result, CommitStatus, Optional
    <2>3. PICK result \in Result, reasons \in Reasons : Return(RejectionPatch(result, reasons))
        BY <1>4, <2>2 DEF Propose, ProposeIncomplete, ProposeRejected, ProposeHeld, ProposeStored, Reasons
    <2> QED
        BY <1>3, <2>3
<1>5. ASSUME NEW tool \in Tools, Guard(tool) PROVE BlockedInv' /\ UNCHANGED agent
    <2>1. PICK patch : patch = MergeBlockedTool(tool)
        OBVIOUS
    <2>2. patch.blocked.calls = Append(agent.blocked.calls, tool)
        BY <2>1 DEF MergeBlockedTool, AppendBlocked
    <2> QED
        BY <1>1, <1>2, <1>5, <2>1, <2>2, PrefixFacts DEF Guard
<1>6. ASSUME NEW patch \in inflight, Merge(patch)
      PROVE  BlockedInv' /\ IsPrefix(agent.blocked.calls, agent'.blocked.calls)
    BY <1>6, TakingTurns, MergeExtends DEF Merge, BlockedInv
<1>7. ASSUME NEW patch \in inflight, Discard(patch) PROVE BlockedInv' /\ UNCHANGED agent
    BY <1>7 DEF Discard, BlockedInv, IsBlocking
<1>8. CASE TakeCheckpoint
    <2>1. inflight' = {} /\ agent'.blocked.calls = agent.blocked.calls
        BY <1>1, <1>8 DEF TakeCheckpoint, AgentState
    <2> QED
        BY <1>1, <2>1 DEF BlockedInv, IsPrefix
<1>9. ASSUME NEW run \in AgentRuns, Capture(run) PROVE BlockedInv' /\ UNCHANGED agent
    BY <1>9 DEF Capture, BlockedInv
<1>10. CASE Elsewhere \/ UNCHANGED <<gateVars, hookVars>>
    BY <1>10 DEF Elsewhere, hookVars, BlockedInv, IsBlocking
<1> QED
    BY <1>4, <1>5, <1>6, <1>7, <1>8, <1>9, <1>10 DEF HookNext

\* As long as nodes take turns, every record of a blocked call stays.  With two
\* in flight at once the later merge would take back the earlier one's.
THEOREM BlockedCallsKept ==
    ASSUME MaxInFlight = 1
    PROVE  HookSpec => BlockedCallsAccumulate
<1>1. HookInit => BlockedInv
    BY DEF HookInit, BlockedInv
<1>2. HookInv /\ BlockedInv /\ [HookNext]_<<gateVars, hookVars>>
          => BlockedInv' /\ [IsPrefix(agent.blocked.calls, agent'.blocked.calls)]_agent
    BY BlockedStep
<1> QED
    BY <1>1, <1>2, HookKeepsGate, PTL DEF HookSpec, BlockedCallsAccumulate

-----------------------------------------------------------------------------
(***************************************************************************)
(* The daemon.                                                             *)
(***************************************************************************)
KnownIds == {id \in MemoryIds : Known(id)}

\* The app serves the log that it ought to serve.
Wired == served # "none" => (served = "other" <=> wiring.given = "other" /\ wiring.attached)

\* What a request has collected is right as far as it has come.
RequestInv(q) ==
    request[q].at # "idle" =>
        /\ served # "none"
        /\ request[q].from <= Len(DueLog)
        /\ request[q].endpoint = "/audit" =>
              /\ request[q].pos <= Len(DueLog)
              /\ AnswersUpTo(q, request[q].pos)
              /\ request[q].at = "returned" => request[q].from <= request[q].pos
        /\ request[q].endpoint = "/audit/event_id" /\ request[q].at = "returned" =>
              /\ request[q].pos >= 1
              /\ request[q].pos <= request[q].from => request[q].out = <<DueLog[request[q].pos]>>
        /\ request[q].endpoint = "/memories" =>
              /\ request[q].size <= Cardinality(KnownIds)
              /\ request[q].at = "raised" => request[q].size < Cardinality(KnownIds)
              /\ \A id \in request[q].gone : IsTombstoned(id)
              /\ \A id \in request[q].rows : Known(id) /\ id \notin request[q].gone

\* The inductive invariant.
DaemonInv ==
    /\ GateInv
    /\ DaemonTypeOK
    /\ Wired
    /\ \A q \in Requests : RequestInv(q)

\* Whatever the app does, it attaches a log or leaves the gate alone.
LEMMA DaemonCallsGate ==
    ASSUME GateInv, [DaemonNext]_daemonVars
    PROVE  [GateNext]_gateVars
<1>1. ASSUME NEW beside \in {"nothing", "same", "other"}, CreateApp(beside) PROVE [GateNext]_gateVars
    <2>1. CASE attached
        BY <1>1, <2>1 DEF CreateApp, GateInv, GateTypeOK, gateVars, auditVars
    <2>2. CASE ~attached
        BY <1>1, <2>2 DEF CreateApp, AttachLog, GateNext
    <2> QED
        BY <2>1, <2>2
<1> QED
    BY <1>1 DEF DaemonNext, daemonVars, Ask, AuditVisit, AuditReturn, EventLookup, MemoryVisit,
                MemoriesReturn, MemoriesRaise

\* The log that requests are answered from only grows.
LEMMA DueLogGrows ==
    ASSUME GateInv, [GateNext]_gateVars, UNCHANGED wiring
    PROVE  /\ DueLog \in Seq(AuditRecord) /\ DueLog' \in Seq(AuditRecord)
           /\ Len(DueLog) <= Len(DueLog')
           /\ \A k \in 1 .. Len(DueLog) : DueLog'[k] = DueLog[k]
<1>1. auditLog \in Seq(AuditRecord)
    BY DEF GateInv, GateTypeOK
<1>2. CASE auditLog' = auditLog
    BY <1>1, <1>2 DEF DueLog
<1>3. ASSUME NEW record \in AuditRecord, auditLog' = Append(auditLog, record)
      PROVE  /\ auditLog' \in Seq(AuditRecord) /\ Len(auditLog) <= Len(auditLog')
             /\ \A k \in 1 .. Len(auditLog) : auditLog'[k] = auditLog[k]
    BY <1>1, <1>3
<1>4. CASE auditLog' # auditLog
    BY <1>1, <1>3, <1>4, GateGrows DEF LogGrows, DueLog
<1> QED
    BY <1>2, <1>4

\* A state's log and rows, by themselves.
LEMMA LogAndRows ==
    ASSUME GateInv
    PROVE  /\ DueLog \in Seq(AuditRecord) /\ Len(DueLog) \in Nat
           /\ IsFiniteSet(KnownIds) /\ Cardinality(KnownIds) \in Nat
<1>1. DueLog \in Seq(AuditRecord)
    BY DEF DueLog, GateInv, GateTypeOK
<1>2. IsFiniteSet(KnownIds)
    BY FS_Subset, IdAssumption DEF KnownIds
<1> QED
    BY <1>1, <1>2, FS_CardinalityType

\* A request that only reads leaves the log and the rows as they are.
LEMMA LogAndRowsStay ==
    ASSUME UNCHANGED <<gateVars, wiring>>
    PROVE  /\ DueLog' = DueLog /\ KnownIds' = KnownIds
           /\ \A id : Known(id)' = Known(id) /\ IsTombstoned(id)' = IsTombstoned(id)
BY DEF gateVars, auditVars, storeVars, DueLog, KnownIds, Known, IsTombstoned

\* So do the rows that are known, and a list of them can only change by one
\* that is added.
LEMMA KnownGrows ==
    ASSUME GateInv, [GateNext]_gateVars
    PROVE  /\ IsFiniteSet(KnownIds) /\ Cardinality(KnownIds) \in Nat /\ Cardinality(KnownIds)' \in Nat
           /\ Cardinality(KnownIds) <= Cardinality(KnownIds)'
<1>1. KnownIds \subseteq KnownIds'
    BY GateGrows DEF KnownIds
<1>2. IsFiniteSet(KnownIds) /\ IsFiniteSet(KnownIds')
    BY FS_Subset, IdAssumption DEF KnownIds
<1> QED
    BY <1>1, <1>2, FS_Subset, FS_CardinalityType

\* The answer so far is not affected by later rows.
LEMMA AnswerStays ==
    ASSUME GateInv, [GateNext]_gateVars, UNCHANGED wiring, NEW q \in Requests,
           request'[q].query = request[q].query, request'[q].out = request[q].out,
           NEW length \in Nat, length <= Len(DueLog), AnswersUpTo(q, length)
    PROVE  AnswersUpTo(q, length)'
<1>1. /\ DueLog \in Seq(AuditRecord)
      /\ \A k \in 1 .. Len(DueLog) : DueLog'[k] = DueLog[k]
    BY DueLogGrows
<1>2. \A n \in 0 .. length : AskedFor(q, n)' = AskedFor(q, n)
    <2> SUFFICES ASSUME NEW n \in 0 .. length PROVE AskedFor(q, n)' = AskedFor(q, n)
        OBVIOUS
    <2>1. \A k \in 1 .. n : k \in 1 .. Len(DueLog) /\ DueLog'[k] = DueLog[k]
        BY <1>1
    <2> QED
        BY <2>1 DEF AskedFor
<1>3. \A k \in AskedFor(q, length) : k \in 0 .. length /\ k \in 1 .. Len(DueLog)
    BY <1>1 DEF AskedFor
<1> QED
    BY <1>1, <1>2, <1>3 DEF AnswersUpTo

\* A request that nobody serves in this step.
LEMMA RequestKept ==
    ASSUME DaemonInv, GateInv', [GateNext]_gateVars, UNCHANGED <<served, wiring>>,
           NEW q \in Requests, request'[q] = request[q]
    PROVE  RequestInv(q)'
<1> SUFFICES ASSUME request[q].at # "idle" PROVE RequestInv(q)'
    BY DEF RequestInv
<1>1. RequestInv(q) /\ served # "none"
    BY DEF DaemonInv, RequestInv
<1>2. /\ request[q].from \in Nat /\ request[q].pos \in Nat /\ request[q].size \in Nat
      /\ request[q].gone \subseteq MemoryIds /\ request[q].rows \subseteq MemoryIds
    BY DEF DaemonInv, DaemonTypeOK, RequestState
<1>3. /\ DueLog \in Seq(AuditRecord) /\ DueLog' \in Seq(AuditRecord)
      /\ Len(DueLog) <= Len(DueLog')
      /\ \A k \in 1 .. Len(DueLog) : DueLog'[k] = DueLog[k]
    BY DueLogGrows DEF DaemonInv
<1>4. request'[q].from <= Len(DueLog')
    <2>1. request[q].from <= Len(DueLog)
        BY <1>1 DEF RequestInv
    <2>2. Len(DueLog) \in Nat /\ Len(DueLog') \in Nat /\ request'[q].from = request[q].from
        BY <1>3
    <2> QED
        BY <1>2, <1>3, <2>1, <2>2
<1>5. ASSUME request[q].endpoint = "/audit"
      PROVE  /\ request[q].pos <= Len(DueLog')
             /\ AnswersUpTo(q, request[q].pos)'
             /\ request[q].at = "returned" => request[q].from <= request[q].pos
    <2>1. /\ request[q].pos <= Len(DueLog) /\ AnswersUpTo(q, request[q].pos)
          /\ request[q].at = "returned" => request[q].from <= request[q].pos
        BY <1>1, <1>5 DEF RequestInv
    <2>2. PICK length \in Nat : length = request[q].pos
        BY <1>2
    <2>3. AnswersUpTo(q, length)'
        BY <2>1, <2>2, AnswerStays DEF DaemonInv
    <2> QED
        BY <1>2, <1>3, <2>1, <2>2, <2>3
<1>6. ASSUME request[q].endpoint = "/audit/event_id", request[q].at = "returned"
      PROVE  /\ request[q].pos >= 1
             /\ request[q].pos <= request[q].from => request[q].out = <<DueLog'[request[q].pos]>>
    <2>1. /\ request[q].pos >= 1
          /\ request[q].pos <= request[q].from => request[q].out = <<DueLog[request[q].pos]>>
        BY <1>1, <1>6 DEF RequestInv
    <2>2. request[q].from <= Len(DueLog)
        BY <1>1 DEF RequestInv
    <2>3. ASSUME request[q].pos <= request[q].from
          PROVE  DueLog'[request[q].pos] = DueLog[request[q].pos]
        <3>1. Len(DueLog) \in Nat
            BY <1>3
        <3>2. request[q].pos \in 1 .. Len(DueLog)
            BY <1>2, <2>1, <2>2, <2>3, <3>1
        <3> QED
            BY <1>3, <3>2
    <2> QED
        BY <2>1, <2>3
<1>7. ASSUME request[q].endpoint = "/memories"
      PROVE  /\ request[q].size <= Cardinality(KnownIds)'
             /\ request[q].at = "raised" => request[q].size < Cardinality(KnownIds)'
             /\ \A id \in request[q].gone : IsTombstoned(id)'
             /\ \A id \in request[q].rows : Known(id)' /\ id \notin request[q].gone
    <2>1. /\ request[q].size <= Cardinality(KnownIds)
          /\ request[q].at = "raised" => request[q].size < Cardinality(KnownIds)
          /\ \A id \in request[q].gone : IsTombstoned(id)
          /\ \A id \in request[q].rows : Known(id) /\ id \notin request[q].gone
        BY <1>1, <1>7 DEF RequestInv
    <2>2. /\ Cardinality(KnownIds) \in Nat /\ Cardinality(KnownIds)' \in Nat
          /\ Cardinality(KnownIds) <= Cardinality(KnownIds)'
        BY KnownGrows DEF DaemonInv
    <2>3. \A id \in MemoryIds :
              /\ Known(id) => Known(id)'
              /\ IsTombstoned(id) => IsTombstoned(id)'
        BY GateGrows DEF DaemonInv
    <2>4. /\ request[q].size <= Cardinality(KnownIds)'
          /\ request[q].at = "raised" => request[q].size < Cardinality(KnownIds)'
        BY <1>2, <2>1, <2>2
    <2>5. /\ \A id \in request[q].gone : IsTombstoned(id)'
          /\ \A id \in request[q].rows : Known(id)' /\ id \notin request[q].gone
        BY <1>2, <2>1, <2>3
    <2> QED
        BY <2>4, <2>5
<1> QED
    BY <1>1, <1>4, <1>5, <1>6, <1>7 DEF RequestInv

\* The gate is called, and no request moves.
LEMMA GateBeside ==
    ASSUME DaemonInv, GateInv', [GateNext]_gateVars, UNCHANGED <<served, request, wiring>>
    PROVE  DaemonInv'
<1>1. DaemonTypeOK'
    BY DEF DaemonInv, DaemonTypeOK, GateInv
<1>2. Wired'
    BY DEF DaemonInv, Wired
<1>3. \A q \in Requests : RequestInv(q)'
    BY RequestKept
<1> QED
    BY <1>1, <1>2, <1>3 DEF DaemonInv

\* One request moves, and the gate does not.
LEMMA RequestMoves ==
    ASSUME DaemonInv, UNCHANGED <<gateVars, served, wiring>>, NEW q \in Requests,
           NEW next \in RequestState, request' = [request EXCEPT ![q] = next], RequestInv(q)'
    PROVE  DaemonInv'
<1>1. GateInv'
    BY GateStepInv DEF DaemonInv
<1>2. request \in [Requests -> RequestState]
    BY DEF DaemonInv, DaemonTypeOK
<1>3. DaemonTypeOK'
    BY <1>1, <1>2 DEF DaemonInv, DaemonTypeOK, GateInv
<1>4. Wired'
    BY DEF DaemonInv, Wired
<1>5. \A other \in Requests : RequestInv(other)'
    <2>1. ASSUME NEW other \in Requests, other # q PROVE RequestInv(other)'
        <3>1. request'[other] = request[other]
            BY <1>2, <2>1
        <3> QED
            BY <1>1, <3>1, RequestKept
    <2> QED
        BY <2>1
<1> QED
    BY <1>1, <1>3, <1>4, <1>5 DEF DaemonInv

\* create_app() serves the log that it ought to.
LEMMA AppIsWired ==
    ASSUME DaemonInv, GateInv', NEW beside \in {"nothing", "same", "other"}, CreateApp(beside)
    PROVE  DaemonInv'
<1>1. /\ served = "none" /\ attached \in BOOLEAN
      /\ served' = IF beside = "other" /\ attached THEN "other" ELSE "gate"
      /\ wiring' = [given |-> beside, attached |-> attached]
      /\ request' = request
    BY DEF CreateApp, DaemonInv, GateInv, GateTypeOK
<1>2. DaemonTypeOK'
    BY <1>1 DEF DaemonInv, DaemonTypeOK, GateInv
<1>3. Wired'
    BY <1>1 DEF Wired
<1>4. \A q \in Requests : RequestInv(q)'
    BY <1>1 DEF DaemonInv, RequestInv
<1> QED
    BY <1>2, <1>3, <1>4 DEF DaemonInv

\* A request arrives.
LEMMA AskInv ==
    ASSUME DaemonInv, NEW q \in Requests,
           NEW endpoint \in {"/audit", "/memories", "/audit/event_id"},
           NEW query \in Queries \cup {NoQuery}, Ask(q, endpoint, query)
    PROVE  DaemonInv'
<1>1. PICK next : next = [Unasked EXCEPT !.at = "busy", !.endpoint = endpoint, !.query = query,
                                         !.from = Len(DueLog), !.size = Cardinality(KnownIds),
                                         !.gone = {id \in MemoryIds : IsTombstoned(id)}]
    OBVIOUS
<1>2. /\ served # "none" /\ request' = [request EXCEPT ![q] = next]
      /\ UNCHANGED <<gateVars, served, wiring>>
    BY <1>1 DEF Ask, KnownIds
<1>3. /\ DueLog \in Seq(AuditRecord) /\ Len(DueLog) \in Nat
      /\ IsFiniteSet(KnownIds) /\ Cardinality(KnownIds) \in Nat
    BY LogAndRows DEF DaemonInv
<1>4. /\ DueLog' = DueLog /\ KnownIds' = KnownIds
      /\ \A id : IsTombstoned(id)' = IsTombstoned(id)
    BY <1>2, LogAndRowsStay
<1>5. /\ next.at = "busy" /\ next.endpoint = endpoint /\ next.query = query
      /\ next.from = Len(DueLog) /\ next.pos = 0 /\ next.out = <<>>
      /\ next.size = Cardinality(KnownIds) /\ next.rows = {}
      /\ next.gone = {id \in MemoryIds : IsTombstoned(id)}
    BY <1>1 DEF Unasked
<1>6. next \in RequestState
    <2>1. Unasked \in RequestState
        BY DEF Unasked, RequestState, Optional
    <2> HIDE DEF Unasked
    <2> QED
        BY <1>1, <1>3, <2>1 DEF RequestState, Optional
<1>7. request'[q] = next
    BY <1>2 DEF DaemonInv, DaemonTypeOK
<1>8. AnswersUpTo(q, 0)'
    <2>1. 1 .. 0 = {}
        OBVIOUS
    <2>2. AskedFor(q, 0)' = {}
        BY <2>1 DEF AskedFor
    <2>3. request'[q].out = <<>>
        BY <1>5, <1>7
    <2> QED
        BY <2>2, <2>3, FS_EmptySet DEF AnswersUpTo
<1>9. RequestInv(q)'
    <2>1. /\ served' # "none" /\ Len(DueLog') = Len(DueLog)
          /\ Cardinality(KnownIds)' = Cardinality(KnownIds)
        BY <1>2, <1>4
    <2>2. /\ \A id \in next.gone : IsTombstoned(id)'
          /\ \A id \in next.rows : Known(id)' /\ id \notin next.gone
        BY <1>4, <1>5
    <2>3. /\ next.from <= Len(DueLog') /\ next.pos <= Len(DueLog')
          /\ next.size <= Cardinality(KnownIds)'
        BY <1>3, <1>5, <2>1
    <2>4. request'[q].pos = 0 /\ request'[q].at = "busy"
        BY <1>5, <1>7
    <2> QED
        BY <1>7, <1>8, <2>1, <2>2, <2>3, <2>4 DEF RequestInv
<1> QED
    BY <1>2, <1>6, <1>9, RequestMoves

\* The places asked for, one more of them or not.
LEMMA AskedGrows ==
    ASSUME NEW q \in Requests, NEW pos \in Nat
    PROVE  /\ \A n \in Nat : IsFiniteSet(AskedFor(q, n)) /\ Cardinality(AskedFor(q, n)) \in Nat
           /\ AskedFor(q, pos) \subseteq Nat
           /\ \A k \in AskedFor(q, pos) :
                  Cardinality(AskedFor(q, k)) \in 1 .. Cardinality(AskedFor(q, pos))
           /\ AskedFor(q, pos + 1) = IF Matches(DueLog[pos + 1], request[q].query)
                                     THEN AskedFor(q, pos) \cup {pos + 1} ELSE AskedFor(q, pos)
           /\ Cardinality(AskedFor(q, pos) \cup {pos + 1}) = Cardinality(AskedFor(q, pos)) + 1
<1>1. \A n \in Nat : IsFiniteSet(AskedFor(q, n)) /\ Cardinality(AskedFor(q, n)) \in Nat
    <2> SUFFICES ASSUME NEW n \in Nat
                 PROVE  IsFiniteSet(AskedFor(q, n)) /\ Cardinality(AskedFor(q, n)) \in Nat
        OBVIOUS
    <2>1. AskedFor(q, n) \subseteq 1 .. n
        BY DEF AskedFor
    <2>2. 1 \in Int /\ n \in Int
        OBVIOUS
    <2>3. IsFiniteSet(1 .. n)
        BY <2>2, FS_Interval
    <2> HIDE DEF AskedFor
    <2> QED
        BY <2>1, <2>3, FS_Subset, FS_CardinalityType
<1>2. /\ pos + 1 \notin AskedFor(q, pos) /\ AskedFor(q, pos) \subseteq Nat
      /\ \A k \in AskedFor(q, pos) :
             k \in AskedFor(q, k) /\ AskedFor(q, k) \subseteq AskedFor(q, pos)
    BY DEF AskedFor
<1>3. ASSUME NEW k \in AskedFor(q, pos)
      PROVE  Cardinality(AskedFor(q, k)) \in 1 .. Cardinality(AskedFor(q, pos))
    <2>1. /\ k \in Nat /\ IsFiniteSet(AskedFor(q, pos)) /\ IsFiniteSet(AskedFor(q, k))
          /\ Cardinality(AskedFor(q, pos)) \in Nat /\ Cardinality(AskedFor(q, k)) \in Nat
        BY <1>1, <1>2
    <2>2. Cardinality(AskedFor(q, k)) <= Cardinality(AskedFor(q, pos))
        BY <1>2, <2>1, FS_Subset
    <2>3. Cardinality(AskedFor(q, k)) # 0
        BY <1>2, <2>1, FS_EmptySet
    <2> QED
        BY <2>1, <2>2, <2>3
<1>4. AskedFor(q, pos + 1) = IF Matches(DueLog[pos + 1], request[q].query)
                            THEN AskedFor(q, pos) \cup {pos + 1} ELSE AskedFor(q, pos)
    <2>1. 1 .. (pos + 1) = (1 .. pos) \cup {pos + 1}
        OBVIOUS
    <2>2. Matches(DueLog[pos + 1], request[q].query) <=>
              /\ request[q].query.kind \in {None, DueLog[pos + 1].kind}
              /\ request[q].query.actor \in {None, DueLog[pos + 1].actor}
        BY DEF Matches
    <2> QED
        BY <2>1, <2>2 DEF AskedFor
<1>5. Cardinality(AskedFor(q, pos) \cup {pos + 1}) = Cardinality(AskedFor(q, pos)) + 1
    <2>1. IsFiniteSet(AskedFor(q, pos))
        BY <1>1
    <2> QED
        BY <1>2, <2>1, FS_AddElement
<1> QED
    BY <1>1, <1>2, <1>3, <1>4, <1>5

\* One more row has been visited, and collected if it was asked for.
LEMMA NextRow ==
    ASSUME NEW q \in Requests, NEW pos \in Nat, pos < Len(DueLog), AnswersUpTo(q, pos),
           UNCHANGED DueLog, NEW record \in AuditRecord, record = DueLog[pos + 1],
           NEW old \in Seq(AuditRecord), old = request[q].out,
           request'[q].query = request[q].query,
           request'[q].out = IF Matches(record, request[q].query)
                             THEN Append(old, record) ELSE old
    PROVE  AnswersUpTo(q, pos + 1)'
<1>1. \A n : AskedFor(q, n)' = AskedFor(q, n)
    BY DEF AskedFor
<1>2. /\ \A n \in Nat : Cardinality(AskedFor(q, n)) \in Nat
      /\ AskedFor(q, pos) \subseteq Nat
      /\ \A k \in AskedFor(q, pos) :
             Cardinality(AskedFor(q, k)) \in 1 .. Cardinality(AskedFor(q, pos))
      /\ AskedFor(q, pos + 1) = IF Matches(record, request[q].query)
                                THEN AskedFor(q, pos) \cup {pos + 1} ELSE AskedFor(q, pos)
      /\ Cardinality(AskedFor(q, pos) \cup {pos + 1}) = Cardinality(AskedFor(q, pos)) + 1
    BY AskedGrows
<1>3. /\ Len(old) = Cardinality(AskedFor(q, pos))
      /\ \A k \in AskedFor(q, pos) : old[Cardinality(AskedFor(q, k))] = DueLog[k]
    BY DEF AnswersUpTo
<1>4. CASE ~Matches(record, request[q].query)
    <2>1. AskedFor(q, pos + 1) = AskedFor(q, pos) /\ request'[q].out = old
        BY <1>2, <1>4
    <2>2. \A n : Cardinality(AskedFor(q, n)') = Cardinality(AskedFor(q, n))
        BY <1>1
    <2> QED
        BY <1>1, <1>3, <2>1, <2>2 DEF AnswersUpTo
<1>5. CASE Matches(record, request[q].query)
    <2>1. AskedFor(q, pos + 1) = AskedFor(q, pos) \cup {pos + 1}
        BY <1>2, <1>5
    <2>2. Cardinality(AskedFor(q, pos + 1)) = Cardinality(AskedFor(q, pos)) + 1
        BY <1>2, <2>1
    <2>3. request'[q].out = Append(old, record)
        BY <1>5
    <2>4. Len(request'[q].out) = Cardinality(AskedFor(q, pos + 1))
        BY <1>3, <2>2, <2>3
    <2>5. ASSUME NEW k \in AskedFor(q, pos + 1)
          PROVE  request'[q].out[Cardinality(AskedFor(q, k))] = DueLog[k]
        <3>1. CASE k = pos + 1
            <4>1. Cardinality(AskedFor(q, k)) = Len(old) + 1
                BY <1>3, <2>2, <3>1
            <4> QED
                BY <2>3, <3>1, <4>1
        <3>2. CASE k \in AskedFor(q, pos)
            <4>1. PICK n \in 1 .. Len(old) : n = Cardinality(AskedFor(q, k))
                BY <1>2, <1>3, <3>2
            <4>2. old[n] = DueLog[k]
                BY <1>3, <3>2, <4>1
            <4>3. Append(old, record)[n] = old[n]
                OBVIOUS
            <4> QED
                BY <2>3, <4>1, <4>2, <4>3
        <3> QED
            BY <2>1, <3>1, <3>2
    <2> QED
        BY <1>1, <2>4, <2>5 DEF AnswersUpTo
<1> QED
    BY <1>4, <1>5

\* The iterator of a list of audit rows takes the next row.
LEMMA AuditVisitInv ==
    ASSUME DaemonInv, NEW q \in Requests, AuditVisit(q)
    PROVE  DaemonInv'
<1>1. /\ DueLog \in Seq(AuditRecord) /\ Len(DueLog) \in Nat
      /\ DueLog' = DueLog /\ UNCHANGED <<gateVars, served, wiring>>
    BY LogAndRows, LogAndRowsStay DEF AuditVisit, DaemonInv
<1>2. request \in [Requests -> RequestState]
    BY DEF DaemonInv, DaemonTypeOK
<1>3. PICK old \in RequestState : old = request[q]
    BY <1>2
<1>4. /\ old.pos \in Nat /\ old.from \in Nat /\ old.out \in Seq(AuditRecord)
      /\ old.at = "busy" /\ old.endpoint = "/audit" /\ served # "none"
      /\ AnswersUpTo(q, old.pos) /\ old.from <= Len(DueLog)
    BY <1>3 DEF RequestState, AuditVisit, DaemonInv, RequestInv
<1>5. Log = DueLog
    BY <1>4 DEF Log, DueLog, DaemonInv, Wired, DaemonTypeOK
<1>6. old.pos < Len(DueLog)
    BY <1>3, <1>5 DEF AuditVisit
<1>7. PICK record \in AuditRecord : record = DueLog[old.pos + 1]
    BY <1>1, <1>4, <1>6
<1>8. PICK out \in Seq(AuditRecord) :
          out = IF Matches(record, old.query) THEN Append(old.out, record) ELSE old.out
    <2>1. Append(old.out, record) \in Seq(AuditRecord)
        BY <1>4
    <2> QED
        BY <1>4, <2>1
<1>9. PICK pos \in Nat : pos = old.pos + 1
    BY <1>4
<1>10. PICK next : next = [old EXCEPT !.pos = pos, !.out = out]
    OBVIOUS
<1>11. request' = [request EXCEPT ![q] = next]
    BY <1>2, <1>3, <1>5, <1>7, <1>8, <1>9, <1>10 DEF AuditVisit
<1>12. next \in RequestState
    BY <1>10 DEF RequestState
<1>13. /\ next.at = "busy" /\ next.endpoint = "/audit"
       /\ next.pos = pos /\ next.from = old.from /\ next.query = old.query
       /\ next.out = out
    BY <1>4, <1>10 DEF RequestState
<1>14. request'[q] = next
    BY <1>2, <1>11
<1>15. AnswersUpTo(q, pos)'
    <2>1. PICK before \in Nat : before = old.pos
        BY <1>4
    <2>2. AnswersUpTo(q, before) /\ before < Len(DueLog) /\ record = DueLog[before + 1]
        BY <1>4, <1>6, <1>7, <2>1
    <2>3. PICK rows \in Seq(AuditRecord) : rows = request[q].out
        BY <1>3, <1>4
    <2>4. request'[q].out = IF Matches(record, request[q].query) THEN Append(rows, record) ELSE rows
        BY <1>3, <1>8, <1>13, <1>14, <2>3
    <2>5. request'[q].query = request[q].query
        BY <1>3, <1>13, <1>14
    <2>6. AnswersUpTo(q, before + 1)'
        BY <1>1, <2>2, <2>3, <2>4, <2>5, NextRow
    <2> QED
        BY <1>9, <2>1, <2>6
<1>16. RequestInv(q)'
    <2>1. next.pos <= Len(DueLog') /\ next.from <= Len(DueLog') /\ served' # "none"
        BY <1>1, <1>4, <1>6, <1>9, <1>13
    <2>2. request'[q].pos = pos /\ request'[q].at = "busy" /\ request'[q].endpoint = "/audit"
        BY <1>13, <1>14
    <2> QED
        BY <1>14, <1>15, <2>1, <2>2 DEF RequestInv
<1> QED
    BY <1>1, <1>11, <1>12, <1>16, RequestMoves

\* The iterator finds no further row.
LEMMA AuditReturnInv ==
    ASSUME DaemonInv, NEW q \in Requests, AuditReturn(q)
    PROVE  DaemonInv'
<1>1. /\ Len(DueLog) \in Nat /\ DueLog' = DueLog /\ UNCHANGED <<gateVars, served, wiring>>
    BY LogAndRows, LogAndRowsStay DEF AuditReturn, DaemonInv
<1>2. request \in [Requests -> RequestState]
    BY DEF DaemonInv, DaemonTypeOK
<1>3. PICK old \in RequestState : old = request[q]
    BY <1>2
<1>4. /\ old.pos \in Nat /\ old.from \in Nat
      /\ old.at = "busy" /\ old.endpoint = "/audit" /\ served # "none"
      /\ AnswersUpTo(q, old.pos) /\ old.from <= Len(DueLog) /\ old.pos <= Len(DueLog)
    BY <1>3 DEF RequestState, AuditReturn, DaemonInv, RequestInv
<1>5. Log = DueLog
    BY <1>4 DEF Log, DueLog, DaemonInv, Wired, DaemonTypeOK
<1>6. old.from <= old.pos
    BY <1>1, <1>3, <1>4, <1>5 DEF AuditReturn
<1>7. PICK next : next = [old EXCEPT !.at = "returned"]
    OBVIOUS
<1>8. request' = [request EXCEPT ![q] = next]
    BY <1>2, <1>3, <1>7 DEF AuditReturn
<1>9. /\ next \in RequestState /\ next.at = "returned" /\ next.endpoint = "/audit"
      /\ next.pos = old.pos /\ next.from = old.from /\ next.query = old.query
      /\ next.out = old.out
    BY <1>4, <1>7 DEF RequestState
<1>10. request'[q] = next
    BY <1>2, <1>8
<1>11. AnswersUpTo(q, old.pos)'
    <2>1. GateInv /\ [GateNext]_gateVars /\ UNCHANGED wiring
        BY <1>1 DEF DaemonInv
    <2>2. request'[q].query = request[q].query /\ request'[q].out = request[q].out
        BY <1>3, <1>9, <1>10
    <2>3. PICK length \in Nat : length = old.pos
        BY <1>4
    <2>4. length <= Len(DueLog) /\ AnswersUpTo(q, length)
        BY <1>4, <2>3
    <2> QED
        BY <2>1, <2>2, <2>3, <2>4, AnswerStays
<1>12. RequestInv(q)'
    <2>1. next.pos <= Len(DueLog') /\ next.from <= Len(DueLog') /\ served' # "none"
        BY <1>1, <1>4, <1>9
    <2>2. AnswersUpTo(q, request[q].pos)'
        BY <1>9, <1>10, <1>11
    <2> QED
        BY <1>6, <1>9, <1>10, <2>1, <2>2 DEF RequestInv
<1> QED
    BY <1>1, <1>8, <1>9, <1>12, RequestMoves

\* One row is looked up by its id.
LEMMA EventLookupInv ==
    ASSUME DaemonInv, NEW q \in Requests, NEW event \in 1 .. MaxCalls, EventLookup(q, event)
    PROVE  DaemonInv'
<1>1. /\ DueLog \in Seq(AuditRecord) /\ Len(DueLog) \in Nat
      /\ DueLog' = DueLog /\ UNCHANGED <<gateVars, served, wiring>>
    BY LogAndRows, LogAndRowsStay DEF EventLookup, DaemonInv
<1>2. request \in [Requests -> RequestState]
    BY DEF DaemonInv, DaemonTypeOK
<1>3. PICK old \in RequestState : old = request[q]
    BY <1>2
<1>4. /\ old.from \in Nat /\ old.at = "busy" /\ old.endpoint = "/audit/event_id"
      /\ served # "none" /\ old.from <= Len(DueLog)
    BY <1>3 DEF RequestState, EventLookup, DaemonInv, RequestInv
<1>5. Log = DueLog
    BY <1>4 DEF Log, DueLog, DaemonInv, Wired, DaemonTypeOK
<1>6. PICK out \in Seq(AuditRecord) :
          out = IF event <= Len(DueLog) THEN <<DueLog[event]>> ELSE <<>>
    <2>1. event <= Len(DueLog) => <<DueLog[event]>> \in Seq(AuditRecord)
        BY <1>1
    <2>2. <<>> \in Seq(AuditRecord)
        OBVIOUS
    <2> QED
        BY <2>1, <2>2
<1>7. PICK next : next = [old EXCEPT !.at = "returned", !.pos = event, !.out = out]
    OBVIOUS
<1>8. request' = [request EXCEPT ![q] = next]
    BY <1>2, <1>3, <1>5, <1>6, <1>7 DEF EventLookup
<1>9. /\ next \in RequestState /\ next.at = "returned" /\ next.endpoint = "/audit/event_id"
      /\ next.pos = event /\ next.from = old.from /\ next.out = out
    <2>1. event \in Nat
        OBVIOUS
    <2>2. next \in RequestState
        BY <1>7, <2>1 DEF RequestState
    <2> QED
        BY <1>4, <1>7, <2>2 DEF RequestState
<1>10. request'[q] = next
    BY <1>2, <1>8
<1>11. RequestInv(q)'
    <2>1. next.from <= Len(DueLog') /\ served' # "none" /\ next.pos >= 1
        BY <1>1, <1>4, <1>9
    <2>2. next.pos <= next.from => next.out = <<DueLog'[next.pos]>>
        BY <1>1, <1>4, <1>6, <1>9
    <2> QED
        BY <1>9, <1>10, <2>1, <2>2 DEF RequestInv
<1> QED
    BY <1>1, <1>8, <1>9, <1>11, RequestMoves

\* The iterator of the dict takes one more row.
LEMMA MemoryVisitInv ==
    ASSUME DaemonInv, NEW q \in Requests, NEW id \in MemoryIds, MemoryVisit(q, id)
    PROVE  DaemonInv'
<1>1. /\ DueLog' = DueLog /\ KnownIds' = KnownIds /\ UNCHANGED <<gateVars, served, wiring>>
      /\ \A m : Known(m)' = Known(m) /\ IsTombstoned(m)' = IsTombstoned(m)
    BY LogAndRowsStay DEF MemoryVisit
<1>2. request \in [Requests -> RequestState]
    BY DEF DaemonInv, DaemonTypeOK
<1>3. PICK old \in RequestState : old = request[q]
    BY <1>2
<1>4. /\ old.at = "busy" /\ old.endpoint = "/memories" /\ Known(id)
      /\ served # "none" /\ old.from <= Len(DueLog) /\ old.size <= Cardinality(KnownIds)
      /\ old.seen \subseteq MemoryIds /\ old.rows \subseteq MemoryIds
      /\ \A m \in old.gone : IsTombstoned(m)
      /\ \A m \in old.rows : Known(m) /\ m \notin old.gone
    BY <1>3 DEF RequestState, MemoryVisit, DaemonInv, RequestInv
<1>5. PICK rows \in SUBSET MemoryIds :
          rows = IF IsTombstoned(id) THEN old.rows ELSE old.rows \cup {id}
    BY <1>4
<1>6. \A m \in rows : Known(m) /\ m \notin old.gone
    BY <1>4, <1>5
<1>7. PICK next : next = [old EXCEPT !.seen = old.seen \cup {id}, !.rows = rows]
    OBVIOUS
<1>8. request' = [request EXCEPT ![q] = next]
    BY <1>2, <1>3, <1>5, <1>7 DEF MemoryVisit
<1>9. next \in RequestState
    <2>1. old.seen \cup {id} \in SUBSET MemoryIds
        BY <1>4
    <2> QED
        BY <1>7, <2>1 DEF RequestState
<1>10. /\ next.at = "busy" /\ next.endpoint = "/memories" /\ next.from = old.from
       /\ next.size = old.size /\ next.gone = old.gone /\ next.rows = rows
    BY <1>4, <1>7 DEF RequestState
<1>11. request'[q] = next
    BY <1>2, <1>8
<1>12. RequestInv(q)'
    <2>1. next.from <= Len(DueLog') /\ served' # "none" /\ next.size <= Cardinality(KnownIds)'
        BY <1>1, <1>4, <1>10
    <2>2. /\ \A m \in next.gone : IsTombstoned(m)'
          /\ \A m \in next.rows : Known(m)' /\ m \notin next.gone
        BY <1>1, <1>4, <1>6, <1>10
    <2> QED
        BY <1>10, <1>11, <2>1, <2>2 DEF RequestInv
<1> QED
    BY <1>1, <1>8, <1>9, <1>12, RequestMoves

\* The dict has been iterated, or its size has changed: rows only come, so it
\* can only have grown.
LEMMA MemoriesEndInv ==
    ASSUME DaemonInv, NEW q \in Requests, MemoriesReturn(q) \/ MemoriesRaise(q)
    PROVE  DaemonInv'
<1>1. /\ DueLog' = DueLog /\ KnownIds' = KnownIds /\ UNCHANGED <<gateVars, served, wiring>>
      /\ \A m : Known(m)' = Known(m) /\ IsTombstoned(m)' = IsTombstoned(m)
    BY LogAndRowsStay DEF MemoriesReturn, MemoriesRaise
<1>2. request \in [Requests -> RequestState]
    BY DEF DaemonInv, DaemonTypeOK
<1>3. PICK old \in RequestState : old = request[q]
    BY <1>2
<1>4. /\ old.at = "busy" /\ old.endpoint = "/memories"
      /\ served # "none" /\ old.from <= Len(DueLog) /\ old.size <= Cardinality(KnownIds)
      /\ \A m \in old.gone : IsTombstoned(m)
      /\ \A m \in old.rows : Known(m) /\ m \notin old.gone
    BY <1>3 DEF RequestState, MemoriesReturn, MemoriesRaise, DaemonInv, RequestInv
<1>5. PICK at \in {"returned", "raised"} :
          /\ request' = [request EXCEPT ![q].at = at]
          /\ at = "raised" => old.size # Cardinality(KnownIds)
    <2>1. CASE MemoriesReturn(q)
        BY <2>1 DEF MemoriesReturn
    <2>2. CASE MemoriesRaise(q)
        BY <1>3, <2>2 DEF MemoriesRaise, SameSize, KnownIds
    <2> QED
        BY <2>1, <2>2
<1>6. at = "raised" => old.size < Cardinality(KnownIds)
    <2>1. Cardinality(KnownIds) \in Nat /\ old.size \in Nat
        BY LogAndRows DEF DaemonInv, RequestState
    <2> QED
        BY <1>4, <1>5, <2>1
<1>7. PICK next : next = [old EXCEPT !.at = at]
    OBVIOUS
<1>8. request' = [request EXCEPT ![q] = next]
    BY <1>2, <1>3, <1>5, <1>7
<1>9. /\ next \in RequestState /\ next.at = at /\ next.endpoint = "/memories"
      /\ next.from = old.from /\ next.size = old.size /\ next.gone = old.gone
      /\ next.rows = old.rows
    BY <1>4, <1>7 DEF RequestState
<1>10. request'[q] = next
    BY <1>2, <1>8
<1>11. RequestInv(q)'
    <2>1. /\ next.from <= Len(DueLog') /\ served' # "none" /\ next.size <= Cardinality(KnownIds)'
          /\ next.at = "raised" => next.size < Cardinality(KnownIds)'
        BY <1>1, <1>4, <1>6, <1>9
    <2>2. /\ \A m \in next.gone : IsTombstoned(m)'
          /\ \A m \in next.rows : Known(m)' /\ m \notin next.gone
        BY <1>1, <1>4, <1>9
    <2> QED
        BY <1>9, <1>10, <2>1, <2>2 DEF RequestInv
<1> QED
    BY <1>1, <1>8, <1>9, <1>11, RequestMoves

\* Behind the daemon the gate behaves as GateSpec says, and the requests keep
\* their invariant.
THEOREM DaemonKeepsGate == DaemonSpec => GateSpec /\ []DaemonInv
<1>1. DaemonInit => GateInit /\ DaemonInv
    <2> SUFFICES ASSUME DaemonInit PROVE GateInit /\ DaemonInv
        OBVIOUS
    <2>1. GateInit /\ GateInv
        BY GateInitInv DEF DaemonInit
    <2>2. Unasked \in RequestState /\ Unasked.at = "idle"
        BY DEF Unasked, RequestState, Optional
    <2>3. \A q \in Requests : request[q] = Unasked
        BY DEF DaemonInit
    <2>4. DaemonTypeOK
        BY <2>1, <2>2 DEF DaemonInit, DaemonTypeOK, GateInv
    <2>5. Wired /\ \A q \in Requests : RequestInv(q)
        BY <2>2, <2>3 DEF DaemonInit, Wired, RequestInv
    <2> QED
        BY <2>1, <2>4, <2>5 DEF DaemonInv
<1>2. DaemonInv /\ [DaemonNext]_daemonVars => DaemonInv' /\ [GateNext]_gateVars
    <2> SUFFICES ASSUME DaemonInv, [DaemonNext]_daemonVars
                 PROVE  DaemonInv' /\ [GateNext]_gateVars
        OBVIOUS
    <2>1. [GateNext]_gateVars
        BY DaemonCallsGate DEF DaemonInv
    <2>2. GateInv'
        BY <2>1, GateStepInv DEF DaemonInv
    <2>3. CASE UNCHANGED daemonVars
        BY <2>1, <2>2, <2>3, GateBeside DEF daemonVars
    <2>4. CASE GateNext /\ UNCHANGED <<served, request, wiring>>
        BY <2>1, <2>2, <2>4, GateBeside
    <2>5. ASSUME NEW beside \in {"nothing", "same", "other"}, CreateApp(beside) PROVE DaemonInv'
        BY <2>2, <2>5, AppIsWired
    <2>6. ASSUME NEW q \in Requests, NEW query \in Queries, Ask(q, "/audit", query)
          PROVE  DaemonInv'
        BY <2>6, AskInv
    <2>7. ASSUME NEW q \in Requests, Ask(q, "/memories", NoQuery) \/ Ask(q, "/audit/event_id", NoQuery)
          PROVE  DaemonInv'
        BY <2>7, AskInv
    <2>8. ASSUME NEW q \in Requests, AuditVisit(q) \/ AuditReturn(q) PROVE DaemonInv'
        BY <2>8, AuditVisitInv, AuditReturnInv
    <2>9. ASSUME NEW q \in Requests, NEW event \in 1 .. MaxCalls, EventLookup(q, event)
          PROVE  DaemonInv'
        BY <2>9, EventLookupInv
    <2>10. ASSUME NEW q \in Requests, NEW id \in MemoryIds, MemoryVisit(q, id) PROVE DaemonInv'
        BY <2>10, MemoryVisitInv
    <2>11. ASSUME NEW q \in Requests, MemoriesReturn(q) \/ MemoriesRaise(q) PROVE DaemonInv'
        BY <2>11, MemoriesEndInv
    <2> QED
        BY <2>1, <2>3, <2>4, <2>5, <2>6, <2>7, <2>8, <2>9, <2>10, <2>11 DEF DaemonNext
<1> QED
    BY <1>1, <1>2, PTL DEF DaemonSpec, GateSpec

\* What GET /audit and GET /audit/export return is the log's answer at one
\* instant, while other threads append to it; and no event that was there is
\* answered with a 404.
THEOREM AnswersOfOneInstant == DaemonSpec => []AnswersAreOneInstants
<1>1. DaemonInv => AnswersAreOneInstants
    <2> SUFFICES ASSUME DaemonInv, NEW q \in Requests, request[q].at = "returned"
                 PROVE  /\ request[q].endpoint = "/audit" =>
                              \E length \in request[q].from .. Len(DueLog) : AnswersUpTo(q, length)
                        /\ request[q].endpoint = "/audit/event_id" /\ request[q].pos <= request[q].from =>
                              request[q].out = <<DueLog[request[q].pos]>>
        BY DEF AnswersAreOneInstants
    <2>1. RequestInv(q) /\ request[q].from \in Nat /\ request[q].pos \in Nat /\ Len(DueLog) \in Nat
        BY LogAndRows DEF DaemonInv, DaemonTypeOK, RequestState
    <2>2. ASSUME request[q].endpoint = "/audit"
          PROVE  \E length \in request[q].from .. Len(DueLog) : AnswersUpTo(q, length)
        <3>1. /\ request[q].pos <= Len(DueLog) /\ AnswersUpTo(q, request[q].pos)
              /\ request[q].from <= request[q].pos
            BY <2>1, <2>2 DEF RequestInv
        <3>2. request[q].pos \in request[q].from .. Len(DueLog)
            BY <2>1, <3>1
        <3> QED
            BY <3>1, <3>2
    <2> QED
        BY <2>1, <2>2 DEF RequestInv
<1> QED
    BY <1>1, DaemonKeepsGate, PTL

\* GET /memories fails only when a row was stored while it iterated, and lists
\* no memory that was deleted when it was asked.
THEOREM MemoriesFailures == DaemonSpec => []MemoriesFailOnlyByInsert
<1>1. DaemonInv => MemoriesFailOnlyByInsert
    <2> SUFFICES ASSUME DaemonInv, NEW q \in Requests, request[q].endpoint = "/memories"
                 PROVE  /\ request[q].at = "raised" =>
                              Cardinality({id \in MemoryIds : Known(id)}) > request[q].size
                        /\ request[q].at = "returned" =>
                              \A id \in request[q].rows : Known(id) /\ id \notin request[q].gone
        BY DEF MemoriesFailOnlyByInsert
    <2>1. /\ RequestInv(q) /\ request[q].size \in Nat
          /\ Cardinality({id \in MemoryIds : Known(id)}) \in Nat
        BY LogAndRows DEF DaemonInv, DaemonTypeOK, RequestState, KnownIds
    <2> QED
        BY <2>1 DEF RequestInv, KnownIds
<1> QED
    BY <1>1, DaemonKeepsGate, PTL

(***************************************************************************)
(* The regression harness: its script, its index beside the store, and its *)
(* report.                                                                 *)
(***************************************************************************)
\* Where the probes of an episode begin.
ProbesFrom(e) == 1 + Len(e.writes) + Len(e.embedding_binds) + Len(e.forgets)

\* An episode asks for this operation in this place.
Scripted(e, k, op) ==
    \/ k = 1 /\ op = [op |-> "reset"]
    \/ /\ k # 1
       /\ \/ \E j \in DOMAIN e.writes :
                k = 1 + j /\ op = [op |-> "ingest", arg |-> e.writes[j], nr |-> j]
          \/ \E j \in DOMAIN e.embedding_binds :
                op = [op |-> "bind", arg |-> e.embedding_binds[j], nr |-> j]
          \/ \E j \in DOMAIN e.forgets :
                op = [op |-> "forget", arg |-> e.forgets[j], nr |-> j]
          \/ \E j \in DOMAIN e.checkpoints :
                /\ k = ProbesFrom(e) + j
                /\ op = [op |-> "probe", arg |-> e.checkpoints[j], nr |-> j]

ProbeResult == [episode : Nat, nr : Nat, category : CheckpointCategory, passed : BOOLEAN]

\* The place in the script.
ScriptOK ==
    /\ suite \in Suites
    /\ episode \in 1 .. (Len(suite) + 1)
    /\ done \in Nat
    /\ episode \in DOMAIN suite => done < Len(Operations(suite[episode]))

\* The index is faithful whatever the harness does because it is empty when the
\* store is, names a row as it is stored, and forgets it as it is deleted.
HarnessInv ==
    /\ GateInv
    /\ ScriptOK
    /\ index \in Seq([lesson : Text, id : MemoryIds])
    /\ IndexIsFaithful
    /\ results \in Seq(ProbeResult)
    /\ \A i \in DOMAIN results : results[i].episode \in DOMAIN suite

\* What a tuple has at a place.
LEMMA ElementOf ==
    ASSUME NEW T, NEW s \in Seq(T), NEW i \in DOMAIN s
    PROVE  s[i] \in T
OBVIOUS

\* The sequence c is a, with its m items, and then b, with its n.
Joined(T, c, a, m, b, n) ==
    /\ c \in Seq(T) /\ Len(c) = m + n
    /\ \A j \in 1 .. m : c[j] = a[j]
    /\ \A j \in 1 .. n : c[m + j] = b[j]

\* What a concatenation is.
LEMMA TwoParts ==
    ASSUME NEW T, NEW a \in Seq(T), NEW b \in Seq(T)
    PROVE  Joined(T, a \o b, a, Len(a), b, Len(b))
<1>1. PICK m \in Nat, n \in Nat : m = Len(a) /\ n = Len(b)
    OBVIOUS
<1>2. a \o b \in Seq(T) /\ Len(a \o b) = m + n
    BY <1>1
<1>3. ASSUME NEW j \in 1 .. m PROVE (a \o b)[j] = a[j]
    BY <1>1
<1>4. ASSUME NEW j \in 1 .. n PROVE (a \o b)[m + j] = b[j]
    <2>1. m + j \in 1 .. (m + n) /\ ~(m + j <= m) /\ (m + j) - m = j
        OBVIOUS
    <2>2. (a \o b)[m + j] = b[(m + j) - m]
        BY <1>1, <2>1
    <2> QED
        BY <2>1, <2>2
<1> QED
    BY <1>1, <1>2, <1>3, <1>4 DEF Joined

\* The parts of this sequence keep their order, and each starts where the one
\* before it ends.
Laid(T, ops, r, ws, bs, fs, ps) ==
    /\ ops \in Seq(T) /\ ops[1] = r[1]
    /\ Len(ops) = 1 + Len(ws) + Len(bs) + Len(fs) + Len(ps)
    /\ \A j \in 1 .. Len(ws) : ops[1 + j] = ws[j]
    /\ \A j \in 1 .. Len(bs) : ops[1 + Len(ws) + j] = bs[j]
    /\ \A j \in 1 .. Len(fs) : ops[1 + Len(ws) + Len(bs) + j] = fs[j]
    /\ \A j \in 1 .. Len(ps) : ops[1 + Len(ws) + Len(bs) + Len(fs) + j] = ps[j]

LEMMA FiveParts ==
    ASSUME NEW T, NEW r \in Seq(T), NEW ws \in Seq(T), NEW bs \in Seq(T), NEW fs \in Seq(T),
           NEW ps \in Seq(T), Len(r) = 1
    PROVE  Laid(T, r \o ws \o bs \o fs \o ps, r, ws, bs, fs, ps)
<1>0. PICK w \in Nat, b \in Nat, f \in Nat, p \in Nat :
          w = Len(ws) /\ b = Len(bs) /\ f = Len(fs) /\ p = Len(ps)
    OBVIOUS
<1>0a. PICK ops : ops = r \o ws \o bs \o fs \o ps
    OBVIOUS
<1>1. PICK u : u = r \o ws
    OBVIOUS
<1>2. PICK v : v = u \o bs
    OBVIOUS
<1>3. PICK x : x = v \o fs
    OBVIOUS
<1>4. PICK one \in Nat, k \in Nat, l \in Nat, t \in Nat :
          one = 1 /\ k = one + w /\ l = k + b /\ t = l + f
    OBVIOUS
<1>5. /\ u \in Seq(T) /\ Len(u) = k /\ \A j \in 1 .. one : u[j] = r[j]
      /\ \A j \in 1 .. w : u[one + j] = ws[j]
    <2>1. Joined(T, r \o ws, r, Len(r), ws, Len(ws))
        BY TwoParts
    <2>2. Joined(T, u, r, one, ws, w)
        BY <1>0, <1>1, <1>4, <2>1
    <2> QED
        BY <1>4, <2>2 DEF Joined
<1>6. /\ v \in Seq(T) /\ Len(v) = l /\ \A j \in 1 .. k : v[j] = u[j]
      /\ \A j \in 1 .. b : v[k + j] = bs[j]
    <2>1. Joined(T, u \o bs, u, Len(u), bs, Len(bs))
        BY <1>5, TwoParts
    <2>2. Joined(T, v, u, k, bs, b)
        BY <1>0, <1>2, <1>5, <2>1
    <2> QED
        BY <1>4, <2>2 DEF Joined
<1>7. /\ x \in Seq(T) /\ Len(x) = t /\ \A j \in 1 .. l : x[j] = v[j]
      /\ \A j \in 1 .. f : x[l + j] = fs[j]
    <2>1. Joined(T, v \o fs, v, Len(v), fs, Len(fs))
        BY <1>6, TwoParts
    <2>2. Joined(T, x, v, l, fs, f)
        BY <1>0, <1>3, <1>6, <2>1
    <2> QED
        BY <1>4, <2>2 DEF Joined
<1>8. /\ ops \in Seq(T) /\ Len(ops) = t + p /\ \A j \in 1 .. t : ops[j] = x[j]
      /\ \A j \in 1 .. p : ops[t + j] = ps[j]
    <2>1. Joined(T, x \o ps, x, Len(x), ps, Len(ps))
        BY <1>7, TwoParts
    <2>2. Joined(T, ops, x, t, ps, p)
        BY <1>0, <1>0a, <1>1, <1>2, <1>3, <1>7, <2>1
    <2> QED
        BY <1>4, <2>2 DEF Joined
<1>9. /\ \A j \in 1 .. l : ops[j] = v[j]
      /\ \A j \in 1 .. k : ops[j] = u[j]
      /\ ops[1] = r[1]
    <2>1. \A j \in 1 .. l : j \in 1 .. t
        BY <1>4
    <2>2. \A j \in 1 .. k : j \in 1 .. l
        BY <1>4
    <2>3. 1 \in 1 .. k /\ 1 \in 1 .. one
        BY <1>4
    <2>4. \A j \in 1 .. l : ops[j] = v[j]
        BY <1>7, <1>8, <2>1
    <2>5. \A j \in 1 .. k : ops[j] = u[j]
        BY <1>6, <2>2, <2>4
    <2>6. ops[1] = u[1] /\ u[1] = r[1]
        BY <1>5, <2>3, <2>5
    <2> QED
        BY <2>4, <2>5, <2>6
<1>10. ASSUME NEW j \in 1 .. w PROVE ops[1 + j] = ws[j]
    <2>1. one + j \in 1 .. k /\ one + j = 1 + j
        BY <1>4
    <2>2. ops[one + j] = u[one + j]
        BY <1>9, <2>1
    <2>3. u[one + j] = ws[j]
        BY <1>5
    <2> QED
        BY <2>1, <2>2, <2>3
<1>11. ASSUME NEW j \in 1 .. b PROVE ops[1 + w + j] = bs[j]
    <2>1. k + j \in 1 .. l /\ k + j = 1 + w + j
        BY <1>4
    <2>2. ops[k + j] = v[k + j]
        BY <1>9, <2>1
    <2>3. v[k + j] = bs[j]
        BY <1>6
    <2> QED
        BY <2>1, <2>2, <2>3
<1>12. ASSUME NEW j \in 1 .. f PROVE ops[1 + w + b + j] = fs[j]
    <2>1. l + j \in 1 .. t /\ l + j = 1 + w + b + j
        BY <1>4
    <2>2. ops[l + j] = x[l + j]
        BY <1>8, <2>1
    <2>3. x[l + j] = fs[j]
        BY <1>7
    <2> QED
        BY <2>1, <2>2, <2>3
<1>13. t = 1 + w + b + f
    BY <1>4
<1>14. Laid(T, ops, r, ws, bs, fs, ps)
    BY <1>0, <1>8, <1>9, <1>10, <1>11, <1>12, <1>13 DEF Laid
<1> QED
    BY <1>0a, <1>14

\* The operations of an episode, one after another.
LEMMA OperationsScripted ==
    ASSUME NEW e \in Episode, NEW ops, ops = Operations(e)
    PROVE  /\ Len(ops) \in Nat \ {0} /\ DOMAIN ops = 1 .. Len(ops)
           /\ \A k \in 1 .. Len(ops) : Scripted(e, k, ops[k])
<1> DEFINE Each(op, args) == [i \in DOMAIN args |-> [op |-> op, arg |-> args[i], nr |-> i]]
<1>1. PICK writes \in Seq(MemoryWrite),
           binds \in Seq([lesson_contains : Text, vector_id : Text]),
           forgets \in Seq([principal : Text, lesson_contains : Text]),
           probes \in Seq(Checkpoint) :
          /\ writes = e.writes /\ binds = e.embedding_binds
          /\ forgets = e.forgets /\ probes = e.checkpoints
    BY DEF Episode
<1>2. PICK w \in Nat, b \in Nat, f \in Nat, p \in Nat :
          w = Len(writes) /\ b = Len(binds) /\ f = Len(forgets) /\ p = Len(probes)
    OBVIOUS
<1>3. /\ DOMAIN writes = 1 .. w /\ DOMAIN binds = 1 .. b
      /\ DOMAIN forgets = 1 .. f /\ DOMAIN probes = 1 .. p
    BY <1>2
<1>4. PICK T :
          T = {[op |-> "reset"]}
              \cup {[op |-> "ingest", arg |-> writes[j], nr |-> j] : j \in 1 .. w}
              \cup {[op |-> "bind", arg |-> binds[j], nr |-> j] : j \in 1 .. b}
              \cup {[op |-> "forget", arg |-> forgets[j], nr |-> j] : j \in 1 .. f}
              \cup {[op |-> "probe", arg |-> probes[j], nr |-> j] : j \in 1 .. p}
    OBVIOUS
<1>5. PICK r \in Seq(T) : r = <<[op |-> "reset"]>> /\ Len(r) = 1 /\ r[1] = [op |-> "reset"]
    <2>1. PICK item \in T : item = [op |-> "reset"]
        BY <1>4
    <2>2. <<item>> \in Seq(T) /\ Len(<<item>>) = 1 /\ <<item>>[1] = item
        OBVIOUS
    <2> QED
        BY <2>1, <2>2
<1>6. PICK ws \in Seq(T) :
          /\ ws = Each("ingest", e.writes) /\ Len(ws) = w
          /\ \A j \in 1 .. w : ws[j] = [op |-> "ingest", arg |-> e.writes[j], nr |-> j]
    <2>1. PICK ws : ws = [j \in 1 .. w |-> [op |-> "ingest", arg |-> writes[j], nr |-> j]]
        OBVIOUS
    <2>2. \A j \in 1 .. w : ws[j] = [op |-> "ingest", arg |-> writes[j], nr |-> j]
        BY <2>1
    <2>3. \A j \in 1 .. w : ws[j] \in T
        BY <1>4, <2>2
    <2>4. ws \in Seq(T) /\ Len(ws) = w
        BY <2>1, <2>3
    <2>5. ws = Each("ingest", e.writes)
        BY <1>1, <1>3, <2>1
    <2> HIDE DEF Each
    <2> QED
        BY <1>1, <2>2, <2>4, <2>5
<1>7. PICK bs \in Seq(T) :
          /\ bs = Each("bind", e.embedding_binds) /\ Len(bs) = b
          /\ \A j \in 1 .. b : bs[j] = [op |-> "bind", arg |-> e.embedding_binds[j], nr |-> j]
    <2>1. PICK bs : bs = [j \in 1 .. b |-> [op |-> "bind", arg |-> binds[j], nr |-> j]]
        OBVIOUS
    <2>2. \A j \in 1 .. b : bs[j] = [op |-> "bind", arg |-> binds[j], nr |-> j]
        BY <2>1
    <2>3. \A j \in 1 .. b : bs[j] \in T
        BY <1>4, <2>2
    <2>4. bs \in Seq(T) /\ Len(bs) = b
        BY <2>1, <2>3
    <2>5. bs = Each("bind", e.embedding_binds)
        BY <1>1, <1>3, <2>1
    <2> HIDE DEF Each
    <2> QED
        BY <1>1, <2>2, <2>4, <2>5
<1>8. PICK fs \in Seq(T) :
          /\ fs = Each("forget", e.forgets) /\ Len(fs) = f
          /\ \A j \in 1 .. f : fs[j] = [op |-> "forget", arg |-> e.forgets[j], nr |-> j]
    <2>1. PICK fs : fs = [j \in 1 .. f |-> [op |-> "forget", arg |-> forgets[j], nr |-> j]]
        OBVIOUS
    <2>2. \A j \in 1 .. f : fs[j] = [op |-> "forget", arg |-> forgets[j], nr |-> j]
        BY <2>1
    <2>3. \A j \in 1 .. f : fs[j] \in T
        BY <1>4, <2>2
    <2>4. fs \in Seq(T) /\ Len(fs) = f
        BY <2>1, <2>3
    <2>5. fs = Each("forget", e.forgets)
        BY <1>1, <1>3, <2>1
    <2> HIDE DEF Each
    <2> QED
        BY <1>1, <2>2, <2>4, <2>5
<1>9. PICK ps \in Seq(T) :
          /\ ps = Each("probe", e.checkpoints) /\ Len(ps) = p
          /\ \A j \in 1 .. p : ps[j] = [op |-> "probe", arg |-> e.checkpoints[j], nr |-> j]
    <2>1. PICK ps : ps = [j \in 1 .. p |-> [op |-> "probe", arg |-> probes[j], nr |-> j]]
        OBVIOUS
    <2>2. \A j \in 1 .. p : ps[j] = [op |-> "probe", arg |-> probes[j], nr |-> j]
        BY <2>1
    <2>3. \A j \in 1 .. p : ps[j] \in T
        BY <1>4, <2>2
    <2>4. ps \in Seq(T) /\ Len(ps) = p
        BY <2>1, <2>3
    <2>5. ps = Each("probe", e.checkpoints)
        BY <1>1, <1>3, <2>1
    <2> HIDE DEF Each
    <2> QED
        BY <1>1, <2>2, <2>4, <2>5
<1>10. ops = r \o ws \o bs \o fs \o ps
    BY <1>5, <1>6, <1>7, <1>8, <1>9 DEF Operations
<1> HIDE DEF Each
<1>11. PICK one \in T : one = [op |-> "reset"] /\ Len(r) = 1 /\ r[1] = one
    BY <1>4, <1>5
<1>12. PICK t \in Nat : t = 1 + w + b + f
    OBVIOUS
<1>13. PICK l \in Nat : l = t + p /\ l # 0
    BY <1>12
<1>15. ProbesFrom(e) = t
    BY <1>1, <1>2, <1>12 DEF ProbesFrom
<1>14. /\ ops \in Seq(T) /\ Len(ops) = l /\ ops[1] = r[1]
       /\ \A j \in 1 .. w : ops[1 + j] = ws[j]
       /\ \A j \in 1 .. b : ops[1 + w + j] = bs[j]
       /\ \A j \in 1 .. f : ops[1 + w + b + j] = fs[j]
       /\ \A j \in 1 .. p : ops[t + j] = ps[j]
    <2>1. /\ Len(r) = 1 /\ Len(ws) = w /\ Len(bs) = b /\ Len(fs) = f /\ Len(ps) = p
        BY <1>6, <1>7, <1>8, <1>9, <1>11
    <2>2. Laid(T, ops, r, ws, bs, fs, ps)
        BY <1>10, <2>1, FiveParts
    <2> QED
        BY <1>12, <1>13, <2>1, <2>2 DEF Laid
<1>16. ASSUME NEW k \in 1 .. l PROVE Scripted(e, k, ops[k])
    <2>1. CASE k = 1
        <3>1. ops[k] = r[1]
            BY <1>14, <2>1
        <3> QED
            BY <1>11, <2>1, <3>1 DEF Scripted
    <2>6. /\ k \in 2 .. (1 + w) => k # 1
          /\ k \in (2 + w) .. (1 + w + b) => k # 1
          /\ k \in (2 + w + b) .. t => k # 1
          /\ k \in (t + 1) .. l => k # 1
        BY <1>12
    <2>2. CASE k \in 2 .. (1 + w)
        <3>1. PICK j \in 1 .. w : k = 1 + j
            BY <2>2
        <3>2. ops[k] = ws[j]
            BY <1>14, <3>1
        <3>3. j \in DOMAIN e.writes
            BY <1>1, <1>3
        <3> QED
            BY <1>6, <2>6, <3>1, <3>2, <3>3 DEF Scripted
    <2>3. CASE k \in (2 + w) .. (1 + w + b)
        <3>1. PICK j \in 1 .. b : k = 1 + w + j
            BY <2>3
        <3>2. ops[k] = bs[j]
            BY <1>14, <3>1
        <3>3. j \in DOMAIN e.embedding_binds
            BY <1>1, <1>3
        <3> QED
            BY <1>7, <2>6, <3>1, <3>2, <3>3 DEF Scripted
    <2>4. CASE k \in (2 + w + b) .. t
        <3>1. PICK j \in 1 .. f : k = 1 + w + b + j
            BY <1>12, <2>4
        <3>2. ops[k] = fs[j]
            BY <1>14, <3>1
        <3>3. j \in DOMAIN e.forgets
            BY <1>1, <1>3
        <3> QED
            BY <1>8, <2>6, <3>1, <3>2, <3>3 DEF Scripted
    <2>5. CASE k \in (t + 1) .. l
        <3>1. PICK j \in 1 .. p : k = t + j
            BY <1>13, <2>5
        <3>2. ops[k] = ps[j]
            BY <1>14, <3>1
        <3>3. j \in DOMAIN e.checkpoints
            BY <1>1, <1>3
        <3> QED
            BY <1>9, <1>15, <2>6, <3>1, <3>2, <3>3 DEF Scripted
    <2> QED
        BY <1>12, <1>13, <2>1, <2>2, <2>3, <2>4, <2>5
<1>17. DOMAIN ops = 1 .. Len(ops)
    BY <1>14
<1> QED
    BY <1>13, <1>14, <1>16, <1>17

\* The arguments of the operations are the episodes'.
LEMMA ScriptedFacts ==
    ASSUME NEW s \in Suites, NEW n \in DOMAIN s, NEW k, NEW op, Scripted(s[n], k, op)
    PROVE  /\ op.op = "ingest" => EpisodeCall(op.arg) \in Submissions
           /\ op.op = "bind" => op.arg.lesson_contains \in Text /\ op.arg.vector_id \in VectorIds
           /\ op.op = "forget" => op.arg.principal \in Text /\ op.arg.lesson_contains \in Text
           /\ op.op = "probe" => op.arg \in Checkpoint /\ op.nr \in Nat
<1>1. s \in Seq(Episode)
    BY HarnessAssumption
<1>3. s[n] \in Episode
    BY <1>1
<1>4. CASE op = [op |-> "reset"]
    BY <1>4
<1>5. ASSUME NEW j \in DOMAIN s[n].writes,
             op = [op |-> "ingest", arg |-> s[n].writes[j], nr |-> j]
      PROVE  op.op = "ingest" /\ EpisodeCall(op.arg) \in Submissions
    BY <1>5, HarnessAssumption
<1>6. ASSUME NEW j \in DOMAIN s[n].embedding_binds,
             op = [op |-> "bind", arg |-> s[n].embedding_binds[j], nr |-> j]
      PROVE  /\ op.op = "bind"
             /\ op.arg.lesson_contains \in Text /\ op.arg.vector_id \in VectorIds
    <2>1. s[n].embedding_binds \in Seq([lesson_contains : Text, vector_id : Text])
        BY <1>3 DEF Episode
    <2>2. s[n].embedding_binds[j] \in [lesson_contains : Text, vector_id : Text]
        BY <2>1, ElementOf
    <2>3. s[n].embedding_binds[j].vector_id \in VectorIds
        BY HarnessAssumption
    <2> QED
        BY <1>6, <2>2, <2>3
<1>7. ASSUME NEW j \in DOMAIN s[n].forgets,
             op = [op |-> "forget", arg |-> s[n].forgets[j], nr |-> j]
      PROVE  op.op = "forget" /\ op.arg.principal \in Text /\ op.arg.lesson_contains \in Text
    <2>1. s[n].forgets \in Seq([principal : Text, lesson_contains : Text])
        BY <1>3 DEF Episode
    <2>2. s[n].forgets[j] \in [principal : Text, lesson_contains : Text]
        BY <2>1, ElementOf
    <2> QED
        BY <1>7, <2>2
<1>8. ASSUME NEW j \in DOMAIN s[n].checkpoints,
             op = [op |-> "probe", arg |-> s[n].checkpoints[j], nr |-> j]
      PROVE  op.op = "probe" /\ op.arg \in Checkpoint /\ op.nr \in Nat
    <2>1. s[n].checkpoints \in Seq(Checkpoint)
        BY <1>3 DEF Episode
    <2>2. s[n].checkpoints[j] \in Checkpoint /\ j \in Nat
        BY <2>1
    <2> QED
        BY <1>8, <2>2
<1> QED
    BY <1>4, <1>5, <1>6, <1>7, <1>8 DEF Scripted

\* Before the first operation.
LEMMA HarnessInitInv == HarnessInit => HarnessInv
<1> SUFFICES ASSUME HarnessInit PROVE HarnessInv
    OBVIOUS
<1>1. GateInv /\ suite \in Suites /\ index = <<>> /\ results = <<>>
    BY GateInitInv DEF HarnessInit
<1>2. ScriptOK
    <2>1. PICK s \in Seq(Episode) : s = suite
        BY <1>1, HarnessAssumption
    <2>2. episode \in 1 .. (Len(suite) + 1) /\ done \in Nat /\ done = 0
        BY <2>1 DEF HarnessInit
    <2>3. episode \in DOMAIN suite => done < Len(Operations(suite[episode]))
        <3> SUFFICES ASSUME episode \in DOMAIN suite
                     PROVE  done < Len(Operations(suite[episode]))
            OBVIOUS
        <3>1. PICK e \in Episode : e = suite[episode]
            BY <2>1
        <3>2. PICK ops : ops = Operations(e)
            OBVIOUS
        <3>3. Len(ops) \in Nat \ {0}
            BY <3>2, OperationsScripted
        <3> QED
            BY <2>2, <3>1, <3>2, <3>3
    <2> QED
        BY <1>1, <2>2, <2>3 DEF ScriptOK
<1>3. \A id \in MemoryIds : ~Live(id)
    BY DEF HarnessInit, GateInit, StoreInit, Live, Known
<1>4. IndexIsFaithful
    BY <1>1, <1>3 DEF IndexIsFaithful
<1> QED
    BY <1>1, <1>2, <1>4 DEF HarnessInv

\* What every operation takes from the script, and that it goes on in it.
LEMMA DoFacts ==
    ASSUME ScriptOK, NEW op, Do(op)
    PROVE  /\ \E n \in DOMAIN suite, k \in Nat :
                 /\ n = episode /\ n \in Nat /\ suite[n] \in Episode
                 /\ k = done + 1 /\ k \in 1 .. Len(Operations(suite[n]))
                 /\ Current = Operations(suite[n])[k]
                 /\ Scripted(suite[n], k, Current)
           /\ Current.op = op
           /\ suite' = suite /\ ScriptOK'
<1>1. PICK s \in Seq(Episode) : s = suite /\ s \in Suites
    BY HarnessAssumption DEF ScriptOK
<1>2. PICK n \in 1 .. Len(s) : n = episode
    BY <1>1 DEF Do
<1>3. PICK e \in Episode : e = s[n]
    BY <1>2
<1>4. PICK ops : ops = Operations(e)
    OBVIOUS
<1>5. PICK l \in Nat \ {0} : l = Len(ops)
    BY <1>4, OperationsScripted
<1>6. PICK d \in Nat : d = done /\ d < l
    BY <1>1, <1>2, <1>3, <1>4, <1>5 DEF ScriptOK
<1>7. PICK k \in 1 .. l : k = d + 1
    BY <1>6
<1>8. Scripted(e, k, ops[k])
    BY <1>4, <1>5, OperationsScripted
<1>9. Current = ops[k]
    BY <1>1, <1>2, <1>3, <1>4, <1>6, <1>7 DEF Current
<1>10. suite' = s /\ Current.op = op
    BY <1>1 DEF Do
<1>11. CASE k < l
    <2>1. done' = k /\ episode' = n
        BY <1>1, <1>2, <1>3, <1>4, <1>5, <1>6, <1>7, <1>11 DEF Do
    <2>2. episode' \in 1 .. (Len(s) + 1) /\ done' \in Nat
        BY <2>1
    <2>3. done' < Len(Operations(suite'[episode']))
        BY <1>3, <1>4, <1>5, <1>10, <1>11, <2>1
    <2> QED
        BY <1>1, <1>2, <1>3, <1>4, <1>5, <1>6, <1>7, <1>8, <1>9, <1>10, <2>2, <2>3 DEF ScriptOK
<1>12. CASE ~(k < l)
    <2>1. done' = 0 /\ episode' = n + 1
        BY <1>1, <1>2, <1>3, <1>4, <1>5, <1>6, <1>7, <1>12 DEF Do
    <2>2. episode' \in 1 .. (Len(s) + 1) /\ done' \in Nat
        BY <2>1
    <2>3. episode' \in DOMAIN suite' => done' < Len(Operations(suite'[episode']))
        <3> SUFFICES ASSUME episode' \in DOMAIN suite'
                     PROVE  done' < Len(Operations(suite'[episode']))
            OBVIOUS
        <3>1. PICK f \in Episode : f = suite'[episode']
            BY <1>10
        <3>2. PICK others : others = Operations(f)
            OBVIOUS
        <3>3. Len(others) \in Nat \ {0}
            BY <3>2, OperationsScripted
        <3> QED
            BY <2>1, <3>1, <3>2, <3>3
    <2> QED
        BY <1>1, <1>2, <1>3, <1>4, <1>5, <1>6, <1>7, <1>8, <1>9, <1>10, <2>2, <2>3 DEF ScriptOK
<1> QED
    BY <1>11, <1>12

\* A dict of lessons and ids, in the order of its keys.
IndexItem == [lesson : Text, id : MemoryIds]

\* One item more of a dict that is rebuilt without an id.
Without(id, kept, item) == IF item.id = id THEN kept ELSE Append(kept, item)

\* The comprehension in forget(), item by item.
LEMMA UnindexedFold ==
    ASSUME NEW T, NEW flat \in Seq(T), NEW id, NEW part,
           NEW kept, kept = Unindexed(flat, id, part)
    PROVE  \E acc \in [0 .. Len(flat) -> Seq(T)] :
               /\ acc[0] = <<>> /\ acc[Len(flat)] = kept
               /\ \A m \in 1 .. Len(flat) : acc[m] = Without(id, acc[m - 1], flat[m])
<1> DEFINE Solves(h) == h = [s \in SUBSET DOMAIN flat |->
               IF s = {} THEN <<>>
               ELSE IF flat[Max(s)].id = id THEN h[s \ {Max(s)}]
                    ELSE Append(h[s \ {Max(s)}], flat[Max(s)])]
           iter == CHOOSE h : Solves(h)
<1>1. kept = iter[DOMAIN flat]
    BY DEF Unindexed, FoldLeft, MapThenFoldSet
<1>2. PICK n \in Nat : n = Len(flat)
    OBVIOUS
<1>3. DOMAIN flat = 1 .. n /\ \A i \in 1 .. n : flat[i] \in T
    BY <1>2
<1>4. \A a \in Seq(T), b \in T : Without(id, a, b) \in Seq(T)
    BY DEF Without
<1>5. PICK base \in Seq(T) : base = <<>>
    <2>1. <<>> \in Seq(T)
        OBVIOUS
    <2> QED
        BY <2>1
<1>6. PICK Op \in Steps(n, Seq(T)) :
          \A i \in 1 .. n, a \in Seq(T) : Op[i][a] = Without(id, a, flat[i])
    <2>1. [i \in 1 .. n |-> [a \in Seq(T) |-> Without(id, a, flat[i])]] \in Steps(n, Seq(T))
        BY <1>3, <1>4 DEF Steps
    <2> QED
        BY <2>1
<1>7. Solves(iter)
    <2>1. PICK g \in [SUBSET (1 .. n) -> Seq(T)] : IsFold(g, n, Seq(T), base, Op)
        BY FoldExists
    <2>2. ASSUME NEW s \in SUBSET (1 .. n), s # {}
          PROVE  g[s] = Without(id, g[s \ {Max(s)}], flat[Max(s)])
        <3>1. Max(s) \in 1 .. n
            BY <2>2, HasMax
        <3>2. g[s \ {Max(s)}] \in Seq(T)
            OBVIOUS
        <3> QED
            BY <1>6, <2>1, <2>2, <3>1, <3>2 DEF IsFold
    <2>3. Solves(g)
        BY <1>3, <1>5, <2>1, <2>2 DEF IsFold, Without
    <2> HIDE DEF Solves
    <2> QED
        BY <2>3
<1> HIDE DEF iter
<1>8. iter[{}] = base
    BY <1>5, <1>7
<1>9. ASSUME NEW s \in SUBSET (1 .. n), s # {}, iter[s \ {Max(s)}] \in Seq(T)
      PROVE  iter[s] = Op[Max(s)][iter[s \ {Max(s)}]]
    <2>1. Max(s) \in 1 .. n
        BY <1>9, HasMax
    <2>2. iter[s] = Without(id, iter[s \ {Max(s)}], flat[Max(s)])
        BY <1>3, <1>7, <1>9 DEF Without
    <2> QED
        BY <1>6, <1>9, <2>1, <2>2
<1>10. PICK acc \in [0 .. n -> Seq(T)] : IsPrefixFold(acc, n, base, Op) /\ acc[n] = iter[1 .. n]
    <2>1. IsFold(iter, n, Seq(T), base, Op)
        BY <1>8, <1>9 DEF IsFold
    <2>2. PICK A : A = Seq(T)
        OBVIOUS
    <2>3. base \in A /\ Op \in Steps(n, A) /\ IsFold(iter, n, A, base, Op)
        BY <2>1, <2>2
    <2>4. \E acc \in [0 .. n -> A] : IsPrefixFold(acc, n, base, Op) /\ acc[n] = iter[1 .. n]
        BY <2>3, FoldSteps
    <2> QED
        BY <2>2, <2>4
<1>11. \A m \in 1 .. n : acc[m] = Without(id, acc[m - 1], flat[m])
    <2>1. \A m \in 1 .. n : m - 1 \in 0 .. n
        OBVIOUS
    <2> QED
        BY <1>6, <1>10, <2>1 DEF IsPrefixFold
<1> QED
    BY <1>1, <1>2, <1>3, <1>5, <1>10, <1>11 DEF IsPrefixFold

\* Where the items that are kept of the first m ones come from.
Survivors(place, kept, all, id, m) ==
    /\ place \in [1 .. Len(kept) -> 1 .. m]
    /\ \A i, j \in 1 .. Len(kept) : i < j => place[i] < place[j]
    /\ \A i \in 1 .. Len(kept) : kept[i] = all[place[i]] /\ all[place[i]].id # id
    /\ \A k \in 1 .. m : all[k].id # id => \E i \in 1 .. Len(kept) : place[i] = k

\* One item more: it goes, or it comes last.
LEMMA OneMoreSurvives ==
    ASSUME NEW all \in Seq(IndexItem), NEW m \in Nat, m + 1 <= Len(all), NEW id,
           NEW kept \in Seq(IndexItem), NEW place, Survivors(place, kept, all, id, m)
    PROVE  \E further : Survivors(further, Without(id, kept, all[m + 1]), all, id, m + 1)
<1>1. PICK item \in IndexItem : item = all[m + 1]
    <2>1. m + 1 \in DOMAIN all
        OBVIOUS
    <2> QED
        BY <2>1, ElementOf
<1>2. PICK l \in Nat : l = Len(kept)
    OBVIOUS
<1>3. \A k \in 1 .. (m + 1) : k = m + 1 \/ k \in 1 .. m
    OBVIOUS
<1>4. CASE item.id = id
    <2>1. place \in [1 .. Len(kept) -> 1 .. (m + 1)]
        BY <1>2 DEF Survivors
    <2>2. \A k \in 1 .. (m + 1) : all[k].id # id => \E i \in 1 .. Len(kept) : place[i] = k
        BY <1>1, <1>3, <1>4 DEF Survivors
    <2>3. Survivors(place, kept, all, id, m + 1)
        BY <2>1, <2>2 DEF Survivors
    <2> QED
        BY <1>1, <1>4, <2>3 DEF Without
<1>5. CASE item.id # id
    <2>1. PICK longer : longer = Append(kept, item)
        OBVIOUS
    <2>2. /\ Len(longer) = l + 1 /\ longer[l + 1] = item
          /\ \A i \in 1 .. l : longer[i] = kept[i]
        BY <1>2, <2>1
    <2>3. PICK further : further = [i \in 1 .. (l + 1) |-> IF i = l + 1 THEN m + 1 ELSE place[i]]
        OBVIOUS
    <2>4. /\ further[l + 1] = m + 1
          /\ \A i \in 1 .. l : further[i] = place[i] /\ place[i] \in 1 .. m
          /\ \A i \in 1 .. (l + 1) : i = l + 1 \/ i \in 1 .. l
        BY <1>2, <2>3 DEF Survivors
    <2>5. further \in [1 .. (l + 1) -> 1 .. (m + 1)]
        <3>1. \A i \in 1 .. (l + 1) : further[i] \in 1 .. (m + 1)
            BY <2>4
        <3> QED
            BY <2>3, <3>1
    <2>6. \A i, j \in 1 .. (l + 1) : i < j => further[i] < further[j]
        <3>1. \A i, j \in 1 .. l : i < j => place[i] < place[j]
            BY <1>2 DEF Survivors
        <3> QED
            BY <2>4, <3>1
    <2>7. \A i \in 1 .. (l + 1) : longer[i] = all[further[i]] /\ all[further[i]].id # id
        BY <1>1, <1>2, <1>5, <2>2, <2>4 DEF Survivors
    <2>8. \A k \in 1 .. (m + 1) : all[k].id # id => \E i \in 1 .. (l + 1) : further[i] = k
        <3>1. l + 1 \in 1 .. (l + 1) /\ 1 .. l \subseteq 1 .. (l + 1)
            OBVIOUS
        <3> QED
            BY <1>2, <1>3, <2>4, <3>1 DEF Survivors
    <2>9. Survivors(further, longer, all, id, m + 1)
        BY <2>2, <2>5, <2>6, <2>7, <2>8 DEF Survivors
    <2> QED
        BY <1>1, <1>5, <2>1, <2>9 DEF Without
<1> QED
    BY <1>4, <1>5

\* The rebuilt index has the items of the old one, but for those of the id, in
\* their order.
LEMMA UnindexedFacts ==
    ASSUME NEW all \in Seq(IndexItem), NEW id, NEW part,
           NEW rest, rest = Unindexed(all, id, part)
    PROVE  /\ rest \in Seq(IndexItem)
           /\ \E place : Survivors(place, rest, all, id, Len(all))
<1>2. PICK n \in Nat : n = Len(all)
    OBVIOUS
<1>3. PICK acc \in [0 .. n -> Seq(IndexItem)] :
          /\ acc[0] = <<>> /\ acc[n] = rest
          /\ \A m \in 1 .. n : acc[m] = Without(id, acc[m - 1], all[m])
    <2>1. PICK T : T = IndexItem
        OBVIOUS
    <2>2. all \in Seq(T)
        BY <2>1
    <2>3. \E acc \in [0 .. Len(all) -> Seq(T)] :
              /\ acc[0] = <<>> /\ acc[Len(all)] = rest
              /\ \A m \in 1 .. Len(all) : acc[m] = Without(id, acc[m - 1], all[m])
        BY <2>2, UnindexedFold
    <2> QED
        BY <1>2, <2>1, <2>3
<1> DEFINE Picked(m) == \E place : Survivors(place, acc[m], all, id, m)
           S == {m \in Nat : m <= n => Picked(m)}
<1>4. Picked(0)
    <2>1. PICK place : place = [i \in 1 .. 0 |-> 0]
        OBVIOUS
    <2>2. Len(acc[0]) = 0 /\ 1 .. 0 = {}
        BY <1>3
    <2>3. Survivors(place, acc[0], all, id, 0)
        BY <2>1, <2>2 DEF Survivors
    <2> QED
        BY <2>3
<1>5. ASSUME NEW m \in Nat, m + 1 <= n, Picked(m) PROVE Picked(m + 1)
    <2>1. m + 1 \in 1 .. n /\ (m + 1) - 1 = m /\ m \in 0 .. n
        BY <1>5
    <2>2. PICK place : Survivors(place, acc[m], all, id, m)
        BY <1>5
    <2>3. PICK kept \in Seq(IndexItem) : kept = acc[m]
        BY <2>1
    <2>4. acc[m + 1] = Without(id, kept, all[m + 1])
        BY <1>3, <2>1, <2>3
    <2>5. m + 1 <= Len(all) /\ Survivors(place, kept, all, id, m)
        BY <1>2, <1>5, <2>2, <2>3
    <2>6. \E further : Survivors(further, Without(id, kept, all[m + 1]), all, id, m + 1)
        BY <2>5, OneMoreSurvives
    <2> QED
        BY <2>4, <2>6
<1>6. Picked(n)
    <2> HIDE DEF Picked
    <2>1. 0 \in S
        BY <1>4
    <2>2. ASSUME NEW m \in Nat, m \in S PROVE m + 1 \in S
        <3>1. m + 1 <= n => m <= n
            OBVIOUS
        <3> QED
            BY <1>5, <2>2, <3>1
    <2>3. n \in S
        <3> HIDE DEF S
        <3> QED
            BY <2>1, <2>2, Upward
    <2> QED
        BY <2>3
<1>7. rest \in Seq(IndexItem)
    <2>1. n \in 0 .. n
        OBVIOUS
    <2> QED
        BY <1>3, <2>1
<1> QED
    BY <1>2, <1>3, <1>6, <1>7

\* The sequence new is all with the lesson entered: at its place, or at the end.
Entered(found, new, all, lesson, id) ==
    /\ found # 0 => all[found].lesson = lesson
    /\ found = 0 => \A i \in DOMAIN all : all[i].lesson # lesson
    /\ new = IF found = 0 THEN Append(all, [lesson |-> lesson, id |-> id])
             ELSE [all EXCEPT ![found].id = id]

\* A lesson replaces itself in the index, or comes last.
LEMMA IndexedFacts ==
    ASSUME NEW T, NEW all \in Seq(T), NEW lesson, NEW id,
           NEW new, new = Indexed(all, lesson, id)
    PROVE  \E found \in 0 .. Len(all) : Entered(found, new, all, lesson, id)
<1> DEFINE I == {i \in 1 .. Len(all) : all[i].lesson = lesson}
           found == IF I # {} THEN Min(I) ELSE 0
<1>1. new = IF found = 0 THEN Append(all, [lesson |-> lesson, id |-> id])
            ELSE [all EXCEPT ![found].id = id]
    BY DEF Indexed, SelectInSeq
<1>2. I \in SUBSET Nat
    OBVIOUS
<1>3. I # {} => Min(I) \in I
    <2> HIDE DEF I
    <2> QED
        BY <1>2, HasMin
<1>4. DOMAIN all = 1 .. Len(all) /\ Len(all) \in Nat
    OBVIOUS
<1>5. I # {} => Min(I) \in 1 .. Len(all) /\ all[Min(I)].lesson = lesson
    BY <1>3
<1>6. I = {} => \A i \in 1 .. Len(all) : all[i].lesson # lesson
    OBVIOUS
<1>7. found \in 0 .. Len(all) /\ (found # 0 => all[found].lesson = lesson)
    <2> HIDE DEF I
    <2> QED
        BY <1>4, <1>5
<1>8. found = 0 => \A i \in DOMAIN all : all[i].lesson # lesson
    <2> HIDE DEF I
    <2> QED
        BY <1>4, <1>5, <1>6
<1> HIDE DEF found
<1>9. Entered(found, new, all, lesson, id)
    BY <1>1, <1>7, <1>8 DEF Entered
<1> QED
    BY <1>7, <1>9

\* A row is stored under a fresh id, and its lesson leads to it.
LEMMA IndexGrows ==
    ASSUME StoreInv, index \in Seq(IndexItem), IndexIsFaithful,
           NEW id \in MemoryIds, NEW row \in MemoryEntry, Insert(id, row),
           index' = Indexed(index, row.lesson, id)
    PROVE  index' \in Seq(IndexItem) /\ IndexIsFaithful'
<1>1. /\ ~Known(id) /\ ~IsTombstoned(id) /\ row # None /\ row.lesson \in Text
      /\ entries'[id] = row /\ tombstones' = tombstones
      /\ \A other \in MemoryIds \ {id} : entries'[other] = entries[other]
    BY IdAssumption
    DEF StoreInv, StoreTypeOK, OnlyMintedKnown, TombstoneByOwner, Insert, MemoryEntry
<1>2. /\ Live(id)' /\ \A other \in MemoryIds : Known(other) => Known(other)'
      /\ \A other \in MemoryIds \ {id} : Live(other)' <=> Live(other)
    BY <1>1 DEF Live, Known, IsTombstoned
<1>3. PICK lesson \in Text : lesson = row.lesson
    BY <1>1
<1>4. PICK all \in Seq(IndexItem) : all = index
    OBVIOUS
<1>5. PICK n \in Nat : n = Len(all) /\ DOMAIN all = 1 .. n
    OBVIOUS
<1>6. PICK found \in 0 .. n :
          /\ found # 0 => all[found].lesson = lesson
          /\ found = 0 => \A i \in 1 .. n : all[i].lesson # lesson
          /\ index' = IF found = 0 THEN Append(all, [lesson |-> lesson, id |-> id])
                      ELSE [all EXCEPT ![found].id = id]
    <2>1. PICK new : new = Indexed(all, lesson, id)
        OBVIOUS
    <2>2. PICK found \in 0 .. Len(all) : Entered(found, new, all, lesson, id)
        BY <1>4, <2>1, IndexedFacts
    <2>3. new = index'
        BY <1>3, <1>4, <2>1
    <2> QED
        BY <1>5, <2>2, <2>3 DEF Entered
<1>7. /\ \A i \in 1 .. n : /\ all[i] \in IndexItem /\ Live(all[i].id)
                            /\ entries[all[i].id].lesson = all[i].lesson
                            /\ all[i].id \in MemoryIds \ {id}
      /\ \A i, j \in 1 .. n : all[i].lesson = all[j].lesson => i = j
      /\ \A other \in MemoryIds :
            Live(other) => \/ \E i \in 1 .. n : all[i].id = other
                           \/ \E another \in MemoryIds \ {other} :
                                 /\ Known(another)
                                 /\ entries[another].lesson = entries[other].lesson
    <2>1. \A i \in 1 .. n : all[i] \in IndexItem
        BY <1>5, ElementOf
    <2>2. \A i \in 1 .. n : Live(all[i].id) /\ entries[all[i].id].lesson = all[i].lesson
        BY <1>4, <1>5 DEF IndexIsFaithful
    <2>3. ~Live(id)
        BY <1>1 DEF Live
    <2>4. \A i \in 1 .. n : all[i].id \in MemoryIds \ {id}
        BY <2>1, <2>2, <2>3 DEF IndexItem
    <2> QED
        BY <1>4, <1>5, <2>1, <2>2, <2>4 DEF IndexIsFaithful
<1> DEFINE Grown(new, l, at) ==
               /\ new = index' /\ DOMAIN new = 1 .. l /\ n <= l /\ at \in 1 .. l
               /\ new[at].lesson = lesson /\ new[at].id = id
               /\ \A i \in 1 .. l \ {at} :
                      i \in 1 .. n /\ new[i] = all[i] /\ all[i].lesson # lesson
               /\ \A i \in 1 .. n : i = at => all[i].lesson = lesson
<1>20. PICK new \in Seq(IndexItem), l \in Nat, at \in Nat : Grown(new, l, at)
    <2>1. [lesson |-> lesson, id |-> id] \in IndexItem
        BY DEF IndexItem
    <2>2. CASE found = 0
        <3>1. PICK new : new = Append(all, [lesson |-> lesson, id |-> id])
            OBVIOUS
        <3>2. /\ new \in Seq(IndexItem) /\ DOMAIN new = 1 .. (n + 1)
              /\ new[n + 1] = [lesson |-> lesson, id |-> id]
              /\ \A i \in 1 .. n : new[i] = all[i]
            BY <1>5, <2>1, <3>1
        <3>3. n + 1 \in 1 .. (n + 1) /\ n <= n + 1 /\ n + 1 \in Nat
              /\ \A i \in 1 .. (n + 1) \ {n + 1} : i \in 1 .. n
              /\ \A j \in 1 .. n : j # n + 1
            OBVIOUS
        <3>4. new = index'
            BY <1>6, <2>2, <3>1
        <3>5. \A i \in 1 .. n : all[i].lesson # lesson
            BY <1>6, <2>2
        <3>6. Grown(new, n + 1, n + 1)
            BY <3>2, <3>3, <3>4, <3>5
        <3> HIDE DEF Grown
        <3> QED
            BY <3>2, <3>3, <3>6
    <2>3. CASE found # 0
        <3>1. found \in 1 .. n
            BY <2>3
        <3>2. PICK new : new = [all EXCEPT ![found].id = id]
            OBVIOUS
        <3>3. all[found] \in IndexItem
            BY <1>7, <3>1
        <3>4. new[found] = [lesson |-> lesson, id |-> id]
            BY <1>5, <1>6, <2>3, <3>1, <3>2, <3>3 DEF IndexItem
        <3>5. DOMAIN new = 1 .. n /\ \A i \in 1 .. n \ {found} : new[i] = all[i]
            BY <1>5, <3>2
        <3>6. \A i \in 1 .. n : new[i] \in IndexItem
            BY <1>7, <2>1, <3>4, <3>5
        <3>7. new \in Seq(IndexItem)
            <4>1. new \in [1 .. n -> IndexItem]
                BY <3>2, <3>5, <3>6
            <4> QED
                BY <4>1
        <3>8. \A i \in 1 .. n \ {found} : all[i].lesson # lesson
            BY <1>6, <1>7, <2>3, <3>1
        <3>9. new = index' /\ n <= n
            BY <1>6, <2>3, <3>2
        <3>10. Grown(new, n, found)
            BY <1>6, <2>3, <3>1, <3>4, <3>5, <3>8, <3>9
        <3> HIDE DEF Grown
        <3> QED
            BY <3>7, <3>10
    <2> QED
        BY <2>2, <2>3
<1>8. /\ new = index' /\ DOMAIN new = 1 .. l /\ n <= l /\ at \in 1 .. l
      /\ new[at].lesson = lesson /\ new[at].id = id
      /\ \A i \in 1 .. l \ {at} : i \in 1 .. n /\ new[i] = all[i] /\ all[i].lesson # lesson
      /\ \A i \in 1 .. n : i = at => all[i].lesson = lesson
    BY <1>20
<1> HIDE DEF Grown
<1>9. \A i \in 1 .. l : Live(new[i].id)' /\ entries'[new[i].id].lesson = new[i].lesson
    <2>1. \A i \in 1 .. l \ {at} :
              Live(new[i].id)' /\ entries'[new[i].id].lesson = new[i].lesson
        <3> SUFFICES ASSUME NEW i \in 1 .. l \ {at}
                     PROVE  Live(new[i].id)' /\ entries'[new[i].id].lesson = new[i].lesson
            OBVIOUS
        <3>1. i \in 1 .. n /\ new[i] = all[i]
            BY <1>8
        <3>2. PICK other \in MemoryIds \ {id} : other = all[i].id
            BY <1>7, <3>1
        <3>3. Live(other) /\ entries[other].lesson = all[i].lesson
            BY <1>7, <3>1, <3>2
        <3>4. Live(other)' /\ entries'[other].lesson = all[i].lesson
            BY <1>1, <1>2, <3>3
        <3> QED
            BY <3>1, <3>2, <3>4
    <2>2. Live(new[at].id)' /\ entries'[new[at].id].lesson = new[at].lesson
        BY <1>1, <1>2, <1>3, <1>8
    <2> QED
        BY <2>1, <2>2
<1>10. \A i, j \in 1 .. l : new[i].lesson = new[j].lesson => i = j
    <2> SUFFICES ASSUME NEW i \in 1 .. l, NEW j \in 1 .. l, new[i].lesson = new[j].lesson, i # j
                 PROVE  FALSE
        OBVIOUS
    <2>1. CASE i = at
        <3>1. j \in 1 .. l \ {at}
            BY <2>1
        <3> QED
            BY <1>8, <2>1, <3>1
    <2>2. CASE j = at
        <3>1. i \in 1 .. l \ {at}
            BY <2>2
        <3> QED
            BY <1>8, <2>2, <3>1
    <2>3. CASE i # at /\ j # at
        <3>1. i \in 1 .. n /\ j \in 1 .. n /\ new[i] = all[i] /\ new[j] = all[j]
            BY <1>8, <2>3
        <3> QED
            BY <1>7, <3>1
    <2> QED
        BY <2>1, <2>2, <2>3
<1>11. ASSUME NEW other \in MemoryIds, Live(other)'
       PROVE  \/ \E i \in 1 .. l : new[i].id = other
              \/ \E another \in MemoryIds \ {other} :
                    Known(another)' /\ entries'[another].lesson = entries'[other].lesson
    <2>1. CASE other = id
        BY <1>8, <2>1
    <2>2. ASSUME other # id, NEW i \in 1 .. n, all[i].id = other
          PROVE  \/ \E j \in 1 .. l : new[j].id = other
                 \/ \E another \in MemoryIds \ {other} :
                       Known(another)' /\ entries'[another].lesson = entries'[other].lesson
        <3>1. CASE i # at
            <4>1. i \in 1 .. l \ {at}
                BY <1>8, <3>1
            <4> QED
                BY <1>8, <2>2, <4>1
        <3>2. CASE i = at
            <4>1. entries'[other].lesson = lesson
                BY <1>1, <1>7, <1>8, <2>2, <3>2
            <4>2. Known(id)' /\ entries'[id].lesson = lesson
                BY <1>1, <1>2, <1>3 DEF Live
            <4> QED
                BY <2>2, <4>1, <4>2
        <3> QED
            BY <3>1, <3>2
    <2>3. ASSUME other # id, NEW another \in MemoryIds \ {other}, Known(another),
                 entries[another].lesson = entries[other].lesson
          PROVE  Known(another)' /\ entries'[another].lesson = entries'[other].lesson
        BY <1>1, <1>2, <2>3
    <2> QED
        BY <1>2, <1>7, <1>11, <2>1, <2>2, <2>3
<1> QED
    <2>1. index' \in Seq(IndexItem) /\ DOMAIN index' = 1 .. l
        BY <1>8
    <2> QED
        BY <1>8, <1>9, <1>10, <1>11, <2>1 DEF IndexIsFaithful

\* A row is deleted, and nothing leads to it.
LEMMA IndexShrinks ==
    ASSUME StoreInv, index \in Seq(IndexItem), IndexIsFaithful,
           NEW id \in MemoryIds, NEW part, entries' = entries,
           \A other \in MemoryIds \ {id} : tombstones'[other] = tombstones[other],
           IsTombstoned(id)', index' = Unindexed(index, id, part)
    PROVE  index' \in Seq(IndexItem) /\ IndexIsFaithful'
<1>1. /\ ~Live(id)' /\ \A other \in MemoryIds : Known(other)' <=> Known(other)
      /\ \A other \in MemoryIds \ {id} : Live(other)' <=> Live(other)
    BY DEF Live, Known, IsTombstoned
<1>2. PICK all \in Seq(IndexItem) : all = index
    OBVIOUS
<1>3. PICK n \in Nat : n = Len(all) /\ DOMAIN all = 1 .. n
    OBVIOUS
<1>4. PICK rest \in Seq(IndexItem) : rest = index' /\ \E place : Survivors(place, rest, all, id, n)
    <2>1. PICK rest : rest = Unindexed(all, id, part)
        OBVIOUS
    <2> QED
        BY <1>2, <1>3, <2>1, UnindexedFacts
<1>4a. PICK place : Survivors(place, rest, all, id, n)
    BY <1>4
<1>5. PICK l \in Nat : l = Len(rest) /\ DOMAIN rest = 1 .. l
    OBVIOUS
<1>6. /\ \A i \in 1 .. n : /\ all[i].id \in MemoryIds /\ Live(all[i].id)
                            /\ entries[all[i].id].lesson = all[i].lesson
      /\ \A i, j \in 1 .. n : all[i].lesson = all[j].lesson => i = j
    <2>1. \A i \in 1 .. n : all[i] \in IndexItem
        BY <1>3, ElementOf
    <2> QED
        BY <1>2, <1>3, <2>1 DEF IndexIsFaithful, IndexItem
<1>7. /\ \A i \in 1 .. l : place[i] \in 1 .. n /\ rest[i] = all[place[i]] /\ rest[i].id # id
      /\ \A i, j \in 1 .. l : place[i] = place[j] => i = j
      /\ \A k \in 1 .. n : all[k].id # id => \E i \in 1 .. l : place[i] = k
    <2>1. \A i \in 1 .. l : place[i] \in 1 .. n /\ rest[i] = all[place[i]] /\ all[place[i]].id # id
        BY <1>4a, <1>5 DEF Survivors
    <2>2. \A i, j \in 1 .. l : i < j => place[i] < place[j]
        BY <1>4a, <1>5 DEF Survivors
    <2>3. \A i, j \in 1 .. l : i < j \/ j < i \/ i = j
        OBVIOUS
    <2>4. \A p \in 1 .. n : ~(p < p)
        OBVIOUS
    <2>5. \A i, j \in 1 .. l : place[i] = place[j] => i = j
        BY <2>1, <2>2, <2>3, <2>4
    <2>6. \A k \in 1 .. n : all[k].id # id => \E i \in 1 .. l : place[i] = k
        BY <1>4a, <1>5 DEF Survivors
    <2>7. \A i \in 1 .. l : rest[i].id # id
        BY <2>1
    <2> QED
        BY <2>1, <2>5, <2>6, <2>7
<1>8. \A i \in 1 .. l : Live(rest[i].id)' /\ entries'[rest[i].id].lesson = rest[i].lesson
    <2> SUFFICES ASSUME NEW i \in 1 .. l
                 PROVE  Live(rest[i].id)' /\ entries'[rest[i].id].lesson = rest[i].lesson
        OBVIOUS
    <2>1. PICK p \in 1 .. n : rest[i] = all[p]
        BY <1>7
    <2>2. PICK other \in MemoryIds \ {id} :
              other = rest[i].id /\ Live(other) /\ entries[other].lesson = rest[i].lesson
        BY <1>6, <1>7, <2>1
    <2>3. Live(other)'
        BY <1>1, <2>2
    <2> QED
        BY <2>2, <2>3
<1>9. \A i, j \in 1 .. l : rest[i].lesson = rest[j].lesson => i = j
    <2> SUFFICES ASSUME NEW i \in 1 .. l, NEW j \in 1 .. l, rest[i].lesson = rest[j].lesson
                 PROVE  i = j
        OBVIOUS
    <2>1. PICK p \in 1 .. n, q \in 1 .. n :
              p = place[i] /\ q = place[j] /\ rest[i] = all[p] /\ rest[j] = all[q]
        BY <1>7
    <2>2. p = q
        BY <1>6, <2>1
    <2>3. place[i] = place[j]
        BY <2>1, <2>2
    <2> QED
        BY <1>7, <2>3
<1>10. ASSUME NEW other \in MemoryIds, Live(other)'
       PROVE  \/ \E i \in 1 .. l : rest[i].id = other
              \/ \E another \in MemoryIds \ {other} :
                    Known(another)' /\ entries'[another].lesson = entries'[other].lesson
    <2>1. other # id /\ Live(other)
        BY <1>1, <1>10
    <2>2. \/ \E k \in 1 .. n : all[k].id = other
          \/ \E another \in MemoryIds \ {other} :
                Known(another) /\ entries[another].lesson = entries[other].lesson
        BY <1>2, <1>3, <2>1 DEF IndexIsFaithful
    <2>3. ASSUME NEW k \in 1 .. n, all[k].id = other PROVE \E i \in 1 .. l : rest[i].id = other
        <3>1. PICK i \in 1 .. l : place[i] = k
            BY <1>7, <2>1, <2>3
        <3> QED
            BY <1>7, <2>3, <3>1
    <2>4. ASSUME NEW another \in MemoryIds \ {other}, Known(another),
                 entries[another].lesson = entries[other].lesson
          PROVE  Known(another)' /\ entries'[another].lesson = entries'[other].lesson
        BY <1>1, <2>4
    <2> QED
        BY <2>2, <2>3, <2>4
<1> QED
    <2>1. index' \in Seq(IndexItem) /\ DOMAIN index' = 1 .. l
        BY <1>4, <1>5
    <2> QED
        BY <1>4, <1>8, <1>9, <1>10, <2>1 DEF IndexIsFaithful

\* The index and the store stay as they are, but for vectors.
LEMMA IndexStays ==
    IndexIsFaithful /\ UNCHANGED <<index, entries, tombstones>> => IndexIsFaithful'
BY DEF IndexIsFaithful, Live, Known, IsTombstoned

\* reset().
LEMMA StubResetInv == ASSUME HarnessInv, StubReset PROVE HarnessInv'
<1>1. ScriptOK' /\ suite' = suite
    BY DoFacts DEF StubReset, HarnessInv
<1>2. /\ \A id \in MemoryIds : ~Known(id)' /\ ~IsTombstoned(id)'
      /\ StoreInv'
    BY ClearInv DEF StubReset, Clear, Known, IsTombstoned, HarnessInv, GateInv
<1>3. GateTypeOK'
    <2>1. /\ mode' \in GateMode /\ attached' \in BOOLEAN /\ calls' \in Nat
          /\ latest' \in Optional(PipelineResult)
        BY DEF StubReset, FreshGate, GateMode, Optional
    <2>2. /\ pending' \in [PendingIds -> Optional(CandidateExperience)] /\ held' = pending'
          /\ promoted' \in [PendingIds -> Optional(MemoryIds)]
        BY DEF StubReset, FreshGate, Optional
    <2>3. unlogged' \in [written : SUBSET MemoryIds, deleted : SUBSET MemoryIds]
        BY DEF StubReset, FreshGate
    <2>4. auditLog' = <<>> /\ <<>> \in Seq(AuditRecord)
        BY DEF StubReset, FreshGate
    <2>5. auditLog' \in Seq(AuditRecord)
        BY <2>4
    <2> QED
        BY <1>2, <2>1, <2>2, <2>3, <2>5 DEF GateTypeOK, StoreInv
<1>4. GateInv'
    BY <1>2, <1>3
    DEF StubReset, FreshGate, GateInv, PendingConserved, HeldAreAdmissible, OnlyVerifiedRows,
        UnloggedStays, WritesReconcile, DeletionsReconcile
<1>5. index' = <<>> /\ results' = results
    BY DEF StubReset
<1>6. IndexIsFaithful'
    BY <1>2, <1>5 DEF IndexIsFaithful, Live
<1> QED
    BY <1>1, <1>4, <1>5, <1>6 DEF HarnessInv

\* ingest().
LEMMA StubIngestInv == ASSUME HarnessInv, StubIngest PROVE HarnessInv'
<1>0. PICK n \in DOMAIN suite, k \in Nat :
          /\ n = episode /\ n \in Nat /\ Scripted(suite[n], k, Current)
          /\ Current.op = "ingest" /\ suite' = suite /\ suite \in Suites /\ ScriptOK'
    BY DoFacts DEF StubIngest, HarnessInv, ScriptOK
<1>1. PICK op : op = Current /\ Scripted(suite[n], k, op) /\ op.op = "ingest"
    BY <1>0
<1>2. PICK submission \in Submissions : submission = EpisodeCall(op.arg)
    BY <1>0, <1>1, ScriptedFacts
<1>3. results' = results /\ StoreInv /\ GateInv
    BY DEF StubIngest, HarnessInv, GateInv
<1>4. CASE CommitRejected(submission) /\ UNCHANGED index
    <2>1. GateInv'
        BY <1>3, <1>4, RejectedInv
    <2>2. IndexIsFaithful'
        BY <1>4, IndexStays DEF CommitRejected, storeVars, HarnessInv
    <2> QED
        BY <1>0, <1>1, <1>3, <1>4, <2>1, <2>2 DEF HarnessInv
<1>5. ASSUME NEW id \in MemoryIds, CommitStored(submission, id),
             index' = Indexed(index, entries'[id].lesson, id)
      PROVE  HarnessInv'
    <2>1. GateInv'
        BY <1>3, <1>5, StoredInv
    <2>2. PICK row \in MemoryEntry : row = FromCandidate(Outcome[submission].candidate)
        BY <1>5, AdmissibleFacts DEF CommitStored
    <2>3. Insert(id, row) /\ entries'[id] = row
        BY <1>3, <1>5, <2>2 DEF CommitStored, Insert, StoreInv, StoreTypeOK
    <2>4. index' = Indexed(index, row.lesson, id)
        BY <1>5, <2>3
    <2>5. index' \in Seq(IndexItem) /\ IndexIsFaithful'
        BY <1>3, <2>3, <2>4, IndexGrows DEF HarnessInv, IndexItem
    <2> QED
        BY <1>0, <1>1, <1>3, <2>1, <2>5 DEF HarnessInv, IndexItem
<1> QED
    BY <1>1, <1>2, <1>4, <1>5 DEF StubIngest

\* What a phrase leads to is the id of a row.
LEMMA LessonFound ==
    ASSUME NEW all \in Seq(IndexItem), all = index, NEW part,
           NEW id, id = MemoryIdForLesson(part), id # None
    PROVE  id \in MemoryIds
<1> DEFINE I == {i \in 1 .. Len(all) : <<part, all[i].lesson>> \in Within}
           found == IF I # {} THEN Min(I) ELSE 0
<1>1. id = IF found = 0 THEN None ELSE all[found].id
    BY DEF MemoryIdForLesson, LessonPlace, SelectInSeq
<1>2. I \in SUBSET Nat
    OBVIOUS
<1>3. I # {} => Min(I) \in I
    <2> HIDE DEF I
    <2> QED
        BY <1>2, HasMin
<1>4. I # {} => Min(I) \in DOMAIN all
    BY <1>3
<1> HIDE DEF I
<1>5. found # 0 => all[found] \in IndexItem
    BY <1>4, ElementOf
<1> QED
    BY <1>1, <1>5 DEF IndexItem

\* bind_embedding().
LEMMA StubBindInv == ASSUME HarnessInv, StubBind PROVE HarnessInv'
<1>0. PICK n \in DOMAIN suite, k \in Nat :
          /\ n = episode /\ n \in Nat /\ Scripted(suite[n], k, Current)
          /\ Current.op = "bind" /\ suite' = suite /\ suite \in Suites /\ ScriptOK'
    BY DoFacts DEF StubBind, HarnessInv, ScriptOK
<1>1. PICK op : op = Current /\ Scripted(suite[n], k, op) /\ op.op = "bind"
    BY <1>0
<1>2. op.arg.lesson_contains \in Text /\ op.arg.vector_id \in VectorIds
    BY <1>0, <1>1, ScriptedFacts
<1>3. PICK id : id = MemoryIdForLesson(op.arg.lesson_contains)
    OBVIOUS
<1>4. UNCHANGED <<index, results>>
    BY DEF StubBind
<1>5. CASE id = None
    <2>1. UNCHANGED gateVars
        BY <1>1, <1>3, <1>5 DEF StubBind
    <2>2. GateInv'
        BY <2>1, GateStepInv DEF HarnessInv
    <2>3. IndexIsFaithful'
        BY <1>4, <2>1, IndexStays DEF HarnessInv, gateVars, storeVars
    <2> QED
        BY <1>0, <1>1, <1>4, <2>2, <2>3 DEF HarnessInv
<1>6. CASE id # None
    <2>1. id \in MemoryIds
        <3>1. PICK all \in Seq(IndexItem) : all = index
            BY DEF HarnessInv, IndexItem
        <3>2. PICK part : part = op.arg.lesson_contains
            OBVIOUS
        <3> QED
            BY <1>3, <1>6, <3>1, <3>2, LessonFound
    <2>2. GateBindEmbedding(id, op.arg.vector_id)
        BY <1>1, <1>3, <1>6 DEF StubBind
    <2>3. GateInv'
        BY <1>2, <2>1, <2>2, GateStepInv DEF HarnessInv, GateNext
    <2>4. IndexIsFaithful'
        BY <1>4, <2>2, IndexStays DEF HarnessInv, GateBindEmbedding, BindEmbedding, storeVars
    <2> QED
        BY <1>0, <1>1, <1>4, <2>3, <2>4 DEF HarnessInv
<1> QED
    BY <1>5, <1>6

\* forget(), granted, refused or of a phrase that leads nowhere.
LEMMA StubForgetInv == ASSUME HarnessInv, StubForget PROVE HarnessInv'
<1>0. PICK n \in DOMAIN suite, k \in Nat :
          /\ n = episode /\ n \in Nat /\ Scripted(suite[n], k, Current)
          /\ Current.op = "forget" /\ suite' = suite /\ suite \in Suites /\ ScriptOK'
    BY DoFacts DEF StubForget, HarnessInv, ScriptOK
<1>1. PICK op : op = Current /\ Scripted(suite[n], k, op) /\ op.op = "forget"
    BY <1>0
<1>2. PICK part \in Text, principal \in Text :
          part = op.arg.lesson_contains /\ principal = op.arg.principal
    BY <1>0, <1>1, ScriptedFacts
<1>3. PICK id : id = MemoryIdForLesson(part)
    OBVIOUS
<1>4. results' = results
    BY DEF StubForget
<1>5. CASE id = None
    <2>1. UNCHANGED gateVars /\ index' = index
        BY <1>1, <1>2, <1>3, <1>5 DEF StubForget
    <2>2. GateInv'
        BY <2>1, GateStepInv DEF HarnessInv
    <2>3. IndexIsFaithful'
        BY <2>1, IndexStays DEF HarnessInv, gateVars, storeVars
    <2> QED
        BY <1>0, <1>1, <1>4, <2>1, <2>2, <2>3 DEF HarnessInv
<1>6. CASE id # None
    <2>1. id \in MemoryIds
        <3>1. PICK all \in Seq(IndexItem) : all = index
            BY DEF HarnessInv, IndexItem
        <3> QED
            BY <1>3, <1>6, <3>1, LessonFound
    <2>2. /\ Forget(id, principal)
          /\ index' = IF MayTombstone(id, principal) THEN Unindexed(index, id, part) ELSE index
        BY <1>1, <1>2, <1>3, <1>6 DEF StubForget
    <2>3. GateInv'
        BY <2>1, <2>2, ForgetInv DEF HarnessInv
    <2>4. StoreInv /\ StoreTypeOK /\ Tombstone(id, principal)
        BY <2>2 DEF Forget, HarnessInv, GateInv, StoreInv
    <2>5. CASE MayTombstone(id, principal)
        <3>1. principal # None
            BY TextAssumption
        <3>2. /\ entries' = entries /\ IsTombstoned(id)'
              /\ \A other \in MemoryIds \ {id} : tombstones'[other] = tombstones[other]
            BY <2>1, <2>4, <2>5, <3>1 DEF Tombstone, StoreTypeOK, IsTombstoned
        <3>3. index' \in Seq(IndexItem) /\ IndexIsFaithful'
            BY <2>1, <2>2, <2>4, <2>5, <3>2, IndexShrinks DEF HarnessInv, IndexItem
        <3> QED
            BY <1>0, <1>1, <1>4, <2>3, <3>3 DEF HarnessInv, IndexItem
    <2>6. CASE ~MayTombstone(id, principal)
        <3>1. UNCHANGED <<index, entries, tombstones>>
            BY <2>2, <2>4, <2>6 DEF Tombstone, storeVars
        <3>2. IndexIsFaithful'
            BY <3>1, IndexStays DEF HarnessInv
        <3> QED
            BY <1>0, <1>1, <1>4, <2>3, <3>1, <3>2 DEF HarnessInv
    <2> QED
        BY <2>5, <2>6
<1> QED
    BY <1>5, <1>6

\* evaluate_checkpoint().
LEMMA EvaluateInv == ASSUME HarnessInv, EvaluateCheckpoint PROVE HarnessInv'
<1>0. PICK n \in DOMAIN suite, k \in Nat :
          /\ n = episode /\ n \in Nat /\ Scripted(suite[n], k, Current)
          /\ Current.op = "probe" /\ suite' = suite /\ suite \in Suites /\ ScriptOK'
    BY DoFacts DEF EvaluateCheckpoint, HarnessInv, ScriptOK
<1>1. PICK op : op = Current /\ Scripted(suite[n], k, op) /\ op.op = "probe"
    BY <1>0
<1>2. op.arg \in Checkpoint /\ op.nr \in Nat
    BY <1>0, <1>1, ScriptedFacts
<1>3. UNCHANGED <<gateVars, index>>
    BY DEF EvaluateCheckpoint
<1>4. GateInv'
    BY <1>3, GateStepInv DEF HarnessInv
<1>5. IndexIsFaithful'
    BY <1>3, IndexStays DEF HarnessInv, gateVars, storeVars
<1>6. PICK probe \in Checkpoint : probe = op.arg
    BY <1>2
<1>7. Passed(probe) \in BOOLEAN /\ probe.category \in CheckpointCategory
    BY DEF Passed, PassedBy, Checkpoint, CheckpointCategory
<1>8. PICK verdict \in ProbeResult :
          verdict = [episode |-> n, nr |-> op.nr, category |-> probe.category,
                     passed |-> Passed(probe)]
    <2>1. [episode |-> n, nr |-> op.nr, category |-> probe.category,
           passed |-> Passed(probe)] \in ProbeResult
        BY <1>0, <1>2, <1>7 DEF ProbeResult
    <2> QED
        BY <2>1
<1>9. results' = Append(results, verdict)
    BY <1>0, <1>1, <1>6, <1>8 DEF EvaluateCheckpoint
<1>10. results' \in Seq(ProbeResult)
       /\ \A i \in DOMAIN results' : results'[i].episode \in DOMAIN suite'
    <2>1. verdict.episode \in DOMAIN suite
        BY <1>2, <1>8
    <2> QED
        BY <1>0, <1>1, <1>9, <2>1 DEF HarnessInv
<1> QED
    BY <1>0, <1>1, <1>3, <1>4, <1>5, <1>10 DEF HarnessInv

\* Whatever the suites, each operation of the harness preserves its invariant.
LEMMA HarnessStep == HarnessInv /\ [HarnessNext]_harnessVars => HarnessInv'
<1> SUFFICES ASSUME HarnessInv, [HarnessNext]_harnessVars PROVE HarnessInv'
    OBVIOUS
<1>1. CASE UNCHANGED harnessVars
    <2>1. GateInv'
        BY <1>1, GateStepInv DEF harnessVars, HarnessInv
    <2>2. IndexIsFaithful'
        BY <1>1, IndexStays DEF harnessVars, HarnessInv, gateVars, storeVars
    <2>3. ScriptOK'
        BY <1>1 DEF harnessVars, scriptVars, HarnessInv, ScriptOK
    <2> QED
        BY <1>1, <2>1, <2>2, <2>3 DEF harnessVars, scriptVars, HarnessInv
<1> QED
    BY <1>1, StubResetInv, StubIngestInv, StubBindInv, StubForgetInv, EvaluateInv
    DEF HarnessNext

\* So it holds from the first operation of a run on.
THEOREM HarnessInvariant == HarnessSpec => []HarnessInv
BY HarnessInitInv, HarnessStep, PTL DEF HarnessSpec

\* The stub's index never misleads, for any episodes: not to a deleted row, not
\* to one of an earlier episode, and past no lesson that is not repeated.
THEOREM IndexFaithful == HarnessSpec => []IndexIsFaithful
<1>1. HarnessInv => IndexIsFaithful
    BY DEF HarnessInv
<1> QED
    BY <1>1, HarnessInvariant, PTL

\* The attributes of the stub and the report keep their types.
THEOREM HarnessTypes == HarnessSpec => []HarnessTypeOK
<1>1. HarnessInv => HarnessTypeOK
    <2> SUFFICES ASSUME HarnessInv PROVE HarnessTypeOK
        OBVIOUS
    <2> DEFINE V == [episode : DOMAIN suite, nr : Nat, category : CheckpointCategory,
                     passed : BOOLEAN]
    <2>1. \A i \in DOMAIN results : results[i] \in V
        <3>1. \A i \in DOMAIN results : results[i] \in ProbeResult
            BY ElementOf DEF HarnessInv
        <3> QED
            BY <3>1 DEF HarnessInv, ProbeResult
    <2>2. results \in Seq(V)
        <3> HIDE DEF V
        <3> QED
            BY <2>1 DEF HarnessInv
    <2> QED
        BY <2>2 DEF HarnessInv, ScriptOK, HarnessTypeOK, GateInv
<1> QED
    BY <1>1, HarnessInvariant, PTL

(***************************************************************************)
(* The verdicts.  An episode asks for the same operations whenever it is   *)
(* played, and the first of them replaces the store, so what it comes to   *)
(* can be told from the episode alone, but for the ids of the rows, which  *)
(* are fresh.  A replay is an episode played on a store whose ids are the  *)
(* numbers of the writes; the harness mirrors it, operation by operation.  *)
(***************************************************************************)
\* The index of a replay.
Key == [lesson : Text, id : Nat]

Replica ==
    [row : [Nat -> Optional(MemoryEntry)], dead : SUBSET Nat,
     vector : [Nat -> Optional(VectorIds)], items : Seq(Key)]

Blank == [row |-> [n \in Nat |-> None], dead |-> {}, vector |-> [n \in Nat |-> None], items |-> <<>>]

Stored(a, n, row) ==
    [row |-> [a.row EXCEPT ![n] = row], dead |-> a.dead \ {n},
     vector |-> [a.vector EXCEPT ![n] = None], items |-> Indexed(a.items, row.lesson, n)]

Bound(a, n, vector) ==
    [row |-> a.row, dead |-> a.dead, vector |-> [a.vector EXCEPT ![n] = vector], items |-> a.items]

Buried(a, n, part) ==
    [row |-> a.row, dead |-> a.dead \cup {n},
     vector |-> [a.vector EXCEPT ![n] = None], items |-> Unindexed(a.items, n, part)]

\* The row that a phrase leads to, if any.
Leads(a, part, n) ==
    LessonPlace(a.items, part) # 0 /\ n = a.items[LessonPlace(a.items, part)].id

\* What an operation makes of a replica.
IngestAfter(a, call, n) ==
    IF Admissible(call) THEN Stored(a, n, FromCandidate(Outcome[call].candidate)) ELSE a

BindAfter(a, part, vector) ==
    IF \E n \in Nat \ a.dead : Leads(a, part, n)
    THEN Bound(a, a.items[LessonPlace(a.items, part)].id, vector) ELSE a

ForgetAfter(a, part, principal) ==
    IF \E n \in Nat \ a.dead : Leads(a, part, n) /\ a.row[n].principal = principal
    THEN Buried(a, a.items[LessonPlace(a.items, part)].id, part) ELSE a

After(a, op) ==
    CASE op.op = "reset"  -> Blank
      [] op.op = "ingest" -> IngestAfter(a, EpisodeCall(op.arg), op.nr)
      [] op.op = "bind"   -> BindAfter(a, op.arg.lesson_contains, op.arg.vector_id)
      [] op.op = "forget" -> ForgetAfter(a, op.arg.lesson_contains, op.arg.principal)
      [] op.op = "probe"  -> a

IsReplay(r, ops) == r[0] = Blank /\ \A k \in 1 .. Len(ops) : r[k] = After(r[k - 1], ops[k])
Replay(ops) == CHOOSE r : IsReplay(r, ops)

\* What a probe of a replica gets.
Answer(a, filters) ==
    {a.row[n].lesson : n \in {n \in Nat : /\ a.row[n] # None /\ n \notin a.dead
                                          /\ MatchesTags(a.row[n], filters)
                                          /\ PassesAcl(a.row[n], filters) = "grant"}}

Alive(a, part) == \E n \in Nat \ a.dead : Leads(a, part, n) /\ a.vector[n] # None

DueOn(a, probe) == PassedBy(probe, Answer(a, probe.filters), Alive(a, probe.expect_contains))

\* The verdict on a probe of an episode.
DueVerdict(e, nr) ==
    DueOn(Replay(Operations(e))[ProbesFrom(e) + nr - 1], e.checkpoints[nr])

\* Replays exist.
LEMMA ReplayExists ==
    ASSUME NEW ops, Len(ops) \in Nat
    PROVE  IsReplay(Replay(ops), ops)
<1> DEFINE Good(r, n) == r[0] = Blank /\ \A k \in 1 .. n : r[k] = After(r[k - 1], ops[k])
           S == {n \in Nat : \E r : Good(r, n)}
<1>1. 0 \in S
    <2>1. PICK r : r = [k \in {0} |-> Blank]
        OBVIOUS
    <2>2. Good(r, 0)
        BY <2>1
    <2> QED
        BY <2>2
<1>2. ASSUME NEW n \in Nat, n \in S PROVE n + 1 \in S
    <2>1. PICK r : Good(r, n)
        BY <1>2
    <2>2. PICK longer :
              longer = [k \in Nat |-> IF k = n + 1 THEN After(r[n], ops[n + 1]) ELSE r[k]]
        OBVIOUS
    <2>3. /\ longer[n + 1] = After(r[n], ops[n + 1])
          /\ \A k \in Nat : k # n + 1 => longer[k] = r[k]
        BY <2>2
    <2>4. longer[0] = Blank
        BY <2>1, <2>3
    <2>5. ASSUME NEW k \in 1 .. (n + 1) PROVE longer[k] = After(longer[k - 1], ops[k])
        <3>1. CASE k = n + 1
            <4>1. longer[k - 1] = r[n]
                BY <2>3, <3>1
            <4> QED
                BY <2>3, <3>1, <4>1
        <3>2. CASE k # n + 1
            <4>1. k \in 1 .. n /\ k - 1 \in Nat /\ k - 1 # n + 1 /\ k \in Nat
                BY <3>2
            <4>2. longer[k] = r[k] /\ longer[k - 1] = r[k - 1]
                BY <2>3, <3>2, <4>1
            <4> QED
                BY <2>1, <4>1, <4>2
        <3> QED
            BY <3>1, <3>2
    <2>6. Good(longer, n + 1)
        BY <2>4, <2>5
    <2> HIDE DEF Good
    <2> QED
        BY <2>6
<1>3. Len(ops) \in S
    <2> HIDE DEF S
    <2> QED
        BY <1>1, <1>2, Upward
<1>4. PICK r : Good(r, Len(ops))
    BY <1>3
<1>5. IsReplay(r, ops)
    BY <1>4 DEF IsReplay
<1> QED
    BY <1>5 DEF Replay

\* The places of a tuple.
LEMMA DomainOf ==
    ASSUME NEW T, NEW s \in Seq(T)
    PROVE  DOMAIN s = 1 .. Len(s)
OBVIOUS

\* What a tuple has at a number up to its length.
LEMMA ElementAt ==
    ASSUME NEW T, NEW s \in Seq(T), NEW i \in 1 .. Len(s)
    PROVE  s[i] \in T
OBVIOUS

\* A tuple over some values is one over more values.
LEMMA OverMore ==
    ASSUME NEW T, NEW T2, T \subseteq T2, NEW s \in Seq(T)
    PROVE  s \in Seq(T2)
OBVIOUS

\* What a new item in the place of another makes of a sequence.
LEMMA ReplacedItem ==
    ASSUME NEW T, NEW s \in Seq(T), NEW found \in 1 .. Len(s), NEW item \in T,
           NEW new, new = [s EXCEPT ![found] = item]
    PROVE  /\ new \in Seq(T) /\ Len(new) = Len(s) /\ new[found] = item
           /\ \A i \in 1 .. Len(s) : i # found => new[i] = s[i]
OBVIOUS

\* What one more item makes of a sequence.
LEMMA OneMoreItem ==
    ASSUME NEW T, NEW s \in Seq(T), NEW item \in T, NEW longer, longer = Append(s, item)
    PROVE  /\ longer \in Seq(T) /\ Len(longer) = Len(s) + 1 /\ longer[Len(s) + 1] = item
           /\ \A i \in 1 .. Len(s) : longer[i] = s[i]
OBVIOUS

(***************************************************************************)
(* Two indexes that differ in the ids only.                                *)
(***************************************************************************)
\* shown is items with each id replaced by where place puts it.
Renamed(place, shown, items) ==
    /\ Len(shown) = Len(items)
    /\ \A i \in 1 .. Len(items) :
          shown[i] = [lesson |-> items[i].lesson, id |-> place[items[i].id]]

\* A phrase is found in the same place.
LEMMA SamePlace ==
    ASSUME NEW items \in Seq(Key), NEW shown \in Seq(IndexItem), NEW place,
           Renamed(place, shown, items), NEW part
    PROVE  /\ LessonPlace(shown, part) = LessonPlace(items, part)
           /\ LessonPlace(items, part) \in 0 .. Len(items)
<1>1. PICK n \in Nat : n = Len(items) /\ n = Len(shown)
    BY DEF Renamed
<1>2. ASSUME NEW i \in 1 .. n PROVE shown[i].lesson = items[i].lesson
    <2>1. shown[i] = [lesson |-> items[i].lesson, id |-> place[items[i].id]]
        BY <1>1 DEF Renamed
    <2> QED
        BY <2>1
<1> DEFINE I == {i \in 1 .. Len(items) : <<part, items[i].lesson>> \in Within}
           J == {i \in 1 .. Len(shown) : <<part, shown[i].lesson>> \in Within}
<1>3. I = J
    BY <1>1, <1>2
<1>4. LessonPlace(items, part) = IF I # {} THEN Min(I) ELSE 0
    BY DEF LessonPlace, SelectInSeq
<1>5. LessonPlace(shown, part) = IF J # {} THEN Min(J) ELSE 0
    BY DEF LessonPlace, SelectInSeq
<1>6. I \in SUBSET Nat /\ I \subseteq 1 .. n
    BY <1>1
<1> HIDE DEF I, J
<1>7. I # {} => Min(I) \in I
    BY <1>6, HasMin
<1>8. LessonPlace(items, part) \in 0 .. n
    <2>1. CASE I = {}
        BY <1>4, <2>1
    <2>2. CASE I # {}
        <3>1. LessonPlace(items, part) \in 1 .. n
            BY <1>4, <1>6, <1>7, <2>2
        <3> QED
            BY <3>1
    <2> QED
        BY <2>1, <2>2
<1> QED
    BY <1>1, <1>3, <1>4, <1>5, <1>8

\* A lesson goes to the same place.
LEMMA SameEntry ==
    ASSUME NEW items \in Seq(Key), NEW shown \in Seq(IndexItem), NEW place,
           Renamed(place, shown, items), NEW lesson, NEW id, NEW n
    PROVE  \E found \in 0 .. Len(items) :
               /\ Entered(found, Indexed(shown, lesson, id), shown, lesson, id)
               /\ Entered(found, Indexed(items, lesson, n), items, lesson, n)
<1>1. PICK l \in Nat : l = Len(items) /\ l = Len(shown)
    BY DEF Renamed
<1>2. ASSUME NEW i \in 1 .. l PROVE shown[i].lesson = items[i].lesson
    <2>1. shown[i] = [lesson |-> items[i].lesson, id |-> place[items[i].id]]
        BY <1>1 DEF Renamed
    <2> QED
        BY <2>1
<1> DEFINE I == {i \in 1 .. Len(items) : items[i].lesson = lesson}
           J == {i \in 1 .. Len(shown) : shown[i].lesson = lesson}
<1>3. I = J
    BY <1>1, <1>2
<1>4. PICK found : found = IF I # {} THEN Min(I) ELSE 0
    OBVIOUS
<1>5. Indexed(items, lesson, n) =
          IF found = 0 THEN Append(items, [lesson |-> lesson, id |-> n])
          ELSE [items EXCEPT ![found].id = n]
    BY <1>4 DEF Indexed, SelectInSeq
<1>6. found = IF J # {} THEN Min(J) ELSE 0
    <2> HIDE DEF I, J
    <2> QED
        BY <1>3, <1>4
<1>7. Indexed(shown, lesson, id) =
          IF found = 0 THEN Append(shown, [lesson |-> lesson, id |-> id])
          ELSE [shown EXCEPT ![found].id = id]
    BY <1>6 DEF Indexed, SelectInSeq
<1>8. /\ I \in SUBSET Nat /\ I \subseteq 1 .. l
      /\ \A i \in 1 .. l : i \in I <=> items[i].lesson = lesson
    BY <1>1
<1> HIDE DEF I, J
<1>9. I # {} => Min(I) \in I
    BY <1>8, HasMin
<1>10. DOMAIN items = 1 .. l /\ DOMAIN shown = 1 .. l
    BY <1>1, DomainOf
<1>11. /\ found \in 0 .. l
       /\ found # 0 => items[found].lesson = lesson /\ shown[found].lesson = lesson
       /\ found = 0 => \A i \in 1 .. l : items[i].lesson # lesson /\ shown[i].lesson # lesson
    <2>1. CASE I = {}
        BY <1>2, <1>4, <1>8, <2>1
    <2>2. CASE I # {}
        <3>1. found \in I
            BY <1>4, <1>9, <2>2
        <3>2. found \in 1 .. l /\ items[found].lesson = lesson
            BY <1>8, <3>1
        <3> QED
            BY <1>2, <3>2
    <2> QED
        BY <2>1, <2>2
<1> QED
    BY <1>1, <1>5, <1>7, <1>11, <1>10 DEF Entered

\* This id is where place puts n, and nothing else of these.
OnlyThat(place, items, n, id) ==
    \A i \in 1 .. Len(items) : items[i].id = n <=> place[items[i].id] = id

\* Without an id, and without what place puts there, they still differ in the
\* ids only.
LEMMA SameRemoval ==
    ASSUME NEW K, NEW items \in Seq(K), NEW T, NEW shown \in Seq(T), NEW place,
           Renamed(place, shown, items), NEW id, NEW n, NEW part,
           OnlyThat(place, items, n, id)
    PROVE  /\ Unindexed(items, n, part) \in Seq(K)
           /\ Renamed(place, Unindexed(shown, id, part), Unindexed(items, n, part))
<1>1. PICK l \in Nat : l = Len(items) /\ l = Len(shown)
    BY DEF Renamed
<1>2. \E acc \in [0 .. l -> Seq(T)] :
          /\ acc[0] = <<>> /\ acc[l] = Unindexed(shown, id, part)
          /\ \A m \in 1 .. l : acc[m] = Without(id, acc[m - 1], shown[m])
    <2>1. PICK kept : kept = Unindexed(shown, id, part)
        OBVIOUS
    <2>2. \E acc \in [0 .. Len(shown) -> Seq(T)] :
              /\ acc[0] = <<>> /\ acc[Len(shown)] = kept
              /\ \A m \in 1 .. Len(shown) : acc[m] = Without(id, acc[m - 1], shown[m])
        BY <2>1, UnindexedFold
    <2>3. \E acc \in [0 .. l -> Seq(T)] :
              /\ acc[0] = <<>> /\ acc[l] = kept
              /\ \A m \in 1 .. l : acc[m] = Without(id, acc[m - 1], shown[m])
        BY <1>1, <2>2
    <2> QED
        BY <2>1, <2>3
<1>3. PICK before \in [0 .. l -> Seq(K)] :
          /\ before[0] = <<>> /\ before[l] = Unindexed(items, n, part)
          /\ \A m \in 1 .. l : before[m] = Without(n, before[m - 1], items[m])
    <2>1. PICK kept : kept = Unindexed(items, n, part)
        OBVIOUS
    <2>2. \E acc \in [0 .. Len(items) -> Seq(K)] :
              /\ acc[0] = <<>> /\ acc[Len(items)] = kept
              /\ \A m \in 1 .. Len(items) : acc[m] = Without(n, acc[m - 1], items[m])
        BY <2>1, UnindexedFold
    <2> QED
        BY <1>1, <2>1, <2>2
<1>4. PICK after \in [0 .. l -> Seq(T)] :
          /\ after[0] = <<>> /\ after[l] = Unindexed(shown, id, part)
          /\ \A m \in 1 .. l : after[m] = Without(id, after[m - 1], shown[m])
    BY <1>2
<1> DEFINE S == {m \in Nat : m <= l => Renamed(place, after[m], before[m])}
<1>5. 0 \in S
    <2>1. Len(before[0]) = 0 /\ Len(after[0]) = 0 /\ 1 .. 0 = {}
        BY <1>3, <1>4
    <2> QED
        BY <2>1 DEF Renamed
<1>6. ASSUME NEW m \in Nat, m \in S PROVE m + 1 \in S
    <2> SUFFICES ASSUME m + 1 <= l PROVE Renamed(place, after[m + 1], before[m + 1])
        OBVIOUS
    <2>1. m \in 0 .. l /\ m + 1 \in 1 .. l /\ (m + 1) - 1 = m /\ m <= l
        OBVIOUS
    <2>2. PICK a \in Seq(K), b \in Seq(T) :
              a = before[m] /\ b = after[m] /\ Renamed(place, b, a)
        BY <1>6, <2>1
    <2>3. PICK key \in K, item \in T :
              /\ key = items[m + 1] /\ item = shown[m + 1]
              /\ item = [lesson |-> key.lesson, id |-> place[key.id]]
              /\ key.id = n <=> place[key.id] = id
        <3>1. items[m + 1] \in K
            <4>1. m + 1 \in 1 .. Len(items)
                BY <1>1, <2>1
            <4> QED
                BY <4>1, ElementAt
        <3>2. shown[m + 1] \in T
            <4>1. m + 1 \in 1 .. Len(shown)
                BY <1>1, <2>1
            <4> QED
                BY <4>1, ElementAt
        <3>3. shown[m + 1] = [lesson |-> items[m + 1].lesson, id |-> place[items[m + 1].id]]
            BY <1>1, <2>1 DEF Renamed
        <3>4. items[m + 1].id = n <=> place[items[m + 1].id] = id
            BY <1>1, <2>1 DEF OnlyThat
        <3> QED
            BY <3>1, <3>3, <3>4, <3>2
    <2>4. before[m + 1] = Without(n, a, key) /\ after[m + 1] = Without(id, b, item)
        BY <1>3, <1>4, <2>1, <2>2, <2>3
    <2>5. item.id = place[key.id]
        BY <2>3
    <2>6. CASE key.id = n
        BY <2>2, <2>3, <2>4, <2>5, <2>6 DEF Without
    <2>7. CASE key.id # n
        <3>1. PICK c : c = Append(a, key)
            OBVIOUS
        <3>2. PICK d : d = Append(b, item)
            OBVIOUS
        <3>3. PICK k \in Nat : k = Len(a) /\ k = Len(b)
            BY <2>2 DEF Renamed
        <3>4. Len(c) = k + 1 /\ c[k + 1] = key /\ \A i \in 1 .. k : c[i] = a[i]
            <4>1. /\ Len(c) = Len(a) + 1 /\ c[Len(a) + 1] = key
                  /\ \A i \in 1 .. Len(a) : c[i] = a[i]
                BY <3>1, OneMoreItem
            <4> QED
                BY <3>3, <4>1
        <3>5. Len(d) = k + 1 /\ d[k + 1] = item /\ \A i \in 1 .. k : d[i] = b[i]
            <4>1. /\ Len(d) = Len(b) + 1 /\ d[Len(b) + 1] = item
                  /\ \A i \in 1 .. Len(b) : d[i] = b[i]
                BY <3>2, OneMoreItem
            <4> QED
                BY <3>3, <4>1
        <3>6. /\ Len(c) = k + 1 /\ Len(d) = k + 1 /\ c[k + 1] = key /\ d[k + 1] = item
              /\ \A i \in 1 .. k : c[i] = a[i] /\ d[i] = b[i]
            BY <3>4, <3>5
        <3>7. \A i \in 1 .. k : b[i] = [lesson |-> a[i].lesson, id |-> place[a[i].id]]
            BY <2>2, <3>3 DEF Renamed
        <3>8. \A i \in 1 .. (k + 1) : i = k + 1 \/ i \in 1 .. k
            OBVIOUS
        <3>9. \A i \in 1 .. (k + 1) : d[i] = [lesson |-> c[i].lesson, id |-> place[c[i].id]]
            BY <2>3, <3>6, <3>7, <3>8
        <3>10. Renamed(place, d, c)
            BY <3>6, <3>9 DEF Renamed
        <3>11. before[m + 1] = c /\ after[m + 1] = d
            BY <2>3, <2>4, <2>5, <2>7, <3>1, <3>2 DEF Without
        <3> QED
            BY <3>10, <3>11
    <2> QED
        BY <2>6, <2>7
<1>7. l \in S
    <2> HIDE DEF S
    <2> QED
        BY <1>5, <1>6, Upward
<1>8. l \in 0 .. l /\ l <= l
    OBVIOUS
<1>9. before[l] \in Seq(K) /\ Renamed(place, after[l], before[l])
    BY <1>7, <1>8
<1> QED
    BY <1>3, <1>4, <1>9

(***************************************************************************)
(* The harness mirrors the replay.                                         *)
(***************************************************************************)
\* The keys of an index whose ids have rows.
KeysOf(row) == {key \in Key : row[key.id] # None}

\* The rows of the replica are rows of the store, in the same condition, and
\* come from the first d operations.
RowsMirrored(place, a, d) ==
    \A n \in Nat : a.row[n] # None =>
        /\ n < d
        /\ place[n] \in MemoryIds
        /\ entries[place[n]] = a.row[n]
        /\ tombstones[place[n]] # None <=> n \in a.dead
        /\ embeddings[place[n]] = a.vector[n]

\* No two of them are the same, and the store has no others.
OneToOne(place, row) ==
    \A n, m \in Nat : row[n] # None /\ row[m] # None /\ place[n] = place[m] => n = m
AllMirrored(place, row) ==
    \A id \in MemoryIds : entries[id] # None => \E n \in Nat : row[n] # None /\ place[n] = id

Mirrors(place, a, d) ==
    /\ a \in Replica
    /\ place \in [Nat -> Optional(MemoryIds)]
    /\ RowsMirrored(place, a, d)
    /\ OneToOne(place, a.row)
    /\ AllMirrored(place, a.row)
    /\ a.items \in Seq(KeysOf(a.row))
    /\ Renamed(place, index, a.items)

\* One more operation that changes nothing.
LEMMA MirrorsStays ==
    ASSUME NEW place, NEW a, NEW d \in Nat, Mirrors(place, a, d),
           UNCHANGED <<entries, tombstones, embeddings, index>>
    PROVE  Mirrors(place, a, d + 1)'
<1>1. \A n \in Nat : n < d => n < d + 1
    OBVIOUS
<1>2. RowsMirrored(place, a, d + 1)'
    BY <1>1 DEF Mirrors, RowsMirrored
<1> QED
    BY <1>2 DEF Mirrors, AllMirrored

\* reset() mirrors the blank replica.
LEMMA ResetMirrors ==
    ASSUME Clear, index' = <<>>
    PROVE  \E place : Mirrors(place, Blank, 1)'
<1>1. PICK place : place = [n \in Nat |-> None]
    OBVIOUS
<1>2. Blank \in Replica
    <2>1. <<>> \in Seq(Key)
        OBVIOUS
    <2> QED
        BY <2>1 DEF Blank, Replica, Optional
<1>3. /\ \A n \in Nat : Blank.row[n] = None
      /\ Blank.items = <<>>
    BY DEF Blank
<1>4. Blank.items \in Seq(KeysOf(Blank.row)) /\ Renamed(place, index', Blank.items)
    <2>1. Len(Blank.items) = 0 /\ index' = Blank.items /\ 1 .. 0 = {}
        BY <1>3
    <2>2. Blank.items \in Seq(KeysOf(Blank.row))
        BY <1>3
    <2> QED
        BY <2>1, <2>2 DEF Renamed
<1>5. AllMirrored(place, Blank.row)'
    BY DEF AllMirrored, Clear
<1>6. Mirrors(place, Blank, 1)'
    BY <1>1, <1>2, <1>3, <1>4, <1>5 DEF Mirrors, RowsMirrored, OneToOne, Optional
<1> QED
    BY <1>6

\* The index after a new row, on both sides.
LEMMA EntryMirrors ==
    ASSUME NEW place, NEW row \in [Nat -> Optional(MemoryEntry)],
           NEW K, K = KeysOf(row), NEW items \in Seq(K), NEW shown \in Seq(IndexItem),
           Renamed(place, shown, items),
           NEW d \in Nat, row[d] = None, place \in [Nat -> Optional(MemoryIds)],
           NEW entry \in MemoryEntry, NEW id \in MemoryIds,
           NEW row2, row2 = [row EXCEPT ![d] = entry],
           NEW place2, place2 = [place EXCEPT ![d] = id]
    PROVE  /\ Indexed(items, entry.lesson, d) \in Seq(KeysOf(row2))
           /\ Renamed(place2, Indexed(shown, entry.lesson, id), Indexed(items, entry.lesson, d))
<1>1. PICK lesson \in Text : lesson = entry.lesson
    BY DEF MemoryEntry
<1>2. row2[d] # None /\ \A n \in Nat : row[n] # None => n # d /\ row2[n] = row[n]
    BY IdAssumption
<1>3. place2[d] = id /\ \A n \in Nat : n # d => place2[n] = place[n]
    OBVIOUS
<1>4. PICK K2 : K2 = KeysOf(row2)
    OBVIOUS
<1>5. K \subseteq Key /\ K \subseteq K2 /\ \A key \in K : key.id \in Nat /\ key.id # d
    <2>1. \A key \in Key : key.id \in Nat
        BY DEF Key
    <2> QED
        BY <1>2, <1>4, <2>1 DEF KeysOf
<1>6. PICK new \in Key : new = [lesson |-> lesson, id |-> d]
    BY DEF Key
<1>7. new \in K2
    BY <1>2, <1>4, <1>6 DEF KeysOf
<1>8. PICK item \in IndexItem : item = [lesson |-> lesson, id |-> id]
    BY DEF IndexItem
<1>9. items \in Seq(K) /\ items \in Seq(K2) /\ items \in Seq(Key)
    BY <1>4, <1>5, OverMore
<1>10. PICK found \in 0 .. Len(items) :
          /\ Entered(found, Indexed(shown, lesson, id), shown, lesson, id)
          /\ Entered(found, Indexed(items, lesson, d), items, lesson, d)
    BY <1>9, SameEntry
<1>11. PICK l \in Nat : l = Len(items) /\ l = Len(shown)
    BY <1>9 DEF Renamed
<1>12. \A i \in 1 .. l :
          /\ items[i] \in K /\ items[i].id # d
          /\ shown[i] = [lesson |-> items[i].lesson, id |-> place2[items[i].id]]
    <2> SUFFICES ASSUME NEW i \in 1 .. l
                 PROVE  /\ items[i] \in K /\ items[i].id # d
                        /\ shown[i] = [lesson |-> items[i].lesson, id |-> place2[items[i].id]]
        OBVIOUS
    <2>1. items[i] \in K
        BY <1>9, <1>11, ElementAt
    <2>2. items[i].id \in Nat /\ items[i].id # d
        BY <1>5, <2>1
    <2>3. shown[i] = [lesson |-> items[i].lesson, id |-> place[items[i].id]]
        BY <1>11 DEF Renamed
    <2> QED
        BY <1>3, <2>1, <2>2, <2>3
<1>13. PICK c, e : c = Indexed(items, lesson, d) /\ e = Indexed(shown, lesson, id)
    OBVIOUS
<1>14. item = [lesson |-> new.lesson, id |-> place2[new.id]]
    BY <1>3, <1>6, <1>8
<1>15. CASE found = 0
    <2>1. c = Append(items, new) /\ e = Append(shown, item)
        BY <1>6, <1>8, <1>10, <1>13, <1>15 DEF Entered
    <2>2. /\ c \in Seq(K2) /\ Len(c) = l + 1 /\ c[l + 1] = new
          /\ \A i \in 1 .. l : c[i] = items[i]
        <3>1. /\ c \in Seq(K2) /\ Len(c) = Len(items) + 1 /\ c[Len(items) + 1] = new
              /\ \A i \in 1 .. Len(items) : c[i] = items[i]
            BY <1>7, <1>9, <2>1, OneMoreItem
        <3> QED
            BY <1>11, <3>1
    <2>3. Len(e) = l + 1 /\ e[l + 1] = item /\ \A i \in 1 .. l : e[i] = shown[i]
        <3>1. /\ Len(e) = Len(shown) + 1 /\ e[Len(shown) + 1] = item
              /\ \A i \in 1 .. Len(shown) : e[i] = shown[i]
            BY <2>1, OneMoreItem
        <3> QED
            BY <1>11, <3>1
    <2>4. ASSUME NEW i \in 1 .. (l + 1)
          PROVE  e[i] = [lesson |-> c[i].lesson, id |-> place2[c[i].id]]
        <3>1. CASE i = l + 1
            BY <1>14, <2>2, <2>3, <3>1
        <3>2. CASE i # l + 1
            <4>1. i \in 1 .. l
                BY <3>2
            <4> QED
                BY <1>12, <2>2, <2>3, <4>1
        <3> QED
            BY <3>1, <3>2
    <2>5. Renamed(place2, e, c)
        BY <2>2, <2>3, <2>4 DEF Renamed
    <2> QED
        BY <1>1, <1>4, <1>13, <2>2, <2>5
<1>16. CASE found # 0
    <2>1. found \in 1 .. l
        BY <1>11, <1>16
    <2>2. c = [items EXCEPT ![found].id = d] /\ e = [shown EXCEPT ![found].id = id]
        BY <1>10, <1>13, <1>16 DEF Entered
    <2>3. [items[found] EXCEPT !.id = d] = new /\ [shown[found] EXCEPT !.id = id] = item
        <3>1. items[found] \in Key /\ items[found].lesson = lesson
            BY <1>5, <1>10, <1>12, <1>16, <2>1 DEF Entered
        <3>2. shown[found] = [lesson |-> lesson, id |-> place2[items[found].id]]
            BY <1>12, <2>1, <3>1
        <3>3. items[found] = [lesson |-> lesson, id |-> items[found].id]
            BY <3>1 DEF Key
        <3>4. [items[found] EXCEPT !.id = d] = [lesson |-> lesson, id |-> d]
            BY <3>3
        <3>5. [shown[found] EXCEPT !.id = id] = [lesson |-> lesson, id |-> id]
            BY <3>2
        <3> QED
            BY <1>6, <1>8, <3>4, <3>5
    <2>4. c = [items EXCEPT ![found] = new] /\ e = [shown EXCEPT ![found] = item]
        BY <2>2, <2>3
    <2>5. c \in Seq(K2) /\ Len(c) = l /\ c[found] = new
          /\ \A i \in 1 .. l : i # found => c[i] = items[i]
        <3>1. c \in Seq(K2) /\ Len(c) = Len(items) /\ c[found] = new
              /\ \A i \in 1 .. Len(items) : i # found => c[i] = items[i]
            <4>1. found \in 1 .. Len(items) /\ items \in Seq(K2) /\ new \in K2
                BY <1>7, <1>9, <1>11, <2>1
            <4>2. c = [items EXCEPT ![found] = new]
                BY <2>4
            <4> QED
                BY <4>1, <4>2, ReplacedItem
        <3> QED
            BY <1>11, <3>1
    <2>6. Len(e) = l /\ e[found] = item /\ \A i \in 1 .. l : i # found => e[i] = shown[i]
        <3>1. Len(e) = Len(shown) /\ e[found] = item
              /\ \A i \in 1 .. Len(shown) : i # found => e[i] = shown[i]
            BY <1>11, <2>1, <2>4, ReplacedItem
        <3> QED
            BY <1>11, <3>1
    <2>7. ASSUME NEW i \in 1 .. l
          PROVE  e[i] = [lesson |-> c[i].lesson, id |-> place2[c[i].id]]
        <3>1. CASE i = found
            <4>1. c[i] = new /\ e[i] = item
                BY <2>5, <2>6, <3>1
            <4> QED
                BY <1>14, <4>1
        <3>2. CASE i # found
            <4>1. c[i] = items[i] /\ e[i] = shown[i]
                BY <2>5, <2>6, <3>2
            <4> QED
                BY <1>12, <4>1
        <3> QED
            BY <3>1, <3>2
    <2>8. Renamed(place2, e, c)
        BY <2>5, <2>6, <2>7 DEF Renamed
    <2> QED
        BY <1>1, <1>4, <1>13, <2>5, <2>8
<1> QED
    BY <1>15, <1>16

\* A new row, on both sides.
LEMMA StoredMirrors ==
    ASSUME StoreInv, index \in Seq(IndexItem), NEW d \in Nat, NEW a, NEW place,
           Mirrors(place, a, d), NEW id \in MemoryIds, NEW entry \in MemoryEntry,
           Insert(id, entry), index' = Indexed(index, entry.lesson, id)
    PROVE  \E place2 : Mirrors(place2, Stored(a, d, entry), d + 1)'
<1>1. PICK place2 : place2 = [place EXCEPT ![d] = id]
    OBVIOUS
<1>2. PICK b : b = Stored(a, d, entry)
    OBVIOUS
<1>3. /\ b.row = [a.row EXCEPT ![d] = entry] /\ b.dead = a.dead \ {d}
      /\ b.vector = [a.vector EXCEPT ![d] = None] /\ b.items = Indexed(a.items, entry.lesson, d)
      /\ b = [row |-> b.row, dead |-> b.dead, vector |-> b.vector, items |-> b.items]
    BY <1>2 DEF Stored
<1>4. /\ a.row \in [Nat -> Optional(MemoryEntry)] /\ a.dead \in SUBSET Nat
      /\ a.vector \in [Nat -> Optional(VectorIds)]
    BY DEF Mirrors, Replica
<1>5. place \in [Nat -> Optional(MemoryIds)] /\ place2 \in [Nat -> Optional(MemoryIds)]
    BY <1>1 DEF Mirrors, Optional
<1>6. RowsMirrored(place, a, d) /\ OneToOne(place, a.row) /\ AllMirrored(place, a.row)
    BY DEF Mirrors
<1>7. a.row[d] = None
    BY <1>6 DEF RowsMirrored
<1>8. entry # None /\ b.row \in [Nat -> Optional(MemoryEntry)]
    BY <1>3, <1>4, IdAssumption DEF Optional
<1>9. /\ b.row[d] = entry /\ d \notin b.dead /\ b.vector[d] = None /\ place2[d] = id
      /\ \A n \in Nat : n # d => /\ b.row[n] = a.row[n] /\ b.vector[n] = a.vector[n]
                                 /\ n \in b.dead <=> n \in a.dead
                                 /\ place2[n] = place[n]
    BY <1>1, <1>3, <1>4, <1>5
<1>10. /\ entries[id] = None /\ tombstones[id] = None /\ embeddings[id] = None
       /\ UNCHANGED <<tombstones, embeddings>> /\ entries'[id] = entry
       /\ \A other \in MemoryIds : other # id => entries'[other] = entries[other]
    <2>1. entries[id] = None
        BY DEF StoreInv, OnlyMintedKnown, Known, Insert
    <2>2. tombstones[id] = None /\ embeddings[id] = None
        BY <2>1 DEF StoreInv, TombstoneByOwner, NoGhostEmbedding, Known, IsTombstoned, Live
    <2> QED
        BY <2>1, <2>2 DEF Insert, StoreInv, StoreTypeOK
<1>11. \A n \in Nat : a.row[n] # None => n # d /\ n < d /\ place[n] \in MemoryIds /\ place[n] # id
    BY <1>6, <1>7, <1>10 DEF RowsMirrored
<1>12. RowsMirrored(place2, b, d + 1)'
    <2> SUFFICES ASSUME NEW n \in Nat, b.row[n] # None
                 PROVE  /\ n < d + 1
                        /\ place2[n] \in MemoryIds
                        /\ entries'[place2[n]] = b.row[n]
                        /\ tombstones'[place2[n]] # None <=> n \in b.dead
                        /\ embeddings'[place2[n]] = b.vector[n]
        BY DEF RowsMirrored
    <2>1. CASE n = d
        BY <1>9, <1>10, <2>1
    <2>2. CASE n # d
        <3>1. /\ n < d + 1 /\ place2[n] = place[n] /\ place[n] \in MemoryIds /\ place[n] # id
              /\ a.row[n] # None
            BY <1>9, <1>11, <2>2
        <3>2. /\ entries[place[n]] = a.row[n]
              /\ tombstones[place[n]] # None <=> n \in a.dead
              /\ embeddings[place[n]] = a.vector[n]
            BY <1>6, <3>1 DEF RowsMirrored
        <3> QED
            BY <1>9, <1>10, <2>2, <3>1, <3>2
    <2> QED
        BY <2>1, <2>2
<1>13. OneToOne(place2, b.row)
    BY <1>6, <1>9, <1>11 DEF OneToOne
<1>14. AllMirrored(place2, b.row)'
    <2> SUFFICES ASSUME NEW other \in MemoryIds, entries'[other] # None
                 PROVE  \E n \in Nat : b.row[n] # None /\ place2[n] = other
        BY DEF AllMirrored
    <2>1. CASE other = id
        BY <1>8, <1>9, <2>1
    <2>2. CASE other # id
        <3>1. PICK n \in Nat : a.row[n] # None /\ place[n] = other
            BY <1>6, <1>10, <2>2 DEF AllMirrored
        <3>2. n # d
            BY <1>7, <3>1
        <3> QED
            BY <1>9, <3>1, <3>2
    <2> QED
        BY <2>1, <2>2
<1>15. b.items \in Seq(KeysOf(b.row)) /\ Renamed(place2, index', b.items)
    <2>1. PICK row \in [Nat -> Optional(MemoryEntry)] : row = a.row
        BY <1>4
    <2>2. PICK K : K = KeysOf(row)
        OBVIOUS
    <2>3. PICK items \in Seq(K) : items = a.items
        BY <2>1, <2>2 DEF Mirrors
    <2>4. Renamed(place, index, items) /\ row[d] = None
        BY <1>7, <2>1, <2>3 DEF Mirrors
    <2>5. PICK row2 : row2 = [row EXCEPT ![d] = entry]
        OBVIOUS
    <2>6. /\ Indexed(items, entry.lesson, d) \in Seq(KeysOf(row2))
          /\ Renamed(place2, Indexed(index, entry.lesson, id), Indexed(items, entry.lesson, d))
        BY <1>1, <1>5, <2>4, <2>5, <2>2, EntryMirrors
    <2> QED
        BY <1>3, <2>1, <2>5, <2>6, <2>3
<1>16. b \in Replica
    <2>1. b.items \in Seq(Key)
        BY <1>15 DEF KeysOf
    <2> QED
        BY <1>3, <1>4, <1>8, <2>1 DEF Replica, Optional
<1>17. Mirrors(place2, b, d + 1)'
    BY <1>5, <1>12, <1>13, <1>14, <1>15, <1>16 DEF Mirrors
<1> QED
    BY <1>2, <1>17

\* A phrase leads to the same row, on both sides, or to none.
LEMMA LeadsMirrored ==
    ASSUME NEW place, NEW a, NEW d \in Nat, Mirrors(place, a, d), index \in Seq(IndexItem),
           NEW part
    PROVE  \/ MemoryIdForLesson(part) = None /\ \A n \in Nat : ~Leads(a, part, n)
           \/ \E n \in Nat :
                 /\ a.row[n] # None
                 /\ a.items[LessonPlace(a.items, part)].id = n
                 /\ \A m \in Nat : Leads(a, part, m) <=> m = n
                 /\ MemoryIdForLesson(part) = place[n] /\ place[n] \in MemoryIds
<1>1. PICK row : row = a.row
    OBVIOUS
<1>2. PICK K : K = KeysOf(row)
    OBVIOUS
<1>3. PICK items \in Seq(K) : items = a.items
    BY <1>1, <1>2 DEF Mirrors
<1>4. \A key \in K : key \in Key /\ key.id \in Nat /\ row[key.id] # None
    BY <1>2 DEF KeysOf, Key
<1>5. items \in Seq(Key)
    <2>1. K \subseteq Key
        BY <1>4
    <2> QED
        BY <2>1, OverMore
<1>6. PICK shown \in Seq(IndexItem) : shown = index /\ Renamed(place, shown, items)
    BY <1>3 DEF Mirrors
<1>7. PICK p : p = LessonPlace(items, part)
    OBVIOUS
<1>8. LessonPlace(shown, part) = p /\ p \in 0 .. Len(items)
    BY <1>5, <1>6, <1>7, SamePlace
<1>9. MemoryIdForLesson(part) = IF p = 0 THEN None ELSE shown[p].id
    BY <1>6, <1>8 DEF MemoryIdForLesson
<1>10. \A n : Leads(a, part, n) <=> p # 0 /\ n = items[p].id
    BY <1>3, <1>7 DEF Leads
<1>11. CASE p = 0
    BY <1>9, <1>10, <1>11
<1>12. CASE p # 0
    <2>1. p \in 1 .. Len(items)
        BY <1>8, <1>12
    <2>2. items[p] \in K
        BY <2>1, ElementAt
    <2>3. PICK n \in Nat : n = items[p].id /\ row[n] # None
        BY <1>4, <2>2
    <2>4. shown[p] = [lesson |-> items[p].lesson, id |-> place[items[p].id]]
        BY <1>6, <2>1 DEF Renamed
    <2>5. shown[p].id = place[n]
        BY <2>3, <2>4
    <2>6. place[n] \in MemoryIds
        BY <1>1, <2>3 DEF Mirrors, RowsMirrored
    <2>7. a.items[LessonPlace(a.items, part)].id = n
        BY <1>3, <1>7, <2>3
    <2>8. \A m \in Nat : Leads(a, part, m) <=> m = n
        BY <1>10, <1>12, <2>3
    <2> QED
        BY <1>1, <1>9, <1>12, <2>3, <2>5, <2>6, <2>7, <2>8
<1> QED
    BY <1>11, <1>12

\* A bound vector, on both sides.
LEMMA BoundMirrors ==
    ASSUME StoreInv, NEW d \in Nat, NEW a, NEW place, Mirrors(place, a, d),
           NEW n \in Nat, a.row[n] # None, NEW vector \in VectorIds,
           n \notin a.dead, BindEmbedding(place[n], vector), index' = index
    PROVE  Mirrors(place, Bound(a, n, vector), d + 1)'
<1>1. PICK b : b = Bound(a, n, vector)
    OBVIOUS
<1>2. /\ b.row = a.row /\ b.dead = a.dead /\ b.vector = [a.vector EXCEPT ![n] = vector]
      /\ b.items = a.items
      /\ b = [row |-> b.row, dead |-> b.dead, vector |-> b.vector, items |-> b.items]
    BY <1>1 DEF Bound
<1>3. /\ a.row \in [Nat -> Optional(MemoryEntry)] /\ a.dead \in SUBSET Nat
      /\ a.vector \in [Nat -> Optional(VectorIds)] /\ a.items \in Seq(Key)
    BY DEF Mirrors, Replica
<1>4. RowsMirrored(place, a, d) /\ OneToOne(place, a.row) /\ AllMirrored(place, a.row)
    BY DEF Mirrors
<1>5. Live(place[n])
    BY <1>4 DEF RowsMirrored, Live, Known, IsTombstoned
<1>6. /\ embeddings' = [embeddings EXCEPT ![place[n]] = vector]
      /\ UNCHANGED <<entries, tombstones>> /\ embeddings \in [MemoryIds -> Optional(VectorIds)]
    BY <1>5 DEF BindEmbedding, StoreInv, StoreTypeOK
<1>7. RowsMirrored(place, b, d + 1)'
    <2> SUFFICES ASSUME NEW m \in Nat, b.row[m] # None
                 PROVE  /\ m < d + 1
                        /\ place[m] \in MemoryIds
                        /\ entries'[place[m]] = b.row[m]
                        /\ tombstones'[place[m]] # None <=> m \in b.dead
                        /\ embeddings'[place[m]] = b.vector[m]
        BY DEF RowsMirrored
    <2>1. /\ m < d /\ place[m] \in MemoryIds /\ entries[place[m]] = a.row[m]
          /\ tombstones[place[m]] # None <=> m \in a.dead
          /\ embeddings[place[m]] = a.vector[m]
        BY <1>2, <1>4 DEF RowsMirrored
    <2>2. embeddings'[place[m]] = b.vector[m]
        <3>1. CASE m = n
            BY <1>2, <1>3, <1>6, <2>1, <3>1
        <3>2. CASE m # n
            <4>1. place[m] # place[n]
                BY <1>2, <1>4, <3>2 DEF OneToOne
            <4> QED
                BY <1>2, <1>3, <1>6, <2>1, <3>2, <4>1
        <3> QED
            BY <3>1, <3>2
    <2> QED
        BY <1>2, <1>6, <2>1, <2>2
<1>8. AllMirrored(place, b.row)'
    BY <1>2, <1>4, <1>6 DEF AllMirrored
<1>9. b \in Replica
    BY <1>2, <1>3 DEF Replica, Optional
<1>10. Mirrors(place, b, d + 1)'
    BY <1>2, <1>4, <1>7, <1>8, <1>9 DEF Mirrors
<1> QED
    BY <1>1, <1>10

\* A deletion, on both sides.
LEMMA BuriedMirrors ==
    ASSUME StoreInv, NEW d \in Nat, NEW a, NEW place, Mirrors(place, a, d),
           index \in Seq(IndexItem), NEW n \in Nat, a.row[n] # None, NEW principal \in Text,
           MayTombstone(place[n], principal), Tombstone(place[n], principal),
           NEW part, index' = Unindexed(index, place[n], part)
    PROVE  Mirrors(place, Buried(a, n, part), d + 1)'
<1>1. PICK b : b = Buried(a, n, part)
    OBVIOUS
<1>2. /\ b.row = a.row /\ b.dead = a.dead \cup {n} /\ b.vector = [a.vector EXCEPT ![n] = None]
      /\ b.items = Unindexed(a.items, n, part)
      /\ b = [row |-> b.row, dead |-> b.dead, vector |-> b.vector, items |-> b.items]
    BY <1>1 DEF Buried
<1>3. /\ a.row \in [Nat -> Optional(MemoryEntry)] /\ a.dead \in SUBSET Nat
      /\ a.vector \in [Nat -> Optional(VectorIds)]
    BY DEF Mirrors, Replica
<1>4. RowsMirrored(place, a, d) /\ OneToOne(place, a.row) /\ AllMirrored(place, a.row)
    BY DEF Mirrors
<1>5. principal # None
    BY TextAssumption
<1>6. /\ tombstones' = [tombstones EXCEPT ![place[n]] = principal]
      /\ embeddings' = [embeddings EXCEPT ![place[n]] = None]
      /\ entries' = entries
      /\ tombstones \in [MemoryIds -> Optional(Text)]
      /\ embeddings \in [MemoryIds -> Optional(VectorIds)]
    BY DEF Tombstone, StoreInv, StoreTypeOK
<1>7. RowsMirrored(place, b, d + 1)'
    <2> SUFFICES ASSUME NEW m \in Nat, b.row[m] # None
                 PROVE  /\ m < d + 1
                        /\ place[m] \in MemoryIds
                        /\ entries'[place[m]] = b.row[m]
                        /\ tombstones'[place[m]] # None <=> m \in b.dead
                        /\ embeddings'[place[m]] = b.vector[m]
        BY DEF RowsMirrored
    <2>1. /\ m < d /\ place[m] \in MemoryIds /\ entries[place[m]] = a.row[m]
          /\ tombstones[place[m]] # None <=> m \in a.dead
          /\ embeddings[place[m]] = a.vector[m]
        BY <1>2, <1>4 DEF RowsMirrored
    <2>2. /\ tombstones'[place[m]] # None <=> m \in b.dead
          /\ embeddings'[place[m]] = b.vector[m]
        <3>1. CASE m = n
            BY <1>2, <1>3, <1>5, <1>6, <2>1, <3>1
        <3>2. CASE m # n
            <4>1. place[m] # place[n]
                BY <1>2, <1>4, <3>2 DEF OneToOne
            <4> QED
                BY <1>2, <1>3, <1>6, <2>1, <3>2, <4>1
        <3> QED
            BY <3>1, <3>2
    <2> QED
        BY <1>2, <1>6, <2>1, <2>2
<1>8. AllMirrored(place, b.row)'
    BY <1>2, <1>4, <1>6 DEF AllMirrored
<1>9. b.items \in Seq(KeysOf(b.row)) /\ Renamed(place, index', b.items)
    <2>1. PICK K : K = KeysOf(a.row)
        OBVIOUS
    <2>2. PICK items \in Seq(K) : items = a.items /\ Renamed(place, index, items)
        BY <2>1 DEF Mirrors
    <2>3. OnlyThat(place, items, n, place[n])
        <3>1. ASSUME NEW i \in 1 .. Len(items)
              PROVE  items[i].id = n <=> place[items[i].id] = place[n]
            <4>1. items[i] \in K
                BY ElementAt
            <4>2. items[i].id \in Nat /\ a.row[items[i].id] # None
                BY <2>1, <4>1 DEF KeysOf, Key
            <4> QED
                BY <1>4, <4>2 DEF OneToOne
        <3> QED
            BY <3>1 DEF OnlyThat
    <2>4. PICK id : id = place[n]
        OBVIOUS
    <2>5. /\ Unindexed(items, n, part) \in Seq(K)
          /\ Renamed(place, Unindexed(index, id, part), Unindexed(items, n, part))
        BY <2>2, <2>3, <2>4, SameRemoval
    <2> QED
        BY <1>2, <2>1, <2>2, <2>4, <2>5
<1>10. b \in Replica
    <2>1. PICK K : K = KeysOf(b.row)
        OBVIOUS
    <2>2. PICK items \in Seq(K) : items = b.items
        BY <1>9, <2>1
    <2>3. K \subseteq Key
        BY <2>1 DEF KeysOf
    <2>4. items \in Seq(Key)
        BY <2>3, OverMore
    <2> QED
        BY <1>2, <1>3, <2>2, <2>4 DEF Replica, Optional
<1>11. Mirrors(place, b, d + 1)'
    BY <1>2, <1>4, <1>7, <1>8, <1>9, <1>10 DEF Mirrors
<1> QED
    BY <1>1, <1>11

\* What a probe gets from the store it would get from the replica.
LEMMA ProbeMirrored ==
    ASSUME StoreInv, index \in Seq(IndexItem), NEW d \in Nat, NEW a, NEW place,
           Mirrors(place, a, d), NEW probe \in Checkpoint
    PROVE  Passed(probe) = DueOn(a, probe)
<1>1. RowsMirrored(place, a, d) /\ AllMirrored(place, a.row)
    BY DEF Mirrors
<1>2. PICK filters \in RetrievalFilter : filters = probe.filters
    BY DEF Checkpoint
<1>3. Respond(filters) = Answer(a, filters)
    <2>1. List(filters) = {id \in MemoryIds : /\ Live(id) /\ MatchesTags(entries[id], filters)
                                              /\ PassesAcl(entries[id], filters) = "grant"}
        BY SelectedIsScan DEF List
    <2>2. ASSUME NEW id \in List(filters) PROVE entries[id].lesson \in Answer(a, filters)
        <3>1. /\ id \in MemoryIds /\ Live(id) /\ MatchesTags(entries[id], filters)
              /\ PassesAcl(entries[id], filters) = "grant"
            BY <2>1
        <3>2. PICK n \in Nat : a.row[n] # None /\ place[n] = id
            BY <1>1, <3>1 DEF AllMirrored, Live, Known
        <3>3. entries[id] = a.row[n] /\ n \notin a.dead
            BY <1>1, <3>1, <3>2 DEF RowsMirrored, Live, IsTombstoned
        <3> QED
            BY <3>1, <3>2, <3>3 DEF Answer
    <2>3. ASSUME NEW n \in Nat, a.row[n] # None, n \notin a.dead,
                 MatchesTags(a.row[n], filters), PassesAcl(a.row[n], filters) = "grant"
          PROVE  a.row[n].lesson \in Respond(filters)
        <3>1. /\ place[n] \in MemoryIds /\ entries[place[n]] = a.row[n]
              /\ tombstones[place[n]] = None
            BY <1>1, <2>3 DEF RowsMirrored
        <3>2. place[n] \in List(filters)
            BY <2>1, <2>3, <3>1 DEF Live, Known, IsTombstoned
        <3> QED
            BY <3>1, <3>2 DEF Respond
    <2> QED
        BY <2>2, <2>3 DEF Respond, Answer
<1>4. PICK part : part = probe.expect_contains
    OBVIOUS
<1>5. StubEmbedding(part) # None <=> Alive(a, part)
    <2>1. CASE MemoryIdForLesson(part) = None /\ \A n \in Nat : ~Leads(a, part, n)
        BY <2>1 DEF StubEmbedding, Alive
    <2>2. CASE \E n \in Nat :
                  /\ a.row[n] # None
                  /\ a.items[LessonPlace(a.items, part)].id = n
                  /\ \A m \in Nat : Leads(a, part, m) <=> m = n
                  /\ MemoryIdForLesson(part) = place[n] /\ place[n] \in MemoryIds
        <3>1. PICK n \in Nat :
                  /\ a.row[n] # None
                  /\ \A m \in Nat : Leads(a, part, m) <=> m = n
                  /\ MemoryIdForLesson(part) = place[n] /\ place[n] \in MemoryIds
            BY <2>2
        <3>2. place[n] # None
            BY <3>1, GateAssumption
        <3>3. /\ tombstones[place[n]] # None <=> n \in a.dead
              /\ embeddings[place[n]] = a.vector[n]
            BY <1>1, <3>1 DEF RowsMirrored
        <3>4. StubEmbedding(part) # None <=> n \notin a.dead /\ a.vector[n] # None
            BY <3>1, <3>2, <3>3 DEF StubEmbedding, EmbeddingVectorId, IsTombstoned
        <3>5. Alive(a, part) <=> n \notin a.dead /\ a.vector[n] # None
            BY <3>1 DEF Alive
        <3> QED
            BY <3>4, <3>5
    <2> QED
        BY <2>1, <2>2, LeadsMirrored
<1>6. (StubEmbedding(part) # None) = Alive(a, part)
    <2>1. Alive(a, part) \in BOOLEAN
        BY DEF Alive
    <2> QED
        BY <1>5, <2>1
<1>7. Passed(probe) = PassedBy(probe, Answer(a, filters), Alive(a, part))
    BY <1>2, <1>3, <1>4, <1>6 DEF Passed
<1> QED
    BY <1>2, <1>4, <1>7 DEF DueOn

\* The episode that is being played mirrors its replay.
Mirrored ==
    episode \in DOMAIN suite /\ done # 0 =>
        \E place : Mirrors(place, Replay(Operations(suite[episode]))[done], done)

\* What one operation makes of the store is what it makes of the replica.
LEMMA IngestMirrors ==
    ASSUME StoreInv, index \in Seq(IndexItem), NEW d \in Nat, NEW a, NEW place,
           Mirrors(place, a, d), NEW call \in Submissions,
           \/ CommitRejected(call) /\ UNCHANGED index
           \/ \E id \in MemoryIds :
                 CommitStored(call, id) /\ index' = Indexed(index, entries'[id].lesson, id)
    PROVE  \E after : Mirrors(after, IngestAfter(a, call, d), d + 1)'
<1>1. CASE CommitRejected(call) /\ UNCHANGED index
    <2>1. IngestAfter(a, call, d) = a
        BY <1>1 DEF CommitRejected, IngestAfter
    <2>2. UNCHANGED <<entries, tombstones, embeddings, index>>
        BY <1>1 DEF CommitRejected, storeVars
    <2>3. Mirrors(place, a, d + 1)'
        BY <2>2, MirrorsStays
    <2> QED
        BY <2>1, <2>3
<1>2. ASSUME NEW id \in MemoryIds, CommitStored(call, id),
             index' = Indexed(index, entries'[id].lesson, id)
      PROVE  \E after : Mirrors(after, IngestAfter(a, call, d), d + 1)'
    <2>1. PICK row \in MemoryEntry : row = FromCandidate(Outcome[call].candidate)
        BY <1>2, AdmissibleFacts DEF CommitStored
    <2>2. Insert(id, row) /\ Admissible(call)
        BY <1>2, <2>1 DEF CommitStored
    <2>3. entries'[id] = row
        BY <2>2 DEF Insert, StoreInv, StoreTypeOK
    <2>4. index' = Indexed(index, row.lesson, id)
        BY <1>2, <2>3
    <2>5. \E after : Mirrors(after, Stored(a, d, row), d + 1)'
        BY <2>2, <2>4, StoredMirrors
    <2>6. IngestAfter(a, call, d) = Stored(a, d, row)
        BY <2>1, <2>2 DEF IngestAfter
    <2> QED
        BY <2>5, <2>6
<1> QED
    BY <1>1, <1>2

LEMMA BindMirrors ==
    ASSUME StoreInv, index \in Seq(IndexItem), NEW d \in Nat, NEW a, NEW place,
           Mirrors(place, a, d), NEW part, NEW vector \in VectorIds, index' = index,
           IF MemoryIdForLesson(part) = None THEN UNCHANGED storeVars
           ELSE BindEmbedding(MemoryIdForLesson(part), vector)
    PROVE  Mirrors(place, BindAfter(a, part, vector), d + 1)'
<1>1. CASE MemoryIdForLesson(part) = None /\ \A n \in Nat : ~Leads(a, part, n)
    <2>1. BindAfter(a, part, vector) = a
        BY <1>1 DEF BindAfter
    <2>2. UNCHANGED <<entries, tombstones, embeddings, index>>
        BY <1>1 DEF storeVars
    <2> QED
        BY <2>1, <2>2, MirrorsStays
<1>2. CASE \E n \in Nat :
              /\ a.row[n] # None
              /\ a.items[LessonPlace(a.items, part)].id = n
              /\ \A m \in Nat : Leads(a, part, m) <=> m = n
              /\ MemoryIdForLesson(part) = place[n] /\ place[n] \in MemoryIds
    <2>1. PICK n \in Nat :
              /\ a.row[n] # None
              /\ a.items[LessonPlace(a.items, part)].id = n
              /\ \A m \in Nat : Leads(a, part, m) <=> m = n
              /\ MemoryIdForLesson(part) = place[n] /\ place[n] \in MemoryIds
        BY <1>2
    <2>2. BindEmbedding(place[n], vector)
        BY <2>1, GateAssumption
    <2>3. CASE n \in a.dead
        <3>1. BindAfter(a, part, vector) = a
            BY <2>1, <2>3 DEF BindAfter
        <3>2. ~Live(place[n])
            BY <2>1, <2>3 DEF Mirrors, RowsMirrored, Live, IsTombstoned
        <3>3. UNCHANGED <<entries, tombstones, embeddings, index>>
            BY <2>2, <3>2 DEF BindEmbedding, storeVars
        <3> QED
            BY <3>1, <3>3, MirrorsStays
    <2>4. CASE n \notin a.dead
        <3>1. BindAfter(a, part, vector) = Bound(a, n, vector)
            BY <2>1, <2>4 DEF BindAfter
        <3>2. Mirrors(place, Bound(a, n, vector), d + 1)'
            BY <2>1, <2>2, <2>4, BoundMirrors
        <3> QED
            BY <3>1, <3>2
    <2> QED
        BY <2>3, <2>4
<1> QED
    BY <1>1, <1>2, LeadsMirrored

LEMMA ForgetMirrors ==
    ASSUME StoreInv, index \in Seq(IndexItem), NEW d \in Nat, NEW a, NEW place,
           Mirrors(place, a, d), NEW part, NEW principal \in Text,
           NEW id, id = MemoryIdForLesson(part),
           IF id = None THEN UNCHANGED storeVars /\ UNCHANGED index
           ELSE /\ Tombstone(id, principal)
                /\ index' = IF MayTombstone(id, principal) THEN Unindexed(index, id, part)
                            ELSE index
    PROVE  Mirrors(place, ForgetAfter(a, part, principal), d + 1)'
<1>1. CASE MemoryIdForLesson(part) = None /\ \A n \in Nat : ~Leads(a, part, n)
    <2>1. ForgetAfter(a, part, principal) = a
        BY <1>1 DEF ForgetAfter
    <2>2. UNCHANGED <<entries, tombstones, embeddings, index>>
        BY <1>1 DEF storeVars
    <2> QED
        BY <2>1, <2>2, MirrorsStays
<1>2. CASE \E n \in Nat :
              /\ a.row[n] # None
              /\ a.items[LessonPlace(a.items, part)].id = n
              /\ \A m \in Nat : Leads(a, part, m) <=> m = n
              /\ MemoryIdForLesson(part) = place[n] /\ place[n] \in MemoryIds
    <2>1. PICK n \in Nat :
              /\ a.row[n] # None
              /\ a.items[LessonPlace(a.items, part)].id = n
              /\ \A m \in Nat : Leads(a, part, m) <=> m = n
              /\ id = place[n] /\ place[n] \in MemoryIds
        BY <1>2
    <2>2. /\ Tombstone(id, principal)
          /\ index' = IF MayTombstone(id, principal) THEN Unindexed(index, id, part) ELSE index
        BY <2>1, GateAssumption
    <2>3. MayTombstone(id, principal) <=> n \notin a.dead /\ a.row[n].principal = principal
        BY <2>1 DEF Mirrors, RowsMirrored, MayTombstone, Live, Known, IsTombstoned
    <2>4. CASE ~MayTombstone(id, principal)
        <3>1. ForgetAfter(a, part, principal) = a
            BY <2>1, <2>3, <2>4 DEF ForgetAfter
        <3>2. UNCHANGED <<entries, tombstones, embeddings, index>>
            BY <2>2, <2>4 DEF Tombstone, storeVars
        <3> QED
            BY <3>1, <3>2, MirrorsStays
    <2>5. CASE MayTombstone(id, principal)
        <3>1. ForgetAfter(a, part, principal) = Buried(a, n, part)
            BY <2>1, <2>3, <2>5 DEF ForgetAfter
        <3>2. Mirrors(place, Buried(a, n, part), d + 1)'
            BY <2>1, <2>2, <2>5, BuriedMirrors
        <3> QED
            BY <3>1, <3>2
    <2> QED
        BY <2>4, <2>5
<1> QED
    BY <1>1, <1>2, LeadsMirrored

\* What the harness has to show for itself: its verdicts are the replays'.
VerdictsDue ==
    \A i \in DOMAIN results :
        results[i].passed = DueVerdict(suite[results[i].episode], results[i].nr)

ReplayInv == HarnessInv /\ VerdictsDue /\ Mirrored

\* One operation of an episode, on both sides.
LEMMA OperationMirrors ==
    ASSUME ReplayInv, HarnessNext, episode \in DOMAIN suite,
           NEW op, op = Current, NEW d \in Nat, d = done, NEW a,
           d # 0 => a = Replay(Operations(suite[episode]))[d]
    PROVE  \E after : Mirrors(after, After(a, op), d + 1)'
<1>1. StoreInv /\ index \in Seq(IndexItem) /\ ScriptOK
    BY DEF ReplayInv, HarnessInv, GateInv, IndexItem
<1>2. /\ suite \in Suites /\ suite[episode] \in Episode
      /\ Scripted(suite[episode], d + 1, op)
    BY <1>1, DoFacts DEF HarnessNext, StubReset, StubIngest, StubBind, StubForget,
                               EvaluateCheckpoint, ScriptOK
<1>3. op.op # "reset" => \E place : Mirrors(place, a, d)
    <2>1. d = 0 => op.op = "reset"
        BY <1>2 DEF Scripted
    <2> QED
        BY <2>1 DEF ReplayInv, Mirrored
<1>4. CASE StubReset
    <2>1. op.op = "reset"
        BY <1>4 DEF StubReset, Do
    <2>2. After(a, op) = Blank
        BY <2>1 DEF After
    <2>3. d = 0
        BY <1>2, <2>1 DEF Scripted
    <2>4. \E place : Mirrors(place, Blank, 1)'
        BY <1>4, ResetMirrors DEF StubReset
    <2>5. d + 1 = 1
        BY <2>3
    <2> QED
        BY <2>2, <2>4, <2>5
<1>5. CASE StubIngest
    <2>1. op.op = "ingest"
        BY <1>5 DEF StubIngest, Do
    <2>2. op.nr = d
        <3>1. PICK j \in DOMAIN suite[episode].writes : d + 1 = 1 + j /\ op.nr = j
            BY <1>2, <2>1 DEF Scripted
        <3>2. suite[episode].writes \in Seq(MemoryWrite)
            BY <1>2 DEF Episode
        <3>3. j \in Nat
            BY <3>2
        <3> QED
            BY <3>1, <3>3
    <2>3. PICK call \in Submissions : call = EpisodeCall(op.arg)
        BY <1>2, <2>1, ScriptedFacts
    <2>4. After(a, op) = IngestAfter(a, call, d)
        BY <2>1, <2>2, <2>3 DEF After
    <2>5. PICK place : Mirrors(place, a, d)
        BY <1>3, <2>1
    <2>6. \/ CommitRejected(call) /\ UNCHANGED index
          \/ \E id \in MemoryIds :
                CommitStored(call, id) /\ index' = Indexed(index, entries'[id].lesson, id)
        BY <1>5, <2>3 DEF StubIngest
    <2>7. \E after : Mirrors(after, IngestAfter(a, call, d), d + 1)'
        BY <1>1, <2>5, <2>6, IngestMirrors
    <2> QED
        BY <2>4, <2>7
<1>6. CASE StubBind
    <2>1. op.op = "bind"
        BY <1>6 DEF StubBind, Do
    <2>2. PICK vector \in VectorIds, part \in Text :
              vector = op.arg.vector_id /\ part = op.arg.lesson_contains
        BY <1>2, <2>1, ScriptedFacts
    <2>3. After(a, op) = BindAfter(a, part, vector)
        BY <2>1, <2>2 DEF After
    <2>4. PICK place : Mirrors(place, a, d)
        BY <1>3, <2>1
    <2>5. /\ IF MemoryIdForLesson(part) = None THEN UNCHANGED storeVars
             ELSE BindEmbedding(MemoryIdForLesson(part), vector)
          /\ index' = index
        BY <1>6, <2>2 DEF StubBind, GateBindEmbedding, gateVars
    <2>6. Mirrors(place, BindAfter(a, part, vector), d + 1)'
        BY <1>1, <2>4, <2>5, BindMirrors
    <2> QED
        BY <2>3, <2>6
<1>7. CASE StubForget
    <2>1. op.op = "forget"
        BY <1>7 DEF StubForget, Do
    <2>2. PICK principal \in Text, part \in Text :
              principal = op.arg.principal /\ part = op.arg.lesson_contains
        BY <1>2, <2>1, ScriptedFacts
    <2>3. After(a, op) = ForgetAfter(a, part, principal)
        BY <2>1, <2>2 DEF After
    <2>4. PICK place : Mirrors(place, a, d)
        BY <1>3, <2>1
    <2>5. PICK id : id = MemoryIdForLesson(part)
        OBVIOUS
    <2>6. IF id = None THEN UNCHANGED storeVars /\ UNCHANGED index
          ELSE /\ Tombstone(id, principal)
               /\ index' = IF MayTombstone(id, principal) THEN Unindexed(index, id, part)
                           ELSE index
        BY <1>7, <2>2, <2>5 DEF StubForget, Forget, gateVars
    <2>7. Mirrors(place, ForgetAfter(a, part, principal), d + 1)'
        BY <1>1, <2>4, <2>5, <2>6, ForgetMirrors
    <2> QED
        BY <2>3, <2>7
<1>8. CASE EvaluateCheckpoint
    <2>1. op.op = "probe"
        BY <1>8 DEF EvaluateCheckpoint, Do
    <2>2. After(a, op) = a
        BY <2>1 DEF After
    <2>3. PICK place : Mirrors(place, a, d)
        BY <1>3, <2>1
    <2>4. UNCHANGED <<entries, tombstones, embeddings, index>>
        BY <1>8 DEF EvaluateCheckpoint, gateVars, storeVars
    <2>5. Mirrors(place, a, d + 1)'
        BY <2>3, <2>4, MirrorsStays
    <2> QED
        BY <2>2, <2>5
<1> QED
    BY <1>4, <1>5, <1>6, <1>7, <1>8 DEF HarnessNext

\* The episode goes on mirroring its replay.
LEMMA MirroredStays == ASSUME ReplayInv, HarnessNext PROVE Mirrored'
<1> SUFFICES ASSUME (episode \in DOMAIN suite /\ done # 0)'
             PROVE  \E place : Mirrors(place, Replay(Operations(suite[episode]))[done], done)'
    BY DEF Mirrored
<1>1. PICK op : Do(op)
    BY DEF HarnessNext, StubReset, StubIngest, StubBind, StubForget, EvaluateCheckpoint
<1>2. ScriptOK
    BY DEF ReplayInv, HarnessInv
<1>3. PICK e \in Episode : e = suite[episode]
    BY <1>1, <1>2, DoFacts
<1>4. PICK ops : ops = Operations(e)
    OBVIOUS
<1>5. PICK d \in Nat : d = done
    BY <1>2 DEF ScriptOK
<1>6. PICK k \in 1 .. Len(ops) : k = d + 1 /\ Current = ops[k]
    BY <1>1, <1>2, <1>3, <1>4, <1>5, DoFacts
<1>7. /\ episode \in DOMAIN suite /\ suite' = suite
      /\ episode' = episode /\ done' = d + 1
    BY <1>1, <1>5 DEF Do
<1>8. PICK replay : replay = Replay(ops)
    OBVIOUS
<1>9. replay[k] = After(replay[k - 1], ops[k])
    BY <1>3, <1>4, <1>8, OperationsScripted, ReplayExists DEF IsReplay
<1>10. k - 1 = d
    BY <1>6
<1>11. PICK a, next : a = replay[d] /\ next = Current
    OBVIOUS
<1>12. \E place : Mirrors(place, After(a, next), d + 1)'
    BY <1>3, <1>4, <1>7, <1>8, <1>11, <1>5, OperationMirrors
<1>13. After(a, next) = replay[k]
    BY <1>6, <1>9, <1>10, <1>11
<1>14. Replay(Operations(suite[episode]))' = replay /\ done' = k
    BY <1>3, <1>4, <1>6, <1>7, <1>8
<1> QED
    BY <1>6, <1>7, <1>12, <1>13, <1>14

\* A probe is judged as in the replay.
LEMMA VerdictStays == ASSUME ReplayInv, HarnessNext PROVE VerdictsDue'
<1>1. PICK all \in Seq(ProbeResult) : all = results
    BY DEF ReplayInv, HarnessInv
<1>2. \A i \in DOMAIN all : all[i].passed = DueVerdict(suite[all[i].episode], all[i].nr)
    BY <1>1 DEF ReplayInv, VerdictsDue
<1>3. ScriptOK
    BY DEF ReplayInv, HarnessInv
<1>4. CASE results' = results
    <2>1. suite' = suite
        BY DEF HarnessNext, StubReset, StubIngest, StubBind, StubForget, EvaluateCheckpoint, Do
    <2> QED
        BY <1>1, <1>2, <1>4, <2>1 DEF VerdictsDue
<1>5. CASE EvaluateCheckpoint
    <2>1. Do("probe")
        BY <1>5 DEF EvaluateCheckpoint
    <2>2. PICK e \in Episode : e = suite[episode] /\ episode \in DOMAIN suite /\ suite \in Suites
        BY <1>3, <2>1, DoFacts DEF Do, ScriptOK
    <2>3. PICK op : op = Current /\ op.op = "probe"
        BY <2>1 DEF Do
    <2>4. PICK d \in Nat : d = done
        BY <1>3 DEF ScriptOK
    <2>5. Scripted(e, d + 1, op)
        BY <1>3, <2>1, <2>2, <2>3, <2>4, DoFacts
    <2>6. PICK j \in DOMAIN e.checkpoints :
              /\ d + 1 # 1 /\ d + 1 = ProbesFrom(e) + j
              /\ op = [op |-> "probe", arg |-> e.checkpoints[j], nr |-> j]
        BY <2>3, <2>5 DEF Scripted
    <2>7. PICK probe \in Checkpoint : probe = op.arg /\ probe = e.checkpoints[j] /\ op.nr = j
        BY <2>2, <2>3, <2>5, <2>6, ScriptedFacts
    <2>8. ProbesFrom(e) \in Nat /\ j \in Nat
        <3>1. /\ e.writes \in Seq(MemoryWrite)
              /\ e.embedding_binds \in Seq([lesson_contains : Text, vector_id : Text])
              /\ e.forgets \in Seq([principal : Text, lesson_contains : Text])
              /\ e.checkpoints \in Seq(Checkpoint)
            BY DEF Episode
        <3>2. j \in Nat
            BY <2>6, <3>1
        <3>3. Len(e.writes) \in Nat /\ Len(e.embedding_binds) \in Nat /\ Len(e.forgets) \in Nat
            BY <3>1
        <3>4. PICK w \in Nat, b \in Nat, f \in Nat :
                  w = Len(e.writes) /\ b = Len(e.embedding_binds) /\ f = Len(e.forgets)
            BY <3>3
        <3>5. ProbesFrom(e) = 1 + w + b + f
            BY <3>4 DEF ProbesFrom
        <3>6. 1 + w + b + f \in Nat
            OBVIOUS
        <3> QED
            BY <3>2, <3>5, <3>6
    <2>9. d = ProbesFrom(e) + j - 1 /\ d # 0
        BY <2>6, <2>8
    <2>10. PICK a : a = Replay(Operations(e))[d]
        OBVIOUS
    <2>11. PICK place : Mirrors(place, a, d)
        BY <2>2, <2>4, <2>9, <2>10 DEF ReplayInv, Mirrored
    <2>12. StoreInv /\ index \in Seq(IndexItem)
        BY DEF ReplayInv, HarnessInv, GateInv, IndexItem
    <2>13. Passed(probe) = DueOn(a, probe)
        BY <2>11, <2>12, ProbeMirrored
    <2>14. Passed(probe) = DueVerdict(e, j)
        BY <2>7, <2>9, <2>10, <2>13 DEF DueVerdict
    <2>15. PICK verdict :
              verdict = [episode |-> episode, nr |-> j, category |-> probe.category,
                         passed |-> Passed(probe)]
        OBVIOUS
    <2>16. results' = Append(all, verdict) /\ suite' = suite
        BY <1>1, <1>5, <2>1, <2>3, <2>7, <2>15 DEF EvaluateCheckpoint, Do
    <2>17. verdict.passed = DueVerdict(suite[verdict.episode], verdict.nr)
        BY <2>2, <2>14, <2>15
    <2>18. PICK T : T = ProbeResult \cup {verdict}
        OBVIOUS
    <2>19. all \in Seq(T) /\ verdict \in T
        BY <2>18, OverMore
    <2>20. PICK longer : longer = Append(all, verdict)
        OBVIOUS
    <2>21. /\ longer \in Seq(T) /\ Len(longer) = Len(all) + 1 /\ longer[Len(all) + 1] = verdict
           /\ \A i \in 1 .. Len(all) : longer[i] = all[i]
        BY <2>19, <2>20, OneMoreItem
    <2>22. PICK l \in Nat : l = Len(all)
        OBVIOUS
    <2>23. DOMAIN longer = 1 .. (l + 1) /\ DOMAIN all = 1 .. l
        BY <2>21, <2>22, DomainOf
    <2>24. ASSUME NEW i \in 1 .. (l + 1)
           PROVE  longer[i].passed = DueVerdict(suite[longer[i].episode], longer[i].nr)
        <3>1. CASE i = l + 1
            BY <2>17, <2>21, <2>22, <3>1
        <3>2. CASE i # l + 1
            <4>1. i \in 1 .. l
                BY <3>2
            <4>2. longer[i] = all[i]
                BY <2>21, <2>22, <4>1
            <4> QED
                BY <1>2, <2>23, <4>1, <4>2
        <3> QED
            BY <3>1, <3>2
    <2> QED
        BY <2>16, <2>20, <2>23, <2>24 DEF VerdictsDue
<1> QED
    BY <1>4, <1>5 DEF HarnessNext, StubReset, StubIngest, StubBind, StubForget

\* However the episodes of a suite follow one another, each operation leaves
\* the store as the replay of its own episode alone would.
THEOREM ReplayInvariant == HarnessSpec => []ReplayInv
<1>1. HarnessInit => ReplayInv
    <2> SUFFICES ASSUME HarnessInit PROVE VerdictsDue /\ Mirrored
        BY HarnessInitInv DEF ReplayInv
    <2>1. results = <<>> /\ done = 0
        BY DEF HarnessInit
    <2> QED
        BY <2>1 DEF VerdictsDue, Mirrored
<1>2. HarnessInv /\ [HarnessNext]_harnessVars => HarnessInv'
    BY HarnessStep
<1>3. ReplayInv /\ [HarnessNext]_harnessVars => ReplayInv'
    <2> SUFFICES ASSUME ReplayInv, [HarnessNext]_harnessVars PROVE VerdictsDue' /\ Mirrored'
        BY <1>2 DEF ReplayInv
    <2>1. CASE HarnessNext
        BY <2>1, VerdictStays, MirroredStays
    <2>2. CASE UNCHANGED harnessVars
        BY <2>2 DEF ReplayInv, harnessVars, scriptVars, gateVars, storeVars, VerdictsDue,
                    Mirrored, Mirrors, RowsMirrored, AllMirrored
    <2> QED
        BY <2>1, <2>2
<1> QED
    BY <1>1, <1>3, PTL DEF HarnessSpec

\* An episode that is played again gets the same verdicts, whatever was played
\* before it: both are the replay's.
THEOREM VerdictsRepeat == HarnessSpec => []VerdictsAreRepeatable
<1>1. ReplayInv => VerdictsAreRepeatable
    BY DEF ReplayInv, VerdictsDue, VerdictsAreRepeatable
<1> QED
    BY <1>1, ReplayInvariant, PTL

(***************************************************************************)
(* The report.                                                             *)
(***************************************************************************)
\* A category's probes failed as often as there are failures of it.
LEMMA CountFacts ==
    ASSUME results \in Seq(ProbeResult), NEW category
    PROVE  /\ CountOf(category, TRUE) \in Nat /\ CountOf(category, FALSE) \in Nat
           /\ CountOf(category, FALSE) = 0 <=>
                  \A i \in DOMAIN results : results[i].category = category => results[i].passed
<1> DEFINE I(passed) == {i \in DOMAIN results :
                            results[i].category = category /\ results[i].passed = passed}
<1>1. \A i \in DOMAIN results : results[i].passed \in BOOLEAN
    <2>1. \A i \in DOMAIN results : results[i] \in ProbeResult
        BY ElementOf
    <2> QED
        BY <2>1 DEF ProbeResult
<1>2. ASSUME NEW passed \in BOOLEAN
      PROVE  IsFiniteSet(I(passed)) /\ CountOf(category, passed) = Cardinality(I(passed))
    <2>1. IsFiniteSet(1 .. Len(results)) /\ DOMAIN results = 1 .. Len(results)
        BY FS_Interval
    <2>2. I(passed) \subseteq 1 .. Len(results)
        BY <2>1
    <2> QED
        BY <2>1, <2>2, FS_Subset DEF CountOf
<1>3. Cardinality(I(FALSE)) = 0 <=> I(FALSE) = {}
    <2> HIDE DEF I
    <2> QED
        BY <1>2, FS_EmptySet
<1>4. I(FALSE) = {} <=>
          \A i \in DOMAIN results : results[i].category = category => results[i].passed
    BY <1>1
<1> HIDE DEF I
<1> QED
    BY <1>2, <1>3, <1>4, FS_CardinalityType

\* A probe of the category has failed.
SomeFailed(category) ==
    \E i \in DOMAIN results : results[i].category = category /\ ~results[i].passed

\* A rate is a fraction, and of failures it is zero, and of successes one, when
\* there are no failures, and then only.
LEMMA RateFacts ==
    ASSUME results \in Seq(ProbeResult), NEW category
    PROVE  /\ \E a, n \in Nat : /\ Rate(category, TRUE, <<1, 1>>) = <<a, n>>
                                /\ n # 0 /\ a <= n /\ (SomeFailed(category) <=> a # n)
           /\ \E a, n \in Nat : /\ Rate(category, FALSE, <<0, 1>>) = <<a, n>>
                                /\ n # 0 /\ (SomeFailed(category) <=> a # 0)
<1>1. PICK p \in Nat, f \in Nat : p = CountOf(category, TRUE) /\ f = CountOf(category, FALSE)
    BY CountFacts
<1>2. SomeFailed(category) <=> f # 0
    BY <1>1, CountFacts DEF SomeFailed
<1>3. /\ Rate(category, TRUE, <<1, 1>>) = IF p + f = 0 THEN <<1, 1>> ELSE <<p, p + f>>
      /\ Rate(category, FALSE, <<0, 1>>) = IF p + f = 0 THEN <<0, 1>> ELSE <<f, p + f>>
    BY <1>1 DEF Rate
<1>4. CASE p + f = 0
    <2>1. f = 0
        BY <1>4
    <2>2. /\ Rate(category, TRUE, <<1, 1>>) = <<1, 1>>
          /\ Rate(category, FALSE, <<0, 1>>) = <<0, 1>>
        BY <1>3, <1>4
    <2>3. PICK zero \in Nat, one \in Nat : zero = 0 /\ one = 1 /\ zero # one /\ one <= one
        OBVIOUS
    <2>4. /\ Rate(category, TRUE, <<1, 1>>) = <<one, one>>
          /\ Rate(category, FALSE, <<0, 1>>) = <<zero, one>>
          /\ one # 0 /\ ~SomeFailed(category)
        BY <1>2, <2>1, <2>2, <2>3
    <2> QED
        BY <2>3, <2>4
<1>5. CASE p + f # 0
    <2>1. PICK n \in Nat : n = p + f
        OBVIOUS
    <2>2. n # 0 /\ p <= n /\ (f # 0 <=> p # n)
        BY <1>5, <2>1
    <2>3. Rate(category, TRUE, <<1, 1>>) = <<p, n>> /\ Rate(category, FALSE, <<0, 1>>) = <<f, n>>
        BY <1>3, <1>5, <2>1
    <2> QED
        BY <1>2, <2>2, <2>3
<1> QED
    BY <1>4, <1>5

LEMMA SuccessRate ==
    ASSUME results \in Seq(ProbeResult), NEW category
    PROVE  \E a, n \in Nat : /\ Rate(category, TRUE, <<1, 1>>) = <<a, n>>
                             /\ n # 0 /\ a <= n /\ (SomeFailed(category) <=> a # n)
BY RateFacts

\* A report passes by the default thresholds exactly when every probe has, for
\* any suites and any mixture of categories.
THEOREM ReportHonest == HarnessSpec => []ReportFailsWithAnyProbe
<1>1. ASSUME results \in Seq(ProbeResult)
      PROVE  Passes(AggregateMgs, DefaultThresholds) <=> \A i \in DOMAIN results : results[i].passed
    <2>1. PICK u \in Nat, un \in Nat :
              /\ Rate("utility", TRUE, <<1, 1>>) = <<u, un>> /\ un # 0 /\ u <= un
              /\ SomeFailed("utility") <=> u # un
        <3>1. PICK category : category = "utility"
            OBVIOUS
        <3>2. PICK u \in Nat, un \in Nat :
                  /\ Rate(category, TRUE, <<1, 1>>) = <<u, un>>
                  /\ un # 0 /\ u <= un /\ (SomeFailed(category) <=> u # un)
            BY <1>1, SuccessRate
        <3>3. /\ Rate("utility", TRUE, <<1, 1>>) = <<u, un>>
              /\ SomeFailed("utility") <=> u # un
            BY <3>1, <3>2
        <3> QED
            BY <3>2, <3>3
    <2>2. PICK a \in Nat, an \in Nat :
              /\ Rate("access", FALSE, <<0, 1>>) = <<a, an>> /\ an # 0
              /\ SomeFailed("access") <=> a # 0
        BY <1>1, RateFacts
    <2>3. PICK f \in Nat, fn \in Nat :
              /\ Rate("forgetting", FALSE, <<0, 1>>) = <<f, fn>> /\ fn # 0
              /\ SomeFailed("forgetting") <=> f # 0
        BY <1>1, RateFacts
    <2>4. (\A i \in DOMAIN results : results[i].passed)
              <=> ~SomeFailed("utility") /\ ~SomeFailed("access") /\ ~SomeFailed("forgetting")
        <3>1. \A i \in DOMAIN results : results[i].category \in {"utility", "access", "forgetting"}
            <4>1. \A i \in DOMAIN results : results[i] \in ProbeResult
                BY <1>1, ElementOf
            <4> QED
                BY <4>1 DEF ProbeResult, CheckpointCategory
        <3> QED
            BY <3>1 DEF SomeFailed
    <2>5. AggregateMgs = [utility |-> <<u, un>>, access_violation |-> <<a, an>>,
                          forgetting_failure |-> <<f, fn>>,
                          mgs |-> <<u * ((an - a) * (fn - f)), un * (an * fn)>>]
        <3>1. AggregateMgs =
                  [utility |-> <<u, un>>, access_violation |-> <<a, an>>,
                   forgetting_failure |-> <<f, fn>>,
                   mgs |-> Times(<<u, un>>, Times(Complement(<<a, an>>), Complement(<<f, fn>>)))]
            BY <2>1, <2>2, <2>3 DEF AggregateMgs
        <3>2. Complement(<<a, an>>) = <<an - a, an>> /\ Complement(<<f, fn>>) = <<fn - f, fn>>
            BY DEF Complement
        <3>3. \A p, q, r, t : Times(<<p, q>>, <<r, t>>) = <<p * r, q * t>>
            BY DEF Times
        <3>4. Times(<<an - a, an>>, <<fn - f, fn>>) = <<(an - a) * (fn - f), an * fn>>
            BY <3>3
        <3>5. Times(<<u, un>>, <<(an - a) * (fn - f), an * fn>>) =
                  <<u * ((an - a) * (fn - f)), un * (an * fn)>>
            BY <3>3
        <3> QED
            BY <3>1, <3>2, <3>4, <3>5
    <2>6. Passes(AggregateMgs, DefaultThresholds) <=>
              /\ 1 * un <= u * 1 /\ a * 1 <= 0 * an /\ f * 1 <= 0 * fn
              /\ 1 * (un * (an * fn)) <= (u * ((an - a) * (fn - f))) * 1
        BY <2>5 DEF Passes, DefaultThresholds, AtMost
    <2>7. 1 * un <= u * 1 <=> u = un
        BY <2>1
    <2>8. (a * 1 <= 0 * an <=> a = 0) /\ (f * 1 <= 0 * fn <=> f = 0)
        OBVIOUS
    <2>9. ASSUME u = un, a = 0, f = 0
          PROVE  1 * (un * (an * fn)) <= (u * ((an - a) * (fn - f))) * 1
        <3>1. PICK x \in Nat : x = un * (an * fn)
            OBVIOUS
        <3>2. an - a = an /\ fn - f = fn
            BY <2>9
        <3>3. u * ((an - a) * (fn - f)) = x
            BY <2>9, <3>1, <3>2
        <3>4. 1 * x <= x * 1
            OBVIOUS
        <3> QED
            BY <3>1, <3>3, <3>4
    <2> QED
        BY <2>1, <2>2, <2>3, <2>4, <2>6, <2>7, <2>8, <2>9
<1>2. HarnessInv => ReportFailsWithAnyProbe
    BY <1>1 DEF HarnessInv, ReportFailsWithAnyProbe
<1> QED
    BY <1>2, HarnessInvariant, PTL
=============================================================================
