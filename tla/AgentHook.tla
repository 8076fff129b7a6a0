------------------------------ MODULE AgentHook ------------------------------
(***************************************************************************)
(* langgraph_hook.py: the node that proposes an agent's run to the gate,   *)
(* and the guard that keeps its tool calls away from the memory.           *)
(*                                                                         *)
(* A node reads the agent's state and returns a patch, a dict of the keys  *)
(* to set.  The orchestrator, which is not part of the repository, merges  *)
(* the patch later, or discards it and runs the node again; it also may    *)
(* checkpoint the state, which turns every object into a dict and every    *)
(* tuple into a list.  Reviewers and owners call the gate meanwhile.       *)
(***************************************************************************)
EXTENDS MemoryGate

CONSTANTS
    AgentRuns,    \* what capture can put into the agent's state
    MinTraces,    \* of the gate's pipeline
    Missing,      \* the value of a key that a dict does not have
    Tools,        \* the names of the tools that the agent calls
    ToolName,     \* strip().lower() on them
    BlockedTools, \* MemoryToolGuard.blocked_tools
    MaxInFlight,  \* how many nodes the orchestrator runs at once
    MaxBlocked    \* bound: tool calls blocked per agent

NullText     == "None"          \* str(None)
DerivedFrom  == "derived_from"
Episodic     == "episodic"

VARIABLES
    raw,       \* executor_traces and distill_context, as they now are
    given,     \* history: the same, as they were captured
    agent,     \* the keys of the agent's state that nodes write
    inflight,  \* the patches that nodes returned and nobody merged
    sent       \* history: the admitted proposals: what was captured, what row it makes

hookVars == <<raw, given, agent, inflight, sent>>

-----------------------------------------------------------------------------
(***************************************************************************)
(* Coercion.  A form is "object" or "dict".  Any field may be null (None), *)
(* and a dict may miss keys.  A null scope is the word "None" in every     *)
(* form, for only str() is ever asked of it.                               *)
(***************************************************************************)
Keyed(S) == S \cup {None, Missing}

\* What capture can put into the agent's state.
HookTrace ==
    [form : {"object"}, executor_id : Optional(Text), content : Optional(Text),
     trace_id : Optional(Text), evidence : Optional(Seq(Text)), metadata : Optional(Metadata)]
    \cup
    [form : {"dict"}, executor_id : Keyed(Text), content : Keyed(Text),
     trace_id : Keyed(Text), evidence : Keyed(Seq(Text)), metadata : Keyed(Metadata)]

HookContext ==
    [form : {"object"}, principal : Optional(Text), scope : MemoryScope \cup Text,
     relationship : Optional(Text), classification : Optional(Text),
     trace_id : Optional(Text), metadata : Optional(Metadata)]
    \cup
    [form : {"dict"}, principal : Keyed(Text), scope : MemoryScope \cup Text \cup {Missing},
     relationship : Keyed(Text), classification : Keyed(Text),
     trace_id : Keyed(Text), metadata : Keyed(Metadata)]

CapturedRun ==
    [traces : Seq(HookTrace), context : Optional(HookContext), registry : Optional(VerifierRegistry)]

\* str(None) is a word like any other.  An object's None stays None, and the
\* gate's tests `not value` refuse it where they refuse "" (edv.py:104-107,
\* gate.py:87-100), so "" stands for it in a call.
Str(value)   == IF value = None THEN NullText ELSE value
Falsy(value) == IF value = None THEN Empty ELSE value

GetOr(value, default) == IF value = Missing THEN default ELSE value
OrEmpty(value, empty) == IF value \in {Missing, None} THEN empty ELSE value
NoKeys            == [key \in MetaKeys |-> None]

\* _coerce_trace: an object is returned as it is.  Its null evidence and
\* metadata matter where the distiller reads them, see DistillRaises.
CoerceTrace(trace) ==
    IF trace.form = "object"
    THEN [executor_id |-> Falsy(trace.executor_id),
          content     |-> Falsy(trace.content),
          trace_id    |-> trace.trace_id,
          evidence    |-> OrEmpty(trace.evidence, <<>>),
          metadata    |-> OrEmpty(trace.metadata, NoKeys)]
    ELSE [executor_id |-> Str(trace.executor_id),
          content     |-> Str(trace.content),
          trace_id    |-> GetOr(trace.trace_id, None),
          evidence    |-> OrEmpty(trace.evidence, <<>>),
          metadata    |-> OrEmpty(trace.metadata, NoKeys)]

ObjectContext(context) ==
    [principal      |-> Falsy(context.principal),
     scope          |-> context.scope,
     relationship   |-> Falsy(context.relationship),
     classification |-> Falsy(context.classification),
     trace_id       |-> context.trace_id,
     metadata       |-> OrEmpty(context.metadata, NoKeys)]

DictContext(context) ==
    [principal      |-> Str(context.principal),
     scope          |-> GetOr(context.scope, "MemoryScope.PRIVATE"),
     relationship   |-> Str(GetOr(context.relationship, DerivedFrom)),
     classification |-> Str(GetOr(context.classification, Episodic)),
     trace_id       |-> GetOr(context.trace_id, None),
     metadata       |-> OrEmpty(context.metadata, NoKeys)]

\* Mutant: a dict's scope is not read.
CoerceContextUnscoped(context) ==
    IF context.form = "object" THEN ObjectContext(context)
    ELSE [DictContext(context) EXCEPT !.scope = "MemoryScope.PRIVATE"]

\* _coerce_context
CoerceContext(context) ==
    IF context.form = "object" THEN ObjectContext(context) ELSE DictContext(context)

\* The call of commit() that a run makes; the verifiers answer for the run.
CommitCall(run) ==
    [traces |-> [i \in DOMAIN run.traces |-> CoerceTrace(run.traces[i])],
     context |-> CoerceContext(run.context),
     min_traces |-> MinTraces, lesson_executor_id |-> None, distiller |-> None,
     registry |-> run.registry]

IsObject(part) == part.form = "object"

\* Of a dict, raw["..."] of a key that is not there throws, and so does
\* tuple(None).
CoercionRaises(run) ==
    \/ \E i \in DOMAIN run.traces : ~IsObject(run.traces[i]) /\
          (\/ Missing \in {run.traces[i].executor_id, run.traces[i].content}
           \/ run.traces[i].evidence = None)
    \/ ~IsObject(run.context) /\ run.context.principal = Missing

\* Of an object, the distiller that is reached at all throws on null metadata
\* and on null evidence (edv.py:158-163).
DistillRaises(run) ==
    /\ Ingest(MinTraces, CommitCall(run).traces).ok
    /\ \/ \E i \in DOMAIN run.traces : IsObject(run.traces[i]) /\
             (run.traces[i].evidence = None \/ run.traces[i].metadata = None)
       \/ IsObject(run.context) /\ run.context.metadata = None

\* propose_memory then returns nothing, and the gate is as it was.
ProposalRaises(run) == CoercionRaises(run) \/ DistillRaises(run)

\* A checkpoint's copy of a run: the objects as dicts, the enum as its value.
Serialized(run) ==
    [run EXCEPT
        !.traces = [i \in DOMAIN run.traces |-> [run.traces[i] EXCEPT !.form = "dict"]],
        !.context = IF run.context = None THEN None
                    ELSE [run.context EXCEPT !.form = "dict", !.scope = NormalizedScope(@)]]

Incomplete(run) == run.traces = <<>> \/ run.context = None

ASSUME HookAssumption ==
    /\ {NullText, DerivedFrom, Episodic} \subseteq Text
    /\ Missing \notin Text \cup MemoryScope \cup {None}
    /\ None \notin HookContext
    /\ AgentRuns \subseteq CapturedRun
    /\ \A run \in AgentRuns :
          \A form \in {run, Serialized(run)} :
             Incomplete(form) \/ ProposalRaises(form) \/ CommitCall(form) \in Submissions
    /\ MaxInFlight \in Nat \ {0} /\ MaxBlocked \in Nat

-----------------------------------------------------------------------------
Result == [status : CommitStatus, memory_id : Optional(MemoryIds),
           pending_id : Optional(PendingIds)]

Reasons == {"none", "incomplete", "refused", "waiting", "bypass"}

AgentState ==
    [result : Optional(Result), rejections : Reasons, review : BOOLEAN,
     memory_id : Optional(MemoryIds), pending_id : Optional(PendingIds),
     blocked : [form : {"tuple", "list"}, calls : Seq(Tools)]]

HookTypeOK ==
    /\ GateTypeOK
    /\ given \in AgentRuns
    /\ raw \in {given, Serialized(given)}
    /\ agent \in AgentState
    /\ Cardinality(inflight) <= MaxInFlight
    /\ \A s \in sent : s.run \in AgentRuns /\ s.row \in MemoryEntry

HookInit ==
    /\ GateInit
    /\ given \in AgentRuns
    /\ raw = given
    /\ agent = [result |-> None, rejections |-> "none", review |-> FALSE, memory_id |-> None,
                pending_id |-> None, blocked |-> [form |-> "tuple", calls |-> <<>>]]
    /\ inflight = {}
    /\ sent = {}

-----------------------------------------------------------------------------
(***************************************************************************)
(* The nodes.                                                              *)
(***************************************************************************)
\* dict.update
Updated(dict, patch) ==
    [key \in DOMAIN dict \cup DOMAIN patch |->
        IF key \in DOMAIN patch THEN patch[key] ELSE dict[key]]

\* The ids that the result has, as keys of their own.
Ids(result) ==
    [key \in {k \in {"memory_id", "pending_id"} : result[k] # None} |-> result[key]]

\* Mutant: only what waits for a reviewer is flagged for review.
RejectionPatchPendingOnly(result, reasons) ==
    Updated([result |-> result, rejections |-> reasons, review |-> result.status = "pending"],
            Ids(result))

\* Mutant: the ids are left inside the result.
RejectionPatchNoIds(result, reasons) ==
    [result |-> result, rejections |-> reasons, review |-> result.status # "committed"]

\* _rejection_patch: an id that the result lacks leaves the key as it was.
RejectionPatch(result, reasons) ==
    Updated([result |-> result, rejections |-> reasons, review |-> result.status # "committed"],
            Ids(result))

Return(patch) ==
    /\ Cardinality(inflight) < MaxInFlight
    /\ inflight' = inflight \cup {patch}
    /\ UNCHANGED <<raw, given, agent>>

CommitResult(status, memory_id, pending_id) ==
    [status |-> status, memory_id |-> memory_id, pending_id |-> pending_id]

Admit(call) == sent' = sent \cup {[run |-> given, row |-> FromCandidate(Outcome[call].candidate)]}

\* propose_memory, without traces or context: the gate is not asked.
ProposeIncomplete ==
    /\ Incomplete(raw)
    /\ Return(RejectionPatch(CommitResult("rejected", None, None), "incomplete"))
    /\ UNCHANGED <<gateVars, sent>>

\* propose_memory, by what gate.commit answers.
ProposeRejected(call) ==
    /\ CommitRejected(call)
    /\ Return(RejectionPatch(CommitResult("rejected", None, None), "refused"))
    /\ UNCHANGED sent

ProposeHeld(call, pid) ==
    /\ CommitHeld(call, pid)
    /\ Return(RejectionPatch(CommitResult("pending", None, pid), "waiting"))
    /\ Admit(call)

ProposeStored(call, id) ==
    /\ CommitStored(call, id)
    /\ Return(RejectionPatch(CommitResult("committed", id, None), "none"))
    /\ Admit(call)

Propose ==
    \/ ProposeIncomplete
    \/ /\ ~Incomplete(raw) /\ ~ProposalRaises(raw)
       /\ \/ ProposeRejected(CommitCall(raw))
          \/ \E pid \in PendingIds : ProposeHeld(CommitCall(raw), pid)
          \/ \E id \in MemoryIds : ProposeStored(CommitCall(raw), id)

\* Mutant: only a tuple is appended to.
AppendBlockedTuple(tool) ==
    IF agent.blocked.form = "tuple" THEN Append(agent.blocked.calls, tool) ELSE <<tool>>

\* _append_blocked_call
AppendBlocked(tool) == Append(agent.blocked.calls, tool)

\* merge_blocked_tool
MergeBlockedTool(tool) ==
    [blocked |-> [form |-> "tuple", calls |-> AppendBlocked(tool)],
     rejections |-> "bypass", review |-> TRUE]

\* MemoryToolGuard
IsBlocked(tool) == ToolName[tool] \in BlockedTools

\* guard_tool_call of a tool it blocks; for another one there is no patch.
Guard(tool) ==
    /\ IsBlocked(tool)
    /\ Len(agent.blocked.calls) < MaxBlocked
    /\ Return(MergeBlockedTool(tool))
    /\ UNCHANGED <<gateVars, sent>>

-----------------------------------------------------------------------------
(***************************************************************************)
(* The orchestrator, and the other callers of the gate.                    *)
(***************************************************************************)
Merge(patch) ==
    /\ agent' = Updated(agent, patch)
    /\ inflight' = inflight \ {patch}
    /\ UNCHANGED <<gateVars, raw, given, sent>>

Discard(patch) ==
    /\ inflight' = inflight \ {patch}
    /\ UNCHANGED <<gateVars, raw, given, agent, sent>>

TakeCheckpoint ==
    /\ inflight = {}
    /\ raw' = Serialized(raw)
    /\ agent' = [agent EXCEPT !.blocked.form = "list"]
    /\ UNCHANGED <<gateVars, given, inflight, sent>>

Capture(run) ==
    /\ inflight = {}
    /\ given' = run
    /\ raw' = run
    /\ UNCHANGED <<gateVars, agent, inflight, sent>>

\* A reviewer approves, an owner forgets, an operator changes the mode.
Elsewhere ==
    /\ \/ \E pid \in PendingIds, id \in MemoryIds : Approve(pid, id)
       \/ \E id \in MemoryIds, principal \in Callers : Forget(id, principal)
       \/ \E m \in GateMode : SetMode(m)
    /\ UNCHANGED hookVars

HookNext ==
    \/ Propose
    \/ \E tool \in Tools : Guard(tool)
    \/ \E patch \in inflight : Merge(patch) \/ Discard(patch)
    \/ TakeCheckpoint
    \/ \E run \in AgentRuns : Capture(run)
    \/ Elsewhere

HookSpec == HookInit /\ [][HookNext]_<<gateVars, hookVars>>

-----------------------------------------------------------------------------
(***************************************************************************)
(* Properties.                                                             *)
(***************************************************************************)
\* Some proposal of the agent makes that row.
Makes(row) == \E s \in sent : s.row = row

\* What the agent's state says of its proposals is so, however late a patch
\* was merged and whatever became of the row.  The ids at the top of the state
\* are those of a committed or pending result; the id that a newer result has
\* no use for is stale, and still names a row, or an inbox item, that one of
\* the agent's own proposals makes.
ResultTellsTheTruth ==
    /\ agent.result # None =>
          /\ agent.result.status = "committed" =>
                agent.memory_id = agent.result.memory_id /\ agent.memory_id # None
          /\ agent.result.status = "pending" =>
                agent.pending_id = agent.result.pending_id /\ agent.pending_id # None
    /\ agent.memory_id # None =>
          Known(agent.memory_id) /\ Makes(entries[agent.memory_id])
    /\ agent.pending_id # None =>
          held[agent.pending_id] # None /\ Makes(FromCandidate(held[agent.pending_id]))

\* A proposal that was not committed stays flagged for review until another
\* one is, whatever guards and other nodes write in between (ADR 0006).
UnsettledIsFlagged ==
    agent.result # None /\ agent.result.status # "committed" => agent.review

\* The run, proposed as it was captured, is admitted.
Admitted(run) == ~ProposalRaises(run) /\ Admissible(CommitCall(run))

\* An object of the run has a null that its dict makes something else of.
HasNull(run) ==
    \/ \E i \in DOMAIN run.traces : IsObject(run.traces[i]) /\
          (\/ None \in {run.traces[i].executor_id, run.traces[i].content}
           \/ run.traces[i].metadata = None)
    \/ IsObject(run.context) /\
          (\/ None \in {run.context.principal, run.context.relationship,
                        run.context.classification}
           \/ run.context.metadata = None)

\* A node that is run again, before or after a checkpoint turned the state
\* into dicts and lists, proposes the same row: it may write a duplicate, for
\* nothing tells the gate that it saw the run before, but never a variant.
\* And a checkpoint gets a run admitted that was refused, or threw, as it was
\* captured only if an object of the run had a null: the dict's conversion
\* makes a word of it, or no metadata.
RerunsAreTwins ==
    /\ \A s, t \in sent : s.run = t.run => s.row = t.row
    /\ \A s \in sent : Admitted(s.run) \/ HasNull(s.run)

\* As long as nodes take turns, no record of a blocked tool call is lost, not
\* even over a checkpoint.
BlockedCallsAccumulate ==
    [][IsPrefix(agent.blocked.calls, agent'.blocked.calls)]_agent

=============================================================================
