------------------------------- MODULE MCHook -------------------------------
(***************************************************************************)
(* An agent whose runs come as objects and as dicts that miss keys.  One   *)
(* is admitted in every form; one is refused, and one throws, until a      *)
(* checkpoint makes dicts of all its objects; one never gets to the gate.  *)
(***************************************************************************)
EXTENDS AgentHook

HookText == {"", "None", "a", "b", "e1", "red", "private", "team", "shared", "episodic",
             "derived_from", "executor:e1"}
HookStrip == [t \in HookText |-> t]
HookTag == [t \in HookText |-> "executor:e1"]
HookKeys == {"leak_targets", "delegates", "allowed_relationships", "team_id"}
Plain == [key \in HookKeys |-> None]
Delegated == [Plain EXCEPT !["delegates"] = [kind |-> "items", items |-> {"b"}]]

Trace(form, trace_id, evidence, metadata) ==
    [form |-> form, executor_id |-> "e1", content |-> "red", trace_id |-> trace_id,
     evidence |-> evidence, metadata |-> metadata]
Context(form, principal, scope, metadata) ==
    [form |-> form, principal |-> principal, scope |-> scope, relationship |-> "derived_from",
     classification |-> "episodic", trace_id |-> None, metadata |-> metadata]
AgentRun(traces, context) ==
    [traces |-> traces, context |-> context, registry |-> [answers |-> <<"pass">>, min_passes |-> 1]]

ObjectRun == AgentRun(<<Trace("object", None, <<"b">>, Delegated)>>,
                      Context("object", "a", "MemoryScope.TEAM", Plain))
NullRun == AgentRun(<<Trace("dict", Missing, Missing, Missing)>>,
                    Context("object", None, "private", Plain))
ThrowingRun == AgentRun(<<Trace("object", None, <<>>, None)>>,
                        [Context("dict", "a", Missing, Delegated) EXCEPT
                            !.relationship = Missing, !.classification = Missing])
NoContextRun == AgentRun(<<Trace("object", None, <<>>, Plain)>>, None)

HookRuns == {ObjectRun, NullRun, ThrowingRun, NoContextRun}

HookSubmissions ==
    {CommitCall(r) : r \in {ObjectRun, Serialized(ObjectRun), NullRun, Serialized(NullRun),
                            Serialized(ThrowingRun)}}

HookFilters ==
    [requester : {None, "a", "b"}, principal : {None, "a"}, scope : {None},
     classification : {None}, relationship : {None}, team_id : {None}]

HookToolName == [t \in {" Save_Memory", "search_docs"} |->
                    IF t = "search_docs" THEN t ELSE "save_memory"]
HookTools == DOMAIN HookToolName
HookBlocked == {"save_memory"}

HookView == <<storeVars, inboxVars, mode, hookVars>>
HookSymmetry == Permutations(MemoryIds)
=============================================================================
