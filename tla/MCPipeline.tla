---------------------------- MODULE MCPipeline ----------------------------
(***************************************************************************)
(* Bundles of up to three traces: a blank executor, blank content, padded  *)
(* content, shared evidence, an evidence item that looks like an executor  *)
(* tag, and metadata that two traces and the context disagree on.          *)
(***************************************************************************)
EXTENDS EDVPipeline

MCText == {"", " ", "a", "red", " red", "blue", "e1", "e2", "executor:e1", "executor:e2",
           "private", "team", "shared", "episodic", "t1"}
MCStrip == [t \in MCText |-> CASE t = " " -> "" [] t = " red" -> "red" [] OTHER -> t]
MCExecutorTag == [t \in MCText |-> IF t = "e1" THEN "executor:e1" ELSE "executor:e2"]
MCMetaKeys == {"team_id", "delegates"}

Tagged(team, delegates) ==
    [key \in MCMetaKeys |->
        LET value == IF key = "team_id" THEN team ELSE delegates
        IN  IF value = None THEN None ELSE [kind |-> "text", items |-> {value}]]

Trace(executor, content, trace_id, evidence, metadata) ==
    [executor_id |-> executor, content |-> content, trace_id |-> trace_id,
     evidence |-> evidence, metadata |-> metadata]

MCTraces ==
    {Trace("e1", " red", "", <<"blue", "executor:e2">>, Tagged("red", None)),
     Trace("e2", "blue", "t1", <<"blue">>, Tagged("blue", "a")),
     Trace("e1", "red", None, <<>>, Tagged(None, None)),
     Trace(" ", "red", None, <<>>, Tagged(None, None)),
     Trace("e2", " ", "t1", <<>>, Tagged(None, None))}

MCContexts ==
    {[principal |-> "a", scope |-> "MemoryScope.TEAM", relationship |-> "a",
      classification |-> "episodic", trace_id |-> trace_id, metadata |-> Tagged("a", None)] :
        trace_id \in {None, "", "t1"}}

MCCandidate ==
    [lesson |-> "red", principal |-> "a", scope |-> "team", relationship |-> "a",
     classification |-> "episodic", trace_id |-> None, evidence |-> <<>>,
     metadata |-> Tagged(None, None)]

MCBundles == UNION {[1..n -> MCTraces] : n \in 0..3}

MCRegistries ==
    {None} \cup [answers : UNION {[1..n -> {"pass", "fail", "skip"}] : n \in 0..3},
                 min_passes : {1, 2}]

\* Every bundle with a lenient configuration, every registry with one bundle.
MCCalls ==
    [traces : MCBundles, context : MCContexts, min_traces : {0, 2},
     lesson_executor_id : {None, "e2"}, distiller : {None}, registry : {None}]
    \cup
    [traces : {<<t, t>> : t \in MCTraces}, context : MCContexts, min_traces : {2},
     lesson_executor_id : {None},
     distiller : {None} \cup [ok : BOOLEAN, candidate : {None, MCCandidate}],
     registry : MCRegistries]
=============================================================================
