--------------------------- MODULE MCCoordinator ---------------------------
(***************************************************************************)
(* Two submissions: one that passes, with a classification that the gate   *)
(* would refuse, and one that is refused before anything is distilled.     *)
(***************************************************************************)
EXTENDS Coordinator, TLC

MCText == {"", "a", "b", "e1", "red", "blue", "private", "team", "shared",
           "episodic", "executor:e1"}
MCStrip == [t \in MCText |-> t]
MCExecutorTag == [t \in MCText |-> "executor:e1"]
MCMetaKeys == {"leak_targets", "delegates", "allowed_relationships", "team_id"}
NoMetadata == [key \in MCMetaKeys |-> None]

Traces(lesson) ==
    <<[executor_id |-> "e1", content |-> lesson, trace_id |-> None,
       evidence |-> <<>>, metadata |-> NoMetadata]>>

Call(traces, classification, answers) ==
    [traces |-> traces,
     context |-> [principal |-> "a", scope |-> "MemoryScope.TEAM", relationship |-> "b",
                  classification |-> classification, trace_id |-> None,
                  metadata |-> NoMetadata],
     min_traces |-> 1, lesson_executor_id |-> None, distiller |-> None,
     registry |-> [answers |-> answers, min_passes |-> 1]]

MCSubmissions ==
    {Call(Traces("red"), "b", <<"pass">>), Call(<<>>, "b", <<"pass">>)}

MCWindows == {"right"}

MCBindings == <<[window |-> "right", stage |-> "distill"]>>
=============================================================================
