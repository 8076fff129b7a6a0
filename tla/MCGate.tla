------------------------------- MODULE MCGate -------------------------------
(***************************************************************************)
(* A small gate.  The submissions are pipeline runs of every outcome that  *)
(* commit() tells apart: refused by a stage before and after there is a    *)
(* candidate, refused by validate(), and admitted with tidy, padded and    *)
(* enum-valued tags.                                                       *)
(***************************************************************************)
EXTENDS MemoryGate, TLC

MCText == {"", " ", "a", " a", "b", "e1", "red", "private", "team", "shared",
           "episodic", " episodic", "t1", "executor:e1"}
MCStrip == [t \in MCText |-> CASE t = " " -> "" [] t = " a" -> "a"
                               [] t = " episodic" -> "episodic" [] OTHER -> t]
MCExecutorTag == [t \in MCText |-> "executor:e1"]
MCMetaKeys == {"leak_targets", "delegates", "allowed_relationships", "team_id"}
NoMetadata == [key \in MCMetaKeys |-> None]

Call(principal, scope, classification, bundle, answers) ==
    [traces |-> bundle,
     context |-> [principal |-> principal, scope |-> scope, relationship |-> "b",
                  classification |-> classification, trace_id |-> "t1",
                  metadata |-> NoMetadata],
     min_traces |-> 1, lesson_executor_id |-> None, distiller |-> None,
     registry |-> [answers |-> answers, min_passes |-> 1]]

OneTrace == <<[executor_id |-> "e1", content |-> "red", trace_id |-> None,
               evidence |-> <<>>, metadata |-> NoMetadata]>>

MCSubmissions ==
    {Call("a", "MemoryScope.TEAM", "episodic", OneTrace, <<"pass">>),
     Call(" a", "team", " episodic", OneTrace, <<"skip">>),
     Call("b", "private", "episodic", OneTrace, <<"fail">>),
     Call(" ", "private", "episodic", OneTrace, <<"pass">>),
     Call("b", "private", "episodic", <<>>, <<"pass">>)}

MCFilters ==
    [requester : {None}, principal : {None, "a", " a", "b"},
     scope : {None, "team", "private"}, classification : {None, "episodic", "b"},
     relationship : {None}, team_id : {None}]

\* Ids are interchangeable, and no action of this module reads latest.
MCSymmetry == Permutations(MemoryIds) \cup Permutations(PendingIds)
MCView == <<storeVars, inboxVars, auditVars, mode, attached>>
=============================================================================
