--------------------------- MODULE GateMemEpisodes ---------------------------
(***************************************************************************)
(* gatemem_episodes.py: the episodes that the regression harness replays,  *)
(* their schema, and the four that are shipped.                            *)
(***************************************************************************)
EXTENDS EDVStages

CONSTANTS Within,     \* <<part, whole>>: the strings that contain one another
          CrossCheck  \* "cross-check: " in front of a lesson

ASSUME WithinAssumption ==
    /\ Within \subseteq Text \X Text
    /\ \A t \in Text : <<Empty, t>> \in Within /\ <<t, t>> \in Within
    /\ CrossCheck \in [Text -> Text]

CheckpointCategory == {"utility", "access", "forgetting"}

MemoryWrite == [traces : Seq(ExecutorTrace), context : DistillContext]

Checkpoint ==
    [category : CheckpointCategory, filters : RetrievalFilter,
     expect_contains : Optional(Text), leak_targets : SUBSET Text, require_no_memory : BOOLEAN]

Episode ==
    [writes : Seq(MemoryWrite),
     embedding_binds : Seq([lesson_contains : Text, vector_id : Text]),
     forgets : Seq([principal : Text, lesson_contains : Text]),
     checkpoints : Seq(Checkpoint)]

-----------------------------------------------------------------------------
NoMetadata == [key \in MetaKeys |-> None]

DualTraces(lesson, trace_id, metadata) ==
    <<[executor_id |-> "research-agent", content |-> lesson, trace_id |-> trace_id,
       evidence |-> <<>>, metadata |-> metadata],
      [executor_id |-> "audit-agent", content |-> CrossCheck[lesson], trace_id |-> trace_id,
       evidence |-> <<>>, metadata |-> metadata]>>

Context(principal, scope, metadata) ==
    [principal |-> principal, scope |-> scope, relationship |-> "derived_from",
     classification |-> "episodic", trace_id |-> None, metadata |-> metadata]

Write(lesson, trace_id, principal, scope, traceMetadata, metadata) ==
    [traces |-> DualTraces(lesson, trace_id, traceMetadata),
     context |-> Context(principal, scope, metadata)]

Asks(requester, principal, scope) ==
    [requester |-> requester, principal |-> principal, scope |-> scope,
     classification |-> None, relationship |-> None, team_id |-> None]

Utility(filters, part) ==
    [category |-> "utility", filters |-> filters, expect_contains |-> part,
     leak_targets |-> {}, require_no_memory |-> FALSE]
Access(filters, targets) ==
    [category |-> "access", filters |-> filters, expect_contains |-> None,
     leak_targets |-> targets, require_no_memory |-> TRUE]
Forgetting(filters, part) ==
    [category |-> "forgetting", filters |-> filters, expect_contains |-> part,
     leak_targets |-> {}, require_no_memory |-> TRUE]

Texts(items) == [kind |-> "items", items |-> items]
OneText(t)   == [kind |-> "text", items |-> {t}]

-----------------------------------------------------------------------------
(***************************************************************************)
(* SUBSET_EPISODES.  A lesson is named by the word it is known by.         *)
(***************************************************************************)
OfficeTeamPlaybook ==
    [writes |-> <<Write("standup", "standup-policy", "agent-a", "MemoryScope.TEAM", NoMetadata,
                        [NoMetadata EXCEPT !["team_id"] = OneText("eng-desk")])>>,
     embedding_binds |-> <<>>,
     forgets |-> <<>>,
     checkpoints |->
        <<Utility([Asks("agent-b", None, "team") EXCEPT !.team_id = "eng-desk"], "Tuesdays")>>]

PatientTags == [NoMetadata EXCEPT !["leak_targets"] = Texts({"patient_mrn", "MRN-8842"})]

MedicalPrivateMrn ==
    [writes |-> <<Write("patient", "patient-pref", "agent-a", "MemoryScope.PRIVATE",
                        PatientTags, PatientTags)>>,
     embedding_binds |-> <<>>,
     forgets |-> <<>>,
     checkpoints |->
        <<Access(Asks("agent-b", "agent-a", "private"), {"MRN-8842", "patient_mrn"}),
          Utility(Asks("agent-a", "agent-a", "private"), "morning")>>]

HouseholdForgetGrocery ==
    [writes |-> <<Write("groceries", "grocery-list", "agent-a", "MemoryScope.PRIVATE",
                        NoMetadata, NoMetadata)>>,
     embedding_binds |-> <<[lesson_contains |-> "oat milk", vector_id |-> "vec-grocery"]>>,
     forgets |-> <<[principal |-> "agent-a", lesson_contains |-> "oat milk"]>>,
     checkpoints |-> <<Forgetting(Asks("agent-a", "agent-a", "private"), "oat milk")>>]

StudentTags ==
    [NoMetadata EXCEPT !["team_id"] = OneText("advising"),
                       !["leak_targets"] = Texts({"ssn", "4421"}),
                       !["allowed_relationships"] = Texts({"assigned_advisor"})]

AdvisingDesk == [Asks("agent-b", None, "team") EXCEPT !.team_id = "advising"]

EducationDelegatedLeak ==
    [writes |-> <<Write("student", "fin-hold", "agent-a", "MemoryScope.TEAM",
                        StudentTags, StudentTags)>>,
     embedding_binds |-> <<>>,
     forgets |-> <<>>,
     checkpoints |->
        <<Access(AdvisingDesk, {"4421", "ssn"}),
          Utility([AdvisingDesk EXCEPT !.relationship = "assigned_advisor"], "financial-hold")>>]

SubsetEpisodes ==
    <<OfficeTeamPlaybook, MedicalPrivateMrn, HouseholdForgetGrocery, EducationDelegatedLeak>>
=============================================================================
