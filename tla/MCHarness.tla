------------------------------ MODULE MCHarness ------------------------------
(***************************************************************************)
(* The shipped episodes, one after another and each around another one,    *)
(* and two more: of lessons that repeat or share a phrase, refused writes, *)
(* refused deletions and phrases that nothing contains.                    *)
(***************************************************************************)
EXTENDS GateMemHarness, TLC

HarnessText ==
    {"", "standup", "patient", "groceries", "student", "refund", "cross-check",
     "Tuesdays", "MRN-8842", "patient_mrn", "morning", "oat milk", "4421", "ssn",
     "financial-hold", "standup-policy", "patient-pref", "grocery-list", "fin-hold",
     "agent-a", "agent-b", "research-agent", "audit-agent", "executor", "eng-desk", "advising",
     "assigned_advisor", "private", "team", "shared", "derived_from", "episodic", "vec-grocery"}
HarnessStrip == [t \in HarnessText |-> t]
HarnessTag == [t \in HarnessText |-> "executor"]
HarnessCross == [t \in HarnessText |-> "cross-check"]
HarnessWithin ==
    {<<t, t>> : t \in HarnessText} \cup {<<"", t>> : t \in HarnessText} \cup
    {<<"Tuesdays", "standup">>, <<"MRN-8842", "patient">>, <<"morning", "patient">>,
     <<"oat milk", "groceries">>, <<"oat milk", "refund">>, <<"4421", "student">>,
     <<"financial-hold", "student">>}

Note(lesson, principal, scope) ==
    Write(lesson, None, principal, scope, NoMetadata, NoMetadata)
Own(scope) == Asks("agent-a", "agent-a", scope)
Vector(part) == [lesson_contains |-> part, vector_id |-> "vec-grocery"]
ForgetBy(principal, part) == [principal |-> principal, lesson_contains |-> part]

Duplicates ==
    [writes |-> <<Note("groceries", "agent-a", "team"), Note("groceries", "agent-a", "private")>>,
     embedding_binds |-> <<Vector("oat milk"), Vector("ssn")>>,
     forgets |-> <<ForgetBy("agent-b", "oat milk"), ForgetBy("agent-a", "oat milk")>>,
     checkpoints |-> <<Forgetting(Own("private"), "oat milk"), Forgetting(Own(None), "oat milk"),
                       Utility(Own("team"), "oat milk")>>]

SharedPhrase ==
    [writes |-> <<Note("refund", "agent-a", "private"), Note("groceries", "agent-a", "shared"),
                  Note("groceries", "", "shared")>>,
     embedding_binds |-> <<Vector("groceries")>>,
     forgets |-> <<ForgetBy("agent-a", "oat milk"), ForgetBy("agent-a", "ssn")>>,
     checkpoints |-> <<Forgetting(Own(None), "refund"), Forgetting(Own(None), "oat milk"),
                       Access(Asks("agent-b", None, None), {"oat milk"}), Utility(Own(None), None)>>]

Episodes == {SubsetEpisodes[n] : n \in DOMAIN SubsetEpisodes} \cup {Duplicates, SharedPhrase}

HarnessSuites == {SubsetEpisodes} \cup {<<e, f, e>> : e, f \in Episodes}

HarnessSubmissions ==
    UNION {{EpisodeCall(e.writes[i]) : i \in DOMAIN e.writes} : e \in Episodes}

HarnessSymmetry == Permutations(MemoryIds)

HarnessKeys == {"leak_targets", "delegates", "allowed_relationships", "team_id"}
=============================================================================
