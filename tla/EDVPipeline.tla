---------------------------- MODULE EDVPipeline ----------------------------
(***************************************************************************)
(* EDVPipeline.run, one stage at a time.  The distiller is pluggable: it   *)
(* is the rule-based one, or somebody else's, of which only the answer is  *)
(* known.  A custom distiller or a verifier may also throw, which ends the *)
(* run without a result.                                                   *)
(***************************************************************************)
EXTENDS EDVStages

CONSTANT Calls  \* the runs asked for

ASSUME CallAssumption == Calls \subseteq PipelineCall

VARIABLES
    call,    \* the arguments of run() and the stages' configuration
    pc,      \* the stage to run next, "done", or "raised"
    stages,  \* the stage results so far
    result   \* what run() returned, or None

pipelineVars == <<call, pc, stages, result>>

PipelineInit ==
    /\ call \in Calls
    /\ pc = "execute"
    /\ stages = <<>>
    /\ result = None

Finish(ok, candidate) ==
    /\ pc' = "done"
    /\ result' = [ok |-> ok, candidate |-> candidate, stages |-> stages']

Execute ==
    LET outcome == Ingest(call.min_traces, call.traces)
    IN  /\ pc = "execute"
        /\ stages' = Append(stages, outcome)
        /\ IF outcome.ok THEN pc' = "distill" /\ UNCHANGED result ELSE Finish(FALSE, None)
        /\ UNCHANGED call

Distill ==
    /\ pc = "distill"
    /\ stages' = Append(stages, Distilled(call))
    /\ IF Distilled(call).ok /\ Distilled(call).candidate # None
       THEN pc' = "verify" /\ UNCHANGED result
       ELSE Finish(FALSE, None)
    /\ UNCHANGED call

\* A failed verification keeps the candidate, unlike the earlier failures.
VerifyCandidate ==
    LET candidate == stages[2].candidate
        outcome == Verify(call.registry, candidate)
    IN  /\ pc = "verify"
        /\ stages' = Append(stages, outcome)
        /\ Finish(outcome.ok, candidate)
        /\ UNCHANGED call

\* Code of the caller's, a distiller or a verifier, throws.
StageRaises ==
    /\ \/ pc = "distill" /\ call.distiller # None
       \/ pc = "verify" /\ call.registry # None /\ call.registry.answers # <<>>
    /\ pc' = "raised"
    /\ UNCHANGED <<call, stages, result>>

PipelineNext == Execute \/ Distill \/ VerifyCandidate \/ StageRaises

PipelineSpec == PipelineInit /\ [][PipelineNext]_pipelineVars

-----------------------------------------------------------------------------
PipelineTypeOK ==
    /\ call \in Calls
    /\ pc \in {"execute", "distill", "verify", "done", "raised"}
    /\ stages \in Seq(StageResult)
    /\ result \in Optional(PipelineResult)

\* A run that reports success went through all three stages, each of which
\* agreed, and whoever was asked to verify endorsed the very candidate that
\* is handed on (ADR 0003: "the only write path").
OkMeansVerified ==
    result # None /\ result.ok =>
        /\ [i \in DOMAIN result.stages |-> result.stages[i].stage]
               = <<"execute", "distill", "verify">>
        /\ \A i \in DOMAIN result.stages : result.stages[i].ok
        /\ result.candidate # None /\ result.candidate = result.stages[2].candidate
        /\ call.registry # None =>
               Endorsed(call.registry.min_passes, call.registry.answers)

\* A run fails only for cause: too few or blank traces, a distiller without a
\* candidate, or verifiers that object and are not outvoted.  The early
\* returns lose no run that every stage would have let through.
FailureHasCause ==
    result # None /\ ~result.ok =>
        \/ Len(call.traces) < call.min_traces
        \/ \E i \in DOMAIN call.traces :
               IsBlank(call.traces[i].executor_id) \/ IsBlank(call.traces[i].content)
        \/ Distilled(call).candidate = None \/ ~Distilled(call).ok
        \/ call.registry # None
               /\ ~Endorsed(call.registry.min_passes, call.registry.answers)

\* A run is ok exactly when it ought to be: each of the two above excludes what
\* the other one leaves open.
VerdictIsDeserved == OkMeansVerified /\ FailureHasCause

\* The stage-by-stage run, early returns included, returns what the function
\* Run says, which is how the modules that use a pipeline see it.
ReturnsRun == result # None => result = Run(call)

\* The result carries a candidate exactly when verification was reached; the
\* gate's audit relies on the difference (gate.py:261).
CandidateIffVerifyReached ==
    result # None => (result.candidate # None <=> Len(result.stages) = 3)

RuleBasedCandidate == result # None /\ result.candidate # None /\ call.distiller = None

\* What the rule-based distiller passes on speaks for the whole bundle: its
\* lesson is the content of one of the traces, never blank, and its evidence
\* holds every item and every executor of the bundle, and each just once.
LessonSpeaksForBundle ==
    RuleBasedCandidate =>
        /\ result.candidate.lesson # Empty
        /\ \E i \in DOMAIN call.traces :
               /\ result.candidate.lesson = Strip[call.traces[i].content]
               /\ call.lesson_executor_id \in {None, call.traces[i].executor_id}
        /\ IsInjective(result.candidate.evidence)
        /\ ToSet(result.candidate.evidence) =
               UNION {ToSet(call.traces[i].evidence) \cup {ExecutorTag[call.traces[i].executor_id]} :
                         i \in DOMAIN call.traces}

\* Of several values for one metadata key the last trace's wins, and the
\* context's only stands when no trace has one: a trace can overwrite the
\* governance tags (team, delegates, leak targets) of the context.
LastTraceTagsTheRow ==
    RuleBasedCandidate =>
        \A key \in MetaKeys :
            LET givers == {i \in DOMAIN call.traces : call.traces[i].metadata[key] # None}
            IN  IF givers = {}
                THEN result.candidate.metadata[key] = call.context.metadata[key]
                ELSE \E last \in givers :
                         /\ \A i \in givers : i <= last
                         /\ result.candidate.metadata[key] = call.traces[last].metadata[key]
=============================================================================
