----------------------------- MODULE EDVStages -----------------------------
(***************************************************************************)
(* edv.py: the three stages as functions of their inputs.  The wording of  *)
(* reasons is left out; whether a stage fails, and with which candidate    *)
(* and consensus, is kept.                                                 *)
(***************************************************************************)
EXTENDS Verifiers, SequencesExt

CONSTANT ExecutorTag  \* the evidence item "executor:<id>", by executor id

ASSUME ExecutorTagAssumption == ExecutorTag \in [Text -> Text]

ExecutorTrace ==
    [executor_id : Text, content : Text, trace_id : Optional(Text),
     evidence : Seq(Text), metadata : Metadata]

DistillContext ==
    [principal : Text, scope : MemoryScope \cup Text, relationship : Text,
     classification : Text, trace_id : Optional(Text), metadata : Metadata]

Stages == {"execute", "distill", "verify"}

StageResult ==
    [stage : Stages, ok : BOOLEAN,
     candidate : Optional(CandidateExperience), consensus : Optional(Consensus)]

-----------------------------------------------------------------------------
\* ExecuteStage.ingest
Ingest(min_traces, traces) ==
    [stage |-> "execute",
     ok |-> /\ Len(traces) >= min_traces
            /\ \A i \in DOMAIN traces :
                   ~IsBlank(traces[i].executor_id) /\ ~IsBlank(traces[i].content),
     candidate |-> None, consensus |-> None]

\* _select_lesson_trace, as an index into the bundle; 0 when it finds none.
LessonIndex(lesson_executor_id, traces) ==
    IF lesson_executor_id = None
    THEN IF traces = <<>> THEN 0 ELSE 1
    ELSE SelectInSeq(traces, LAMBDA trace : trace.executor_id = lesson_executor_id)

\* dict.update: the new dict's keys win.
Update(metadata, new) ==
    [key \in MetaKeys |-> IF new[key] # None THEN new[key] ELSE metadata[key]]

\* Mutant: the context's own metadata wins over the traces'.
MergedMetadataContextWins(context, traces) ==
    Update(FoldLeft(LAMBDA metadata, trace : Update(metadata, trace.metadata),
                    context.metadata, traces),
           context.metadata)

MergedMetadata(context, traces) ==
    FoldLeft(LAMBDA metadata, trace : Update(metadata, trace.metadata),
             context.metadata, traces)

\* The context's trace id, however empty, else the first one that is not.
MergedTraceId(context, traces) ==
    LET named == SelectInSeq(traces, LAMBDA trace : trace.trace_id \notin {None, Empty})
    IN  IF context.trace_id # None THEN context.trace_id
        ELSE IF named # 0 THEN traces[named].trace_id ELSE None

\* Mutant: evidence is concatenated without dict.fromkeys.
MergedEvidenceRepeated(traces) ==
    FoldLeft(LAMBDA all, trace :
                 all \o Append(trace.evidence, ExecutorTag[trace.executor_id]),
             <<>>, traces)

\* Every trace's evidence, then its executor's tag; dict.fromkeys keeps the
\* first of equal items.
MergedEvidence(traces) ==
    FoldLeft(LAMBDA all, item : IF Contains(all, item) THEN all ELSE Append(all, item),
             <<>>,
             FlattenSeq([i \in DOMAIN traces |->
                 Append(traces[i].evidence, ExecutorTag[traces[i].executor_id])]))

\* RuleBasedDistiller.distill
RuleBasedDistill(lesson_executor_id, traces, context) ==
    LET lesson == LessonIndex(lesson_executor_id, traces)
    IN  [stage |-> "distill",
         ok |-> lesson # 0,
         candidate |->
            IF lesson = 0 THEN None
            ELSE [lesson         |-> Strip[traces[lesson].content],
                  principal      |-> context.principal,
                  scope          |-> context.scope,
                  relationship   |-> context.relationship,
                  classification |-> context.classification,
                  trace_id       |-> MergedTraceId(context, traces),
                  evidence       |-> MergedEvidence(traces),
                  metadata       |-> MergedMetadata(context, traces)],
         consensus |-> None]

\* Mutant: the quorum's verdict is reported and not obeyed.
VerifyAdvisory(registry, candidate) ==
    [stage |-> "verify",
     ok |-> TRUE,
     candidate |-> candidate,
     consensus |-> IF registry = None THEN None ELSE Evaluate(registry)]

\* VerifyStage.verify; without a registry everything passes unexamined.
Verify(registry, candidate) ==
    [stage |-> "verify",
     ok |-> registry = None \/ Evaluate(registry).passed,
     candidate |-> candidate,
     consensus |-> IF registry = None THEN None ELSE Evaluate(registry)]

-----------------------------------------------------------------------------
(***************************************************************************)
(* The whole run.  The distiller is pluggable: the rule-based one, or      *)
(* somebody else's, of which only the answer is known.                     *)
(***************************************************************************)
PipelineCall ==
    [traces : Seq(ExecutorTrace), context : DistillContext,
     min_traces : Nat, lesson_executor_id : Optional(Text),
     distiller : {None} \cup [ok : BOOLEAN, candidate : Optional(CandidateExperience)],
     registry : Optional(VerifierRegistry)]

PipelineResult ==
    [ok : BOOLEAN, candidate : Optional(CandidateExperience), stages : Seq(StageResult)]

\* What the configured distiller answers.
Distilled(call) ==
    IF call.distiller = None
    THEN RuleBasedDistill(call.lesson_executor_id, call.traces, call.context)
    ELSE [stage |-> "distill", ok |-> call.distiller.ok,
          candidate |-> call.distiller.candidate, consensus |-> None]

\* EDVPipeline.run, when nothing throws.
Run(call) ==
    LET executed == Ingest(call.min_traces, call.traces)
        distilled == Distilled(call)
        verified == Verify(call.registry, distilled.candidate)
    IN  IF ~executed.ok
        THEN [ok |-> FALSE, candidate |-> None, stages |-> <<executed>>]
        ELSE IF ~distilled.ok \/ distilled.candidate = None
        THEN [ok |-> FALSE, candidate |-> None, stages |-> <<executed, distilled>>]
        ELSE [ok |-> verified.ok, candidate |-> distilled.candidate,
              stages |-> <<executed, distilled, verified>>]

-----------------------------------------------------------------------------
(***************************************************************************)
(* What is displayed of a result, stage by stage.  Reasons are "failed".   *)
(***************************************************************************)
StageOutput ==
    [stage : Stages, content : Text \cup {"ok", "failed", "not reached", "idle"},
     candidate : Optional(CandidateExperience)]

\* EDVStageResult.output: the lesson as soon as there is one, so the output of
\* a verification does not tell whether it passed.
StageDisplay(outcome) ==
    [stage     |-> outcome.stage,
     content   |-> IF outcome.candidate # None THEN outcome.candidate.lesson
                   ELSE IF outcome.ok THEN "ok" ELSE "failed",
     candidate |-> outcome.candidate]

\* EDVPipelineResult.output_for
OutputFor(result, stage) ==
    LET reached == SelectInSeq(result.stages, LAMBDA outcome : outcome.stage = stage)
    IN  IF reached = 0
        THEN [stage |-> stage, content |-> "not reached", candidate |-> None]
        ELSE StageDisplay(result.stages[reached])
=============================================================================
