------------------------- MODULE EDVPipeline_proofs -------------------------
(***************************************************************************)
(* What PipelineSpec promises, for any set of calls, and what the built-in *)
(* verifiers read, whatever they are shown.                                *)
(***************************************************************************)
EXTENDS EDVPipeline, VerifierProbe, StoreAndStages_proofs, SequenceTheorems

\* One more stage after one, and after two.
LEMMA AppendOne ==
    ASSUME NEW x, NEW y
    PROVE  Append(<<x>>, y) = <<x, y>>
<1> DEFINE S == {x, y}
           longer == Append(<<x>>, y)
           tuple == <<x, y>>
<1>1. <<x>> \in Seq(S) /\ y \in S
    OBVIOUS
<1>2. longer \in Seq(S) /\ Len(longer) = 2 /\ longer[1] = x /\ longer[2] = y
    BY <1>1
<1>3. tuple \in Seq(S) /\ Len(tuple) = 2 /\ tuple[1] = x /\ tuple[2] = y
    OBVIOUS
<1> HIDE DEF longer, tuple, S
<1>4. longer = tuple
    BY <1>2, <1>3, SeqEqual
<1> QED
    BY <1>4 DEF longer, tuple

LEMMA AppendTwo ==
    ASSUME NEW x, NEW y, NEW z
    PROVE  Append(<<x, y>>, z) = <<x, y, z>>
<1> DEFINE S == {x, y, z}
           longer == Append(<<x, y>>, z)
           tuple == <<x, y, z>>
<1>1. <<x, y>> \in Seq(S) /\ z \in S
    OBVIOUS
<1>2. /\ longer \in Seq(S) /\ Len(longer) = 3
      /\ longer[1] = x /\ longer[2] = y /\ longer[3] = z
    BY <1>1
<1>3. /\ tuple \in Seq(S) /\ Len(tuple) = 3
      /\ tuple[1] = x /\ tuple[2] = y /\ tuple[3] = z
    OBVIOUS
<1> HIDE DEF longer, tuple, S
<1>4. longer = tuple
    BY <1>2, <1>3, SeqEqual
<1> QED
    BY <1>4 DEF longer, tuple

\* Where a run stands determines what it has gathered, and once it is done the
\* result is what Run says.
PipelineInv ==
    LET executed == Ingest(call.min_traces, call.traces)
    IN  /\ call \in Calls
        /\ \/ pc = "execute" /\ stages = <<>> /\ result = None
           \/ /\ pc = "distill" /\ stages = <<executed>> /\ result = None
              /\ executed.ok
           \/ /\ pc = "verify" /\ stages = <<executed, Distilled(call)>> /\ result = None
              /\ executed.ok /\ Distilled(call).ok /\ Distilled(call).candidate # None
           \/ pc = "done" /\ result = Run(call) /\ stages = Run(call).stages
           \/ pc = "raised" /\ result = None /\ stages \in Seq(StageResult)

\* The stages append to what the earlier ones gathered, and an early return
\* comes exactly where Run has it.
THEOREM PipelineInvariant == PipelineSpec => []PipelineInv
<1>1. PipelineInit => PipelineInv
    BY DEF PipelineInit, PipelineInv
<1>2. PipelineInv /\ [PipelineNext]_pipelineVars => PipelineInv'
    <2> SUFFICES ASSUME PipelineInv, [PipelineNext]_pipelineVars PROVE PipelineInv'
        OBVIOUS
    <2> DEFINE executed == Ingest(call.min_traces, call.traces)
               distilled == Distilled(call)
               verified == Verify(call.registry, distilled.candidate)
    <2>0. ASSUME call' = call,
                 \/ pc' = "distill" /\ stages' = <<executed>> /\ result' = None /\ executed.ok
                 \/ /\ pc' = "verify" /\ stages' = <<executed, distilled>> /\ result' = None
                    /\ executed.ok /\ distilled.ok /\ distilled.candidate # None
                 \/ pc' = "done" /\ result' = Run(call) /\ stages' = Run(call).stages
          PROVE  PipelineInv'
        BY <2>0 DEF PipelineInv
    <2>1. CASE Execute
        <3>1. /\ stages = <<>> /\ result = None /\ call' = call /\ stages' = <<executed>>
              /\ IF executed.ok THEN pc' = "distill" /\ result' = result
                 ELSE pc' = "done"
                      /\ result' = [ok |-> FALSE, candidate |-> None, stages |-> stages']
            BY <2>1 DEF PipelineInv, Execute, Finish
        <3>2. ~executed.ok =>
                  Run(call) = [ok |-> FALSE, candidate |-> None, stages |-> <<executed>>]
            BY DEF Run
        <3> HIDE DEF executed, distilled, verified
        <3>3. ASSUME ~executed.ok
              PROVE  result' = Run(call) /\ stages' = Run(call).stages
            <4>1. result' = [ok |-> FALSE, candidate |-> None, stages |-> stages']
                BY <3>1, <3>3
            <4>2. Run(call) = [ok |-> FALSE, candidate |-> None, stages |-> stages']
                BY <3>1, <3>2, <3>3
            <4> QED
                BY <4>1, <4>2
        <3> QED
            BY <2>0, <3>1, <3>3
    <2>2. CASE Distill
        <3>1. /\ stages = <<executed>> /\ result = None /\ executed.ok /\ call' = call
              /\ stages' = Append(stages, distilled)
              /\ IF distilled.ok /\ distilled.candidate # None
                 THEN pc' = "verify" /\ result' = result
                 ELSE pc' = "done"
                      /\ result' = [ok |-> FALSE, candidate |-> None, stages |-> stages']
            BY <2>2 DEF PipelineInv, Distill, Finish
        <3>2. executed.ok /\ ~(distilled.ok /\ distilled.candidate # None) =>
                  Run(call) = [ok |-> FALSE, candidate |-> None,
                               stages |-> <<executed, distilled>>]
            BY DEF Run
        <3> HIDE DEF executed, distilled, verified
        <3>3. stages' = <<executed, distilled>>
            BY <3>1, AppendOne
        <3>4. ASSUME ~(distilled.ok /\ distilled.candidate # None)
              PROVE  result' = Run(call) /\ stages' = Run(call).stages
            <4>1. result' = [ok |-> FALSE, candidate |-> None, stages |-> stages']
                BY <3>1, <3>4
            <4>2. Run(call) = [ok |-> FALSE, candidate |-> None, stages |-> stages']
                BY <3>1, <3>2, <3>3, <3>4
            <4> QED
                BY <4>1, <4>2
        <3> QED
            BY <2>0, <3>1, <3>3, <3>4
    <2>3. CASE VerifyCandidate
        <3>1. /\ stages = <<executed, distilled>> /\ result = None
              /\ executed.ok /\ distilled.ok /\ distilled.candidate # None
            BY <2>3 DEF PipelineInv, VerifyCandidate
        <3>2. stages[2] = distilled
            BY <3>1
        <3>3. /\ call' = call /\ pc' = "done" /\ stages' = Append(stages, verified)
              /\ result' = [ok |-> verified.ok, candidate |-> distilled.candidate,
                            stages |-> stages']
            BY <2>3, <3>2 DEF VerifyCandidate, Finish
        <3>4. Run(call) = [ok |-> verified.ok, candidate |-> distilled.candidate,
                           stages |-> <<executed, distilled, verified>>]
            BY <3>1 DEF Run
        <3> HIDE DEF executed, distilled, verified
        <3>5. stages' = <<executed, distilled, verified>>
            BY <3>1, <3>3, AppendTwo
        <3> QED
            BY <2>0, <3>3, <3>4, <3>5
    <2>4. CASE StageRaises
        <3>1. executed \in StageResult /\ distilled \in StageResult
            BY StagesTyped, CallAssumption DEF PipelineInv
        <3>2. stages \in {<<executed>>, <<executed, distilled>>}
            BY <2>4 DEF StageRaises, PipelineInv
        <3>3. <<executed>> \in Seq(StageResult) /\ <<executed, distilled>> \in Seq(StageResult)
            BY <3>1
        <3> HIDE DEF executed, distilled, verified
        <3>4. stages \in Seq(StageResult)
            BY <3>2, <3>3
        <3> QED
            BY <2>4, <3>4 DEF StageRaises, PipelineInv
    <2>5. CASE UNCHANGED pipelineVars
        BY <2>5 DEF pipelineVars, PipelineInv
    <2> QED
        BY <2>1, <2>2, <2>3, <2>4, <2>5 DEF PipelineNext
<1> QED
    BY <1>1, <1>2, PTL DEF PipelineSpec

\* The attributes of the objects edv.py builds are those its classes declare.
THEOREM PipelineTypes == PipelineSpec => []PipelineTypeOK
<1>1. PipelineInv => PipelineTypeOK
    <2> SUFFICES ASSUME PipelineInv PROVE PipelineTypeOK
        OBVIOUS
    <2>1. call \in Calls
        BY DEF PipelineInv
    <2>2. /\ Ingest(call.min_traces, call.traces) \in StageResult
          /\ Distilled(call) \in StageResult /\ Run(call) \in PipelineResult
        BY <2>1, StagesTyped, RunTyped, CallAssumption
    <2>3. Run(call).stages \in Seq(StageResult)
        BY <2>2 DEF PipelineResult
    <2>4. stages \in Seq(StageResult)
        <3> DEFINE executed == Ingest(call.min_traces, call.traces)
                   distilled == Distilled(call)
        <3>1. \/ stages \in {<<>>, <<executed>>, <<executed, distilled>>}
              \/ stages = Run(call).stages \/ stages \in Seq(StageResult)
            BY DEF PipelineInv
        <3>2. {<<>>, <<executed>>, <<executed, distilled>>} \subseteq Seq(StageResult)
            <4>1. <<executed>> \in Seq(StageResult) /\ <<executed, distilled>> \in Seq(StageResult)
                BY <2>2
            <4> QED
                BY <4>1
        <3> HIDE DEF executed, distilled
        <3> QED
            BY <2>3, <3>1, <3>2
    <2> QED
        BY <2>1, <2>2, <2>4 DEF PipelineInv, PipelineTypeOK, Optional
<1> QED
    BY <1>1, PipelineInvariant, PTL

\* EDVPipeline.run, early returns included, computes the function by which the
\* gate and the coordinator know it.
THEOREM PipelineReturnsRun == PipelineSpec => []ReturnsRun
<1>1. PipelineInv => ReturnsRun
    BY DEF PipelineInv, ReturnsRun
<1> QED
    BY <1>1, PipelineInvariant, PTL

\* A result has a candidate if and only if it has a verify stage, which is what
\* the fallback in the gate's audit distinguishes.
THEOREM PipelineCandidate == PipelineSpec => []CandidateIffVerifyReached
<1>1. ASSUME NEW c PROVE Run(c).candidate # None <=> Len(Run(c).stages) = 3
    BY DEF Run
<1>2. PipelineInv => CandidateIffVerifyReached
    BY <1>1 DEF PipelineInv, CandidateIffVerifyReached
<1> QED
    BY <1>2, PipelineInvariant, PTL

\* The only way to success leads through three stages that agree and a quorum
\* that endorses the very candidate that is handed on.
THEOREM PipelineOk == PipelineSpec => []OkMeansVerified
<1>1. ASSUME PipelineInv, result # None, result.ok
      PROVE  /\ [i \in DOMAIN result.stages |-> result.stages[i].stage]
                    = <<"execute", "distill", "verify">>
             /\ \A i \in DOMAIN result.stages : result.stages[i].ok
             /\ result.candidate # None /\ result.candidate = result.stages[2].candidate
             /\ call.registry # None =>
                    Endorsed(call.registry.min_passes, call.registry.answers)
    <2> DEFINE executed == Ingest(call.min_traces, call.traces)
               distilled == Distilled(call)
               verified == Verify(call.registry, distilled.candidate)
    <2>1. result = Run(call) /\ Run(call).ok
        BY <1>1 DEF PipelineInv
    <2>2. /\ executed.ok /\ distilled.ok /\ distilled.candidate # None
          /\ Run(call) = [ok |-> verified.ok, candidate |-> distilled.candidate,
                          stages |-> <<executed, distilled, verified>>]
        BY <2>1 DEF Run
    <2>3. executed.stage = "execute" /\ distilled.stage = "distill" /\ verified.stage = "verify"
        BY DEF Ingest, Distilled, RuleBasedDistill, Verify
    <2>4. call.registry # None => Endorsed(call.registry.min_passes, call.registry.answers)
        BY <1>1, <2>1, RunEndorsed, CallAssumption DEF PipelineInv
    <2> HIDE DEF executed, distilled, verified
    <2>5. verified.ok
        BY <2>1, <2>2
    <2> QED
        BY <2>1, <2>2, <2>3, <2>4, <2>5
<1>2. PipelineInv => OkMeansVerified
    BY <1>1 DEF OkMeansVerified
<1> QED
    BY <1>2, PipelineInvariant, PTL

\* A run that fails had too little to go by, a distiller that found nothing, or
\* verifiers that object and are not outvoted.
THEOREM PipelineFailure == PipelineSpec => []FailureHasCause
<1>1. ASSUME PipelineInv, result # None, ~result.ok,
             Ingest(call.min_traces, call.traces).ok,
             Distilled(call).ok, Distilled(call).candidate # None
      PROVE  call.registry # None /\ ~Endorsed(call.registry.min_passes, call.registry.answers)
    <2>1. result = Run(call)
        BY <1>1 DEF PipelineInv
    <2>2. ~Verify(call.registry, Distilled(call).candidate).ok
        BY <1>1, <2>1 DEF Run
    <2>3. call.registry # None /\ ~Evaluate(call.registry).passed
        BY <2>2 DEF Verify
    <2>4. call.registry \in VerifierRegistry
        BY <1>1, <2>3, CallAssumption DEF PipelineInv, PipelineCall, Optional
    <2> QED
        BY <2>3, <2>4, QuorumRule
<1>2. ASSUME PipelineInv, ~Ingest(call.min_traces, call.traces).ok
      PROVE  \/ Len(call.traces) < call.min_traces
             \/ \E i \in DOMAIN call.traces :
                    IsBlank(call.traces[i].executor_id) \/ IsBlank(call.traces[i].content)
    <2>1. call \in PipelineCall
        BY <1>2, CallAssumption DEF PipelineInv
    <2>2. Len(call.traces) \in Nat /\ call.min_traces \in Nat
        BY <2>1 DEF PipelineCall
    <2> QED
        BY <1>2, <2>2 DEF Ingest
<1>3. PipelineInv => FailureHasCause
    BY <1>1, <1>2 DEF FailureHasCause
<1> QED
    BY <1>3, PipelineInvariant, PTL

\* Success and failure are both deserved, for every bundle, distiller and
\* registry.
THEOREM PipelineVerdict == PipelineSpec => []VerdictIsDeserved
<1>1. OkMeansVerified /\ FailureHasCause => VerdictIsDeserved
    BY DEF VerdictIsDeserved
<1> QED
    BY <1>1, PipelineOk, PipelineFailure, PTL

\* What a run of the rule-based distiller hands on: a lesson that one of the
\* traces has, stripped, and whatever else its bundle says.
LEMMA RuleBasedFacts ==
    ASSUME PipelineInv, RuleBasedCandidate
    PROVE  LET lesson == LessonIndex(call.lesson_executor_id, call.traces)
           IN  /\ call.traces \in Seq(ExecutorTrace) /\ call.context \in DistillContext
               /\ lesson \in DOMAIN call.traces
               /\ ~IsBlank(call.traces[lesson].content)
               /\ call.lesson_executor_id \in {None, call.traces[lesson].executor_id}
               /\ result.candidate.lesson = Strip[call.traces[lesson].content]
               /\ result.candidate.evidence = MergedEvidence(call.traces)
               /\ result.candidate.metadata = MergedMetadata(call.context, call.traces)
<1> DEFINE lesson == LessonIndex(call.lesson_executor_id, call.traces)
           distilled == Distilled(call)
<1>1. call \in PipelineCall /\ result = Run(call) /\ result.candidate # None
      /\ call.distiller = None
    BY CallAssumption DEF PipelineInv, RuleBasedCandidate
<1>2. call.traces \in Seq(ExecutorTrace) /\ call.context \in DistillContext
    BY <1>1 DEF PipelineCall
<1>3. Ingest(call.min_traces, call.traces).ok /\ distilled.candidate # None
      /\ Run(call).candidate = distilled.candidate
    BY <1>1 DEF Run
<1>4. distilled.candidate =
          IF lesson = 0 THEN None
          ELSE [lesson |-> Strip[call.traces[lesson].content],
                principal |-> call.context.principal,
                scope |-> call.context.scope,
                relationship |-> call.context.relationship,
                classification |-> call.context.classification,
                trace_id |-> MergedTraceId(call.context, call.traces),
                evidence |-> MergedEvidence(call.traces),
                metadata |-> MergedMetadata(call.context, call.traces)]
    BY <1>1 DEF Distilled, RuleBasedDistill
<1>5. lesson \in 0 .. Len(call.traces)
      /\ (lesson # 0 =>
              call.lesson_executor_id \in {None, call.traces[lesson].executor_id})
    <2>1. PICK traces \in Seq(ExecutorTrace) : traces = call.traces
        BY <1>2
    <2>2. PICK executor_id : executor_id = call.lesson_executor_id
        OBVIOUS
    <2> QED
        BY <2>1, <2>2, LessonIndexFacts
<1>6. \A i \in DOMAIN call.traces : ~IsBlank(call.traces[i].content)
    BY <1>3 DEF Ingest
<1> HIDE DEF lesson, distilled
<1>7. lesson # 0
    BY <1>3, <1>4
<1>8. lesson \in DOMAIN call.traces
    BY <1>2, <1>5, <1>7
<1>9. /\ result.candidate.lesson = Strip[call.traces[lesson].content]
      /\ result.candidate.evidence = MergedEvidence(call.traces)
      /\ result.candidate.metadata = MergedMetadata(call.context, call.traces)
    BY <1>1, <1>3, <1>4, <1>7
<1> QED
    BY <1>2, <1>5, <1>6, <1>7, <1>8, <1>9 DEF lesson

\* What is passed on speaks for the whole bundle, whatever is in it: the lesson
\* is one of its contents and not blank, and no evidence is lost or repeated.
THEOREM BundleIsSpokenFor == PipelineSpec => []LessonSpeaksForBundle
<1>1. ASSUME PipelineInv, RuleBasedCandidate
      PROVE  /\ result.candidate.lesson # Empty
             /\ \E i \in DOMAIN call.traces :
                    /\ result.candidate.lesson = Strip[call.traces[i].content]
                    /\ call.lesson_executor_id \in {None, call.traces[i].executor_id}
             /\ IsInjective(result.candidate.evidence)
             /\ ToSet(result.candidate.evidence) =
                    UNION {ToSet(call.traces[i].evidence)
                               \cup {ExecutorTag[call.traces[i].executor_id]} :
                              i \in DOMAIN call.traces}
    <2>1. PICK lesson : lesson = LessonIndex(call.lesson_executor_id, call.traces)
        OBVIOUS
    <2>2. /\ lesson \in DOMAIN call.traces /\ ~IsBlank(call.traces[lesson].content)
          /\ call.lesson_executor_id \in {None, call.traces[lesson].executor_id}
          /\ result.candidate.lesson = Strip[call.traces[lesson].content]
        BY <1>1, <2>1, RuleBasedFacts
    <2>3. PICK traces \in Seq(ExecutorTrace) :
              traces = call.traces /\ result.candidate.evidence = MergedEvidence(traces)
        BY <1>1, RuleBasedFacts
    <2>4. /\ IsInjective(result.candidate.evidence)
          /\ ToSet(result.candidate.evidence) =
                 UNION {ToSet(traces[i].evidence)
                            \cup {ExecutorTag[traces[i].executor_id]} : i \in DOMAIN traces}
        BY <2>3, EvidenceFacts
    <2>5. result.candidate.lesson # Empty
        BY <2>2 DEF IsBlank
    <2> QED
        BY <2>2, <2>3, <2>4, <2>5
<1>2. PipelineInv => LessonSpeaksForBundle
    BY <1>1 DEF LessonSpeaksForBundle
<1> QED
    BY <1>2, PipelineInvariant, PTL

\* Key by key, the last trace that has a value tags the row, for every bundle.
THEOREM LastTraceTags == PipelineSpec => []LastTraceTagsTheRow
<1>1. ASSUME PipelineInv, RuleBasedCandidate, NEW key \in MetaKeys
      PROVE  LET givers == {i \in DOMAIN call.traces : call.traces[i].metadata[key] # None}
             IN  IF givers = {}
                 THEN result.candidate.metadata[key] = call.context.metadata[key]
                 ELSE \E last \in givers :
                          /\ \A i \in givers : i <= last
                          /\ result.candidate.metadata[key] = call.traces[last].metadata[key]
    <2>1. PICK traces \in Seq(ExecutorTrace), context \in DistillContext :
              /\ traces = call.traces /\ context = call.context
              /\ result.candidate.metadata = MergedMetadata(context, traces)
        BY <1>1, RuleBasedFacts
    <2> DEFINE givers == {i \in DOMAIN traces : traces[i].metadata[key] # None}
    <2>2. IF givers = {}
          THEN MergedMetadata(context, traces)[key] = context.metadata[key]
          ELSE \E last \in givers :
                   /\ \A i \in givers : i <= last
                   /\ MergedMetadata(context, traces)[key] = traces[last].metadata[key]
        BY MetadataFacts
    <2> QED
        BY <2>1, <2>2
<1>2. PipelineInv => LastTraceTagsTheRow
    BY <1>1 DEF LastTraceTagsTheRow
<1> QED
    BY <1>2, PipelineInvariant, PTL

(***************************************************************************)
(* What the built-in verifiers read.                                       *)
(***************************************************************************)
VerifierInv ==
    /\ text \in Seq(Token)
    /\ bundle \in Seq(ExecutorTrace)

\* Texts and bundles stay well formed.
THEOREM VerifierTypes == VerifierSpec => []VerifierInv
<1>1. VerifierInit => VerifierInv
    BY DEF VerifierInit, VerifierInv
<1>2. VerifierInv /\ [VerifierNext]_verifierVars => VerifierInv'
    <2> SUFFICES ASSUME VerifierInv, [VerifierNext]_verifierVars PROVE VerifierInv'
        OBVIOUS
    <2>1. CASE WriteToken
        <3>1. PICK token \in Tokens : text' = Append(text, token)
            BY <2>1 DEF WriteToken
        <3> QED
            BY <2>1, <3>1, ProbeAssumption DEF WriteToken, VerifierInv
    <2>2. CASE AddTrace
        <3>1. PICK trace \in Traces : bundle' = Append(bundle, trace)
            BY <2>2 DEF AddTrace
        <3> QED
            BY <2>2, <3>1, ProbeAssumption DEF AddTrace, VerifierInv
    <2>3. CASE UNCHANGED verifierVars
        BY <2>3 DEF verifierVars, VerifierInv
    <2> QED
        BY <2>1, <2>2, <2>3 DEF VerifierNext
<1> QED
    BY <1>1, <1>2, PTL DEF VerifierSpec

\* The two searches answer with a number in reach, or find none.
LEMMA AfterMatchFacts ==
    ASSUME VerifierInv
    PROVE  LET found == {ij \in Are(text, "anchor") \X Are(text, "number") :
                            Follows(text, ij[1], ij[2])}
           IN  IF found = {} THEN AfterMatch(text) = None
               ELSE \E ij \in found :
                        AfterMatch(text) \in {text[ij[2]].value, -text[ij[2]].value}
<1> DEFINE found == {ij \in Are(text, "anchor") \X Are(text, "number") :
                        Follows(text, ij[1], ij[2])}
           Firsts == {ij \in found : \A other \in found : ij[1] <= other[1]}
           anchors == {ij[1] : ij \in found}
<1>1. CASE found = {}
    BY <1>1 DEF AfterMatch
<1>2. CASE found # {}
    <2>1. \A ij \in found : ij[1] \in Nat
        BY DEF VerifierInv, Are
    <2>2. PICK least \in anchors : \A n \in anchors : least <= n
        <3>1. anchors \in SUBSET Nat /\ anchors # {}
            BY <1>2, <2>1
        <3> HIDE DEF anchors
        <3> QED
            BY <3>1, LeastOf
    <2>3. PICK ij \in found : ij[1] = least
        BY <2>2
    <2>4. \E ij1 \in found : \A other \in found : ij1[1] <= other[1]
        BY <2>2, <2>3
    <2>5. PICK first : first = CHOOSE ij1 \in found : \A other \in found : ij1[1] <= other[1]
        OBVIOUS
    <2>6. first \in found
        BY <2>4, <2>5
    <2>7. AfterMatch(text) =
              IF SignIsLeft(text, first[1], first[2]) THEN -text[first[2]].value
              ELSE text[first[2]].value
        BY <1>2, <2>5 DEF AfterMatch
    <2> QED
        BY <1>2, <2>6, <2>7
<1> QED
    BY <1>1, <1>2

LEMMA BeforeMatchFacts ==
    ASSUME VerifierInv
    PROVE  LET found == {j \in Are(text, "number") :
                            \E i \in Are(text, "anchor") : Precedes(text, j, i)}
           IN  IF found = {} THEN BeforeMatch(text) = None
               ELSE \E j \in found : BeforeMatch(text) \in {text[j].value, -text[j].value}
<1> DEFINE found == {j \in Are(text, "number") :
                        \E i \in Are(text, "anchor") : Precedes(text, j, i)}
<1>1. CASE found = {}
    BY <1>1 DEF BeforeMatch
<1>2. CASE found # {}
    <2>1. found \in SUBSET Nat
        BY DEF VerifierInv, Are
    <2>2. PICK first : first = CHOOSE j \in found : \A other \in found : j <= other
        OBVIOUS
    <2>3. BeforeMatch(text) = Signed(text, first)
        BY <1>2, <2>2 DEF BeforeMatch
    <2>4. first \in found
        <3> HIDE DEF found
        <3>1. \E j \in found : \A other \in found : j <= other
            BY <1>2, <2>1, LeastOf
        <3> QED
            BY <2>2, <3>1
    <2> QED
        BY <1>2, <2>3, <2>4 DEF Signed
<1> QED
    BY <1>1, <1>2

\* The search is exhaustive: the backtracking over anchors and numbers misses
\* none that is in reach, and reads nothing else.
THEOREM NumbersInReachAreRead == VerifierSpec => []ReadsANumberInReach
<1>1. VerifierInv => ReadsANumberInReach
    <2> SUFFICES ASSUME VerifierInv PROVE ReadsANumberInReach
        OBVIOUS
    <2> DEFINE near == {j \in Are(text, "number") : \E i \in Are(text, "anchor") :
                           Follows(text, i, j) \/ Precedes(text, j, i)}
               after == {ij \in Are(text, "anchor") \X Are(text, "number") :
                            Follows(text, ij[1], ij[2])}
               before == {j \in Are(text, "number") :
                             \E i \in Are(text, "anchor") : Precedes(text, j, i)}
               read == ExtractAnchoredNumber(text)
    <2>1. \A ij \in after : ij[2] \in near
        OBVIOUS
    <2>2. before \subseteq near
        OBVIOUS
    <2>3. \A j \in near : j \in before \/ after # {}
        <3> SUFFICES ASSUME NEW j \in near PROVE j \in before \/ after # {}
            OBVIOUS
        <3>1. PICK i \in Are(text, "anchor") : Follows(text, i, j) \/ Precedes(text, j, i)
            OBVIOUS
        <3>2. CASE Follows(text, i, j)
            <4>1. <<i, j>> \in Are(text, "anchor") \X Are(text, "number")
                OBVIOUS
            <4>2. <<i, j>> \in after
                BY <3>2, <4>1
            <4> QED
                BY <4>2
        <3>3. CASE Precedes(text, j, i)
            BY <3>3
        <3> QED
            BY <3>1, <3>2, <3>3
    <2>4. \A j \in near : text[j].value # None /\ -text[j].value # None
        <3>1. \A j \in DOMAIN text : text[j] \in Token
            BY DEF VerifierInv
        <3>2. \A j \in near : j \in DOMAIN text
            BY DEF Are
        <3>3. ASSUME NEW v \in Int PROVE v # None /\ -v # None
            BY SpellingAssumption
        <3> HIDE DEF near
        <3> QED
            BY <3>1, <3>2, <3>3 DEF Token
    <2>5. IF after = {} THEN AfterMatch(text) = None
          ELSE \E ij \in after : AfterMatch(text) \in {text[ij[2]].value, -text[ij[2]].value}
        BY AfterMatchFacts
    <2>6. IF before = {} THEN BeforeMatch(text) = None
          ELSE \E j \in before : BeforeMatch(text) \in {text[j].value, -text[j].value}
        BY BeforeMatchFacts
    <2>7. read = IF AfterMatch(text) # None THEN AfterMatch(text) ELSE BeforeMatch(text)
        BY DEF ExtractAnchoredNumber
    <2> HIDE DEF near, after, before, read
    <2>8. CASE after # {}
        BY <2>1, <2>4, <2>5, <2>7, <2>8 DEF ReadsANumberInReach, near, read
    <2>9. CASE after = {} /\ before # {}
        <3>1. PICK j \in before : BeforeMatch(text) \in {text[j].value, -text[j].value}
            BY <2>6, <2>9
        <3>2. j \in near /\ read \in {text[j].value, -text[j].value}
            BY <2>2, <2>5, <2>7, <2>9, <3>1
        <3> QED
            BY <3>2 DEF ReadsANumberInReach, near, read
    <2>10. CASE after = {} /\ before = {}
        <3>1. near = {} /\ read = None
            BY <2>3, <2>5, <2>6, <2>7, <2>10
        <3> QED
            BY <3>1 DEF ReadsANumberInReach, near, read
    <2> QED
        BY <2>8, <2>9, <2>10
<1> QED
    BY <1>1, VerifierTypes, PTL

\* What of an evidence a test run's verdict depends on: its first tag.
Untagged(items) == \A k \in DOMAIN items : items[k] \notin PytestTags
Leads(tag, items) ==
    /\ tag \in PytestTags
    /\ \E k \in DOMAIN items : /\ items[k] = tag
                               /\ \A j \in DOMAIN items : j < k => items[j] \notin PytestTags

LEMMA JoinedTags ==
    ASSUME NEW a \in Seq(Text), NEW b \in Seq(Text), NEW tag
    PROVE  /\ a \o b \in Seq(Text)
           /\ Untagged(a) /\ Untagged(b) => Untagged(a \o b)
           /\ Leads(tag, a) => Leads(tag, a \o b)
           /\ Untagged(a) /\ Leads(tag, b) => Leads(tag, a \o b)
<1>1. PICK m \in Nat, n \in Nat : m = Len(a) /\ n = Len(b)
    OBVIOUS
<1>2. PICK c \in Seq(Text) : c = a \o b
    <2>1. a \o b \in Seq(Text)
        OBVIOUS
    <2> QED
        BY <2>1
<1>3. /\ DOMAIN a = 1 .. m /\ DOMAIN b = 1 .. n /\ DOMAIN c = 1 .. (m + n)
      /\ \A i \in 1 .. m : c[i] = a[i]
      /\ \A i \in 1 .. n : c[m + i] = b[i]
    BY <1>1, <1>2
<1>4. \A i \in 1 .. (m + n) : i \in 1 .. m \/ (i - m \in 1 .. n /\ c[i] = b[i - m])
    <2> SUFFICES ASSUME NEW i \in 1 .. (m + n), i \notin 1 .. m
                 PROVE  i - m \in 1 .. n /\ c[i] = b[i - m]
        OBVIOUS
    <2>1. i - m \in 1 .. n /\ m + (i - m) = i
        OBVIOUS
    <2> QED
        BY <1>3, <2>1
<1>5. Untagged(a) /\ Untagged(b) => Untagged(c)
    BY <1>3, <1>4 DEF Untagged
<1>6. ASSUME Leads(tag, a) PROVE Leads(tag, c)
    <2>1. PICK k \in 1 .. m : a[k] = tag /\ \A j \in 1 .. m : j < k => a[j] \notin PytestTags
        BY <1>3, <1>6 DEF Leads
    <2>2. k \in 1 .. (m + n) /\ c[k] = tag
        <3>1. k \in 1 .. (m + n)
            OBVIOUS
        <3> QED
            BY <1>3, <2>1, <3>1
    <2>3. \A j \in 1 .. (m + n) : j < k => j \in 1 .. m /\ c[j] = a[j]
        <3>1. \A j \in 1 .. (m + n) : j < k => j \in 1 .. m
            OBVIOUS
        <3> QED
            BY <1>3, <3>1
    <2> QED
        BY <1>3, <1>6, <2>1, <2>2, <2>3 DEF Leads
<1>7. ASSUME Untagged(a), Leads(tag, b) PROVE Leads(tag, c)
    <2>1. PICK k \in 1 .. n : b[k] = tag /\ \A j \in 1 .. n : j < k => b[j] \notin PytestTags
        BY <1>3, <1>7 DEF Leads
    <2>2. m + k \in 1 .. (m + n) /\ c[m + k] = tag
        <3>1. m + k \in 1 .. (m + n)
            OBVIOUS
        <3>2. c[m + k] = b[k]
            BY <1>3
        <3> QED
            BY <2>1, <3>1, <3>2
    <2>3. ASSUME NEW j \in 1 .. (m + n), j < m + k PROVE c[j] \notin PytestTags
        <3>1. CASE j \in 1 .. m
            BY <1>3, <1>7, <3>1 DEF Untagged
        <3>2. CASE j \notin 1 .. m
            <4>1. j - m \in 1 .. n /\ c[j] = b[j - m] /\ j - m < k
                BY <1>4, <2>3, <3>2
            <4> QED
                BY <2>1, <4>1
        <3> QED
            BY <3>1, <3>2
    <2> QED
        BY <1>3, <1>7, <2>2, <2>3 DEF Leads
<1> QED
    BY <1>2, <1>5, <1>6, <1>7

LEMMA OneItemTags ==
    ASSUME NEW item \in Text, NEW tag
    PROVE  /\ <<item>> \in Seq(Text)
           /\ item \notin PytestTags => Untagged(<<item>>)
           /\ item = tag /\ tag \in PytestTags => Leads(tag, <<item>>)
<1>1. PICK one \in Seq(Text) : one = <<item>>
    <2>1. <<item>> \in Seq(Text)
        OBVIOUS
    <2> QED
        BY <2>1
<1>2. DOMAIN one = {1} /\ one[1] = item
    BY <1>1
<1> QED
    BY <1>1, <1>2 DEF Untagged, Leads

\* dict.fromkeys keeps the first tag first.
LEMMA OneMoreTags ==
    ASSUME NEW all \in Seq(Text), NEW item \in Text, NEW tag
    PROVE  /\ Untagged(all) /\ item \notin PytestTags => Untagged(OneMore(all, item))
           /\ Leads(tag, all) => Leads(tag, OneMore(all, item))
           /\ Untagged(all) /\ item = tag /\ tag \in PytestTags => Leads(tag, OneMore(all, item))
<1>1. PICK one \in Seq(Text) : one = <<item>>
    BY OneItemTags
<1>2. OneMore(all, item) = all \/ OneMore(all, item) = all \o one
    <2>1. Append(all, item) = all \o one
        BY <1>1
    <2> QED
        BY <2>1 DEF OneMore
<1>3. ASSUME Untagged(all), item \in PytestTags PROVE OneMore(all, item) = all \o one
    <2>1. ~Contains(all, item)
        BY <1>3 DEF Untagged, Contains
    <2>2. Append(all, item) = all \o one
        BY <1>1
    <2> QED
        BY <2>1, <2>2 DEF OneMore
<1>4. /\ item \notin PytestTags => Untagged(one)
      /\ item = tag /\ tag \in PytestTags => Leads(tag, one)
    BY <1>1, OneItemTags
<1>5. /\ Untagged(all) /\ Untagged(one) => Untagged(all \o one)
      /\ Leads(tag, all) => Leads(tag, all \o one)
      /\ Untagged(all) /\ Leads(tag, one) => Leads(tag, all \o one)
    BY JoinedTags
<1> QED
    BY <1>2, <1>3, <1>4, <1>5

\* A fold that meets untagged steps until one brings the tag.
LEMMA TagArrives ==
    ASSUME NEW n \in Nat, NEW acc \in [0 .. n -> Seq(Text)], acc[0] = <<>>,
           NEW first \in 1 .. n, NEW tag,
           \A m \in 1 .. n : m < first /\ Untagged(acc[m - 1]) => Untagged(acc[m]),
           Untagged(acc[first - 1]) => Leads(tag, acc[first]),
           \A m \in 1 .. n : Leads(tag, acc[m - 1]) => Leads(tag, acc[m])
    PROVE  Leads(tag, acc[n])
<1> DEFINE S == {m \in Nat : m <= n => IF m < first THEN Untagged(acc[m]) ELSE Leads(tag, acc[m])}
<1>1. 0 \in S
    BY DEF Untagged
<1>2. ASSUME NEW m \in Nat, m \in S PROVE m + 1 \in S
    <2> SUFFICES ASSUME m + 1 <= n
                 PROVE  IF m + 1 < first THEN Untagged(acc[m + 1]) ELSE Leads(tag, acc[m + 1])
        OBVIOUS
    <2>1. m + 1 \in 1 .. n /\ (m + 1) - 1 = m /\ m <= n
        OBVIOUS
    <2>2. IF m < first THEN Untagged(acc[m]) ELSE Leads(tag, acc[m])
        BY <1>2, <2>1
    <2> HIDE DEF S
    <2>3. CASE m + 1 < first
        BY <2>1, <2>2, <2>3
    <2>4. CASE m + 1 = first
        BY <2>1, <2>2, <2>4
    <2>5. CASE m + 1 > first
        BY <2>1, <2>2, <2>5
    <2> QED
        BY <2>3, <2>4, <2>5
<1>3. n \in S
    <2> HIDE DEF S
    <2> QED
        BY <1>1, <1>2, Upward
<1> QED
    BY <1>3

LEMMA FlattenTags ==
    ASSUME NEW parts \in Seq(Seq(Text)), NEW first \in DOMAIN parts, NEW tag,
           \A i \in DOMAIN parts : i < first => Untagged(parts[i]),
           Leads(tag, parts[first])
    PROVE  Leads(tag, FlattenSeq(parts))
<1>1. PICK n \in Nat : n = Len(parts)
    OBVIOUS
<1>2. DOMAIN parts = 1 .. n /\ first \in 1 .. n /\ \A i \in 1 .. n : parts[i] \in Seq(Text)
    BY <1>1
<1>3. PICK acc \in [0 .. n -> Seq(Text)] :
          /\ acc[0] = <<>> /\ acc[n] = FlattenSeq(parts)
          /\ \A m \in 1 .. n : acc[m] = acc[m - 1] \o parts[m]
    <2>1. PICK T : T = Text
        OBVIOUS
    <2>2. parts \in Seq(Seq(T)) /\ parts # <<>>
        BY <1>2, <2>1
    <2>3. \E acc \in [0 .. Len(parts) -> Seq(T)] :
              /\ acc[0] = <<>> /\ acc[Len(parts)] = FlattenSeq(parts)
              /\ \A m \in 1 .. Len(parts) : acc[m] = acc[m - 1] \o parts[m]
        BY <2>2, FlattenFold
    <2> QED
        BY <1>1, <2>1, <2>3
<1>4. ASSUME NEW m \in 1 .. n
      PROVE  /\ Untagged(acc[m - 1]) /\ Untagged(parts[m]) => Untagged(acc[m])
             /\ Leads(tag, acc[m - 1]) => Leads(tag, acc[m])
             /\ Untagged(acc[m - 1]) /\ Leads(tag, parts[m]) => Leads(tag, acc[m])
    <2>1. m - 1 \in 0 .. n
        OBVIOUS
    <2>2. PICK a \in Seq(Text), b \in Seq(Text) : a = acc[m - 1] /\ b = parts[m]
        BY <1>2, <2>1
    <2>3. acc[m] = a \o b
        BY <1>3, <2>2
    <2> QED
        BY <2>2, <2>3, JoinedTags
<1>5. \A m \in 1 .. n : m < first /\ Untagged(acc[m - 1]) => Untagged(acc[m])
    BY <1>2, <1>4
<1>6. Untagged(acc[first - 1]) => Leads(tag, acc[first])
    BY <1>2, <1>4
<1>7. \A m \in 1 .. n : Leads(tag, acc[m - 1]) => Leads(tag, acc[m])
    BY <1>4
<1>8. Leads(tag, acc[n])
    BY <1>2, <1>3, <1>5, <1>6, <1>7, TagArrives
<1> QED
    BY <1>3, <1>8

LEMMA MergedTags ==
    ASSUME NEW traces \in Seq(ExecutorTrace),
           NEW flat \in Seq(Text), flat = FlattenSeq(Parts(traces)),
           NEW tag, Leads(tag, flat)
    PROVE  Leads(tag, MergedEvidence(traces))
<1>1. PICK n \in Nat : n = Len(flat)
    OBVIOUS
<1>2. PICK acc \in [0 .. n -> Seq(Text)] :
          /\ acc[0] = <<>> /\ acc[n] = MergedEvidence(traces)
          /\ \A m \in 1 .. n : acc[m] = OneMore(acc[m - 1], flat[m])
    BY <1>1, EvidenceFold
<1>3. DOMAIN flat = 1 .. n /\ \A m \in 1 .. n : flat[m] \in Text
    BY <1>1
<1>4. PICK first \in 1 .. n :
          /\ flat[first] = tag /\ tag \in PytestTags
          /\ \A j \in 1 .. n : j < first => flat[j] \notin PytestTags
    BY <1>3 DEF Leads
<1>5. ASSUME NEW m \in 1 .. n
      PROVE  /\ Untagged(acc[m - 1]) /\ flat[m] \notin PytestTags => Untagged(acc[m])
             /\ Leads(tag, acc[m - 1]) => Leads(tag, acc[m])
             /\ Untagged(acc[m - 1]) /\ flat[m] = tag => Leads(tag, acc[m])
    <2>1. m - 1 \in 0 .. n
        OBVIOUS
    <2>2. PICK all \in Seq(Text), item \in Text : all = acc[m - 1] /\ item = flat[m]
        BY <1>3, <2>1
    <2>3. acc[m] = OneMore(all, item)
        BY <1>2, <2>2
    <2> QED
        BY <1>4, <2>2, <2>3, OneMoreTags
<1>6. \A m \in 1 .. n : m < first /\ Untagged(acc[m - 1]) => Untagged(acc[m])
    BY <1>4, <1>5
<1>7. Untagged(acc[first - 1]) => Leads(tag, acc[first])
    BY <1>4, <1>5
<1>8. \A m \in 1 .. n : Leads(tag, acc[m - 1]) => Leads(tag, acc[m])
    BY <1>5
<1>9. Leads(tag, acc[n])
    BY <1>2, <1>6, <1>7, <1>8, TagArrives
<1> QED
    BY <1>2, <1>9

\* The verdict of a candidate without an exit code.
LEMMA VerdictOfTags ==
    ASSUME NEW candidate, candidate.evidence \in Seq(Text), ExitCode(candidate) = None
    PROVE  /\ Untagged(candidate.evidence) => PytestVerify(candidate) = "skip"
           /\ \A tag : Leads(tag, candidate.evidence) =>
                  PytestVerify(candidate) = IF tag = PytestPassed THEN "pass" ELSE "fail"
<1> DEFINE I == {i \in 1 .. Len(candidate.evidence) : candidate.evidence[i] \in PytestTags}
           place == SelectInSeq(candidate.evidence, LAMBDA item : item \in PytestTags)
<1>1. PICK items \in Seq(Text) : items = candidate.evidence
    OBVIOUS
<1>2. DOMAIN items = 1 .. Len(items) /\ I \in SUBSET Nat
    OBVIOUS
<1>3. place = IF I # {} THEN Min(I) ELSE 0
    BY DEF SelectInSeq
<1>4. PytestVerify(candidate) =
          IF place = 0 THEN "skip"
          ELSE IF items[place] = PytestPassed THEN "pass" ELSE "fail"
    BY <1>1 DEF PytestVerify
<1> HIDE DEF place
<1>5. CASE Untagged(items)
    <2>1. I = {}
        BY <1>1, <1>2, <1>5 DEF Untagged
    <2>2. ~ \E tag : Leads(tag, items)
        BY <1>5 DEF Untagged, Leads
    <2> QED
        BY <1>1, <1>3, <1>4, <2>1, <2>2
<1>6. ASSUME NEW tag, Leads(tag, items)
      PROVE  PytestVerify(candidate) = IF tag = PytestPassed THEN "pass" ELSE "fail"
    <2>1. PICK k \in DOMAIN items : items[k] = tag /\ tag \in PytestTags
                                    /\ \A j \in DOMAIN items : j < k => items[j] \notin PytestTags
        BY <1>6 DEF Leads
    <2>2. k \in I /\ \A i \in I : k <= i
        BY <1>1, <1>2, <2>1
    <2>3. Min(I) \in I /\ \A i \in I : Min(I) <= i
        <3> HIDE DEF I
        <3> QED
            BY <1>2, <2>2, HasMin
    <2>4. PICK least \in Nat : least = Min(I)
        BY <1>2, <2>3
    <2>5. least <= k /\ k <= least /\ k \in Nat /\ k # 0
        <3>1. Len(items) \in Nat /\ k \in 1 .. Len(items)
            BY <1>2
        <3> HIDE DEF I
        <3>2. least <= k /\ k <= least
            BY <2>2, <2>3, <2>4
        <3> QED
            BY <3>1, <3>2
    <2>6. Min(I) = k
        BY <2>4, <2>5
    <2> QED
        BY <1>3, <1>4, <2>1, <2>2, <2>5, <2>6
<1> QED
    BY <1>1, <1>5, <1>6

\* The evidence of one trace, with its executor's tag behind it.
LEMMA PartTags ==
    ASSUME NEW traces \in Seq(ExecutorTrace), NEW i \in DOMAIN traces
    PROVE  /\ TagsOf(traces[i]) = {} => Untagged(Parts(traces)[i])
           /\ TagsOf(traces[i]) # {} =>
                  Leads(traces[i].evidence[Min(TagsOf(traces[i]))], Parts(traces)[i])
<1>1. PICK items \in Seq(Text), mark \in Text :
          /\ items = traces[i].evidence /\ mark = ExecutorTag[traces[i].executor_id]
          /\ mark \notin PytestTags
    <2>1. traces[i] \in ExecutorTrace
        OBVIOUS
    <2>2. traces[i].evidence \in Seq(Text) /\ traces[i].executor_id \in Text
        BY <2>1 DEF ExecutorTrace
    <2> QED
        BY <2>2, ExecutorTagAssumption, SpellingAssumption
<1>2. PICK one \in Seq(Text) : one = <<mark>> /\ Untagged(one)
    BY <1>1, OneItemTags
<1>3. Parts(traces)[i] = items \o one
    <2>1. Append(items, mark) = items \o one
        BY <1>2
    <2> QED
        BY <1>1, <2>1 DEF Parts
<1>4. DOMAIN items = 1 .. Len(items)
    OBVIOUS
<1>5. CASE TagsOf(traces[i]) = {}
    <2>1. Untagged(items)
        BY <1>1, <1>5 DEF TagsOf, Untagged
    <2> QED
        BY <1>2, <1>3, <1>5, <2>1, JoinedTags
<1>6. CASE TagsOf(traces[i]) # {}
    <2>1. PICK places : places = TagsOf(traces[i])
        OBVIOUS
    <2>2. /\ places \in SUBSET Nat /\ places \subseteq DOMAIN items
          /\ \A k \in DOMAIN items : k \in places <=> items[k] \in PytestTags
        <3>1. places = {k \in 1 .. Len(items) : items[k] \in PytestTags}
            BY <1>1, <1>4, <2>1 DEF TagsOf
        <3> QED
            BY <1>4, <3>1
    <2>3. Min(places) \in places /\ \A k \in places : Min(places) <= k
        BY <1>6, <2>1, <2>2, HasMin
    <2>4. PICK k \in DOMAIN items : k = Min(places)
        BY <2>2, <2>3
    <2>5. \A j \in DOMAIN items : j < k => j \notin places
        <3>1. \A j \in DOMAIN items : j < k => ~(k <= j)
            BY <1>4
        <3> QED
            BY <2>3, <2>4, <3>1
    <2>6. Leads(items[k], items)
        BY <2>2, <2>3, <2>4, <2>5 DEF Leads
    <2>7. PICK tag : tag = items[k]
        OBVIOUS
    <2>8. Leads(tag, items \o one)
        BY <2>6, <2>7, JoinedTags
    <2>9. tag = traces[i].evidence[Min(TagsOf(traces[i]))]
        BY <1>1, <2>1, <2>4, <2>7
    <2> QED
        BY <1>3, <1>6, <2>8, <2>9
<1> QED
    BY <1>5, <1>6

\* A bundle of any length is judged by its last exit code, or else its first
\* tag: the merge of metadata and the dict.fromkeys of evidence preserve both.
THEOREM TestRunsSpeak == VerifierSpec => []PytestSpeaksForBundle
<1>1. ASSUME VerifierInv, bundle # <<>>, NEW context \in Contexts
      PROVE  LET coded  == {i \in DOMAIN bundle : bundle[i].metadata["pytest_exit_code"] # None}
                 tagged == {i \in DOMAIN bundle : TagsOf(bundle[i]) # {}}
                 code   == (IF coded = {} THEN context
                            ELSE bundle[Max(coded)]).metadata["pytest_exit_code"]
                 tag    == LET first == bundle[Min(tagged)] IN first.evidence[Min(TagsOf(first))]
             IN  PytestVerify(Candidate(context)) =
                     IF code # None
                     THEN IF IsZero(PyValue[code]) THEN "pass" ELSE "fail"
                     ELSE IF tagged = {} THEN "skip"
                     ELSE IF tag = PytestPassed THEN "pass" ELSE "fail"
    <2>1. PICK traces \in Seq(ExecutorTrace) : traces = bundle /\ traces # <<>>
        BY <1>1 DEF VerifierInv
    <2>2. PICK n \in Nat : n = Len(traces) /\ DOMAIN traces = 1 .. n
        OBVIOUS
    <2>3. PICK key \in MetaKeys : key = "pytest_exit_code"
        BY SpellingAssumption
    <2>4. context \in DistillContext
        BY ProbeAssumption
    <2> DEFINE coded  == {i \in DOMAIN bundle : bundle[i].metadata["pytest_exit_code"] # None}
               tagged == {i \in DOMAIN bundle : TagsOf(bundle[i]) # {}}
               code   == (IF coded = {} THEN context
                          ELSE bundle[Max(coded)]).metadata["pytest_exit_code"]
               first  == bundle[Min(tagged)]
               tag    == first.evidence[Min(TagsOf(first))]
               candidate == Candidate(context)
    <2>5. /\ candidate.evidence = MergedEvidence(traces)
          /\ candidate.metadata = MergedMetadata(context, traces)
        <3>1. LessonIndex(None, traces) = 1
            BY <2>1 DEF LessonIndex
        <3> QED
            BY <2>1, <3>1 DEF Candidate, RuleBasedDistill
    <2> HIDE DEF candidate
    <2>6. ExitCode(candidate) = code
        <3>1. PICK givers \in SUBSET (1 .. n) :
                  /\ givers = coded
                  /\ givers = {i \in DOMAIN traces : traces[i].metadata[key] # None}
            BY <2>1, <2>2, <2>3
        <3>2. IF givers = {}
              THEN MergedMetadata(context, traces)[key] = context.metadata[key]
              ELSE \E last \in givers :
                       /\ \A i \in givers : i <= last
                       /\ MergedMetadata(context, traces)[key] = traces[last].metadata[key]
            BY <2>4, <3>1, MetadataFacts
        <3>3. ExitCode(candidate) = MergedMetadata(context, traces)[key]
            BY <2>3, <2>5 DEF ExitCode
        <3> HIDE DEF coded
        <3>4. CASE givers = {}
            BY <2>3, <3>1, <3>2, <3>3, <3>4
        <3>5. CASE givers # {}
            <4>1. PICK last \in givers :
                      /\ \A i \in givers : i <= last
                      /\ MergedMetadata(context, traces)[key] = traces[last].metadata[key]
                BY <3>2, <3>5
            <4>2. Max(givers) \in givers /\ \A i \in givers : Max(givers) >= i
                BY <3>5, HasMax
            <4>3. PICK greatest \in 1 .. n : greatest = Max(givers)
                BY <4>2
            <4>4. greatest <= last /\ last <= greatest /\ last \in 1 .. n
                BY <4>1, <4>2, <4>3
            <4>5. Max(givers) = last
                BY <4>3, <4>4
            <4> QED
                BY <2>1, <2>3, <3>1, <3>3, <3>5, <4>1, <4>5
        <3> QED
            BY <3>4, <3>5
    <2> HIDE DEF coded, code
    <2>7. CASE code # None
        <3>1. PytestVerify(candidate) = IF IsZero(PyValue[code]) THEN "pass" ELSE "fail"
            BY <2>6, <2>7 DEF PytestVerify
        <3> QED
            BY <2>7, <3>1 DEF candidate, code, coded
    <2>8. candidate.evidence \in Seq(Text)
        BY <2>5, EvidenceFacts
    <2>9. CASE code = None /\ tagged = {}
        <3>1. \A i \in DOMAIN traces : TagsOf(traces[i]) = {}
            BY <2>1, <2>9
        <3>2. \A i \in DOMAIN traces :
                  ToSet(traces[i].evidence) \cap PytestTags = {}
                  /\ ExecutorTag[traces[i].executor_id] \notin PytestTags
            <4>1. \A i \in DOMAIN traces : traces[i] \in ExecutorTrace
                OBVIOUS
            <4>2. \A i \in DOMAIN traces : traces[i].executor_id \in Text
                BY <4>1 DEF ExecutorTrace
            <4> QED
                BY <3>1, <4>2, SpellingAssumption DEF TagsOf, ToSet
        <3>3. ToSet(MergedEvidence(traces)) \cap PytestTags = {}
            BY <3>2, EvidenceFacts
        <3>4. Untagged(candidate.evidence)
            BY <2>5, <3>3 DEF Untagged, ToSet
        <3>5. PytestVerify(candidate) = "skip"
            BY <2>6, <2>8, <2>9, <3>4, VerdictOfTags
        <3> QED
            BY <2>9, <3>5 DEF candidate, code, coded
    <2>10. CASE code = None /\ tagged # {}
        <3>1. PICK places : places = tagged
            OBVIOUS
        <3>2. /\ places = tagged /\ places \in SUBSET Nat /\ places \subseteq DOMAIN traces
              /\ \A i \in DOMAIN traces : i \in places <=> TagsOf(traces[i]) # {}
            <4>1. places = {i \in 1 .. n : TagsOf(traces[i]) # {}}
                BY <2>1, <2>2, <3>1
            <4> HIDE DEF tagged
            <4>2. places \in SUBSET Nat /\ places \subseteq DOMAIN traces
                BY <2>2, <4>1
            <4>3. \A i \in DOMAIN traces : i \in places <=> TagsOf(traces[i]) # {}
                BY <2>2, <4>1
            <4> QED
                BY <3>1, <4>2, <4>3
        <3>3. Min(places) \in places /\ \A i \in places : Min(places) <= i
            BY <2>10, <3>2, HasMin
        <3>4. PICK i0 \in DOMAIN traces : i0 = Min(places)
            BY <3>2, <3>3
        <3>5. \A i \in DOMAIN traces : i < i0 => TagsOf(traces[i]) = {}
            <4>1. \A i \in DOMAIN traces : i < i0 => ~(i0 <= i)
                BY <2>2
            <4> QED
                BY <3>2, <3>3, <3>4, <4>1
        <3>6. tag = traces[i0].evidence[Min(TagsOf(traces[i0]))]
            BY <2>1, <3>2, <3>4
        <3>7. TagsOf(traces[i0]) # {}
            BY <3>2, <3>3, <3>4
        <3> HIDE DEF tag, tagged
        <3>8. Leads(tag, Parts(traces)[i0])
            BY <3>6, <3>7, PartTags
        <3>9. PICK parts \in Seq(Seq(Text)) : parts = Parts(traces) /\ DOMAIN parts = DOMAIN traces
            BY PartsTyped DEF Parts
        <3>10. \A i \in DOMAIN parts : i < i0 => Untagged(parts[i])
            BY <3>5, <3>9, PartTags
        <3>11. Leads(tag, FlattenSeq(parts))
            BY <3>8, <3>9, <3>10, FlattenTags
        <3>12. PICK flat \in Seq(Text) : flat = FlattenSeq(Parts(traces))
            BY <3>9, FlattenFacts
        <3>13. Leads(tag, candidate.evidence)
            BY <2>5, <3>9, <3>11, <3>12, MergedTags
        <3>14. PytestVerify(candidate) = IF tag = PytestPassed THEN "pass" ELSE "fail"
            BY <2>6, <2>8, <2>10, <3>13, VerdictOfTags
        <3> QED
            BY <2>10, <3>14 DEF candidate, code, coded, tag, tagged
    <2> QED
        BY <2>7, <2>9, <2>10 DEF code, coded
<1>2. VerifierInv => PytestSpeaksForBundle
    BY <1>1 DEF PytestSpeaksForBundle
<1> QED
    BY <1>2, VerifierTypes, PTL
=============================================================================
