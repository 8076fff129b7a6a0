--------------------------- MODULE GateMemHarness ---------------------------
(***************************************************************************)
(* gatemem_harness.py: episodes replayed against an agent stub that writes *)
(* and reads through a gate of its own, and the score of their probes.     *)
(* The stub finds the rows it is to bind or forget by a part of the        *)
(* lesson, in an index of the lessons it has committed.                    *)
(***************************************************************************)
EXTENDS MemoryGate, GateMemEpisodes

CONSTANT Suites  \* the sequences of episodes that run_harness is given

VARIABLES
    suite,    \* the episodes of this run
    episode,  \* which of them is being replayed
    done,     \* how many of its operations have been performed
    index,    \* _lesson_index, in the order of its keys
    results   \* the verdicts so far

scriptVars  == <<suite, episode, done>>
harnessVars == <<gateVars, scriptVars, index, results>>

EpisodeCall(write) ==
    [traces |-> write.traces, context |-> write.context, min_traces |-> 1,
     lesson_executor_id |-> None, distiller |-> None, registry |-> None]

ASSUME HarnessAssumption ==
    /\ Suites \subseteq Seq(Episode)
    /\ \A s \in Suites : \A i \in DOMAIN s :
          /\ \A j \in DOMAIN s[i].writes : EpisodeCall(s[i].writes[j]) \in Submissions
          /\ \A j \in DOMAIN s[i].embedding_binds :
                 s[i].embedding_binds[j].vector_id \in VectorIds

\* run_episode, as the operations it performs one after another.
Operations(e) ==
    LET Each(op, args) == [i \in DOMAIN args |-> [op |-> op, arg |-> args[i], nr |-> i]]
    IN  <<[op |-> "reset"]>>
        \o Each("ingest", e.writes) \o Each("bind", e.embedding_binds)
        \o Each("forget", e.forgets) \o Each("probe", e.checkpoints)

\* The operation that is next.
Current == Operations(suite[episode])[done + 1]

HarnessTypeOK ==
    /\ GateTypeOK
    /\ suite \in Suites
    /\ episode \in 1 .. (Len(suite) + 1)
    /\ done \in Nat
    /\ index \in Seq([lesson : Text, id : MemoryIds])
    /\ results \in Seq([episode : DOMAIN suite, nr : Nat, category : CheckpointCategory,
                        passed : BOOLEAN])

HarnessInit ==
    /\ GateInit /\ mode = "auto_commit"
    /\ suite \in Suites
    /\ episode = 1 /\ done = 0
    /\ index = <<>>
    /\ results = <<>>

-----------------------------------------------------------------------------
(***************************************************************************)
(* The stub.                                                               *)
(***************************************************************************)
\* The place of the oldest key that contains the part; 0 when none does.
LessonPlace(items, part) == SelectInSeq(items, LAMBDA item : <<part, item.lesson>> \in Within)

\* _memory_id_for_lesson
MemoryIdForLesson(part) ==
    IF LessonPlace(index, part) = 0 THEN None ELSE index[LessonPlace(index, part)].id

\* A lesson that is committed again keeps its place and gets the new row.
Indexed(items, lesson, id) ==
    LET found == SelectInSeq(items, LAMBDA item : item.lesson = lesson)
    IN  IF found = 0 THEN Append(items, [lesson |-> lesson, id |-> id])
        ELSE [items EXCEPT ![found].id = id]

\* respond(), as the lessons that it joins by newlines.
Respond(filters) == {entries[id].lesson : id \in List(filters)}

StubEmbedding(part) ==
    IF MemoryIdForLesson(part) = None THEN None ELSE EmbeddingVectorId(MemoryIdForLesson(part))

\* One turn of the loops of run_harness and run_episode.
Do(op) ==
    /\ episode \in DOMAIN suite
    /\ Current.op = op
    /\ IF done + 1 < Len(Operations(suite[episode]))
       THEN done' = done + 1 /\ UNCHANGED episode
       ELSE done' = 0 /\ episode' = episode + 1
    /\ UNCHANGED suite

FreshGate ==
    /\ mode' = "auto_commit" /\ attached' = FALSE /\ auditLog' = <<>> /\ calls' = 0
    /\ latest' = None
    /\ pending' = [pid \in PendingIds |-> None] /\ held' = pending'
    /\ promoted' = [pid \in PendingIds |-> None]
    /\ unlogged' = [written |-> {}, deleted |-> {}]

\* Mutant: the new gate is given the old store.
StubResetKeepsStore ==
    Do("reset") /\ FreshGate /\ index' = <<>> /\ UNCHANGED <<storeVars, results>>

\* reset(): a new gate over a new store.
StubReset ==
    Do("reset") /\ FreshGate /\ Clear /\ index' = <<>> /\ UNCHANGED results

\* ingest()
StubIngest ==
    /\ Do("ingest")
    /\ LET call == EpisodeCall(Current.arg)
       IN  \/ CommitRejected(call) /\ UNCHANGED index
           \/ \E id \in MemoryIds :
                 /\ CommitStored(call, id)
                 /\ index' = Indexed(index, entries'[id].lesson, id)
    /\ UNCHANGED results

\* bind_embedding(); a phrase that no lesson contains binds nothing.
StubBind ==
    /\ Do("bind")
    /\ LET id == MemoryIdForLesson(Current.arg.lesson_contains)
       IN  IF id = None THEN UNCHANGED gateVars
           ELSE GateBindEmbedding(id, Current.arg.vector_id)
    /\ UNCHANGED <<index, results>>

\* Mutant: every lesson that contains the phrase leaves the index.
UnindexedByPhrase(items, id, part) ==
    SelectSeq(items, LAMBDA item : <<part, item.lesson>> \notin Within)

\* The dict that forget() rebuilds.
Unindexed(items, id, part) ==
    FoldLeft(LAMBDA kept, item : IF item.id = id THEN kept ELSE Append(kept, item), <<>>, items)

\* forget(): a deletion that the gate refuses leaves the index alone.
StubForget ==
    /\ Do("forget")
    /\ LET part == Current.arg.lesson_contains
           principal == Current.arg.principal
           id == MemoryIdForLesson(part)
       IN  IF id = None THEN UNCHANGED <<gateVars, index>>
           ELSE /\ Forget(id, principal)
                /\ index' = IF MayTombstone(id, principal) THEN Unindexed(index, id, part) ELSE index
    /\ UNCHANGED results

-----------------------------------------------------------------------------
(***************************************************************************)
(* The verdicts.                                                           *)
(***************************************************************************)
\* The joined lessons contain the part, which has no newline.
Contained(part, response) == part = Empty \/ \E lesson \in response : <<part, lesson>> \in Within

\* By the response to a probe, and whether the expected part leads to a vector.
\* A stripped lesson is not empty, so a response with one is not either.
PassedBy(probe, response, alive) ==
    CASE probe.category = "utility" ->
           probe.expect_contains # None /\ Contained(probe.expect_contains, response)
      [] probe.category = "access" ->
           /\ \A target \in probe.leak_targets : ~Contained(target, response)
           /\ probe.require_no_memory => response = {}
      [] probe.category = "forgetting" ->
           /\ probe.expect_contains # None => ~Contained(probe.expect_contains, response) /\ ~alive
           /\ probe.require_no_memory => response = {}

Passed(probe) ==
    PassedBy(probe, Respond(probe.filters), StubEmbedding(probe.expect_contains) # None)

\* evaluate_checkpoint; where the read throws the run of the harness ends.
EvaluateCheckpoint ==
    /\ Do("probe")
    /\ ~ListRaises(Current.arg.filters)
    /\ results' = Append(results, [episode |-> episode, nr |-> Current.nr,
                                   category |-> Current.arg.category,
                                   passed |-> Passed(Current.arg)])
    /\ UNCHANGED <<gateVars, index>>

HarnessNext == StubReset \/ StubIngest \/ StubBind \/ StubForget \/ EvaluateCheckpoint

HarnessSpec == HarnessInit /\ [][HarnessNext]_harnessVars

-----------------------------------------------------------------------------
(***************************************************************************)
(* aggregate_mgs and the thresholds, in fractions where the code has       *)
(* floats: a rate is <<numerator, denominator>>.                           *)
(***************************************************************************)
CountOf(category, passed) ==
    Cardinality({i \in DOMAIN results :
                    results[i].category = category /\ results[i].passed = passed})

\* Mutant: no probes of a category count as a rate of zero, whichever it is.
RateZero(category, passed, default) ==
    LET total == CountOf(category, TRUE) + CountOf(category, FALSE)
    IN  IF total = 0 THEN <<0, 1>> ELSE <<CountOf(category, passed), total>>

Rate(category, passed, default) ==
    LET total == CountOf(category, TRUE) + CountOf(category, FALSE)
    IN  IF total = 0 THEN default ELSE <<CountOf(category, passed), total>>

Complement(q) == <<q[2] - q[1], q[2]>>
Times(q, r)   == <<q[1] * r[1], q[2] * r[2]>>
AtMost(q, r)  == q[1] * r[2] <= r[1] * q[2]

\* MGS = U * (1 - A) * (1 - F)
AggregateMgs ==
    LET utility == Rate("utility", TRUE, <<1, 1>>)
        access_violation == Rate("access", FALSE, <<0, 1>>)
        forgetting_failure == Rate("forgetting", FALSE, <<0, 1>>)
    IN  [utility |-> utility, access_violation |-> access_violation,
         forgetting_failure |-> forgetting_failure,
         mgs |-> Times(utility, Times(Complement(access_violation), Complement(forgetting_failure)))]

DefaultThresholds ==
    [min_utility |-> <<1, 1>>, max_access_violation |-> <<0, 1>>,
     max_forgetting_failure |-> <<0, 1>>, min_mgs |-> <<1, 1>>]

Passes(score, bounds) ==
    /\ AtMost(bounds.min_utility, score.utility)
    /\ AtMost(score.access_violation, bounds.max_access_violation)
    /\ AtMost(score.forgetting_failure, bounds.max_forgetting_failure)
    /\ AtMost(bounds.min_mgs, score.mgs)

-----------------------------------------------------------------------------
(***************************************************************************)
(* Properties.                                                             *)
(***************************************************************************)
\* Under the default thresholds the report passes exactly when every probe
\* has, even where a category has no probes at all.
ReportFailsWithAnyProbe ==
    Passes(AggregateMgs, DefaultThresholds) <=> \A i \in DOMAIN results : results[i].passed

\* The index never leads to a deleted row, to a row of an earlier episode or
\* to one with another lesson, and a live row that it does not lead to is
\* shadowed by another with the very same lesson, never by one whose lesson
\* merely shares the phrase.
IndexIsFaithful ==
    /\ \A i \in DOMAIN index : Live(index[i].id) /\ entries[index[i].id].lesson = index[i].lesson
    /\ \A i, j \in DOMAIN index : index[i].lesson = index[j].lesson => i = j
    /\ \A id \in MemoryIds :
          Live(id) => \/ \E i \in DOMAIN index : index[i].id = id
                      \/ \E other \in MemoryIds \ {id} :
                            Known(other) /\ entries[other].lesson = entries[id].lesson

\* An episode that is played again gets the same verdicts, whatever episodes
\* one stub played before it.
VerdictsAreRepeatable ==
    \A i, j \in DOMAIN results :
        suite[results[i].episode] = suite[results[j].episode] /\ results[i].nr = results[j].nr
            => results[i].passed = results[j].passed

=============================================================================
