# Verified Memory Gate: specifications and proofs

These modules specify the memory gate under `src/verified_memory_gate/`: the
pipeline that verifies a lesson before it is written, the store and its read
access control, the gate that ties them together, its review inbox and its audit
log, what several threads can make of these, the coordinator, and the parts
around them: the audit daemon, the LangGraph hook, the built-in verifiers and the
GateMem harness. TLC checks them on small instances; TLAPS proves the main
results for every value of the constants. Paths below are relative to the
repository.

To repeat everything, run in this directory, for each row of the table of runs,
`tlc -workers 2 -config <cfg> <module>`, and `tlapm <module>` for each of the
eight modules whose name ends in `_proofs`.

## 1. The system

| Component | State | Operations | Talks to |
| --- | --- | --- | --- |
| Schemas, `models.py` | none (frozen values) | normalising a scope, candidate to row | all |
| Read ACL, `governance.py` | none | `can_read`, `passes_acl` | called by the store's `list` |
| Store, `store.py` | rows, two tag indexes, tombstones, embedding index | `insert`, `get`, `list`, `tombstone`, `bind_embedding`, `embedding_vector_id`, `count`, `clear` | ACL |
| Verifiers, `verifiers.py` | a registry's verifiers, its quorum | `evaluate` | called by the verify stage |
| EDV pipeline, `edv.py` | none between runs | `ingest`, `distill`, `verify`, `run` | verifiers, a pluggable distiller |
| Write gate, `gate.py` | inbox, review mode, attached log, latest result | `commit`, `approve`, `forget`, `bind_embedding`, `list_pending`, `retrieve`, `stage_output`; `mode` and `audit_log` are assigned from outside | pipeline, store, log, the render callback |
| Audit log, `audit_log.py` | the rows | `record_write`, `record_deletion`, `list`, exports | written by the gate, read by the daemon |
| Coordinator, `coordinator.py` | latest result, a lock | `commit`, `stage_output` | pipeline, store (not the gate), render callback |
| Audit daemon, `daemon.py` | the log it serves | HTTP GET endpoints, on a thread pool | gate and log |
| LangGraph hook, `langgraph_hook.py` | graph state patches | propose and guard nodes | gate |
| Built-in verifiers, `builtin_verifiers.py` | none | pytest, numeric and schema verdicts | called by a registry |
| GateMem harness, `gatemem_harness.py` | a gate of its own and a lesson index | `reset`, `ingest`, `bind_embedding`, `forget`, probes; runs episodes and scores them | gate |
| GateMem episodes, `gatemem_episodes.py` | none (four fixtures) | | replayed by the harness |
| EDV demo, `examples/edv_commit_demo.py` | none | one case that commits, one that is rejected | gate, built-in verifiers |

What is hard here:

* **One fact in several structures.** A row sits in a dict and two indexes; its
  deletion touches four dicts by hand. The log tells the same story a second
  time, from two methods, with two record builders.
* **Long histories.** Whether a candidate is ever lost, promoted twice or
  written without review depends on many calls and on changes of a public mode
  attribute between them.
* **Partial failure.** Metadata is not validated: a tag that is an explicit
  `None` makes a *read* throw later. The render callback may throw after the
  latest result is replaced and before anything is stored.
* **Early returns.** Ten in the ACL, four in the pipeline, five in `commit`.
* **Concurrency.** Neither store, gate nor log takes a lock, while the daemon's
  endpoints run on a thread pool and the coordinator has a lock, so the authors
  expect several threads. `_latest` is shared by commits; the coordinator
  renders outside its lock, which is not reentrant, through callbacks that may
  call it back.
* **Replays.** A LangGraph orchestrator merges patches late, runs nodes again and
  restores checkpoints in which every object is a dict and every tuple a list.
* **Search order.** The numeric verifier's answer depends on what a greedy,
  backtracking search tries first.

What would make each component correct: the ACL decides by ADR 0004's rule, not
by the order of its questions; the store's structures agree with one another, its
queries answer as a scan would and a deletion is final; a pipeline succeeds
exactly when all three stages agree; the gate lets in verified candidates only,
loses and duplicates none, and its log accounts for each write and deletion;
the coordinator's threads neither block one another for ever nor leave a window
behind once they are done, and its store holds just their verified commits; the
daemon answers with the gate's log as it was at one instant; the hook's state says
what the gate answered last and loses no blocked call; a verifier's verdict is
about the evidence it names; and the harness fails exactly when a probe does.
`PROJECT.json` lists each hazard at its line with the properties that catch it.

## 2. Modules and the code they stand for

```
MemoryModels            models.py, strings, metadata
 |- Governance          governance.py, and ADR 0004's rule as a reference
 |   |- RowsAndFilters  the rows and filters that the next and StoreSpec take
 |   |   `- AclProbe    one row read with one filter after another
 |   `- MemoryStore     store.py
 |       |- StoreSpec   the store under arbitrary calls; implements
 |       |              MemoryLifecycle (abstract)
 |       |- MemoryGate  gate.py, audit_log.py, whole calls
 |       |   |          (with EDVStages, GateValidation)
 |       |   |- GateThreads     the same, statement by statement
 |       |   |   |- ThreadedStore  what point reads see of it; implements
 |       |   |   |              MemoryLifecycle
 |       |   |   `- GateSolo    one call at a time; implements MemoryGate
 |       |   |- AuditDaemon     daemon.py, audit_log.py's readers
 |       |   |- AgentHook       langgraph_hook.py, and an orchestrator
 |       |   `- GateMemHarness  gatemem_harness.py  (with GateMemEpisodes)
 |       `- Coordinator coordinator.py          (with EDVStages, GateValidation)
 |- GateValidation      gate.py, validate()
 `- Verifiers           verifiers.py
     `- EDVStages       edv.py, the stages as functions
         |- EDVPipeline edv.py, run() stage by stage
         |- GateMemEpisodes   gatemem_episodes.py
         `- BuiltinVerifiers  builtin_verifiers.py, numbers and test runs
             |- VerifierProbe over texts and bundles that grow
             `- JsonSchema    builtin_verifiers.py, the schema subset
                 `- SchemaProbe  over values and schemas, and the demo's cases
```

**MemoryModels.** A string is a member of `Text`. The program compares strings,
tests them for truth and strips them: `Strip` is a constant function with the two
laws of `str.strip` that matter (idempotent, keeps `""`). A dict is a total
function that maps missing keys to `None`. A metadata value remembers whether it
is an explicit `None`, a single string or a collection, since `governance.py`
treats the three differently. `MemoryScope` members are kept apart from strings
until `NormalizedScope` turns them into one, as in the code.

**Governance.** `CanRead` follows the statements of `can_read`, with the answers
"grant", "deny" and "raise" (the `TypeError` of iterating `None`). `Authorized` is
the reference: ADR 0004's rule without an order of questions.

**MemoryStore.** Variables are the five dicts, plus `minted`, the ids handed out
by `uuid4`, which never repeats. One action is one whole method call.
`list(filters)` is `List`, a set of ids, with `IndexedIds` the choice of index;
`ListRaises` says when it throws.

**MemoryLifecycle** is the abstract specification: an id can be remembered once,
linked to vectors while it is readable, and erased for good. **StoreSpec**
instantiates it, mapping a row to what `get` shows and a vector to what
`embedding_vector_id` shows.

**Verifiers, EDVStages, EDVPipeline.** A verifier is its answer for the candidate
at hand; a custom distiller is its answer. `Run` is the function `run()` computes,
for use by the gate and the coordinator; `OutputFor` is what a window shows of a
result (the wording of reasons is left out); `EDVPipeline` takes the steps one by one, with exceptions,
and is shown to return `Run`.

**MemoryGate.** Extends the store, so that every call is one step of both. `commit`
is four actions by outcome: `CommitRejected`, `CommitHeld`, `CommitStored` and
`CommitRaises` (the callback throws). `Audit` is part of the actions that call
it. `forget` and `bind_embedding` contain the store's action. `SetMode` and
`AttachLog` are the assignments callers (and the daemon) make. History variables
(`held`, `promoted`, `unlogged`, `calls`) remember what properties compare with:
what was held first, what it became, what happened before there was a log.

**Coordinator.** One `commit` or `stage_output` call per thread, split where other
threads can see a difference: the pipeline runs (and shares nothing), the lock is
taken, `_latest` is set and the lock given back, each binding is rendered in a
step of its own, and the call ends with a rejection or an insert. The callback is
the caller's: it paints the window, and then may call `stage_output()` or throw. No
binding stands for no `on_render`. An insert is one step because it touches its
own fresh id only. `latest` names the commit whose result `_latest` is; `clock`,
`turn`, `asOf` and `raced` are history.

**GateThreads.** Splits every call of the gate at its accesses to shared state: of a
commit, the callback, the inbox or the dict of rows, the principal index, the
scope index, the log; of a deletion, the check, the mark, each index, the
embedding index, the log; of a binding, the check and the bind; of an approval,
`dict.pop` and then the insert. `frame` holds each thread's place and locals. A
single operation of a dict or a set is atomic, as in CPython. A query
visits a copy of a principal's index (`Copied`), which it meets with the scope's index
in a second step when it asks for both (`ReadMeet`), but iterates the live index of a
scope, or the live dict, and throws when its size has changed. A callback that
calls the gate again is a thread whose call runs while another one renders. One pair of
accesses is joined: `AuditReturn` looks at `_latest` (`gate.py:262`) and appends at
once. The look decides only which other call's trace a refused commit's row names,
of which nothing is claimed among threads.

**ThreadedStore** adds to the threads one history variable, `raced`: the ids that
were deleted between a binding's check and its bind. It instantiates
MemoryLifecycle as StoreSpec does, with the rows of admissible submissions for
`Rows`: an insert takes effect when the row is in the dict, a deletion at its mark.

**GateSolo** runs the same actions one call at a time; `before` is the gate at the
end of the last call, and mapped through it every call is one action of MemoryGate:
what is shown of whole calls is shown of the statements, as long as nobody
interrupts.

**AuditDaemon** adds `create_app`, with its choice among the log given, the gate's
and a new one, and requests that visit one audit row, or one memory, at a time
while the gate goes on. An event's id is the place of its row.

**AgentHook.** A node's call of the gate is one action of MemoryGate, together with
the patch it returns; the orchestrator, external, merges or discards patches,
checkpoints (objects become dicts, enums their values, tuples lists) and captures
another run. Reviewers, owners and operators act on the gate in between. Any field
may be null, and a key of a dict missing. An object is passed on as it is, so that the
gate refuses its nulls or its distiller throws on them (`DistillRaises`); of a
dict `Str` makes words of them, `OrEmpty` no metadata, or the conversion throws
(`CoercionRaises`). A proposal that throws leaves the gate and the state as they were.

**GateMemEpisodes, GateMemHarness.** An episode is replayed as the sequence of its
operations, each one action over the gate: `episode` and `done` say how far the
loops of `run_harness` and `run_episode` have come. The lesson index is a sequence,
since a dict's order decides which lesson a phrase finds. A lesson is named by one word,
and which word contains which is a constant relation. Rates are fractions compared
by multiplication.

**BuiltinVerifiers, VerifierProbe, JsonSchema, SchemaProbe.** Where a number is
looked for, a text is a sequence of tokens with their widths, against the code's own
windows of 40 and 20 characters; what the regular expressions match is defined by
position, not by backtracking. Values carry their Python type, so that a bool, an
int and a float, or a list and a tuple, are told apart. VerifierProbe writes texts
token by token and grows bundles of traces, which the default distiller makes
candidates of, in contexts with and without an exit code of their own. SchemaProbe
holds values to schemas beside that, and runs the demo's two cases through the
pipeline. `Conforms` recurses as the validator does; it has a module of its own, so
that the others can be reasoned about.

Definitions marked "Mutant" are plausible slips, used to show that each property
can fail; no specification uses them.

## 3. The runs

| Run | Module | States | What it shows |
| --- | --- | --- | --- |
| acl | MCAcl | 51 840 | Over every shape of every tag the ACL reads: it decides as ADR 0004 words it, and it throws exactly where a voucher for the reader is looked up in a null tag: on another's team row not opened by the team, or another's protected team or shared row. |
| store | MCStore | 5 832 | All 288 filters answer as a scan does, and `MemoryLifecycle` is implemented: deletion is final, for the row and its vector, and rows are immutable. |
| pipeline | MCPipeline | 26 097 | A run's verdict is deserved, both ways, and the distilled candidate speaks for the whole bundle and carries the last trace's tags. |
| gate | MCGate | 238 576 | In all orders of whole calls, with a log attached from the start or at any moment: log, store and inbox agree, no held candidate is lost or promoted twice, inbox and store filter alike, failures are inert. |
| coordinator | MCCoordinator | 99 870 | In all interleavings of two commits and a reader, with callbacks that ask back or throw: rows are the verified commits, windows lag only by a race, answers are never stale, and every call returns although the lock is not reentrant and callbacks take it. |
| threads | MCThreads | 626 284 | What survives two writing threads and a read among their statements, and that point reads see none of it (a refinement); see below. |
| solo | MCSolo | 36 528 | Calls that nobody interrupts implement MemoryGate (a refinement), and their early refusals name no trace. |
| daemon | MCDaemon | 273 540 | A list of audit rows is the gate's own log at one instant, an event that was shown is found, and a list of memories fails only for an insert. |
| hook | MCHook | 700 744 | The agent's state tells the truth about its last proposal and keeps an unsettled one flagged; reruns propose the same row, and a checkpoint gets a refused run admitted only by a null; blocked calls accumulate over checkpoints. |
| harness | MCHarness | 719 | Over all suites of the four shipped episodes and two awkward ones, each around another: verdicts do not depend on what was played before, the report passes exactly when all probes do, the index is faithful. |
| verifiers | MCVerifiers | 104 674 | A number in reach is read; whose test run speaks for a bundle; what passes a schema; and the demo's cases end as its test says. |
| verifiers_sign | MCVerifiers, MCVerifiersSign.cfg | violation | The finding below. |

The cfg of a run is its module's name with `.cfg`, unless the table names one.

**What survives threads.** `store.py` calls itself thread-unsafe, and the gate takes
no lock. In every interleaving of two threads, three calls and a read: no held
candidate is approved twice or lost (`OneWayOut`); rows and log agree whenever no
call is under way, and in between the log is never ahead of a row
(`WritesReconcileAtRest`); a success row of a deletion is for a deleted row and names
its owner (`DeletionsAccounted`); a live row that nobody is inserting is indexed under
exactly its own tags, so a later query finds it (`LiveRowsIndexed`); a read returns
nothing that was deleted before it began, misses nothing that was there throughout,
unless it asks by scope alone, and never fails when it asks by principal, with a
scope or without. A deleted row
keeps a vector only if its deletion overtook a binding between check and bind
(`GhostsComeOfRaces`), and not even that is seen through `get()` and
`embedding_vector_id()`: to these every statement is one step in the life of a
memory, or none, and only the row of a verified candidate becomes a memory
(`ThreadsImplementLifecycle`). It is so because `embedding_vector_id()` asks for the
tombstone once more. What does *not* survive, and TLC shows it when the properties
of MemoryGate are asked of GateThreads: a binding that overlaps a deletion leaves a
vector with a deleted row; a row deleted during its insert
stays in an index for good; two overlapping deletions of one row leave two success
rows; a deletion's row may precede its commit's; and a rejected commit's audit row
may name another call's trace (`gate.py:262`), for which a re-entrant callback
suffices.

**Bounds.** `MemoryIds` bounds rows ever made, `PendingIds` candidates ever held;
`MaxCalls` bounds audited calls, the only unbounded counter. Two rows and two
inbox items let two owners collide, one row be deleted while the other is
written, and an approval compete with a commit for an id; no property of the
gate relates more than two. Three calls while a log is attached are enough to
hold, approve and forget, or to store a row and delete it twice; mode changes, and calls
before there is a log, come on top of these. Two threads with three calls let
one call set the stage for two that overlap, and the properties relate two. The store needs no counter: its state is finite, with three rows so
that an intersection of two indexes, and its misses on both sides, occur. Bundles
have up to three traces and registries up to three verifiers, so that the cap of
the quorum, a majority of skips and metadata overwritten twice all occur.
`MCSubmissions` has one run for each outcome of `commit`, among them padded tags,
an enum scope, and a registry whose only verifier skips; the threads' run takes
two of them, one that passes and one that `validate()` refuses.

The coordinator has two commits, the number its properties relate, a reader, and
one window that both commits paint, with a submission that passes and one that is
refused. Several bindings, and a window painted by two of them, are covered by
the proofs, which bound nothing. The daemon has one request, since requests write
nothing. The hook has one node at a time (`MaxInFlight`), two rows, one inbox item
and three blocked calls (`MaxBlocked`); its runs come as objects, with nulls in the
context or in a trace, as full dicts and as sparse ones. The reader of the threads' run
asks for everything, by principal, by scope, and by both. The harness has no bound but its list of episodes; six rows are
the most that a suite writes. The verifiers' texts have up to six tokens:
with gaps of 1, 20 and 40 these lie inside and outside both windows, at their very
edge, and with two anchors and two numbers in every order; bundles have three
traces, so that a code or a tag may be neither the first nor the last; values are two
levels deep.

**Type invariants** are theorems, or conjuncts of a proved invariant (`HookTypeOK` of
`HookInv`, `DaemonTypeOK` of `DaemonInv`), and no property of a run.

**Symmetry and view.** Where no definition orders or names them, ids, and the threads
of the threads' run, are interchangeable; the coordinator's run has no symmetry,
which liveness does not allow. The gate's, the daemon's and the hook's views
leave out what no action reads: `latest`, which is read only by the call that has
just written it where nothing interrupts, and, in the hook, the log it does not
have. No property of those runs mentions them.

**Deadlock** is checked except in the pipeline's, the coordinator's, the harness's and
the verifiers' runs, where what has returned is over. That no coordinator call
stops halfway is `EveryCallReturns`.

**Fairness.** The coordinator assumes weak fairness of each thread, from the return
of its pipeline on: the operating system does not suspend a running thread for
ever, and a lock that is free for good is granted. Weak fairness is enough because
the calls are finite, so that the lock cannot be taken by others again and again.
Nobody is obliged to begin a call, and neither a distiller nor a verifier to
return. A callback is assumed to return or throw. Elsewhere none is assumed and no
liveness is claimed: an operation of the gate or the store runs when a caller
calls it and returns, and nothing obliges anybody to approve a candidate, to read
or to attach a log.

**The finding.** `extract_anchored_number` loses the minus sign of a number
(`builtin_verifiers.py:25`): the gap in front of it may hold any character but a
digit, is greedy, and so takes the sign that `-?` was written for. `sharpe=-0.62` is
read as 0.62, and a tolerance check around 0.62 passes.

**Divergences** from what the documents say, read off the models and the code; they
are facts of single paths, for which no run is kept:

* `approve()` of an id that is not waiting leaves no audit row (`gate.py:202`); ADR
  0007 has the log record "on `commit()`, `approve()`, and `forget()`".
* The coordinator inserts candidates itself (`coordinator.py:67`), without
  `validate`, review or audit; ADR 0003 makes `MemoryGate.commit` "the only write
  path".
* A later proposal that is committed takes back the review flag and the message of a
  tool call blocked earlier (`langgraph_hook.py:137`), which ADR 0006 surfaces "for
  review". The record of blocked calls stays. Of two guard nodes in one step the
  last patch wins, and one record is lost.
* A null principal in a checkpointed context becomes the owner "None"
  (`langgraph_hook.py:115`), where the same context as an object is refused.
  `RerunsAreTwins` says that nulls are the only way for a checkpoint to get a run
  admitted that was refused, or threw, as it was captured.
* The harness's probe for a ghost embedding cannot fail by it
  (`gatemem_harness.py:217-220`): it asks by way of the index entry that the deletion
  has just removed, so that a store which kept the vector would pass.
* A number after the anchor wins over a nearer one before it; the docstring says
  "the nearest number" (`builtin_verifiers.py:16`).
* The demo prints "quorum passed (pytest, sharpe tolerance, schema)" of a case that
  two of the three pass: the numeric verifier reads 0.5 from the lesson first.
* No schema of type `array` accepts a candidate's evidence, which is a tuple
  (`builtin_verifiers.py:78`).
* The daemon's `main()` serves a gate of its own, to which nobody writes
  (`daemon.py:100`), so that its log stays empty; only an embedding that calls
  `create_app` with its gate shows anything.

Some more facts, which no document contradicts: a `commit`
whose callback throws leaves no trace at all, and a verified candidate is shown
and dropped (`CommitRaises`); with a log attached late, deletions are logged of
rows whose writes are not; the daemon goes on serving the log it was given when the
gate is given another one (`DueLog`, `daemon.py:27`); of two live rows with one lesson
the harness's index names the later one only, so that the first can be neither bound
nor forgotten (`IndexIsFaithful` makes that exception); and the inbox filters compare the tags a candidate was
given while the store compares stripped ones, so `InboxFiltersLikeStore` holds of
tidy tags only. Of two coordinator commits that overlap, windows may keep the
earlier one's output, or stages of both, after both have returned, until the next
commit: `WindowsLagOnlyByRace` says this is all that can happen. Rendering inside
the lock would end the lag and, with a callback that asks back, block the
coordinator for ever. And the verify window shows the lesson whether or not the
quorum passed, since an output is the lesson as soon as there is a candidate.

## 4. The proofs

Everything here holds for any finite set of memory ids and any texts, rows,
callers, filters, submissions, bundles and lengths of history, and for any number
of threads, readers, requests and windows.

*Assumptions*, all on constants and evaluated by TLC in the runs: `Strip` is as
above, and the scope names and executor tags are texts (`TextAssumption`,
`ScopeAssumption`, `ExecutorTagAssumption`); `None` is not a text, a row, a
candidate, an id or a status (`TextAssumption`, `IdAssumption`, `GateAssumption`),
nor a context, a submission or a number (`HookAssumption`, `ThreadsAssumption`,
`SpellingAssumption`); a missing key is nothing a key can hold (`HookAssumption`); no
executor's tag is a test run's (`SpellingAssumption`, `edv.py:160`); `MemoryIds` is finite, for `count()`;
what callers bring, be it a row, a filter, a submission, a binding, a query, a run
of an agent or a suite of episodes, is well typed (the assumptions named after the
modules). What the pipeline makes of a well-typed submission is proved, not assumed.

**Folds** (`StoreAndStages_proofs`). The pipeline's loops over a bundle are folds, and
the fold of the community modules is a `CHOOSE` of a function on the subsets of the
places. Induction with a predicate as a parameter is beyond the provers; induction
over a *set* of numbers is not: `LeastOf` (from the library's `WFMin`) gives every
inhabited set of numbers a least one, `Upward` the form with 0 and a successor. With
them `FoldExists` shows that what the fold chooses from is not empty, `FoldSteps`
that it then goes place by place as the loop does. `MetadataFacts`,
`LessonIndexFacts` and `EvidenceFacts` say what the three loops of `edv.py`
compute, by invariants of the loop; `RunTyped`, that `Run` returns a pipeline result.

**The store** (`StoreAndStages_proofs`, `StoreSpec_proofs`). `StoreInv` is inductive:
types, `IndexCoherent`, `NoGhostEmbedding`, `TombstoneByOwner`, and
`OnlyMintedKnown`. The last is what the others lack: without it an insert could
reuse the id of a deleted row, and neither coherence nor the embedding index
would survive. One lemma per method, so that any specification built on the store
can cite it. From `StoreInv`: the indexes and a scan select the same rows
(`SelectedIsScan`), hence `QueryCorrect`; `count()` is right; protection and the
owner's reads; `DeletionFinal`; and the refinement, where each method is one
abstract step or none.

**The ACL** (`StoreSpec_proofs`). By the cases of `can_read`: `AclIsAdr`,
`LeakTargetsNarrow`, `RaiseConfined`.

**The quorum** (`StoreAndStages_proofs`). `QuorumRule`: `min(min_passes, applicable)`
with its vacuous case is "nobody who applies objects, or `min_passes` approve".
The argument is that passing is a subset of applicable, of equal cardinality only
when equal.

**The pipeline** (`StoreAndStages_proofs`, `EDVPipeline_proofs`). How a run can end,
that one which succeeds was endorsed by its quorum, and that a candidate makes a
well-formed row: the lemmas both writers of the store rest on. Then the early
returns, one by one: `PipelineInv` says how far `stages` has come and what the rest
of `Run` would make of it; from it `PipelineReturnsRun`, `PipelineOk`,
`PipelineFailure` and, with `QuorumRule`, `PipelineVerdict`; and with the facts about
the folds `BundleIsSpokenFor` and `LastTraceTags`, for bundles of any length.

**The gate** (`MemoryGate_proofs`). `GateInv` is inductive: `StoreInv`, types,
`PendingConserved`, `HeldAreAdmissible`, `OnlyVerifiedRows`, `UnloggedStays`,
`WritesReconcile`, `DeletionsReconcile`. `HeldAreAdmissible` is needed because
`approve` verifies nothing itself; `UnloggedStays` because a fresh id must not
already count as one written before there was a log. Three lemmas on the log
(a commit, a write attempt without effect, a deletion) cover its two halves,
attached or not; every action is then one lemma. From it: `AuditReconciles`,
`RowsAreVerified` (with `QuorumRule`), `RowsTagged`, `InboxConserves`,
`InboxFilters`, and the action properties `FailuresAreInert`, `ReviewRespected`.
`MaxCalls` is any number, so the bound on histories does not limit these results.

**The threads** (`GateThreads_proofs`). Four invariants, the later ones resting on the
first, with one lemma per action or for all that touch the same thing:

* `ThreadsInv`: types, `OnlyMintedKnown`, `OneWayOut`, `OnlyVerifiedRows`, and three
  facts these take for granted. `FrameOK`: what a thread is about to write passed
  every check when the thread had it in hand, and the row it is about to index or
  delete is the dict's. `IndexesOK`: an index holds a row under its own tags only,
  and a live row is missing from one just as long as some thread has yet to put it
  there; without the clause about the thread's place, an insert's middle would break
  `LiveRowsIndexed`. `HeldOK`: what waits was admitted.
* `ReadsInv`: what a reader has collected is sound whatever it has yet to visit, and
  it has passed over no row that is still there. Of a copied index it has to say that
  the copy holds every live row of the principal whose insert was over when the read
  began, and once it has met the scope's index every such row of both tags, which
  takes that an insert that is over never resumes; of the whole dict, that it only
  grows. For a live scope index neither
  can be said, and `ReadsComplete` makes that exception. From it `ReadsSound`,
  `ReadsComplete` and `OwnReadsSurvive`.
* `LedgerInv`: a row is in the log once, or was written before there was a log, or is
  in the hands of the one thread that has just written it; a deletion likewise, except
  that several threads may have it in hand. The second half of each is what
  `WritesReconcileAtRest` leaves out and what makes it inductive: at rest no hands
  are left. From it `ThreadedWritesReconcile`, `ThreadedDeletionsAccounted`,
  `ThreadsTypes`.
* `LifeInv`: a thread that is about to bind has a row in hand that is there and, if it
  has been deleted since the check, is in `raced`. From it `GhostsOnlyByRace`; and with
  two more facts, that a tombstone sits on a row and that a deletion's last statement
  meets one, each statement is an abstract step or none (`ThreadsRefineLifecycle`).

**One call at a time** (`GateSolo_proofs`). `SoloInv` says that the shared state is the
one of the last moment of rest with the first so many statements of the call under
way done (`Midway`: which ones, the frame tells), while the conditions that brought
the call so far hold of the state before it. When the call ends, `Midway` adds up to one action of MemoryGate: one
lemma per kind of call, then `SoloImplementsGate`. `EarlyRefusals` goes with it.

**The coordinator** (`Coordinator_proofs`). `CoordinatorInv` is inductive: `StoreInv`,
types, `RowsAreCommits`, `AnswersAreCurrent`, `WindowsLagOnlyByRace`, and two facts
these take for granted. `TurnsInOrder`: the latest result is the last one published,
so an answer read from it is as new as any. `RenderersAreRaced`: whoever renders
either published last or was rendering when the last one did, so that a window
can be painted over by nobody else; and who has not published has rendered
nothing, so that publishing starts with no window to vouch for. One frame lemma
per conjunct covers the steps that do not touch it; each action is one lemma.
From it: `RowsAreTheCommits`, `WindowsLag`, `AnswersCurrent`.

**The hook** (`GateClients_proofs`). Every step of `HookNext` is a step of the gate or
leaves it alone, so that `HookKeepsGate` gives all that is proved of the gate.
`HookInv` adds that what a patch says of a proposal is so *and stays so*: it may be
merged long after the gate has answered, and in between reviewers approve and owners
forget. The ids a patch names are of rows and items that are never reused, which is
`OnlyMintedKnown` and `PendingConserved` again. From it `ResultTruth` and
`UnsettledFlagged`. `TwinsAreEqual` compares the two branches of the coercion: an
object that is admitted has no null where the conversion of its dict would make
something of one, so that both branches give the same call (`SameCall`), and a dict
that is admitted while its object was not differs from it by a null (`HasNull`); a
checkpoint of a checkpoint changes nothing more.
`BlockedCallsKept` is proved for `MaxInFlight = 1` and is false beyond it, where the
later of two merges takes back the other's record.

**The daemon** (`GateClients_proofs`). `DaemonInv`: the served log is the one that
`create_app`'s choice ought to serve (`Wired`), and a request has collected exactly
the matching rows up to the place it has come to (`RequestInv`). The log only grows
at its end, so that this prefix stays what it was, and a list that is returned is
the log's answer at the moment the iteration met its end. A row of `/memories` that
had been deleted when it was asked is deleted still, and the iteration fails only if
the dict has grown since. From it `DaemonKeepsGate`, `AnswersOfOneInstant`,
`MemoriesFailures`.

**The harness** (`GateClients_proofs`). It is no client of one gate, as it replaces its
gate by a new one between episodes, so `GateInv` is shown for its own steps.
`HarnessInv` adds that what is left to do is made of the episodes of the suite, and
`IndexIsFaithful`, which is inductive with it: a new lesson takes an old one's place
or a place at the end; a deletion removes every entry of that row and, because the
rest keep their order and their rows, nothing else. `ReportHonest` needs of the
results only their types: a category without probes is rated as perfect, and only
perfect rates meet the thresholds. `HarnessTypes` goes with it.

`VerdictsRepeat` compares two replays of one episode, which draw different ids from
different gates. What an episode's operations lead to is therefore described without
either: a `Replica` has rows, deletions, vectors and an index under the numbers of the
writes, and `Replay` goes through the operations with it (`ReplayExists`, by induction
on their number). `Mirrors` says that a gate and an index are a replica's image under a
one-to-one renaming of numbers to ids. Each operation keeps them so: a new row extends
the renaming by an id that is new (`OnlyMintedKnown`); a phrase finds the entry at the
same place in both; and a probe of a mirrored store gets the replica's answer, whatever
the ids are (`ProbeMirrored`). `ReplayInv` adds to `HarnessInv` that the gate mirrors
the replica of what was performed since the last reset (`Mirrored`), and that every
verdict so far is the one the replica gives (`VerdictsDue`): a function of the episode
and the probe's number, which is `VerdictsAreRepeatable`.

**The built-in verifiers** (`EDVPipeline_proofs`). `VerifierInv` has only types, since
texts and bundles are inputs; the work is in the functions. `NumbersInReachAreRead`: a
least anchor, or a least number, exists where there is one at all (`LeastOf`), so that
either search answers `None` only if nothing is in its reach; that `None` is no integer
is what makes the second one be tried exactly when the first has failed.
`TestRunsSpeak`: which test tag comes first is carried through the distiller's loops.
`Leads` says that a sequence has a test tag and which is its first; joining, adding an
item and flattening keep it (`JoinedTags`, `OneMoreTags`, `FlattenTags`), the loop that
leaves out duplicates cannot leave out a first one (`TagArrives`), and an executor's tag
is none. The exit code comes from `MetadataFacts`, as in `LastTraceTags`.

**Only model-checked.** `EveryCallReturns`, since liveness under fairness is beyond
this prover; `SchemaReachesEveryPart`, since `Conforms` recurses over values of any
depth, and tlapm has no SMT backend in a module with a RECURSIVE operator; and
`DemoEndsAsItSays`, which is about two concrete cases and uses `Conforms`.

## 5. What is not modelled

* `created_at` and the order in which `list` returns rows; times and ids of audit
  rows; the wording of reasons, of reports and of errors; JSON text.
* A `team_id` or tag that is neither a string, a collection nor `None`.
* `store.clear()` and direct writes to a gate's store around the gate, by a
  coordinator or a test; detaching or replacing a log that is attached.
* A pipeline that throws inside `commit`: nothing has changed yet, so it is a
  stuttering step.
* A dict or set operation that is not atomic.
* Two nodes of the hook at once: `MaxInFlight` allows it, no run uses it.
* Where a number's own characters end (decimal point, exponent): it is one token.
* What the demo prints; package exports (`__init__.py`), which hold no logic; imports
  of optional packages; `uvicorn`.
