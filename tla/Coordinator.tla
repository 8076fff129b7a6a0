----------------------------- MODULE Coordinator -----------------------------
(***************************************************************************)
(* coordinator.py: EDVCoordinator, called by several threads.  The lock    *)
(* guards the latest result alone; windows are rendered and the store is   *)
(* written outside of it.  The render callback is the caller's: it paints  *)
(* the window, and may ask the coordinator for a stage's output, or throw. *)
(*                                                                         *)
(* An insert is one step: it touches its own fresh id only, so inserts of  *)
(* two threads commute.                                                    *)
(***************************************************************************)
EXTENDS MemoryStore, EDVStages, GateValidation

CONSTANTS
    Commits,      \* the calls of commit(), each on a thread of its own
    Readers,      \* the calls of stage_output() from outside, likewise
    Submissions,  \* the pipeline runs that commit() may be called for
    Windows,      \* the window ids
    Bindings      \* bindings, empty if there is no on_render

Outcome == [call \in Submissions |-> Run(call)]

ASSUME CoordinatorAssumption ==
    /\ Submissions \subseteq PipelineCall
    /\ Bindings \in Seq([window : Windows, stage : Stages])
    /\ Commits \cap Readers = {}
    /\ None \notin Commits \cup Readers \cup MemoryIds \cup StageOutput \cup CandidateExperience

Threads == Commits \cup Readers

Returned  == {"committed", "rejected", "raised", "answered"}
Rendering == {"render", "ask", "asking"}
Progress  == {"start", "publish", "locked"} \cup Rendering \cup Returned

VARIABLES
    args,       \* the submission of each commit
    pc,         \* where each call is
    lock,       \* who holds _lock, or None
    latest,     \* the commit whose result _latest is, or None
    shown,      \* how many bindings each commit has rendered
    windows,    \* what each window displays, None before the first rendering
    memory_id,  \* the id that a committed call returned
    answer,     \* the last answer each thread had from stage_output()
    clock,      \* history: how many results have been published
    turn,       \* history: as which one, 0 before
    asOf,       \* history: the clock when stage_output() was last called
    raced       \* history: who was rendering when a commit published

callVars    == <<args, pc, lock>>
displayVars == <<shown, windows>>
historyVars == <<clock, turn, raced>>
answerVars  == <<answer, asOf>>
coordinatorVars ==
    <<storeVars, callVars, latest, displayVars, memory_id, answerVars, historyVars>>

Result(c) == Outcome[args[c]]

CoordinatorTypeOK ==
    /\ StoreTypeOK
    /\ args \in [Commits -> Submissions]
    /\ pc \in [Threads -> Progress]
    /\ lock \in Optional(Threads)
    /\ latest \in Optional(Commits)
    /\ shown \in [Commits -> 0..Len(Bindings)]
    /\ windows \in [Windows -> Optional(StageOutput)]
    /\ memory_id \in [Commits -> Optional(MemoryIds)]
    /\ answer \in [Threads -> Optional(StageOutput)]
    /\ clock \in Nat
    /\ turn \in [Commits -> Nat]
    /\ asOf \in [Threads -> Nat]
    /\ raced \in [Commits -> SUBSET Commits]

CoordinatorInit ==
    /\ StoreInit
    /\ args \in [Commits -> Submissions]
    /\ pc = [t \in Threads |-> "start"]
    /\ lock = None
    /\ latest = None
    /\ shown = [c \in Commits |-> 0]
    /\ windows = [w \in Windows |-> None]
    /\ memory_id = [c \in Commits |-> None]
    /\ answer = [t \in Threads |-> None]
    /\ clock = 0
    /\ turn = [c \in Commits |-> 0]
    /\ asOf = [t \in Threads |-> 0]
    /\ raced = [c \in Commits |-> {}]

Goto(t, from, to) ==
    /\ pc[t] = from
    /\ pc' = [pc EXCEPT ![t] = to]

-----------------------------------------------------------------------------
(***************************************************************************)
(* The calls.                                                              *)
(***************************************************************************)
\* pipeline.run, which shares nothing, returns, or code of the caller's throws.
RunPipeline(c) ==
    /\ Goto(c, "start", "publish") \/ Goto(c, "start", "raised")
    /\ UNCHANGED <<storeVars, args, lock, latest, displayVars, memory_id, answerVars, historyVars>>

\* with self._lock, on the way in, by a commit and by a reader.
Acquire(t) ==
    /\ Goto(t, "publish", "locked") \/ Goto(t, "ask", "asking")
    /\ lock = None
    /\ lock' = t
    /\ UNCHANGED <<storeVars, args, latest, displayVars, memory_id, answerVars, historyVars>>

\* Mutant: the windows are rendered within the with block.
SetLatestRenderInside(c) ==
    /\ Goto(c, "locked", "render")
    /\ latest' = c
    /\ clock' = clock + 1
    /\ turn' = [turn EXCEPT ![c] = clock + 1]
    /\ raced' = [raced EXCEPT ![c] = {d \in Commits : pc[d] \in Rendering}]
    /\ UNCHANGED <<storeVars, args, lock, displayVars, memory_id, answerVars>>

\* Mutant: only a result that is ok becomes the latest one.
SetLatestOkOnly(c) ==
    /\ Goto(c, "locked", "render")
    /\ lock' = None
    /\ latest' = IF Result(c).ok THEN c ELSE latest
    /\ clock' = clock + 1
    /\ turn' = [turn EXCEPT ![c] = clock + 1]
    /\ raced' = [raced EXCEPT ![c] = {d \in Commits : pc[d] \in Rendering}]
    /\ UNCHANGED <<storeVars, args, displayVars, memory_id, answerVars>>

SetLatest(c) ==
    /\ Goto(c, "locked", "render")
    /\ lock' = None
    /\ latest' = c
    /\ clock' = clock + 1
    /\ turn' = [turn EXCEPT ![c] = clock + 1]
    /\ raced' = [raced EXCEPT ![c] = {d \in Commits : pc[d] \in Rendering}]
    /\ UNCHANGED <<storeVars, args, displayVars, memory_id, answerVars>>

-----------------------------------------------------------------------------
(***************************************************************************)
(* Rendering.                                                              *)
(***************************************************************************)
\* Mutant: a stage that was not reached leaves its window as it is.
PaintReached(c) ==
    LET binding == Bindings[shown[c] + 1]
        output  == OutputFor(Result(c), binding.stage)
    IN  /\ shown[c] < Len(Bindings)
        /\ shown' = [shown EXCEPT ![c] = @ + 1]
        /\ windows' = IF output.content = "not reached" THEN windows
                      ELSE [windows EXCEPT ![binding.window] = output]

\* The next binding's window displays its stage of this commit's result.
Paint(c) ==
    LET binding == Bindings[shown[c] + 1]
    IN  /\ shown[c] < Len(Bindings)
        /\ shown' = [shown EXCEPT ![c] = @ + 1]
        /\ windows' = [windows EXCEPT ![binding.window] = OutputFor(Result(c), binding.stage)]

Render(c) ==
    /\ Goto(c, "render", "render")
    /\ Paint(c)
    /\ UNCHANGED <<storeVars, args, lock, latest, memory_id, answerVars, historyVars>>

\* The callback paints, and then calls stage_output().
RenderAndAsk(c) ==
    /\ Goto(c, "render", "ask")
    /\ Paint(c)
    /\ asOf' = [asOf EXCEPT ![c] = clock]
    /\ UNCHANGED <<storeVars, args, lock, latest, memory_id, answer, historyVars>>

RenderRaises(c) ==
    /\ shown[c] < Len(Bindings)
    /\ Goto(c, "render", "raised")
    /\ UNCHANGED <<storeVars, args, lock, latest, displayVars, memory_id, answerVars, historyVars>>

-----------------------------------------------------------------------------
(***************************************************************************)
(* stage_output(), by a reader or within the callback.                     *)
(***************************************************************************)
BeginRead(r) ==
    /\ Goto(r, "start", "ask")
    /\ asOf' = [asOf EXCEPT ![r] = clock]
    /\ UNCHANGED <<storeVars, args, lock, latest, displayVars, memory_id, answer, historyVars>>

Idle(stage) == [stage |-> stage, content |-> "idle", candidate |-> None]

\* Reads _latest and leaves the with block; output_for() reads nothing shared.
Answer(t, stage) ==
    /\ Goto(t, "asking", IF t \in Commits THEN "render" ELSE "answered")
    /\ answer' = [answer EXCEPT ![t] = IF latest = None THEN Idle(stage)
                                       ELSE OutputFor(Result(latest), stage)]
    /\ lock' = None
    /\ UNCHANGED <<storeVars, args, latest, displayVars, memory_id, asOf, historyVars>>

-----------------------------------------------------------------------------
(***************************************************************************)
(* The end of commit(), when every binding is rendered.                    *)
(***************************************************************************)
Storable(c) == Result(c).ok /\ Result(c).candidate # None

Reject(c) ==
    /\ shown[c] = Len(Bindings)
    /\ ~Storable(c)
    /\ Goto(c, "render", "rejected")
    /\ UNCHANGED <<storeVars, args, lock, latest, displayVars, memory_id, answerVars, historyVars>>

\* Mutant: what is stored is the latest result, not the call's own.
StoreLatest(c, id) ==
    /\ shown[c] = Len(Bindings)
    /\ Storable(latest)
    /\ Goto(c, "render", "committed")
    /\ Insert(id, FromCandidate(Result(latest).candidate))
    /\ memory_id' = [memory_id EXCEPT ![c] = id]
    /\ UNCHANGED <<args, lock, latest, displayVars, answerVars, historyVars>>

Store(c, id) ==
    /\ shown[c] = Len(Bindings)
    /\ Storable(c)
    /\ Goto(c, "render", "committed")
    /\ Insert(id, FromCandidate(Result(c).candidate))
    /\ memory_id' = [memory_id EXCEPT ![c] = id]
    /\ UNCHANGED <<args, lock, latest, displayVars, answerVars, historyVars>>

\* What a thread does by itself once its pipeline has returned.
CommitStep(c) ==
    \/ Acquire(c) \/ SetLatest(c)
    \/ Render(c) \/ RenderAndAsk(c) \/ RenderRaises(c)
    \/ \E stage \in Stages : Answer(c, stage)
    \/ Reject(c)
    \/ \E id \in MemoryIds : Store(c, id)

ReadStep(r) == Acquire(r) \/ \E stage \in Stages : Answer(r, stage)

CoordinatorNext ==
    \/ \E c \in Commits : RunPipeline(c) \/ CommitStep(c)
    \/ \E r \in Readers : BeginRead(r) \/ ReadStep(r)

\* A thread that runs is not suspended for ever, nor kept from a lock that is
\* free for good.  Nobody is obliged to begin a call, and distillers and
\* verifiers are not obliged to return.
Fairness ==
    /\ \A c \in Commits : WF_coordinatorVars(CommitStep(c))
    /\ \A r \in Readers : WF_coordinatorVars(ReadStep(r))

CoordinatorSpec == CoordinatorInit /\ [][CoordinatorNext]_coordinatorVars /\ Fairness

-----------------------------------------------------------------------------
(***************************************************************************)
(* Invariants.                                                             *)
(***************************************************************************)
\* The rows of the store are those of the calls that returned COMMITTED, one
\* each, made of a candidate that passed its whole pipeline and was rendered
\* on every bound window first; a call that is refused, or whose callback
\* throws, writes nothing, whatever other threads do meanwhile.
RowsAreCommits ==
    /\ \A id \in MemoryIds : Known(id) => \E c \in Commits : memory_id[c] = id
    /\ \A c \in Commits : memory_id[c] # None <=> pc[c] = "committed"
    /\ \A c \in Commits : pc[c] = "committed" =>
          /\ Storable(c) /\ shown[c] = Len(Bindings)
          /\ args[c].registry # None =>
                 Endorsed(args[c].registry.min_passes, args[c].registry.answers)
          /\ entries[memory_id[c]] = FromCandidate(Result(c).candidate)
          /\ \A d \in Commits : memory_id[d] = memory_id[c] => d = c
    /\ \A c \in Commits : pc[c] = "rejected" => ~Storable(c)

\* What a commit would display on a window, through whichever binding.
OutputsOf(c, w) ==
    {OutputFor(Result(c), Bindings[i].stage) : i \in {j \in DOMAIN Bindings : Bindings[j].window = w}}

\* Windows lag behind by a race and nothing else: a window that the latest
\* commit has rendered displays its result, or that of a commit that was
\* still rendering when the latest one was published.  So commits that do
\* not overlap leave every window up to date, those of stages that were not
\* reached included.
WindowsLagOnlyByRace ==
    latest # None =>
        \A i \in 1..shown[latest] :
            LET w == Bindings[i].window
            IN  \E c \in {latest} \cup raced[latest] : windows[w] \in OutputsOf(c, w)

\* stage_output() answers with a result at least as new as the newest that
\* was published when it was called, and with "idle" only when there was
\* none: a callback never reads back less than it was given to render.
AnswersAreCurrent ==
    \A t \in Threads : pc[t] \notin {"ask", "asking"} /\ answer[t] # None =>
        \/ asOf[t] = 0 /\ answer[t].content = "idle"
        \/ \E c \in Commits, stage \in Stages :
              /\ turn[c] >= asOf[t] /\ turn[c] > 0
              /\ answer[t] = OutputFor(Result(c), stage)

\* What an answer takes for granted: the latest result is the last published.
TurnsInOrder ==
    /\ clock = IF latest = None THEN 0 ELSE turn[latest]
    /\ latest # None => clock > 0
    /\ \A c \in Commits : turn[c] <= clock
    /\ \A t \in Threads : asOf[t] <= clock

\* What a window takes for granted: whoever renders either published last or
\* was rendering when the last one did, and nobody renders before publishing.
RenderersAreRaced ==
    \A c \in Commits :
        /\ pc[c] \in Rendering => latest # None /\ c \in {latest} \cup raced[latest]
        /\ pc[c] \in {"start", "publish", "locked"} => shown[c] = 0

\* The inductive invariant.
CoordinatorInv ==
    /\ StoreInv
    /\ CoordinatorTypeOK
    /\ RowsAreCommits
    /\ TurnsInOrder
    /\ AnswersAreCurrent
    /\ RenderersAreRaced
    /\ WindowsLagOnlyByRace

\* Every call whose pipeline has returned returns, although the lock is not reentrant and
\* callbacks take it: rendering happens outside of it.
EveryCallReturns == \A t \in Threads : pc[t] # "start" ~> pc[t] \in Returned

=============================================================================
