------------------------- MODULE Coordinator_proofs -------------------------
(***************************************************************************)
(* What CoordinatorSpec promises for any number of commits and readers,    *)
(* any submissions and any bindings.  Its liveness is model-checked.       *)
(***************************************************************************)
EXTENDS Coordinator, StoreAndStages_proofs

(***************************************************************************)
(* Facts about single steps.                                               *)
(***************************************************************************)
\* What a commit's submission comes to.
LEMMA ResultFacts ==
    ASSUME CoordinatorTypeOK, NEW c \in Commits
    PROVE  /\ args[c] \in PipelineCall /\ Result(c) = Run(args[c])
           /\ Result(c).candidate \in Optional(CandidateExperience)
           /\ \A stage \in Stages : OutputFor(Result(c), stage) \in StageOutput
<1>1. args[c] \in PipelineCall /\ Result(c) = Run(args[c])
    BY CoordinatorAssumption DEF CoordinatorTypeOK, Result, Outcome
<1>2. Result(c) \in PipelineResult
    BY <1>1, RunTyped
<1>3. \A stage \in Stages : OutputFor(Result(c), stage) \in StageOutput
    BY <1>2, OutputTyped
<1> QED
    BY <1>1, <1>2, <1>3 DEF PipelineResult

\* A step of one thread leaves the others where they are.
LEMMA GotoFacts ==
    ASSUME CoordinatorTypeOK, NEW t \in Threads, NEW from, NEW to \in Progress,
           Goto(t, from, to)
    PROVE  /\ pc[t] = from /\ pc'[t] = to
           /\ \A other \in Threads \ {t} : pc'[other] = pc[other]
           /\ pc' \in [Threads -> Progress]
BY DEF CoordinatorTypeOK, Goto

\* The bindings are a tuple of windows and stages.
LEMMA BindingFacts ==
    /\ Len(Bindings) \in Nat /\ DOMAIN Bindings = 1..Len(Bindings)
    /\ \A i \in DOMAIN Bindings : Bindings[i].window \in Windows /\ Bindings[i].stage \in Stages
<1> DEFINE S == [window : Windows, stage : Stages]
<1>1. Bindings \in Seq(S)
    BY CoordinatorAssumption
<1>2. \A binding \in S : binding.window \in Windows /\ binding.stage \in Stages
    OBVIOUS
<1> HIDE DEF S
<1>3. Len(Bindings) \in Nat /\ DOMAIN Bindings = 1..Len(Bindings)
    BY <1>1
<1>4. \A i \in DOMAIN Bindings : Bindings[i] \in S
    BY <1>1
<1> QED
    BY <1>2, <1>3, <1>4

\* The next binding, and what rendering it does.
LEMMA PaintFacts ==
    ASSUME CoordinatorTypeOK, NEW c \in Commits, Paint(c)
    PROVE  LET i == shown[c] + 1
               w == Bindings[i].window
           IN  /\ i \in DOMAIN Bindings /\ w \in Windows /\ Bindings[i].stage \in Stages
               /\ shown' \in [Commits -> 0..Len(Bindings)]
               /\ shown'[c] = i
               /\ \A other \in Commits \ {c} : shown'[other] = shown[other]
               /\ windows' \in [Windows -> Optional(StageOutput)]
               /\ windows'[w] = OutputFor(Result(c), Bindings[i].stage)
               /\ \A other \in Windows \ {w} : windows'[other] = windows[other]
<1> DEFINE i == shown[c] + 1
           w == Bindings[i].window
<1>1. i \in DOMAIN Bindings /\ i \in 0..Len(Bindings)
    BY BindingFacts DEF Paint, CoordinatorTypeOK
<1>2. w \in Windows /\ Bindings[i].stage \in Stages
    BY <1>1, BindingFacts
<1>3. OutputFor(Result(c), Bindings[i].stage) \in StageOutput
    BY <1>2, ResultFacts
<1> QED
    BY <1>1, <1>2, <1>3 DEF Paint, CoordinatorTypeOK, Optional

(***************************************************************************)
(* The conjuncts of the invariant that a step leaves alone.                *)
(***************************************************************************)
LEMMA RowsFrame ==
    ASSUME RowsAreCommits, UNCHANGED <<entries, args, memory_id>>,
           \A c \in Commits :
               \/ pc'[c] = pc[c] /\ shown'[c] = shown[c]
               \/ {pc[c], pc'[c]} \cap {"committed", "rejected"} = {}
    PROVE  RowsAreCommits'
BY DEF RowsAreCommits, Known, Storable, Result

LEMMA TurnsFrame ==
    ASSUME TurnsInOrder, UNCHANGED <<latest, clock, turn>>,
           \A t \in Threads : asOf'[t] \in {asOf[t], clock},
           clock \in Nat
    PROVE  TurnsInOrder'
BY DEF TurnsInOrder

LEMMA AnswersFrame ==
    ASSUME AnswersAreCurrent, UNCHANGED <<args, turn, answer>>,
           \A t \in Threads : pc'[t] \notin {"ask", "asking"} =>
               pc[t] \notin {"ask", "asking"} /\ asOf'[t] = asOf[t]
    PROVE  AnswersAreCurrent'
BY DEF AnswersAreCurrent, Result

LEMMA RenderersFrame ==
    ASSUME RenderersAreRaced, UNCHANGED <<latest, raced>>,
           \A c \in Commits :
               /\ pc'[c] \in Rendering => pc[c] \in Rendering
               /\ pc'[c] \in {"start", "publish", "locked"} =>
                      pc[c] \in {"start", "publish", "locked"} /\ shown'[c] = shown[c]
    PROVE  RenderersAreRaced'
BY DEF RenderersAreRaced

LEMMA WindowsFrame ==
    ASSUME WindowsLagOnlyByRace, UNCHANGED <<args, latest, raced, shown, windows>>
    PROVE  WindowsLagOnlyByRace'
BY DEF WindowsLagOnlyByRace, OutputsOf, Result

\* A step that moves a thread and touches nothing but its pc and the lock.
LEMMA QuietInv ==
    ASSUME CoordinatorInv, NEW t \in Threads, NEW from, NEW to, Goto(t, from, to),
           \/ from = "start" /\ to = "publish"
           \/ from = "start" /\ to = "raised"
           \/ from = "publish" /\ to = "locked"
           \/ from = "ask" /\ to = "asking"
           \/ from = "render" /\ to = "raised",
           lock' \in Optional(Threads),
           UNCHANGED <<storeVars, args, latest, displayVars, memory_id, answerVars, historyVars>>
    PROVE  CoordinatorInv'
<1> USE DEF CoordinatorInv
<1>1. to \in Progress
    BY DEF Progress, Returned, Rendering
<1>2. /\ pc[t] = from /\ pc'[t] = to
      /\ \A other \in Threads \ {t} : pc'[other] = pc[other]
      /\ pc' \in [Threads -> Progress]
    BY <1>1, GotoFacts
<1>3. Commits \subseteq Threads
    BY DEF Threads
<1>4. StoreInv' /\ CoordinatorTypeOK'
    BY <1>2, UnchangedInv DEF CoordinatorTypeOK, StoreInv, displayVars, answerVars, historyVars
<1>5. RowsAreCommits'
    BY <1>2, <1>3, RowsFrame DEF storeVars, displayVars
<1>6. TurnsInOrder'
    BY TurnsFrame DEF historyVars, answerVars, CoordinatorTypeOK
<1>7. AnswersAreCurrent'
    BY <1>2, AnswersFrame DEF historyVars, answerVars
<1>8. RenderersAreRaced'
    BY <1>2, <1>3, RenderersFrame DEF historyVars, displayVars, Rendering
<1>9. WindowsLagOnlyByRace'
    BY WindowsFrame DEF historyVars, displayVars
<1> QED
    BY <1>4, <1>5, <1>6, <1>7, <1>8, <1>9

(***************************************************************************)
(* The steps that change more.                                             *)
(***************************************************************************)
\* Publishing: the others that still render are the ones that raced.
LEMMA SetLatestInv ==
    ASSUME CoordinatorInv, NEW c \in Commits, SetLatest(c)
    PROVE  CoordinatorInv'
<1> USE DEF CoordinatorInv
<1>1. /\ c \in Threads /\ Commits \subseteq Threads /\ c # None
      /\ pc[c] = "locked" /\ pc'[c] = "render"
      /\ \A other \in Threads \ {c} : pc'[other] = pc[other]
      /\ pc' \in [Threads -> Progress]
    BY GotoFacts, CoordinatorAssumption DEF SetLatest, Threads, Progress, Rendering
<1>2. /\ latest' = c /\ clock' = clock + 1 /\ clock \in Nat
      /\ turn' \in [Commits -> Nat] /\ turn'[c] = clock + 1 /\ turn[c] <= clock
      /\ \A other \in Commits \ {c} : turn'[other] = turn[other]
      /\ raced' \in [Commits -> SUBSET Commits]
      /\ raced'[c] = {d \in Commits : pc[d] \in Rendering}
    BY DEF SetLatest, CoordinatorTypeOK, TurnsInOrder
<1>3. StoreInv' /\ CoordinatorTypeOK'
    BY <1>1, <1>2, UnchangedInv
    DEF SetLatest, CoordinatorTypeOK, StoreInv, displayVars, answerVars, Optional
<1>4. RowsAreCommits'
    BY <1>1, RowsFrame DEF SetLatest, storeVars, displayVars
<1>5. TurnsInOrder'
    <2>1. \A other \in Commits : turn'[other] <= clock + 1
        <3>1. \A other \in Commits : turn[other] \in Nat /\ turn[other] <= clock
            BY DEF TurnsInOrder, CoordinatorTypeOK
        <3> QED
            BY <1>2, <3>1
    <2>2. \A t \in Threads : asOf'[t] <= clock + 1
        BY <1>2 DEF SetLatest, answerVars, TurnsInOrder, CoordinatorTypeOK
    <2> QED
        BY <1>1, <1>2, <2>1, <2>2 DEF TurnsInOrder
<1>6. AnswersAreCurrent'
    <2> SUFFICES ASSUME NEW t \in Threads, pc'[t] \notin {"ask", "asking"}, answer'[t] # None
                 PROVE  \/ asOf'[t] = 0 /\ answer'[t].content = "idle"
                        \/ \E d \in Commits, stage \in Stages :
                              /\ turn'[d] >= asOf'[t] /\ turn'[d] > 0
                              /\ answer'[t] = OutputFor(Result(d), stage)'
        BY DEF AnswersAreCurrent
    <2>1. answer' = answer /\ asOf' = asOf /\ args' = args /\ pc[t] \notin {"ask", "asking"}
        BY <1>1 DEF SetLatest, answerVars
    <2>2. \A d \in Commits : turn'[d] \in Nat /\ turn[d] \in Nat /\ turn'[d] >= turn[d]
        <3>1. \A d \in Commits : turn[d] \in Nat /\ turn'[d] \in Nat
            BY <1>2 DEF CoordinatorTypeOK
        <3> QED
            BY <1>2, <3>1
    <2>3. \A d \in Commits, stage \in Stages :
              OutputFor(Result(d), stage)' = OutputFor(Result(d), stage)
        BY <2>1 DEF Result
    <2>4. CASE asOf[t] = 0 /\ answer[t].content = "idle"
        BY <2>1, <2>4
    <2>5. ASSUME NEW d \in Commits, NEW stage \in Stages,
                 turn[d] >= asOf[t], turn[d] > 0, answer[t] = OutputFor(Result(d), stage)
          PROVE  /\ turn'[d] >= asOf'[t] /\ turn'[d] > 0
                 /\ answer'[t] = OutputFor(Result(d), stage)'
        BY <2>1, <2>2, <2>3, <2>5 DEF CoordinatorTypeOK
    <2> QED
        BY <2>1, <2>4, <2>5 DEF AnswersAreCurrent
<1>7. RenderersAreRaced'
    BY <1>1, <1>2 DEF RenderersAreRaced, Rendering, SetLatest, displayVars
<1>8. WindowsLagOnlyByRace'
    <2>1. shown'[c] = 0
        BY <1>1 DEF RenderersAreRaced, SetLatest, displayVars
    <2> QED
        BY <1>2, <2>1 DEF WindowsLagOnlyByRace
<1> QED
    BY <1>3, <1>4, <1>5, <1>6, <1>7, <1>8

\* Rendering one more binding, whether the callback then asks or not.
LEMMA PaintInv ==
    ASSUME CoordinatorInv, NEW c \in Commits, Render(c) \/ RenderAndAsk(c)
    PROVE  CoordinatorInv'
<1> USE DEF CoordinatorInv
<1> DEFINE i == shown[c] + 1
           w == Bindings[i].window
<1>1. /\ c \in Threads /\ Commits \subseteq Threads
      /\ pc[c] = "render" /\ pc'[c] \in {"render", "ask"}
      /\ \A other \in Threads \ {c} : pc'[other] = pc[other]
      /\ pc' \in [Threads -> Progress]
    BY GotoFacts DEF Render, RenderAndAsk, Threads, Progress, Rendering
<1>2. /\ Paint(c)
      /\ UNCHANGED <<storeVars, args, lock, latest, memory_id, answer, historyVars>>
      /\ \/ pc'[c] = "render" /\ asOf' = asOf
         \/ pc'[c] = "ask" /\ asOf' = [asOf EXCEPT ![c] = clock]
    BY <1>1, GotoFacts DEF Render, RenderAndAsk, answerVars, Progress, Rendering
<1>3. /\ i \in DOMAIN Bindings /\ w \in Windows
      /\ shown' \in [Commits -> 0..Len(Bindings)] /\ shown'[c] = i
      /\ \A other \in Commits \ {c} : shown'[other] = shown[other]
      /\ windows' \in [Windows -> Optional(StageOutput)]
      /\ windows'[w] = OutputFor(Result(c), Bindings[i].stage)
      /\ \A other \in Windows \ {w} : windows'[other] = windows[other]
    BY <1>2, PaintFacts
<1>4. StoreInv' /\ CoordinatorTypeOK'
    BY <1>1, <1>2, <1>3, UnchangedInv DEF CoordinatorTypeOK, StoreInv, historyVars
<1>5. RowsAreCommits'
    BY <1>1, <1>2, <1>3, RowsFrame DEF storeVars
<1>6. TurnsInOrder'
    BY <1>2, TurnsFrame DEF historyVars, CoordinatorTypeOK
<1>7. AnswersAreCurrent'
    BY <1>1, <1>2, AnswersFrame DEF historyVars, CoordinatorTypeOK
<1>8. RenderersAreRaced'
    BY <1>1, <1>2, <1>3, RenderersFrame DEF historyVars, Rendering
<1>9. WindowsLagOnlyByRace'
    <2> SUFFICES ASSUME latest # None, NEW j \in 1..shown'[latest]
                 PROVE  \E d \in {latest} \cup raced[latest] :
                            windows'[Bindings[j].window]
                                \in {OutputFor(Result(d), Bindings[k].stage) :
                                       k \in {l \in DOMAIN Bindings :
                                                  Bindings[l].window = Bindings[j].window}}
        <3>1. latest' = latest /\ raced' = raced /\ \A d : Result(d)' = Result(d)
            BY <1>2 DEF historyVars, Result
        <3> QED
            BY <3>1 DEF WindowsLagOnlyByRace, OutputsOf
    <2>1. latest \in Commits /\ j \in DOMAIN Bindings /\ Bindings[j].window \in Windows
        <3>1. latest \in Commits
            BY DEF CoordinatorTypeOK, Optional
        <3>2. shown'[latest] \in 0..Len(Bindings)
            BY <1>3, <3>1
        <3> QED
            BY <3>1, <3>2, BindingFacts
    <2>2. CASE Bindings[j].window = w
        <3>1. c \in {latest} \cup raced[latest]
            BY <1>1 DEF RenderersAreRaced, Rendering
        <3> QED
            BY <1>3, <2>2, <3>1
    <2>3. CASE Bindings[j].window # w
        <3>1. j \in 1..shown[latest]
            <4>1. shown[latest] \in Nat /\ shown'[latest] \in {shown[latest], shown[latest] + 1}
                BY <1>3, <2>1, BindingFacts DEF CoordinatorTypeOK
            <4>2. shown'[latest] # shown[latest] => c = latest
                BY <1>3, <2>1
            <4> QED
                BY <2>1, <2>3, <4>1, <4>2
        <3>2. windows'[Bindings[j].window] = windows[Bindings[j].window]
            BY <1>3, <2>1, <2>3
        <3> QED
            BY <3>1, <3>2 DEF WindowsLagOnlyByRace, OutputsOf
    <2> QED
        BY <2>2, <2>3
<1> QED
    BY <1>4, <1>5, <1>6, <1>7, <1>8, <1>9

\* A reader calls stage_output().
LEMMA BeginReadInv ==
    ASSUME CoordinatorInv, NEW r \in Readers, BeginRead(r)
    PROVE  CoordinatorInv'
<1> USE DEF CoordinatorInv
<1>1. /\ r \in Threads /\ Commits \subseteq Threads \ {r}
      /\ pc[r] = "start" /\ pc'[r] = "ask"
      /\ \A other \in Threads \ {r} : pc'[other] = pc[other]
      /\ pc' \in [Threads -> Progress]
    BY GotoFacts, CoordinatorAssumption DEF BeginRead, Threads, Progress, Rendering
<1>2. StoreInv' /\ CoordinatorTypeOK'
    BY <1>1, UnchangedInv DEF BeginRead, CoordinatorTypeOK, StoreInv, displayVars, historyVars
<1>3. RowsAreCommits'
    BY <1>1, RowsFrame DEF BeginRead, storeVars, displayVars
<1>4. TurnsInOrder'
    BY TurnsFrame DEF BeginRead, historyVars, CoordinatorTypeOK
<1>5. AnswersAreCurrent'
    BY <1>1, AnswersFrame DEF BeginRead, historyVars, CoordinatorTypeOK
<1>6. RenderersAreRaced'
    BY <1>1, RenderersFrame DEF BeginRead, historyVars, displayVars
<1>7. WindowsLagOnlyByRace'
    BY WindowsFrame DEF BeginRead, historyVars, displayVars
<1> QED
    BY <1>2, <1>3, <1>4, <1>5, <1>6, <1>7

\* stage_output() reads the latest result, which is the last published.
LEMMA AnswerInv ==
    ASSUME CoordinatorInv, NEW t \in Threads, NEW stage \in Stages, Answer(t, stage)
    PROVE  CoordinatorInv'
<1> USE DEF CoordinatorInv
<1> DEFINE output == IF latest = None THEN Idle(stage) ELSE OutputFor(Result(latest), stage)
<1>1. /\ Commits \subseteq Threads
      /\ pc[t] = "asking" /\ pc'[t] = IF t \in Commits THEN "render" ELSE "answered"
      /\ \A other \in Threads \ {t} : pc'[other] = pc[other]
      /\ pc' \in [Threads -> Progress]
    BY GotoFacts DEF Answer, Threads, Progress, Rendering, Returned
<1>2. output \in StageOutput
    BY ResultFacts DEF CoordinatorTypeOK, Optional, Idle, StageOutput
<1>3. /\ answer' \in [Threads -> Optional(StageOutput)] /\ answer'[t] = output
      /\ \A other \in Threads \ {t} : answer'[other] = answer[other]
    BY <1>2 DEF Answer, CoordinatorTypeOK, Optional
<1>4. StoreInv' /\ CoordinatorTypeOK'
    BY <1>1, <1>3, UnchangedInv
    DEF Answer, CoordinatorTypeOK, StoreInv, displayVars, historyVars, Optional
<1>5. RowsAreCommits'
    BY <1>1, RowsFrame DEF Answer, storeVars, displayVars
<1>6. TurnsInOrder'
    BY TurnsFrame DEF Answer, historyVars, CoordinatorTypeOK
<1>7. AnswersAreCurrent'
    <2> SUFFICES ASSUME NEW other \in Threads, pc'[other] \notin {"ask", "asking"},
                        answer'[other] # None
                 PROVE  \/ asOf[other] = 0 /\ answer'[other].content = "idle"
                        \/ \E d \in Commits, s \in Stages :
                              /\ turn[d] >= asOf[other] /\ turn[d] > 0
                              /\ answer'[other] = OutputFor(Result(d), s)
        <3>1. /\ asOf' = asOf /\ turn' = turn /\ \A d : Result(d)' = Result(d)
            BY DEF Answer, historyVars, Result
        <3> QED
            BY <3>1 DEF AnswersAreCurrent
    <2>1. CASE other # t
        BY <1>1, <1>3, <2>1 DEF AnswersAreCurrent
    <2>2. CASE other = t /\ latest = None
        BY <1>3, <2>2 DEF Idle, TurnsInOrder, CoordinatorTypeOK
    <2>3. CASE other = t /\ latest # None
        <3>1. latest \in Commits /\ turn[latest] = clock /\ clock > 0 /\ clock >= asOf[t]
            BY <2>3 DEF TurnsInOrder, CoordinatorTypeOK, Optional
        <3> QED
            BY <1>3, <2>3, <3>1
    <2> QED
        BY <2>1, <2>2, <2>3
<1>8. RenderersAreRaced'
    BY <1>1, RenderersFrame DEF Answer, historyVars, displayVars, Rendering
<1>9. WindowsLagOnlyByRace'
    BY WindowsFrame DEF Answer, historyVars, displayVars
<1> QED
    BY <1>4, <1>5, <1>6, <1>7, <1>8, <1>9

\* commit() returns a rejection.
LEMMA RejectInv ==
    ASSUME CoordinatorInv, NEW c \in Commits, Reject(c)
    PROVE  CoordinatorInv'
<1> USE DEF CoordinatorInv
<1>1. /\ c \in Threads /\ Commits \subseteq Threads
      /\ pc[c] = "render" /\ pc'[c] = "rejected"
      /\ \A other \in Threads \ {c} : pc'[other] = pc[other]
      /\ pc' \in [Threads -> Progress]
    BY GotoFacts DEF Reject, Threads, Progress, Returned
<1>2. StoreInv' /\ CoordinatorTypeOK'
    BY <1>1, UnchangedInv
    DEF Reject, CoordinatorTypeOK, StoreInv, displayVars, answerVars, historyVars
<1>3. RowsAreCommits'
    <2>1. ~Storable(c) /\ UNCHANGED <<entries, args, memory_id, shown>>
        BY DEF Reject, storeVars, displayVars
    <2>2. \A d \in Commits : Storable(d)' = Storable(d)
        BY <2>1 DEF Storable, Result
    <2> QED
        BY <1>1, <2>1, <2>2 DEF RowsAreCommits, Known, Result
<1>4. TurnsInOrder'
    BY TurnsFrame DEF Reject, historyVars, answerVars, CoordinatorTypeOK
<1>5. AnswersAreCurrent'
    BY <1>1, AnswersFrame DEF Reject, historyVars, answerVars
<1>6. RenderersAreRaced'
    BY <1>1, RenderersFrame DEF Reject, historyVars, displayVars, Rendering
<1>7. WindowsLagOnlyByRace'
    BY WindowsFrame DEF Reject, historyVars, displayVars
<1> QED
    BY <1>2, <1>3, <1>4, <1>5, <1>6, <1>7

\* commit() writes its row, under an id that is no other commit's.
LEMMA StoreStepInv ==
    ASSUME CoordinatorInv, NEW c \in Commits, NEW id \in MemoryIds, Store(c, id)
    PROVE  CoordinatorInv'
<1> USE DEF CoordinatorInv
<1> DEFINE row == FromCandidate(Result(c).candidate)
<1>1. /\ c \in Threads /\ Commits \subseteq Threads
      /\ pc[c] = "render" /\ pc'[c] = "committed"
      /\ \A other \in Threads \ {c} : pc'[other] = pc[other]
      /\ pc' \in [Threads -> Progress]
    BY GotoFacts DEF Store, Threads, Progress, Returned
<1>2. /\ Storable(c) /\ row \in MemoryEntry /\ row # None
    BY ResultFacts, RowOfCandidate, IdAssumption DEF Store, Storable, Optional
<1>3. /\ StoreInv' /\ ~Known(id) /\ entries'[id] = row
      /\ \A other \in MemoryIds \ {id} : entries'[other] = entries[other]
    <2>1. StoreInv'
        BY <1>2, InsertInv DEF Store
    <2> QED
        BY <2>1 DEF Store, Insert, StoreInv, OnlyMintedKnown, StoreTypeOK
<1>4. /\ memory_id' \in [Commits -> Optional(MemoryIds)] /\ memory_id'[c] = id /\ id # None
      /\ \A other \in Commits \ {c} : memory_id'[other] = memory_id[other]
    BY CoordinatorAssumption DEF Store, CoordinatorTypeOK, Optional
<1>5. CoordinatorTypeOK'
    BY <1>1, <1>3, <1>4
    DEF Store, CoordinatorTypeOK, StoreInv, displayVars, answerVars, historyVars
<1>6. RowsAreCommits'
    <2>1. /\ UNCHANGED <<args, shown>> /\ shown[c] = Len(Bindings)
          /\ \A d \in Commits : Storable(d)' = Storable(d) /\ Result(d)' = Result(d)
        BY DEF Store, displayVars, Storable, Result
    <2>2. args[c].registry # None => Endorsed(args[c].registry.min_passes, args[c].registry.answers)
        BY <1>2, ResultFacts, RunEndorsed DEF Storable
    <2>3. \A d \in Commits : pc[d] = "committed" =>
              memory_id[d] \in MemoryIds /\ memory_id[d] # id /\ d # c
        <3> SUFFICES ASSUME NEW d \in Commits, pc[d] = "committed"
                     PROVE  memory_id[d] \in MemoryIds /\ memory_id[d] # id /\ d # c
            OBVIOUS
        <3>1. memory_id[d] \in MemoryIds /\ entries[memory_id[d]] = FromCandidate(Result(d).candidate)
              /\ Storable(d)
            BY DEF RowsAreCommits, CoordinatorTypeOK, Optional
        <3>2. FromCandidate(Result(d).candidate) # None
            BY <3>1, ResultFacts, RowOfCandidate, IdAssumption DEF Storable, Optional
        <3> QED
            BY <1>1, <1>3, <3>1, <3>2 DEF Known
    <2>4. \A other \in MemoryIds : Known(other)' => \E d \in Commits : memory_id'[d] = other
        <3> SUFFICES ASSUME NEW other \in MemoryIds, Known(other)'
                     PROVE  \E d \in Commits : memory_id'[d] = other
            OBVIOUS
        <3>1. CASE other = id
            BY <1>4, <3>1
        <3>2. CASE other # id
            <4>1. Known(other)
                BY <1>3, <3>2 DEF Known
            <4>2. PICK d \in Commits : memory_id[d] = other
                BY <4>1 DEF RowsAreCommits
            <4>3. memory_id[c] = None
                BY <1>1 DEF RowsAreCommits
            <4> QED
                BY <1>4, <4>2, <4>3, CoordinatorAssumption
        <3> QED
            BY <3>1, <3>2
    <2>5. \A d \in Commits : memory_id'[d] # None <=> pc'[d] = "committed"
        BY <1>1, <1>4 DEF RowsAreCommits
    <2>6. ASSUME NEW d \in Commits, pc'[d] = "committed"
          PROVE  /\ Storable(d) /\ shown[d] = Len(Bindings)
                 /\ args[d].registry # None =>
                        Endorsed(args[d].registry.min_passes, args[d].registry.answers)
                 /\ entries'[memory_id'[d]] = FromCandidate(Result(d).candidate)
                 /\ \A other \in Commits : memory_id'[other] = memory_id'[d] => other = d
        <3>1. CASE d = c
            <4>1. \A other \in Commits \ {c} : memory_id[other] # id
                BY <1>4, <2>3 DEF RowsAreCommits
            <4> QED
                BY <1>2, <1>3, <1>4, <2>1, <2>2, <3>1, <4>1
        <3>2. CASE d # c
            <4>1. pc[d] = "committed" /\ memory_id'[d] = memory_id[d]
                BY <1>1, <1>4, <2>6, <3>2
            <4>2. entries'[memory_id'[d]] = entries[memory_id[d]] /\ memory_id[d] # id
                BY <1>3, <2>3, <4>1
            <4> QED
                BY <1>4, <4>1, <4>2 DEF RowsAreCommits
        <3> QED
            BY <3>1, <3>2
    <2>7. \A d \in Commits : pc'[d] = "rejected" => ~Storable(d)
        BY <1>1 DEF RowsAreCommits
    <2> QED
        BY <2>1, <2>4, <2>5, <2>6, <2>7 DEF RowsAreCommits
<1>7. TurnsInOrder'
    BY TurnsFrame DEF Store, historyVars, answerVars, CoordinatorTypeOK
<1>8. AnswersAreCurrent'
    BY <1>1, AnswersFrame DEF Store, historyVars, answerVars
<1>9. RenderersAreRaced'
    BY <1>1, RenderersFrame DEF Store, historyVars, displayVars, Rendering
<1>10. WindowsLagOnlyByRace'
    BY WindowsFrame DEF Store, historyVars, displayVars
<1> QED
    BY <1>3, <1>5, <1>6, <1>7, <1>8, <1>9, <1>10

-----------------------------------------------------------------------------
(***************************************************************************)
(* The theorems.                                                           *)
(***************************************************************************)
\* The invariant holds of every number of threads that share a coordinator
\* (coordinator.py, commit and stage_output).
THEOREM CoordinatorInvariant == CoordinatorSpec => []CoordinatorInv
<1>1. CoordinatorInit => CoordinatorInv
    <2> SUFFICES ASSUME CoordinatorInit PROVE CoordinatorInv
        OBVIOUS
    <2>1. StoreInv /\ \A id \in MemoryIds : ~Known(id)
        BY StoreInitInv DEF CoordinatorInit, StoreInit, Known
    <2>2. CoordinatorTypeOK
        BY <2>1, BindingFacts
        DEF CoordinatorInit, CoordinatorTypeOK, StoreInv, Optional, Progress
    <2>3. \A c \in Commits : pc[c] = "start" /\ memory_id[c] = None
        BY DEF CoordinatorInit, Threads
    <2>4. RowsAreCommits
        BY <2>1, <2>3 DEF RowsAreCommits
    <2>5. TurnsInOrder /\ AnswersAreCurrent /\ WindowsLagOnlyByRace
        BY DEF CoordinatorInit, TurnsInOrder, AnswersAreCurrent, WindowsLagOnlyByRace
    <2>6. RenderersAreRaced
        BY <2>3 DEF CoordinatorInit, RenderersAreRaced, Rendering
    <2> QED
        BY <2>1, <2>2, <2>4, <2>5, <2>6 DEF CoordinatorInv
<1>2. CoordinatorInv /\ [CoordinatorNext]_coordinatorVars => CoordinatorInv'
    <2> SUFFICES ASSUME CoordinatorInv, [CoordinatorNext]_coordinatorVars PROVE CoordinatorInv'
        OBVIOUS
    <2> USE DEF Threads
    <2>1. ASSUME NEW c \in Commits, RunPipeline(c) PROVE CoordinatorInv'
        <3>1. lock' \in Optional(Threads)
            BY <2>1 DEF RunPipeline, CoordinatorInv, CoordinatorTypeOK
        <3> QED
            BY <2>1, <3>1, QuietInv DEF RunPipeline
    <2>2. ASSUME NEW t \in Threads, Acquire(t) PROVE CoordinatorInv'
        <3>1. lock' \in Optional(Threads)
            BY <2>2 DEF Acquire, Optional
        <3> QED
            BY <2>2, <3>1, QuietInv DEF Acquire
    <2>3. ASSUME NEW c \in Commits, SetLatest(c) PROVE CoordinatorInv'
        BY <2>3, SetLatestInv
    <2>4. ASSUME NEW c \in Commits, Render(c) \/ RenderAndAsk(c) PROVE CoordinatorInv'
        BY <2>4, PaintInv
    <2>5. ASSUME NEW c \in Commits, RenderRaises(c) PROVE CoordinatorInv'
        <3>1. lock' \in Optional(Threads)
            BY <2>5 DEF RenderRaises, CoordinatorInv, CoordinatorTypeOK
        <3> QED
            BY <2>5, <3>1, QuietInv DEF RenderRaises
    <2>6. ASSUME NEW t \in Threads, NEW stage \in Stages, Answer(t, stage) PROVE CoordinatorInv'
        BY <2>6, AnswerInv
    <2>7. ASSUME NEW c \in Commits, Reject(c) PROVE CoordinatorInv'
        BY <2>7, RejectInv
    <2>8. ASSUME NEW c \in Commits, NEW id \in MemoryIds, Store(c, id) PROVE CoordinatorInv'
        BY <2>8, StoreStepInv
    <2>9. ASSUME NEW r \in Readers, BeginRead(r) PROVE CoordinatorInv'
        BY <2>9, BeginReadInv
    <2>10. CASE UNCHANGED coordinatorVars
        <3>1. StoreInv' /\ CoordinatorTypeOK'
            BY <2>10, UnchangedInv
            DEF coordinatorVars, callVars, displayVars, answerVars, historyVars,
                CoordinatorInv, CoordinatorTypeOK, StoreInv
        <3> QED
            BY <2>10, <3>1, RowsFrame, TurnsFrame, AnswersFrame, RenderersFrame, WindowsFrame
            DEF coordinatorVars, callVars, displayVars, answerVars, historyVars, storeVars,
                CoordinatorInv, CoordinatorTypeOK
    <2> QED
        BY <2>1, <2>2, <2>3, <2>4, <2>5, <2>6, <2>7, <2>8, <2>9, <2>10
        DEF CoordinatorNext, CommitStep, ReadStep
<1> QED
    BY <1>1, <1>2, PTL DEF CoordinatorSpec

\* What the coordinator's threads share keeps the types coordinator.py declares.
THEOREM CoordinatorTypes == CoordinatorSpec => []CoordinatorTypeOK
<1>1. CoordinatorInv => CoordinatorTypeOK
    BY DEF CoordinatorInv
<1> QED
    BY <1>1, CoordinatorInvariant, PTL

\* The rows of a coordinator's store are those of its verified commits, one
\* each (coordinator.py, the end of commit), and its indexes are coherent.
THEOREM RowsAreTheCommits == CoordinatorSpec => [](RowsAreCommits /\ IndexCoherent)
<1>1. CoordinatorInv => RowsAreCommits /\ IndexCoherent
    BY DEF CoordinatorInv, StoreInv
<1> QED
    BY <1>1, CoordinatorInvariant, PTL

\* Windows lag by a race and nothing else (coordinator.py, _render_all outside
\* of the lock).
THEOREM WindowsLag == CoordinatorSpec => []WindowsLagOnlyByRace
<1>1. CoordinatorInv => WindowsLagOnlyByRace
    BY DEF CoordinatorInv
<1> QED
    BY <1>1, CoordinatorInvariant, PTL

\* stage_output() answers with nothing older than what was published when it
\* was called, from a reader or from a callback.
THEOREM AnswersCurrent == CoordinatorSpec => []AnswersAreCurrent
<1>1. CoordinatorInv => AnswersAreCurrent
    BY DEF CoordinatorInv
<1> QED
    BY <1>1, CoordinatorInvariant, PTL
=============================================================================
