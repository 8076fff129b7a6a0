\* Two threads, three calls in all, and a reader: every interleaving of their steps.
CONSTANTS
    Text <- MCText
    Strip <- MCStrip
    MetaKeys <- MCMetaKeys
    None = None
    ExecutorTag <- MCExecutorTag
    VectorIds = {v1}
    Callers = {"a", "b"}
    Filters <- MCFilters
    MemoryIds = {m1, m2}
    PendingIds = {p1, p2}
    Submissions <- TwoSubmissions
    Threads = {t1, t2}
    Readers = {r1}
    ReadFilters <- MCReadFilters
    Renders = TRUE
    LogAtStart = TRUE
    MaxCalls = 3
SYMMETRY ThreadSymmetry
SPECIFICATION ThreadedStoreSpec
INVARIANTS
    OneWayOut
    WritesReconcileAtRest
    DeletionsAccounted
    LiveRowsIndexed
    ReadsAreSound
    ReadsAreComplete
    OwnReadsSurviveWrites
    GhostsComeOfRaces
PROPERTIES
    ThreadsImplementLifecycle
