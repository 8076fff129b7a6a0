\* Two rows and two inbox items; a log attached at any time, and three calls
\* while it is.
CONSTANTS
    Text <- MCText
    Strip <- MCStrip
    MetaKeys <- MCMetaKeys
    None = None
    ExecutorTag <- MCExecutorTag
    MemoryIds = {m1, m2}
    VectorIds = {v1}
    PendingIds = {p1, p2}
    Submissions <- MCSubmissions
    Callers = {"a", "b"}
    Filters <- MCFilters
    Renders = TRUE
    LogAtStart = FALSE
    MaxCalls = 3
SYMMETRY MCSymmetry
VIEW MCView
SPECIFICATION GateSpec
INVARIANTS
    WritesReconcile
    DeletionsReconcile
    PendingConserved
    InboxFiltersLikeStore
PROPERTIES
    FailuresChangeNothing
