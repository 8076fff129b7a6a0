\* A request among two audited calls.
CONSTANTS
    Text <- MCText
    Strip <- MCStrip
    MetaKeys <- MCMetaKeys
    None = None
    ExecutorTag <- MCExecutorTag
    MemoryIds = {m1, m2}
    VectorIds = {v1}
    PendingIds = {p1}
    Submissions <- DaemonSubmissions
    Callers = {"a"}
    Filters <- MCFilters
    Renders = FALSE
    LogAtStart = FALSE
    MaxCalls = 2
    Requests = {q1}
    Queries <- MCQueries
SYMMETRY DaemonSymmetry
VIEW DaemonView
SPECIFICATION DaemonSpec
INVARIANTS
    AnswersAreOneInstants
    MemoriesFailOnlyByInsert
