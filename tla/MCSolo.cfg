\* One call at a time, and a log attached between any two of them.
CONSTANTS
    Text <- MCText
    Strip <- MCStrip
    MetaKeys <- MCMetaKeys
    None = None
    ExecutorTag <- MCExecutorTag
    VectorIds = {v1}
    Callers = {"a", "b"}
    Filters <- MCFilters
    MemoryIds = {m1, m2}
    PendingIds = {p1}
    Submissions <- MCSubmissions
    Threads = {t1}
    Readers = {}
    ReadFilters <- MCReadFilters
    Renders = TRUE
    LogAtStart = FALSE
    MaxCalls = 2
SPECIFICATION SoloSpec
PROPERTIES
    ImplementsGate
    EarlyRefusalsNameNoTrace
