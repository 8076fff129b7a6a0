\* Nodes take turns; two rows and one inbox item.
CONSTANTS
    Text <- HookText
    Strip <- HookStrip
    MetaKeys <- HookKeys
    None = None
    Missing = Missing
    ExecutorTag <- HookTag
    MemoryIds = {m1, m2}
    VectorIds = {v1}
    PendingIds = {p1}
    Submissions <- HookSubmissions
    Callers = {"a"}
    Filters <- HookFilters
    Renders = FALSE
    LogAtStart = FALSE
    MaxCalls = 0
    AgentRuns <- HookRuns
    MinTraces = 1
    Tools <- HookTools
    ToolName <- HookToolName
    BlockedTools <- HookBlocked
    MaxInFlight = 1
    MaxBlocked = 3
SYMMETRY HookSymmetry
VIEW HookView
SPECIFICATION HookSpec
INVARIANTS
    ResultTellsTheTruth
    UnsettledIsFlagged
    RerunsAreTwins
PROPERTIES
    BlockedCallsAccumulate
