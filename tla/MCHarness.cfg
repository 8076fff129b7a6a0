\* Every episode around every other one, on one stub.
CONSTANTS
    Text <- HarnessText
    Strip <- HarnessStrip
    MetaKeys <- HarnessKeys
    None = None
    ExecutorTag <- HarnessTag
    MemoryIds = {m1, m2, m3, m4, m5, m6}
    VectorIds = {"vec-grocery"}
    PendingIds = {p1}
    Submissions <- HarnessSubmissions
    Callers = {"agent-a", "agent-b"}
    Filters = {}
    Renders = FALSE
    LogAtStart = FALSE
    MaxCalls = 0
    Within <- HarnessWithin
    CrossCheck <- HarnessCross
    Suites <- HarnessSuites
SYMMETRY HarnessSymmetry
SPECIFICATION HarnessSpec
CHECK_DEADLOCK FALSE
INVARIANTS
    ReportFailsWithAnyProbe
    IndexIsFaithful
    VerdictsAreRepeatable
