\* Two commits and a reader, and a window that both commits paint.
CONSTANTS
    Text <- MCText
    Strip <- MCStrip
    MetaKeys <- MCMetaKeys
    None = None
    ExecutorTag <- MCExecutorTag
    MemoryIds = {m1, m2}
    VectorIds = {v1}
    Submissions <- MCSubmissions
    Commits = {c1, c2}
    Readers = {r1}
    Windows <- MCWindows
    Bindings <- MCBindings
SPECIFICATION CoordinatorSpec
\* Every call returns, and then nothing more happens.
CHECK_DEADLOCK FALSE
INVARIANTS
    RowsAreCommits
    WindowsLagOnlyByRace
    AnswersAreCurrent
PROPERTIES
    EveryCallReturns
