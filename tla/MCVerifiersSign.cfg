\* The sign of a number.
CONSTANTS
    Text <- MCText
    Strip <- MCStrip
    MetaKeys <- MCKeys
    None = None
    ExecutorTag <- MCExecutorTag
    Spelling <- MCSpelling
    PyValue <- MCPyValue
    PytestTags <- MCPytestTags
    Tokens <- MCTokens
    MaxTokens = 5
    Traces <- MCTraces
    MaxTraces = 3
    Contexts <- MCContexts
    Values = {}
    Schemas = {}
SPECIFICATION ProbeSpec
CHECK_DEADLOCK FALSE
INVARIANTS
    SignsAreRead
