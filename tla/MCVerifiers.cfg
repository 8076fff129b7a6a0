\* Every text of six tokens, every bundle of three traces, and every value
\* against every schema, two levels deep.
CONSTANTS
    Text <- MCText
    Strip <- MCStrip
    MetaKeys <- MCKeys
    None = None
    ExecutorTag <- MCExecutorTag
    Spelling <- MCSpelling
    PyValue <- MCPyValue
    PytestTags <- MCPytestTags
    Tokens <- MCTokens
    MaxTokens = 6
    Traces <- MCTraces
    MaxTraces = 3
    Contexts <- MCContexts
    Values <- MCValues
    Schemas <- MCSchemas
SPECIFICATION ProbeSpec
CHECK_DEADLOCK FALSE
INVARIANTS
    ReadsANumberInReach
    PytestSpeaksForBundle
    SchemaReachesEveryPart
    DemoEndsAsItSays
