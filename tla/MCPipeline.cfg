\* Bundles of at most three traces, registries of at most three verifiers.
CONSTANTS
    Text <- MCText
    Strip <- MCStrip
    MetaKeys <- MCMetaKeys
    None = None
    ExecutorTag <- MCExecutorTag
    Calls <- MCCalls
SPECIFICATION PipelineSpec
\* A run that has returned does nothing more.
CHECK_DEADLOCK FALSE
INVARIANTS
    VerdictIsDeserved
    LessonSpeaksForBundle
    LastTraceTagsTheRow
