\* Three rows at most, two owners; all of list()'s filter combinations.
CONSTANTS
    Text <- MCText
    Strip <- MCStrip
    MetaKeys <- MCMetaKeys
    None = None
    MemoryIds = {m1, m2, m3}
    VectorIds = {v1, v2}
    Rows <- MCRows
    Callers = {"a", "b"}
    Filters <- MCFilters
SPECIFICATION StoreSpec
INVARIANTS
    ListMatchesScan
PROPERTIES
    ImplementsLifecycle
