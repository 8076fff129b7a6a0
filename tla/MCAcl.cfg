\* Every row the tags can make, probed with every filter.
CONSTANTS
    Text <- MCText
    Strip <- MCStrip
    MetaKeys <- MCMetaKeys
    None = None
    Rows <- MCRows
    Filters <- MCFilters
SPECIFICATION ProbeSpec
INVARIANTS
    AclMatchesAdr
    RaiseIsConfined
