CONSTANTS
    e1 = e1
    e2 = e2
    e3 = e3
    Workers = {w1, w2}
    Entries <- MCEntries
    Keys = {1, 2}
    Buckets = 2
    Kinds <- MCKinds
    GClockInit = 1
    EntrySize = 10
    MaxSize = 20
    None = none
    Marker = invalid
SPECIFICATION FairSpec
INVARIANTS RefsExact PinnedInTable  NoneTwice
PROPERTY EvictionEnds
CHECK_DEADLOCK FALSE
