CONSTANTS
    Workers = {w1, w2}
    Shared = list
    Size = 2
    HeapObjects = {h1}
    None = none
    MaxAge = 2
SPECIFICATION ListFairSpec
INVARIANTS  OneOwner ObjectsAccounted
PROPERTY RetrieveReturns
CHECK_DEADLOCK FALSE
