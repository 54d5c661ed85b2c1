CONSTANTS
    Workers = {w1, w2}
    Groups = {1, 2, 3, 4}
    NoGroup = none
    MaxMarks = 3
SPECIFICATION FairSpec
INVARIANTS MonotoneApart NoNullDereference NoDescendingLink UnionKept
PROPERTY MarkReturns
CHECK_DEADLOCK FALSE
