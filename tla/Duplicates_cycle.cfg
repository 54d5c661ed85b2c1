CONSTANTS
    Workers = {w1, w2}
    Groups = {1, 2, 3}
    NoGroup = none
    MaxMarks = 2
SPECIFICATION Spec
INVARIANT MonotoneLinks
CHECK_DEADLOCK FALSE
