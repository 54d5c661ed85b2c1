CONSTANTS
    Workers = {w1, w2}
    Jobs = {j1, j2, j3}
    Queues = {1, 2}
    NoJob = none
    Ratio = 0
    MaxUlong = 7
    MaxForks = 2
    MaxStages = 2
    MayFail = TRUE
SPECIFICATION FairSpec
INVARIANTS RefsExact OnePlace LiveReferences OperationOnce ExitMeansDone
PROPERTIES ImplementsTree AllStop
