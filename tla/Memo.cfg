CONSTANTS
    Workers = {w1, w2}
    InitialMemo <- MCMemoOfQuery
    Results <- MCResults
    ScalarOps = {"s"}
    MaxGroups = 8
    MaxExprs = 10
    MaxResults = 3
    MaxStages = 2
    NoGroup = none
SPECIFICATION FairSpec
INVARIANTS HashStable NoTwins MergesExactly ChildLive
PROPERTY MergeEnds
CHECK_DEADLOCK FALSE
