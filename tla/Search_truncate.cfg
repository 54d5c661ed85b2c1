CONSTANTS
    Workers = {w1, w2}
    Groups = {1, 2, 3}
    Root = 1
    Exprs <- MCExprs
    Initial = {"agg", "table"}
    Logical <- MCLogical
    High = {"hash"}
    GroupOf <- MCGroupOf
    Kids <- MCKids
    Xforms <- MCXforms
    Result <- MCResult
    MadeWith <- MCMadeWith
    Height <- MCHeight
    Reqs <- MCReqs
    RootReq = "sorted"
    Accepts <- MCAccepts
    KidReq <- MCKidReq
    Enforcing <- MCEnforcing
    Enforcers <- MCEnforcers
    Cost <- MCCost
    Infinity = 99
    Thresholds <- MCThresholds
    Prunes = TRUE
    TimeOuts = {}
    NoJob = none
    NoExpr = noexpr
SPECIFICATION Spec
INVARIANT ReleaseHasPool
CHECK_DEADLOCK FALSE
