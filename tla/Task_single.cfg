CONSTANTS
    Owners = {o1}
    Tasks = {t1, t2}
    Threads = {w1, w2, w3}
    NoTask = none
    NoThread = nothread
    WorkersMin = 1
    WorkersMax = 1
    WorkersLow = 0
    MayFail = FALSE
SPECIFICATION Spec
INVARIANT PoolHasWorkers
CHECK_DEADLOCK FALSE
