CONSTANTS
    Owners = {o1}
    Tasks = {t1, t2}
    Threads = {w1, w2, w3}
    NoTask = none
    NoThread = nothread
    WorkersMin = 1
    WorkersMax = 3
    WorkersLow = 0
    MayFail = TRUE
SPECIFICATION FairSpec
INVARIANTS OnePlace WaitAnyFinds 
PROPERTIES QueuedTaken DestroyEnds ShutdownEnds
CHECK_DEADLOCK FALSE
