CONSTANTS
    Threads = {t1, t2, t3}
    NoThread = none
    MaxTotal = 3
SPECIFICATION FairSpec
PROPERTIES ImplementsPromise BroadcastDelivered
