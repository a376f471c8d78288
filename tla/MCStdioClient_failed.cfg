\* A start whose handshake fails locks the client for ever.
SPECIFICATION FairSpec
CONSTANTS
    t1 = t1
    t2 = t2
    Free = Free
    Threads <- MCThreads
    MaxStarts = 1
    Ops = {"start", "stop"}
    Faults = {"refuse"}
PROPERTIES
    FailedStartReturns
CHECK_DEADLOCK FALSE
