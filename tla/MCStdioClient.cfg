\* A start whose handshake fails locks the client for ever: that is the code.
SPECIFICATION FairSpec
CONSTANTS
    t1 = t1
    t2 = t2
    Free = Free
    Threads <- MCThreads
    MaxStarts = 2
    Ops <- MCAllOps
    Faults <- MCAllFaults
INVARIANTS
    TypeOK
    NoOrphan
    RunningMeansReady
PROPERTIES
    ImplementsClientIface
    EarlyRequestIsStale
    StartStopReturn
CHECK_DEADLOCK FALSE
