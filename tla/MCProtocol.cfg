\* Callers that wait for a dead server, or for a wedged reader, are stuck: that is the code.
SPECIFICATION FairSpec
CONSTANTS
    c1 = c1
    c2 = c2
    Callers <- MCCallers
    NoCaller = NoCaller
    MaxID = 2
    MaxCopies = 2
    ServerIDs <- MCServerIDs
    PipeCap = 1
    MayDie = TRUE
INVARIANTS
    TypeOK
    PendingExact
    NoLostResponse
    WedgeNeedsThreeLines
PROPERTIES
    ImplementsRpc
    EveryCallReturns
CHECK_DEADLOCK FALSE
