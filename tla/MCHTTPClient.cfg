SPECIFICATION FairSpec
CONSTANTS
    t1 = t1
    t2 = t2
    Threads <- MCThreads
    MaxSessions = 2
    MaxClients = 2
    Ops <- MCAllOps
INVARIANTS
    TypeOK
    CurrentSessionNotified
    FullMetadataHasClientID
PROPERTIES
    EveryOperationReturns
