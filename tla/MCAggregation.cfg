\* A failed handshake leaves its thread waiting for itself.
SPECIFICATION FairAggSpec
CONSTANTS
    a = a
    q1 = q1
    q2 = q2
    h = h
    Threads <- MCThreads
    Names <- MCNames
    MaxClients = 2
    Ops <- MCOps
    Failing = {a}
    Requests <- MCRequests
INVARIANTS
    AllAccounted
    FalseWarningsAreRaces
PROPERTIES
    EveryRequestAnswered
CHECK_DEADLOCK FALSE
