\* A failed handshake leaves its thread waiting for itself.
SPECIFICATION FairSpec
CONSTANTS
    a = a
    t1 = t1
    t2 = t2
    t3 = t3
    Threads <- MCThreads
    Names <- MCNames
    MaxClients = 2
    Ops <- MCAllOps
    Failing = {a}
INVARIANTS
    TypeOK
    OrphansAreLate
    LockOrder
PROPERTIES
    ImplementsClientIface
    ImplementsRegistry
    EveryCallReturns
CHECK_DEADLOCK FALSE
