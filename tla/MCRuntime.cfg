SPECIFICATION FairRuntimeSpec
CONSTANTS
    a = a
    b = b
    main = main
    retry = retry
    h1 = h1
    Threads <- MCThreads
    Names <- MCTwoNames
    MaxClients = 2
    Ops <- MCOps
    Failing <- MCTwoNames
    Main = main
    MainBound <- MCMainBound
INVARIANTS
    SurvivorsAreLate
    MainContextLeavesNothing
PROPERTIES
    ShutdownEnds
    OneServerBlocksMain
CHECK_DEADLOCK FALSE
