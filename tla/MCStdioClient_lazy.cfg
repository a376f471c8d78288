SPECIFICATION Spec
CONSTANTS
    t1 = t1
    t2 = t2
    Free = Free
    Threads <- MCOneThread
    MaxStarts = 1
    Ops = {"lazy"}
    Faults <- MCNoFaults
INVARIANTS
    LazyStartServesCall
CHECK_DEADLOCK FALSE
\* A call whose server is killed waits for ever: that is the code.
