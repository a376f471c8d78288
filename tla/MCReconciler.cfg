SPECIFICATION FairSpec
CONSTANTS
    a = a
    b = b
    c1 = c1
    c2 = c2
    Names <- MCOneName
    Callers <- MCTwoCallers
    Kinds = {"auto"}
    MaxChanges = 1
    MaxApi = 1
INVARIANTS
    TypeOK
    SnapshotApplied
    RefreshOnlyWhenStale
PROPERTIES
    ClientNeverReplaced
    CutUntilStopped
    Converges
