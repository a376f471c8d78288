SPECIFICATION FairSpec
CONSTANTS
    r1 = r1
    r2 = r2
    r3 = r3
    ta = ta
    tb = tb
    Runtimes <- MCRuntimes
    Tenants <- MCTenants
    TenantOf <- MCTenantOf
    Versions <- MCVersions
    Known <- MCKnown
    MaxFails = 1
INVARIANTS
    TypeOK
    VersionOrder
    UpIsMigrated
PROPERTIES
    ImplementsMigrations
    EveryRuntimeComesUp
CHECK_DEADLOCK FALSE
