CONSTANTS
    Runs = {r1, r2}
    Tenants = {t1, t2}
    TTL = 2
    Nobody = Nobody
SPECIFICATION FairSpec
INVARIANTS
    NoOverlapWithinTTL
    EveryTenantAccounted
PROPERTIES
    LockIsFreedAgain
CHECK_DEADLOCK FALSE
