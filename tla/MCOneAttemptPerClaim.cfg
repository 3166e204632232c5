\* A tenant whose first provider fails and whose work raises after its second.
SPECIFICATION Spec
CONSTANTS
    t1 = t1
    t2 = t2
    p1 = p1
    p2 = p2
    Notices = {1, 2}
    Tenants = {t1, t2}
    Providers = {p1, p2}
    Destinations <- SomeDestinations
    Openings <- SomeOpenings
    NoTenant = NoTenant
    Runs = {r1, r2}
    MaxAttempts = 2
    BatchSize = 2
    MaxDeaths = 1
    MaxLapses = 1
INVARIANT OneAttemptPerClaim
CHECK_DEADLOCK FALSE
