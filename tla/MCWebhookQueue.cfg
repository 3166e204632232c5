\* Two notices of two providers or of two tenants, two runs that overlap and a worker that dies.
SPECIFICATION FairSpec
CONSTANTS
    t1 = t1
    t2 = t2
    p1 = p1
    p2 = p2
    Notices = {1, 2}
    Tenants = {t1, t2}
    Providers = {p1, p2}
    Destinations <- SomeDestinations
    Openings <- SomeOpenings
    NoTenant = NoTenant
    Runs = {r1, r2}
    MaxAttempts = 2
    BatchSize = 2
    MaxDeaths = 1
    MaxLapses = 1
INVARIANTS ClaimedByOne BudgetBoundsTries ProcessedWasReread
PROPERTY EveryNoticeSettles
CHECK_DEADLOCK FALSE
