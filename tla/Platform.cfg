\* Maintenance: two replicas, two jobs, two mishaps, a lease of one tick.
\* Limiter: two calls, from either of two addresses, for one mailbox.
SPECIFICATION PlatformSpec
CONSTANTS
    Replicas = {n1, n2}
    CleanupJobs <- MCCleanupJobs
    LeaseDuration = 1
    MaxAge = 1
    MaxBatches = 2
    MaxRows = 1
    MaxArrivals = 1
    MaxMishaps = 2
    Ghost = Ghost
    Vacant = Vacant
    Kinds = {"login"}
    Addresses = {a1, a2}
    Mailboxes = {m1}
    Calls = {c1, c2}
    Backends = {"memory", "redis"}
    IPLimit = 1
    KeyLimit = 1
    IPWindow = 1
    KeyWindow = 2
    CleanupEvery = 1
    MaxEntries = 2
    MaxLag = 1
    Overrun = 0
INVARIANTS
    OneCleaner
PROPERTIES
    WindowHolds
    BatchesFenced
    LeaseKept
    RowsDeleted
    BucketsReopen
CHECK_DEADLOCK FALSE
