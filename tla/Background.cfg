\* Email: two workers with clocks that may be one tick behind, any delays, and a
\* fault in the first ticks.  Settings: two servers and the session policy.
\* Lifecycle: three background workers, and two requests at a time.
SPECIFICATION BackgroundSpec
CONSTANTS
    Jobs = {n1}
    Workers = {n1, n2}
    MaxTime = 4
    Skew = 1
    Window = 3
    StaleAfter = 1
    RetryBaseDelay = 2
    RetryMaxDelay = 3
    MaxAttempts = 2
    MaxFaults = 1
    LastFault = 2
    None = None
    Servers = {n1, n2}
    Settings = {"access", "refresh", "session", "rotation", "required", "enabled"}
    Values = {1, 2, 3}
    Default <- MCDefault
    EnvValue <- MCEnvValue
    Deliverable = TRUE
    MaxRevision = 2
    MaxMisses = 1
    BackgroundWorkers = {n1, n2, n3}
    FailureBuffer = 2
    MaxRequests = 2
INVARIANTS
    SettingsTypeOK
    SendsBounded
    ResourcesClosed
PROPERTIES
    ImplementsLeaseQueue
    JobsSettle
    RemovalsKept
    ServersConverge
    ProcessEnds
CHECK_DEADLOCK FALSE
