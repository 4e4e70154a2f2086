\* Overrides of the session policy and of the requirement of a verified email,
\* while variables are removed that are read at startup only.  Email and
\* Lifecycle stay in the small instance of Background.cfg.
SPECIFICATION BackgroundSpec
CONSTANTS
    Jobs = {n1}
    Workers = {n1, n2}
    MaxTime = 4
    Skew = 1
    Window = 3
    StaleAfter = 1
    RetryBaseDelay = 2
    RetryMaxDelay = 3
    MaxAttempts = 2
    MaxFaults = 1
    LastFault = 2
    None = None
    Servers = {n1, n2}
    Settings = {"access", "refresh", "session", "rotation", "required", "enabled"}
    Values = {1, 2, 3}
    Default <- MCDefault
    EnvValue <- MCEnvValue
    Deliverable = TRUE
    MaxRevision = 2
    MaxMisses = 1
    BackgroundWorkers = {n1, n2, n3}
    FailureBuffer = 2
    MaxRequests = 2
PROPERTY RemovalsStartable
CHECK_DEADLOCK FALSE
