\* One event, two workers, clocks that may be one tick behind, changing settings,
\* a fault or a restart in the first ticks, notifications never guaranteed.
SPECIFICATION PartsSpec
CONSTANTS
    Events = {e1, e2}
    Workers = {w1, w2}
    MaxTime = 3
    Skew = 1
    MaxStaleAfter = 1
    FirstDelay = 1
    LaterDelay = 1
    MaxAttempts = 2
    MaxFaults = 1
    MaxRestarts = 1
    LastFault = 1
    None = None
INVARIANTS
    WakesKept
PROPERTIES
    ImplementsLeaseQueue
    EventsSettle
CHECK_DEADLOCK FALSE
