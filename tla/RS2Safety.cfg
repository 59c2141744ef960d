\* No symmetry: TLC does not support it with liveness.  MaxClouds exceeds the
\* number of requests that two calls make before they return.
SPECIFICATION LiveSpec
CONSTANTS
    NumCameras = 2
    Consumers = {t1, t2}
    MaxClouds = 3
    MaxStarts = 1
    MaxStops = 1
    MaxCalls = 2
    DoneAtCreation <- DoneZeroed
    t1 = t1
    t2 = t2
INVARIANTS
    TypeOK
    FreshIsComplete
PROPERTIES
    NoUnreadOverwritten
    SourceUntilStop
    GetReturns
    StopReturnsIfHeard
CHECK_DEADLOCK FALSE
