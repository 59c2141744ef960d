\* No symmetry: TLC does not support it with liveness.  MaxClouds exceeds the
\* number of requests the calls can make, so the cameras never run dry.
SPECIFICATION EitherSpec
CONSTANTS
    NumCameras = 1
    Consumers = {t1, t2}
    MaxClouds = 4
    MaxStarts = 1
    MaxCalls = 3
    Faults = {"start", "capture"}
    t1 = t1
    t2 = t2
PROPERTIES
    GetReturns
    StopReturnsIfHeard
CHECK_DEADLOCK FALSE
