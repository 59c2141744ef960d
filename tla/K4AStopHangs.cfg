\* No faults at all, one camera, one application thread.
SPECIFICATION LiveSpec
CONSTANTS
    NumCameras = 1
    Consumers = {t1}
    MaxClouds = 2
    MaxStarts = 1
    MaxCalls = 1
    Faults = {}
    t1 = t1
PROPERTIES
    StopReturns
CHECK_DEADLOCK FALSE
