SPECIFICATION Spec
CONSTANTS
    NumCameras = 1
    Consumers = {t1}
    MaxClouds = 2
    MaxStarts = 1
    MaxStops = 1
    MaxCalls = 1
    DoneAtCreation <- DoneZeroed
    t1 = t1
PROPERTIES
    ImplementsSource
CHECK_DEADLOCK FALSE
