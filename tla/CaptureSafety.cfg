\* K4ACapture: two cameras, two application threads, everything that may go
\* wrong.  FrameSync: two cameras, all recordings of up to three frames.
\* PointClouds: two tiles, two places, three objects, of which the third may
\* be made of the other two.
SPECIFICATION CaptureSpec
CONSTANTS
    NumCameras = 2
    Consumers = {t1, t2}
    MaxClouds = 3
    MaxStarts = 2
    MaxCalls = 3
    Faults = {"start", "capture", "generate", "eof"}
    Kinds = {"kinect", "realsense", "orbbec"}
    MaxTime = 4
    MaxSeeks = 1
    FrameFaults = {"read", "depth"}
    Extent = 2
    MaxObjects = 3
    MaxItems = 1
    MaxInput = 2
    t1 = t1
    t2 = t2
INVARIANTS
    AllTypesOK
    CloudOwnership
    FreshIsComplete
    NoWakeupLost
    NoLeakBeforeRestart
    FramesFit
    Accounted
    TileTellsCameras
PROPERTIES
    NoUnreadOverwritten
    NoCloudBehindEof
    ImplementsSource
    CloudsAdvance
SYMMETRY ConsumerSymmetry
CHECK_DEADLOCK FALSE
