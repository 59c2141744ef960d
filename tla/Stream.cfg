\* Encoder: two encoders, as many clouds ahead as there are encoders.
\* Viewer: more clouds than fit in its queue, its hand and the source's.
SPECIFICATION StreamSpec
CONSTANTS
    NumEncoders = 2
    Window = 2
    MaxClouds = 3
    QueueSize = 2
    MaxGrabbed = 5
INVARIANTS
    AllTypesOK
    DeliveredInOrder
    NothingSkipped
PROPERTIES
    PromiseKept
    FedIsAvailable
    CloseReturns
    ViewerEnds
    FirstIsShown
CHECK_DEADLOCK FALSE
