\* RealSense recordings, without any fault.
SPECIFICATION Spec
CONSTANTS
    Kinds = {"realsense"}
    NumCameras = 2
    MaxTime = 5
    MaxSeeks = 1
    FrameFaults = {}
INVARIANTS
    SeekIsHeeded
CHECK_DEADLOCK FALSE
