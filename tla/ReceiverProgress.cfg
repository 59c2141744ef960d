\* Nothing fails, but servers may fall silent at any time.
SPECIFICATION LiveSpec
CONSTANTS
    NumTiles = 2
    ClientQueue = 1
    DecoderQueue = 1
    OutputQueue = 1
    MaxTime = 2
    MaxPackets = 2
    Unordered = {}
    Faults = {}
PROPERTIES
    
    StopReturnsUnlessStuck
CHECK_DEADLOCK FALSE
