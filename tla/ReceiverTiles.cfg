\* Two tiles, every queue with one place, so that every queue gets full.
SPECIFICATION Spec
CONSTANTS
    NumTiles = 2
    ClientQueue = 1
    DecoderQueue = 1
    OutputQueue = 1
    MaxTime = 2
    MaxPackets = 2
    Unordered = {2}
    Faults = {"close", "error", "decode"}
INVARIANTS
    TypeOK
    Synchronized
CHECK_DEADLOCK FALSE
