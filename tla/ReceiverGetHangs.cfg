\* One server, which closes the connection.
SPECIFICATION LiveSpec
CONSTANTS
    NumTiles = 1
    ClientQueue = 2
    DecoderQueue = 2
    OutputQueue = 6
    MaxTime = 1
    MaxPackets = 1
    Unordered = {}
    Faults = {"close"}
PROPERTIES
    GetReturnsAtEnd
CHECK_DEADLOCK FALSE
