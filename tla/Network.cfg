\* OutSize is that of the code, two places: both threads that stop the server
\* put a None.  MaxKept fills both queues and every hand.
SPECIFICATION Spec
CONSTANTS
    Consumers = {t1, t2}
    CloseWakes = TRUE
    MaxClouds = 2
    MaxConnections = 2
    MaxStarts = 2
    MaxCalls = 2
    Clients = {c1}
    InSize = 1
    OutSize = 2
    MaxKept = 5
    MaxLossy = 1
    Ingests = {i1}
    Receivers = {r1, r2}
    MaxQueue = 1
    MaxPackets = 2
    Oneshot = TRUE
    t1 = t1
    t2 = t2
    c1 = c1
    i1 = i1
    r1 = r1
    r2 = r2
INVARIANTS
    TypeOK
    ConnectionsKept
    NobodyLeftAsleep
    Forwarded
    OthersCostLittle
PROPERTIES
    StopReturnsUnlessLate
    ProxyIsSource
    ProgramEnds
CHECK_DEADLOCK FALSE
