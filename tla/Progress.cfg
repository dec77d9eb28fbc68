SPECIFICATION FairSpec
CONSTANTS
    Packages = {p1, p2}
    PipeSize = 2
    BufSize = 2
    SockSize = 3
    MaxWrites = 3
INVARIANTS
    LogComplete
    LiveIsRunning
    StopAtFull
    SuccessIsReal
PROPERTIES
    MonitorEnds
CHECK_DEADLOCK FALSE
