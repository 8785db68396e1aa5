SPECIFICATION FairSpec
CONSTANTS
    r1 = r1
    r2 = r2
    r3 = r3
    None = None
    Requests <- TwoRequests
    MaxDepth = 1
    FsyncEnabled = FALSE
    Faults <- ForwarderFaultKinds
    ClockMayStepBack = TRUE
    HostMayFail = FALSE
    MaxCrashes = 1
PROPERTIES
    EventuallySettled
    ShutdownCompletes
