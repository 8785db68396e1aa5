SPECIFICATION Spec
CONSTANTS
    r1 = r1
    r2 = r2
    r3 = r3
    None = None
    Requests <- ThreeRequests
    MaxDepth = 2
    FsyncEnabled = FALSE
    Faults <- CrashFaults
    ClockMayStepBack = FALSE
    HostMayFail = FALSE
    MaxCrashes = 1
SYMMETRY Symmetry
INVARIANTS
    SubmissionOrder
    NoLostWakeup
    DepthAccounting
