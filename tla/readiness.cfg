SPECIFICATION ReadySpec
CONSTANTS
    r1 = r1
    r2 = r2
    None = None
    Requests <- TwoRequests
    MaxDepth = 2
    FsyncEnabled = TRUE
    Faults <- SomeFaults
    ClockMayStepBack = FALSE
    HostMayFail = FALSE
    MaxCrashes = 1
    DepthRatio = 95
    MaxSpoolFsyncFailures = 1
VIEW View
SYMMETRY Symmetry
INVARIANTS
    StaleBacklogIsRed
    EmptyAnswerIsTrue
    DrainedIsGreen
