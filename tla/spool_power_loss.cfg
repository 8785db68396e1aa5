SPECIFICATION Spec
CONSTANTS
    r1 = r1
    r2 = r2
    r3 = r3
    None = None
    Requests <- TwoRequests
    MaxDepth = 2
    FsyncEnabled = TRUE
    Faults <- AllFaults
    ClockMayStepBack = FALSE
    HostMayFail = TRUE
    MaxCrashes = 2
SYMMETRY Symmetry
INVARIANTS
    
    WholeSignalsOnly

    
