SPECIFICATION AuditSpec
CONSTANTS
    r1 = r1
    r2 = r2
    r3 = r3
    dA = dA
    dB = dB
    None = None
    Requests <- TwoRequests
    MaxDepth = 2
    FsyncEnabled = FALSE
    Faults <- ReadFaults
    ClockMayStepBack = FALSE
    HostMayFail = TRUE
    MaxCrashes = 1
    Digest <- RetriedDigest
    OneCaller = FALSE
    MaxAuditCount = 2
INVARIANTS
    
    DeliveredIsRecorded
    StuckAuditIsVisible
 
