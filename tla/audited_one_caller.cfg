SPECIFICATION AuditSpec
CONSTANTS
    r1 = r1
    r2 = r2
    r3 = r3
    dA = dA
    dB = dB
    None = None
    Requests <- ThreeRequests
    MaxDepth = 2
    FsyncEnabled = FALSE
    Faults <- ReadFaults
    ClockMayStepBack = FALSE
    HostMayFail = FALSE
    MaxCrashes = 1
    Digest <- RetriedDigest
    OneCaller = TRUE
    MaxAuditCount = 2
INVARIANTS
    NoFalseRecord
    DuplicatesBounded
PROPERTY DeliveredNotRejected
