SPECIFICATION Spec
CONSTANTS
    c1 = c1
    c2 = c2
    g1 = g1
    g2 = g2
    None = None
    Calls <- TwoCalls
    Gateways <- OneGateway
    LastDay = 2
    Faults <- DirSyncFault
    MaxTries = 2
    MaxCrashes = 0
    HostMayFail = FALSE
CHECK_DEADLOCK FALSE
INVARIANT FailedSyncIsRetried
