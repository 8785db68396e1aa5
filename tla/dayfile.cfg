SPECIFICATION Spec
CONSTANTS
    c1 = c1
    c2 = c2
    g1 = g1
    g2 = g2
    None = None
    Calls <- TwoCalls
    Gateways <- TwoGateways
    LastDay = 2
    Faults <- AllFaults
    MaxTries = 2
    MaxCrashes = 2
    HostMayFail = TRUE
CHECK_DEADLOCK FALSE
SYMMETRY Symmetry
INVARIANTS
    AckedIsDurable
    OnlyOfItsDay
