SPECIFICATION Spec
CONSTANTS
    g1 = g1
    g2 = g2
    g3 = g3
    g4 = g4
    p1 = p1
    p2 = p2
    p3 = p3
    p4 = p4
    nobody = nobody
    Alphabet <- Characters
    Gateways <- FourGateways
    Salt <- Salts
    Pepper <- Peppers
    Keying <- Keyings
    Threshold = 10000
    Precision = 1
    Inputs <- AllInputs
    MaxSent = 2
INVARIANTS
    MosaicsJoinPeople
    RoutesCanBeFollowed
    BankScopeStaysInBank
    SignalIDsAreKeys
    ZoneIsCell
    BucketHoldsInstant
    FallbackUnambiguous
CHECK_DEADLOCK FALSE
