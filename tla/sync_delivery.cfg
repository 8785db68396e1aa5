SPECIFICATION FairSpec
CONSTANTS
    c1 = c1
    c2 = c2
    tA = tA
    Calls <- TwoCalls
    Transaction <- SameTransaction
    MaxRetries = 2
    AttemptTimeout = 10
    WriteTimeout = 40
    BodyTicks <- NoTime
    AttemptTicks <- FastOrStuck
    AuditTicks <- NoTime
INVARIANTS
    OkIsRecorded
    UnrecordedIsCounted
    OneDeliveryPerCall
    AnsweredInTime
PROPERTY
    EveryCallEnds
CHECK_DEADLOCK FALSE
