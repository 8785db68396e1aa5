SPECIFICATION FairSpec
CONSTANTS
    r1 = r1
    r2 = r2
    Unset = Unset
    Malformed = Malformed
    Requests <- TwoRequests
    Environments <- SomeEnvironments
    Files <- SomeFiles
CHECK_DEADLOCK FALSE
INVARIANTS
    OnlyLateAreCut
    OrderlyEnd
    AcceptedIsUsable
PROPERTIES
    SignalEndsProcess
