SPECIFICATION FairSpec
CONSTANTS
    Clients = {c1}
    Buffer = 2
    PageSize = 2
    InitialHead = 1
    MaxPosition = 3
    MaxFaults = 2
INVARIANTS
    GaplessDelivery
    NothingLost
PROPERTIES
    ImplementsDelivery
    CatchesUp
CHECK_DEADLOCK FALSE
