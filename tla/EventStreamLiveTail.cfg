SPECIFICATION Spec
CONSTANTS
    Clients = {c1}
    Buffer = 2
    PageSize = 2
    InitialHead = 1
    MaxPosition = 3
    MaxFaults = 0
INVARIANT OpenedStreamMissesNothing
CHECK_DEADLOCK FALSE
