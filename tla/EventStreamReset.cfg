\* A client whose cursor lies beyond the end of a log that was reset.
CONSTANTS
    Clients = {c1}
    Buffer = 2
    PageSize = 2
    InitialHead = 1
    MaxPosition = 3
    MaxFaults = 0
SPECIFICATION Spec
PROPERTY ReceivedFramesAreProcessed
CHECK_DEADLOCK FALSE
