SPECIFICATION FairSpec
CONSTANTS
    Writers = {w1, w2}
    Commands <- MCCommands
    NoWriter = NoWriter
    NoProject = NoProject
    MaxFaults = 1
INVARIANTS
    LogInv
    AcknowledgedIsStored
PROPERTIES
    ImplementsAtomicAppend
    ImplementsCommitFeed
    Answered
