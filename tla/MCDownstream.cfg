CONSTANTS
    f1 = f1
    f2 = f2
    Key = {f1, f2}
    Size = {}
    MaxSentStates = 3
    EraseFromEnd = 2
    shutdownRetries = 2
    ShutdownNum = 9
    MaxEvents = 2
    MaxEmptyAcks = 1
    MaxApplyFailures = 1
SPECIFICATION FairSpec
CONSTRAINT ScreenScript
INVARIANTS
    RenderedIsLatest
    AckOnlyRendered
    ServerExitsRendered
PROPERTIES
    ImplementsStateSync
    Converges
CHECK_DEADLOCK FALSE
