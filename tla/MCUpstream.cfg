CONSTANTS
    k1 = k1
    s1 = s1
    Key = {k1}
    Size = {s1}
    MaxSentStates = 3
    EraseFromEnd = 2
    shutdownRetries = 2
    ShutdownNum = 9
    MaxEvents = 2
    MaxEmptyAcks = 1
SPECIFICATION FairSpec
CONSTRAINT UserScript
INVARIANTS
    TypeOK
    StatesAgree
    FrontHeld
    QueueSorted
    AckedQuitDelivers
PROPERTIES
    NoRegress
    ImplementsStateSync
    Delivered
    QuitEnds
CHECK_DEADLOCK FALSE
