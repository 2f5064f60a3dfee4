CONSTANTS
    portHopInterval = 1
    QueueCap = 1
    MaxSends = 2
    MaxClock = 4
    MaxSocks = 3
    MaxSeq = 1
SPECIFICATION FairSpec
INVARIANTS
    NoSeqTwice
    SocketsOwned
PROPERTIES
    HopsSpaced
    SocketsReleased
CHECK_DEADLOCK FALSE
