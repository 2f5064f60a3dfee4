CONSTANTS
    portHopInterval = 1
    QueueCap = 1
    MaxSends = 1
    MaxClock = 2
    MaxSocks = 2
    MaxSeq = 0
SPECIFICATION Spec
INVARIANT OneDialPerSend
CHECK_DEADLOCK FALSE
