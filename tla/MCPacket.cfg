CONSTANTS
    TsMod = 16
    SeqNums = 4
    HoldLimit = 3
    MaxLag = 1
    Start = 13
    MaxClock = 18
    MaxSends = 2
SPECIFICATION PacketSpec
INVARIANTS
    RttAccurate
    EchoFaithful
CHECK_DEADLOCK FALSE
