CONSTANTS
    Payload <- MCPayload
    Chunk = {1, 2}
    FinalBit = 4
    MaxID = 3
    MaxInjected = 2
SPECIFICATION Spec
INVARIANTS
    NoMixing
    RetransmissionCompletes
CHECK_DEADLOCK FALSE
