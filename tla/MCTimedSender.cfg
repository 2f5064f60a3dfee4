CONSTANTS
    sendInterval = 2
    sendMindelay = 1
    ackDelay = 3
    ackInterval = 8
    Timeout = 2
    LoopMax = 2
    shutdownRetries = 3
    ShutdownNum = 99
    SendMayFail = TRUE
    QuitAllowed = TRUE
    MaxClock = 9
    MaxEvents = 2
SPECIFICATION Spec
INVARIANTS
    Prompt
    RetransmitPrompt
    Keepalive
    Paced
CHECK_DEADLOCK FALSE
