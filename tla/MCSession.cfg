CONSTANTS
    oscNumber = 2
    NumberText <- MCNumberText
    maxDigits = 1
    maxSequence = 9
    Chunks <- MCChunks
    MaxReads = 2
    InputCap = 1
    Sizes = {1, 2}
    MaxResizes = 2
    MayCancel = TRUE
    SendInterval = 1
    shutdownRetries = 3
    ShutdownTimeout = 1
SPECIFICATION FairSpec
INVARIANTS EscapesTranslated HandshakeBounded
PROPERTIES Ends SizeSynced
CHECK_DEADLOCK FALSE
