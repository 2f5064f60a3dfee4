CONSTANTS
    oscNumber = 2
    NumberText <- MCNumberText
    maxDigits = 3
    maxSequence = 9
    Pieces <- MCPieces
    MaxCalls = 4
SPECIFICATION FilterSpec
INVARIANTS OutputAsOnePiece InputByChunk
CHECK_DEADLOCK FALSE
