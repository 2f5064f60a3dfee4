CONSTANTS
    Key = {7, 200}
    Size = {300}
    MaxEvents = 5
    MaxRead = 2
    Width = 65536
    MaxBytes = 3
    MaxVersion = 255
    BlockSize = 4
    Poly = 141
    TableSize = 5
    AES <- MCAES
    UnAES <- MCUnAES
SPECIFICATION StreamSpec
INVARIANTS
    DiffRebuildsStream
    CodecFaithful
    SealFaithful
CHECK_DEADLOCK FALSE
