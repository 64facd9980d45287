SPECIFICATION DocSpec
CONSTANTS
    Char <- MCChar
    Name <- MCName
    Value <- MCValue
    Part <- MCPart
    BufSize <- MCBufSize
    Integer <- MCInteger
    Float <- MCFloat
    Start <- MCStart
    MaxNodes = 4
    MaxDepth = 2
    MaxLong = 1
INVARIANTS
    DocTypeOK
    RoundTrip
    CutIsRefused
    PassesAgree
PROPERTIES
    Delivers
    FullChunks
    DropsAreTold
    WholeIsAccepted
    CallReturns
    ParseReturns
CHECK_DEADLOCK FALSE
