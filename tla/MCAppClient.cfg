SPECIFICATION Spec
CONSTANTS
    BYTE = 256
    MAX_OPS = 35
    Paths = {p, q}
    NoPath = NoPath
    NoAddress = NoAddress
    HostHashes = {h}
    ZeroHash = ZeroHash
    Chunks <- MCPieces
    MAX_RAW_TX = 2
    RawLengthBound = 2
    U2F_REQUEST_TIMEOUT = 200
    TICK = 100
    UINT16 = 65536
    MEDIA = {"u2f"}
    HostPolls = TRUE
    HostUploads = TRUE
    IntervalSurvives = TRUE
SYMMETRY PathSymmetry
INVARIANTS
    WhatIsShownIsSigned
    PromptIsRequested
    AnswerIsRequested
    KeepAliveIsDue
PROPERTIES
    PromptIsFrozen
    AnswerIsNotPutOff
    ImplementsApproval
