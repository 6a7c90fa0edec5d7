SPECIFICATION Spec
CONSTANTS
    BYTE = 256
    MAX_OPS = 35
    Paths = {p}
    NoPath = NoPath
    NoAddress = NoAddress
    HostHashes = {h}
    ZeroHash = ZeroHash
    Chunks <- MCChunks
    MAX_RAW_TX = 3
    RawLengthBound = 4
    U2F_REQUEST_TIMEOUT = 200
    TICK = 100
    UINT16 = 65536
    MEDIA = {"usb"}
    HostPolls = FALSE
    HostUploads = FALSE
    IntervalSurvives = FALSE
INVARIANTS
    TypeOK
    WhatIsShownIsSigned
    FormatterFitsAction
    HashPromptIsHonest
    PromptIffCommand
    NoStrayAnswer
    LengthIsHonest
PROPERTIES
    PromptIsFrozen
