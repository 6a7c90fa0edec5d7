SPECIFICATION FairSpec
CONSTANTS
    BYTE = 256
    MAX_OPS = 35
    Paths = {p}
    NoPath = NoPath
    NoAddress = NoAddress
    HostHashes = {h}
    ZeroHash = ZeroHash
    Chunks <- MCWhole
    MAX_RAW_TX = 2
    RawLengthBound = 3
    U2F_REQUEST_TIMEOUT = 300
    TICK = 100
    UINT16 = 65536
    MEDIA = {"usb", "u2f"}
    HostPolls = FALSE
    HostUploads = FALSE
    IntervalSurvives = TRUE
PROPERTIES
    U2fIsAnswered
