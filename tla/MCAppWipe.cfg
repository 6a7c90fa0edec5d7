SPECIFICATION Spec
CONSTANTS
    BYTE = 256
    MAX_OPS = 35
    Paths = {p}
    NoPath = NoPath
    NoAddress = NoAddress
    HostHashes = {h}
    ZeroHash = ZeroHash
    Chunks <- MCPieces
    MAX_RAW_TX = 2
    RawLengthBound = 3
    U2F_REQUEST_TIMEOUT = 200
    TICK = 100
    UINT16 = 65536
    MEDIA = {"usb"}
    HostPolls = TRUE
    HostUploads = TRUE
    IntervalSurvives = FALSE
INVARIANTS
    ErrorWipesContext
