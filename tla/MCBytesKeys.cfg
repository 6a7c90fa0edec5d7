CONSTANTS
    BYTE = 256
    UINT16 = 65536
    UINT32 = 16777216
    CHAR_SIGNED = TRUE
    MAX_OPS = 35
    Contents <- MCContents
    KEYS = 2
    Plans <- AccountPlans
SPECIFICATION Spec
INVARIANT ShowsFirstKeys
CHECK_DEADLOCK FALSE
