CONSTANTS
    BYTE = 256
    UINT16 = 65536
    UINT32 = 16777216
    CHAR_SIGNED = TRUE
    MAX_OPS = 35
    Contents <- MCContents
    KEYS = 1
    Plans <- MCPlans
SPECIFICATION Spec
INVARIANTS
    TypeOK
    VarintsComeBack
PROPERTIES
    ImplementsCells
CHECK_DEADLOCK FALSE
