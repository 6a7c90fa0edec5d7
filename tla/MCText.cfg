CONSTANTS
    Letters = {"a", "b", "x", "S", "Y", "T", "E", "M"}
    WORD = 1073741824
    AMOUNT_MAX_SIZE = 11
    POINTER = 4
    Below = {"x"}
    Behind <- MCBehind
    Values <- MCValues
SPECIFICATION Spec
INVARIANTS
    TypeOK
    ShowsTheValue
