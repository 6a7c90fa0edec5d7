SPECIFICATION Spec
CONSTANTS
    Media = {"usb", "u2f"}
    BodySizes = {0, 4, 101}
INVARIANTS
    TypeOK
    NoCommandIsLeft
PROPERTY OneAnswerEach
CHECK_DEADLOCK FALSE
