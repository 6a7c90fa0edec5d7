CONSTANTS
    BYTE = 4
    SIZE = 3
    SEQUENCE = 0
    INTEGER = 1
    Signatures <- MCSignatures
SPECIFICATION FairSignSpec
INVARIANTS
    SignTypeOK
    AnswerLooksCanonical
    AnswerIsTheSignature
PROPERTY EveryRequestIsSigned
