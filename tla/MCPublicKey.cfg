CONSTANTS
    BASE = 9
    DIGITS = 5
    Inputs <- MCInputs
    Olens = {0, 100}
    Alphabet <- MCAlphabet
    KEY_SIZE = 2
    Checksums <- MCChecksums
    BUF_SIZE = 8
    SUMMARY = 2
SPECIFICATION FairSpec
INVARIANTS
    TypeOK
    DigitsAreTheBytes
    TextIsTheData
    ShowsEndsOfBase32
PROPERTIES
    Returns
    EndComesNearer
CHECK_DEADLOCK FALSE
