SPECIFICATION Spec
CONSTANTS
    Keys = {k1, k2}
    Malformed = malformed
    Unset = unset
    MaxRules = 2
    MaxKeys = 3
    MaxList = 2
INVARIANTS
    TypeOK
    ModeAgreesWithServer
    RequestIsWellFormed
CHECK_DEADLOCK FALSE
