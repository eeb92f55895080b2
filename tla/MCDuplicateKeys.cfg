SPECIFICATION Spec
CONSTANTS
    Keys = {k1, k2}
    Malformed = malformed
    Unset = unset
    MaxRules = 1
    MaxKeys = 3
    MaxList = 2
INVARIANTS
    NoKeyTwiceInARule
CHECK_DEADLOCK FALSE
