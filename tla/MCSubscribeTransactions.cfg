SPECIFICATION FairSpec
CONSTANTS
    MaxU64 = 3
    Epochs = {1, 2}
    None = None
    Codes = {"Unavailable"}
    MaxReasonBytes = 128
    Keys = {k}
    Malformed = malformed
    Unset = unset
    MaxRules = 2
    MaxKeys = 2
    MaxList = 1
    Traffic <- MCTraffic
    Settings <- MCSettings
    MaxPublished = 3
INVARIANTS
    TypeOK
    NoFalseAlarm
    LegalMessageFits
    EachObservedOnce
PROPERTY
    Terminates
