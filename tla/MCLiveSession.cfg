SPECIFICATION Spec
CONSTANTS
    MaxU64 = 3
    Epochs = {1, 2}
    None = None
    Codes = {"Unavailable"}
    initial_delay = 1
    maximum_delay = 2
    maximum_attempts = 2
    MaxU32 = 3
    MaxAttachments = 2
    MaxOutage = 3
    Keys = {k}
    Malformed = malformed
    Unset = unset
    MaxRules = 2
    MaxKeys = 1
    MaxList = 1
    Traffic <- MCTraffic
    Filters <- MCFilters
    MaxPublished = 3
INVARIANTS
    TypeOK
    NoFalseAlarm
    DeliveredIsPrefix
    NothingLostWhileOpen
