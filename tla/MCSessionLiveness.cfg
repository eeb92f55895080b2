SPECIFICATION FairSpec
CONSTANTS
    MaxU64 = 2
    Epochs = {1, 2}
    None = None
    Codes = {"Unavailable", "PermissionDenied"}
    initial_delay = 1
    maximum_delay = 2
    maximum_attempts = 1
    MaxU32 = 3
    MaxAttachments = 1
    MaxOutage = 2
    Keys = {k}
    Malformed = malformed
    Unset = unset
    MaxRules = 2
    MaxKeys = 1
    MaxList = 1
    Traffic <- MCTraffic
    Filters <- MCFilters
    MaxPublished = 2
PROPERTIES
    ArrivedIsDelivered
