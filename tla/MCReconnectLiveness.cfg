SPECIFICATION FairSpec
CONSTANTS
    MaxU64 = 1
    Epochs = {1}
    None = None
    Codes = {"Unavailable", "PermissionDenied"}
    initial_delay = 1
    maximum_delay = 5
    maximum_attempts = 3
    MaxU32 = 3
    MaxAttachments = 2
    MaxOutage = 4
PROPERTIES
    RetryCompletes
