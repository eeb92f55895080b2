SPECIFICATION Spec
CONSTANTS
    MaxU64 = 3
    Epochs = {1, 2}
    None = None
    Codes = {"Unavailable", "PermissionDenied"}
    initial_delay = 2
    maximum_delay = 5
    maximum_attempts = 4
    MaxU32 = 3
    MaxAttachments = 2
    MaxOutage = 6
INVARIANTS
    TypeOK
    NothingWithheld
    RetriesWithinBudget
    SubscribesAfterBackoff
PROPERTIES
    BackoffGrows
    ImplementsResettingFeed
