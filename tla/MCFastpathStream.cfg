SPECIFICATION Spec
CONSTANTS
    MaxU64 = 5
    Epochs = {1, 2}
    None = None
    Codes = {"Unavailable", "PermissionDenied"}
INVARIANTS
    TypeOK
    ValidatorRecordsFeed
    FeedIsContinuous
PROPERTIES
    ErrorsAreTerminal
    ImplementsOrderedFeed
