SPECIFICATION Spec
CONSTANTS
    MaxU64 = 3
    Epochs = {1, 2}
    None = None
    Codes = {"Unavailable"}
    MaxReasonBytes = 2
INVARIANTS
    TypeOK
    OneEpoch
    ValidatorsAgree
PROPERTIES
    ErrorsAreTerminal
    ImplementsResolvedFeed
    ImplementsUnresolvedFeed
