SPECIFICATION Spec
CONSTANTS
    FRAME_HEADER_BYTES = 256
    FRAME_BODY_CAPACITY = 10
    KEY_BYTES = 3
    MetadataSet <- MCMetadata
    ParsedTransactions <- MCTransactions
    MaxLoaded = 2
    MaxDamage = 12
INVARIANTS
    TypeOK
    EncodeIsAtomic
    AcceptedIsAuthentic
CHECK_DEADLOCK FALSE
