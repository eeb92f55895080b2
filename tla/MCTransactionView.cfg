SPECIFICATION ViewSpec
CONSTANTS
    HIGH = 4
    SIGNATURE_BYTES = 2
    MAX_SIGNATURES = 2
    LEGACY_V0_RAW_LIMIT = 40
    V1_RAW_LIMIT = 44
    PUBKEY_BYTES = 2
    BLOCKHASH_BYTES = 1
    U32_BYTES = 4
    U64_BYTES = 8
    MAX_STATIC_ACCOUNTS_PER_PACKET = 2
    MAX_V1_STATIC_ACCOUNTS = 2
    MAX_ADDRESS_TABLE_LOOKUPS_PER_PACKET = 2
    MAX_INSTRUCTIONS = 2
    MIN_V1_HEAP_SIZE = 4
    MAX_V1_HEAP_SIZE = 6
    HEAP_UNIT = 2
    NoValue = NoValue
    Inputs <- MCInputs
INVARIANTS
    ViewTypeOK
    ReadingIsFaithful
    AcceptedIsSane
    SaneIsAccepted
    ClassifyAgrees
CHECK_DEADLOCK FALSE
