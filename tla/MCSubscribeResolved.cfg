SPECIFICATION MainSpec
CONSTANTS
    MaxU64 = 4
    Epochs = {1, 2}
    None = None
    Codes = {"Unavailable"}
INVARIANT SucceedsOnlyComplete
CHECK_DEADLOCK FALSE
