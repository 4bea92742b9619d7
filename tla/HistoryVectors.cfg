CONSTANTS
    BASE = 10
    LEN_BYTES = 1
    MAX_RECORD_BYTES = 3
    MaxEdits = 2
SPECIFICATION Vectors
INVARIANTS
    PhaseLegalityChecked
CHECK_DEADLOCK FALSE
