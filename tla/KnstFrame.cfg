CONSTANTS
    Messages = {"m1", "m2"}
    CHUNK_PAYLOAD = 2
    MAX_CHUNKS = 3
    MaxBody = 7
SPECIFICATION Spec
INVARIANTS
    WholeOrNothing
    RefusedNotCut
CHECK_DEADLOCK FALSE
