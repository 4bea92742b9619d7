CONSTANTS
    BlockLen = 4
    MaxRead = 6
    MaxOut = 30
SPECIFICATION Spec
INVARIANTS
    OutIsTheStream
CHECK_DEADLOCK FALSE
