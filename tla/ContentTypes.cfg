CONSTANTS
    Values = {0, 23}
    MaxRows = 2
SPECIFICATION Spec
INVARIANTS
    ExactlyOneRow
CHECK_DEADLOCK FALSE
