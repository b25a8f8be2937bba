SPECIFICATION CarrySpec
CONSTANTS
    Bytes = 4
    Values = 3
CHECK_DEADLOCK FALSE
INVARIANT SuccessorIsNext
