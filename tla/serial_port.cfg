\* The node stops when close() throws.
CHECK_DEADLOCK FALSE
SPECIFICATION FairSpec
CONSTANTS
    Fds = {1, 2, 3}
    ReadTotal = 3
    WriteTotal = 1
    InterByte = 2
    Wrap = 8
    MaxSize = 2
    Late = 3
INVARIANTS
    ConnectedIsOpen
    OneDescriptor
    ReadWaitsInTime
PROPERTIES
    OperationEnds
