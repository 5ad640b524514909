SPECIFICATION FairSpec
CONSTANTS
    Size = 3
    Chunk = 2
    Lengths = {1, 3, 5}
    Bytes = 7
    Calls = {"peek", "flush", "stop"}
INVARIANTS
    StreamKept
    AvailableIsReadable
PROPERTIES
    ReadsEnd
CHECK_DEADLOCK FALSE
