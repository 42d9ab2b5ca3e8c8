CONSTANTS
    MaxMessages = 3
    Parts = 3
    Takes = {1, 2, 3}
    Window = 4
SPECIFICATION FairSpec
INVARIANTS
    TypeOK
    OwnBytesInOrder
    StreamUntilCut
PROPERTIES
    WritesEnd
CHECK_DEADLOCK FALSE
