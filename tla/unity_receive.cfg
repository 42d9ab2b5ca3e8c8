CONSTANTS
    Others = 2
    MaxUpdates = 2
    Parts = 2
    max_data_rate = 1
SPECIFICATION FairSpec
INVARIANTS
    TypeOK
    HandledInOrder
    HandshakeUntorn
PROPERTIES
    HandshakeProceeds
    EndsAtClose
CHECK_DEADLOCK FALSE
