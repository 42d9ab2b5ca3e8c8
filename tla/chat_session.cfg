CONSTANTS
    ServerFrames = 4
    AnyFrames = 3
    MaxUpdates = 2
    Parts = 2
    MayBreak = TRUE
SPECIFICATION FairSpec
INVARIANTS
    TypeOK
    UpdatesNameParticipant
    AnswersInTurn
    OneTimer
PROPERTIES
    WritesTheStream
    UpdatesGoOn
    Quits
    AllWritten
CHECK_DEADLOCK FALSE
