CONSTANTS
    MaxKeys = 4
    PatientKeys = 6
    Clients = {c1, c2}
    MayThrow = TRUE
SPECIFICATION FairSpec
INVARIANTS
    TypeOK
    FlagTellsTruth
    SetUpByRestart
    ProcessSurvives
PROPERTIES
    StopCompletes
    StartServes
CHECK_DEADLOCK FALSE
