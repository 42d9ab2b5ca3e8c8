CONSTANTS
    MaxKeys = 0
    PatientKeys = 4
    Clients = {c1}
    MayThrow = FALSE
SPECIFICATION Spec
INVARIANT RestartIsClean
CHECK_DEADLOCK FALSE
