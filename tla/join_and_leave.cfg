CONSTANTS
    MaxSessions = 2
    Script <- AnyAndLeave
    Quitters = {1, 2}
    SlowPeers = {}
    AcceptMayFail = FALSE
    MaxSweeps = 0
    Capacities = {2}
    InitialCapacity = 2
SPECIFICATION Spec
CHECK_DEADLOCK FALSE
INVARIANTS
    TypeOK
    OneReadLoop
    MembersAreRead
    AdmittedOnlyWithLogin
    NoGhosts
    MutualAwareness
    FarewellsAreFinal
