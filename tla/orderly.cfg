CONSTANTS
    MaxSessions = 2
    Script <- Orderly
    Quitters = {}
    SlowPeers = {1}
    AcceptMayFail = TRUE
    MaxSweeps = 0
    Capacities = {2}
    InitialCapacity = 2
SPECIFICATION FairSpec
CHECK_DEADLOCK FALSE
INVARIANTS
    ServiceStaysUp
PROPERTY
    GhostsVanish
