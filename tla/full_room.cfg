CONSTANTS
    MaxSessions = 3
    Script <- ThreeJoin
    Quitters = {1}
    SlowPeers = {}
    AcceptMayFail = FALSE
    MaxSweeps = 0
    Capacities = {1, 2}
    InitialCapacity = 2
SPECIFICATION Spec
CHECK_DEADLOCK FALSE
INVARIANTS
    NoGhosts
PROPERTY
    KeepsContract
