CONSTANTS
    MaxSessions = 2
    Script <- OneJoins
    Quitters = {2}
    SlowPeers = {}
    AcceptMayFail = FALSE
    MaxSweeps = 1
    Capacities = {2}
    InitialCapacity = 2
SPECIFICATION FairSpec
CHECK_DEADLOCK FALSE
INVARIANT NoGhosts
PROPERTY BrokenAreReleased
