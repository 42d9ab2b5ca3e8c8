CONSTANTS
    MaxSessions = 1
    Script <- WrongLogin
    Quitters = {}
    SlowPeers = {}
    AcceptMayFail = FALSE
    MaxSweeps = 0
    Capacities = {1}
    InitialCapacity = 1
SPECIFICATION Spec
CHECK_DEADLOCK FALSE
INVARIANT DropIsClean
