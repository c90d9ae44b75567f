SPECIFICATION ScopedSpec
CONSTANTS
    Scope = {"command", "queue", "events"}
    MaxBorn = 2
    MaxForks = 2
    Nested = {}
    Cmd = {r1, r2}
    MaxConn = 3
    MaxEvents = 2
    MaxDrops = 1
    MaxBacklog = 1
    MaxAttempts = 1
SYMMETRY CmdSymmetry
VIEW ScopeView
INVARIANTS
    NobodyIsStranded
    SessionAgreement
    OnlyAnotherInstanceRetires
    FramesInOrder
PROPERTY
    CommandsKeepTheirPromise
CHECK_DEADLOCK FALSE
