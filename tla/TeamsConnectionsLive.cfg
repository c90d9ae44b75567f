SPECIFICATION ScopedFairSpec
CONSTANTS
    worker = worker
    ringleader = ringleader
    Agent <- Workers
    Orchestrator <- Nobody
    Scope <- LiveScopes
    MaxThreads = 1
    MaxObjects = 2
    MaxSessions = 2
    MaxLeaving = 1
    MaxStarts = 2
    MaxPauses = 1
    MaxFailures = 1
    Visit = {1}
    OrderedWrites = TRUE
    CalmStart = TRUE
PROPERTIES
    SessionsDecide
CHECK_DEADLOCK FALSE
