SPECIFICATION ScopedSpec
CONSTANTS
    worker = worker
    ringleader = ringleader
    Agent <- Agents
    Orchestrator <- Ringleader
    Scope <- SafetyScopes
    MaxThreads = 2
    MaxObjects = 3
    MaxSessions = 2
    MaxLeaving = 1
    MaxStarts = 2
    MaxPauses = 1
    MaxFailures = 1
    Visit = {1}
    OrderedWrites = TRUE
    CalmStart = TRUE
INVARIANTS
    PausedStaysDark
    
    OneThread
CHECK_DEADLOCK FALSE
