SPECIFICATION BackgroundSpec
CONSTANTS
    r1 = r1
    r2 = r2
    p1 = p1
    a1 = a1
    a2 = a2
    none = none
    Request = {r1, r2}
    Pid = {p1}
    MaxCrashes = 2
    MaxReloads = 1
    MaxPtys = 2
    MaxFailures = 1
    MaxCalls = 3
    MaxUserActs = 2
    MaxPrompts = 2
    MaxOutputs = 2
    MaxRetries = 1
    MaxAsides = 2
    MaxRefusals = 2
    LateFailures = FALSE
    EarlyEchoes = FALSE
INVARIANTS
    
    
    OutputIsKept
PROPERTIES
    
    OperationsAreWanted
    HostsServeTheirTerminals
CHECK_DEADLOCK FALSE
