SPECIFICATION ScopedFairSpec
CONSTANTS
    Scope = {"links"}
    MaxBorn = 2
    MaxForks = 3
    Nested = {2}
    Cmd = {}
    MaxConn = 4
    MaxEvents = 0
    MaxDrops = 1
    MaxBacklog = 1
    MaxAttempts = 1
PROPERTIES
    InstancesComeToRest
CHECK_DEADLOCK FALSE
