SPECIFICATION Spec
CONSTANTS
    o1 = o1
    o2 = o2
    o3 = o3
    a1 = a1
    a2 = a2
    MaxShows = 2
    MaxRequests = 1
INVARIANTS
    KeysReachOne
    
    

    
CHECK_DEADLOCK FALSE
