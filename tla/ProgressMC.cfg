SPECIFICATION Spec
CONSTANTS
    c1 = c1
    c2 = c2
    NoCall = NoCall
    r1 = r1
    p1 = p1
PROPERTIES
    EveryCallEnds
    ServiceResumes
    ThreadsMoveOn
CHECK_DEADLOCK FALSE
