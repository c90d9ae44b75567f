SPECIFICATION Spec
CONSTANTS
    Call = {c1, c2}
    NoCall = NoCall
    MaxStarts = 2
    MaxEnds = 1
    MaxCloses = 1
    MaxErrors = 0
    MaxRegistrations = 1
INVARIANTS
    OneLiveSession
