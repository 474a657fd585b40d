CONSTANTS
    p1 = p1
    p2 = p2
    p3 = p3
    Procs = {p1, p2, p3}
    None = none
    Scenarios <- AllParts
    Chunks = 2
    Budget = 4
    Signals = 2
    MaxFaults = 1
SPECIFICATION Spec
INVARIANTS
    
    FileIsOldOrNew
PROPERTIES
    SoloLockDecides
    SignalsTakeEffect
CHECK_DEADLOCK FALSE
