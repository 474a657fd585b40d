CONSTANTS
    p = p
    c = c
    None = none
    Streams = {p, c}
    Suspending = {c}
    MaxTime = 2
    Delays = {1}
    MaxDepth = 2
    Budget = 3
SPECIFICATION Spec
INVARIANTS
    ListConsistent
    RemovedStreamsDoNotRun
    AlarmNotEarly
PROPERTIES
    ReadyStreamsRun
    AlarmsRing
CHECK_DEADLOCK FALSE
