CONSTANTS
    remote = remote
    backup = backup
    temp = temp
    a = a
    x = x
    y = y
    Gens = {remote, backup, temp}
    Remote = {remote, backup}
    Orders <- Lists
    Starts <- Different
    Edits <- One
    Keys = {a}
    Values = {x, y}
    Null = null
    None = none
    Interval = 1
    MaxTime = 1
    Budget = 2
SPECIFICATION Spec
INVARIANTS
    ReplicasConsistent
    ReplicasAgree
    WatchersKeepUp
PROPERTIES
    Settles
    Reconnects
CHECK_DEADLOCK FALSE
