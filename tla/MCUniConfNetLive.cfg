CONSTANTS
    c1 = c1
    v1 = v1
    k2 = k2
    k1 = k1
    Root = root
    Null = null
    Empty = empty
    Clients = {c1}
    Keys = {k1, k2}
    Values = {v1}
    Cached = {c1}
    Ops = {"get", "set", "setv", "haschildren", "commit", "refresh", "quit", "iterator", "recursiveiterator", "cache_refresh"}
    CallbackOps = {"get"}
    Faults = {"timeout", "break"}
    Scenarios <- AllTwice
    ContinueSelectAt = 0
SPECIFICATION FairSpec
CHECK_DEADLOCK FALSE
PROPERTIES
    CallsReturn
