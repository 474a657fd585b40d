CONSTANTS
    c1 = c1
    k1 = k1
    k2 = k2
    v1 = v1
    c2 = c2
    Root = root
    Null = null
    Empty = empty
    Clients = {c1, c2}
    Keys = {k1, k2}
    Values = {v1}
    Cached = {c2}
    Ops = {"get", "set", "iterator", "recursiveiterator", "cache_refresh"}
    CallbackOps = {"set"}
    Faults = {"timeout", "break"}
    Scenarios <- TwoAtOnce
    ContinueSelectAt = 1
SPECIFICATION Spec
CHECK_DEADLOCK FALSE
SYMMETRY Symmetry
INVARIANTS
    RequestsConsistent
    GetIsCurrent
    ListingIsFaithful
    ViewConverges
