CONSTANTS
    d1 = d1
    d2 = d2
    d3 = d3
    t1 = t1
    t2 = t2
    t3 = t3
    t4 = t4
    v1 = v1
    v2 = v2
    Null = null
    Top = top
    Conts = {d1, d2, d3}
    Tasks = {t1, t2, t3, t4}
    Values = {v1, v2}
    Small = {d3}
    MaxHandles = 2
SPECIFICATION Spec
SYMMETRY Symmetry
INVARIANTS
    ContsConsistent
    SuspendedTasksAreOwned
PROPERTIES
    ImplementsSemicoroutines
