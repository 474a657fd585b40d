CONSTANTS
    d1 = d1
    d2 = d2
    t1 = t1
    t2 = t2
    v1 = v1
    Null = null
    Top = top
    Conts = {d1, d2}
    Tasks = {t1, t2}
    Values = {v1}
    Small = {}
    MaxHandles = 2
SPECIFICATION FairSpec
PROPERTIES
    DyingContsAreFreed
