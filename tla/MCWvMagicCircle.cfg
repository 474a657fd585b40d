CONSTANTS
    Byte = {0, 1}
    N = 3
SPECIFICATION Spec
INVARIANTS
    TypeOK
    RegionsDisjoint
    IndicesNeverCross
    CopiedDataStable
PROPERTY
    ImplementsFifo
