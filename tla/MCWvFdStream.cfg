CONSTANTS
    Programs <- ReaderAndWriter
    Separators = {2}
    MaxQueue = 2
    Limits = {0, 2}
    MaxCallback = 1
    SizeMod = 65536
SPECIFICATION Spec
INVARIANTS
    StreamConsistent
    SentInOrder
    ReceivedInOrder
    CloseLosesNothing
