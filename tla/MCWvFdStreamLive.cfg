CONSTANTS
    Programs <- Finishers
    Separators = {}
    MaxQueue = 0
    Limits = {}
    MaxCallback = 0
    SizeMod = 65536
SPECIFICATION FairSpec
PROPERTIES
    BufferedOutputIsSent
    StreamsEnd
