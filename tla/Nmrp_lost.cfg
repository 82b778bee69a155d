SPECIFICATION FairSpec
CONSTANTS
    FileLen <- MCFileLen
    SeqMod = 4
    Limit = 6
    ReqLimit = 1
    CloseLimit = 1
    MaxWire = 2
    MaxLost = 1
PROPERTY UploadEnds
CHECK_DEADLOCK FALSE
