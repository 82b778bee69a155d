SPECIFICATION FairSpec
CONSTANTS
    FileLen <- MCFileLen
    SeqMod = 4
    Limit = 6
    ReqLimit = 2
    CloseLimit = 2
    MaxWire = 2
    MaxLost = 2
INVARIANTS TypeOK TimerArmed WriteWhole EarlyOnce SavedOnce
PROPERTIES SessionCloses UploadCompletes
CHECK_DEADLOCK FALSE
