SPECIFICATION FairSpec
CONSTANTS
    NoEvent = NoEvent
    File = {f1}
    Worker = {w1}
    MaxUnmarks = 1
PROPERTIES
    TrashEnds
    UploadEnds
CHECK_DEADLOCK FALSE
