SPECIFICATION Spec
CONSTANTS
    NoEvent = NoEvent
    File = {f1}
    Worker = {w1}
    MaxUnmarks = 1
PROPERTIES
    RestoreSkipsDeletion
CHECK_DEADLOCK FALSE
