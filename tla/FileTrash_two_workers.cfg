SPECIFICATION Spec
CONSTANTS
    NoEvent = NoEvent
    File = {f1}
    Worker = {w1, w2}
    MaxUnmarks = 2
INVARIANTS
    TypeOK
    ContentKept
    TrashExpiryPending
    UploadNoticed
PROPERTIES
    ImplementsLifecycle
CHECK_DEADLOCK FALSE
