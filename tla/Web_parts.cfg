SPECIFICATION Spec
CONSTANTS
    file = file
    folder = folder
    me = me
    p1 = p1
    dirA = dirA
    dirB = dirB
    docF = docF
    Item = {file, folder}
    Folders = {folder}
    Group = {"contributor", "viewer"}
    MaxRequests = 1
    MaxEntered = 5
    ColorTheme = {"default", "darkmatter", "quantum_rose"}
    MaxLoads = 3
    Field = {"first_name", "last_name"}
    Value = {"v", "w"}
    Target = {"/", "bucket"}
    Home = "/"
    NoTarget = NoTarget
    MaxSent = 2
    Person = {me, p1}
    Me = me
    Level = {"owner", "viewer"}
    BucketName = {"old", "new"}
    MaxPatches = 2
    Invitee = {p1}
    Right = {"viewer", "owner"}
    MaxBuckets = 2
    Dir = {dirA, dirB}
    Doc = {docF}
    Top = Top
    PageSize = 1
    Happens = {"FILE_DOWNLOADED", "FOLDER_CREATED"}
    SearchLimit = 2
    MaxStamp = 3
    RowItem = {file, folder, docF}
INVARIANTS
    TypeOK
    OverlayWhileOver
    ThemeApplied
    SavesInOrder
    ToldIsShown
    OffersHold
    SignInHolds
    FormIsSaved
    RenameKept
    ShareHolds
    
    FeedHolds
    DialogHolds
CHECK_DEADLOCK FALSE
