SPECIFICATION FairSpec
CONSTANTS
    d1 = d1
    d2 = d2
    f1 = f1
    root = root
    Root = root
    Nothing = Nothing
    Folder = {d1, d2}
    File = {f1}
    Up <- ChainUp
    Name <- ChainName
    Limit = 1
    Client = {c1}
    Worker = {w1}
    MaxRequests = 3
    MaxFaults = 1
PROPERTIES
    TrashEnds
    RestoreEnds
    PurgeEnds
CHECK_DEADLOCK FALSE
