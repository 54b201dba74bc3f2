SPECIFICATION Spec
CONSTANTS
    d1 = d1
    d2 = d2
    f1 = f1
    root = root
    Root = root
    Nothing = Nothing
    Folder = {d1, d2}
    File = {f1}
    Up <- ChainUp
    Name <- ChainName
    Limit = 1
    Client = {c1, c2}
    Worker = {w1, w2}
    MaxRequests = 3
    MaxFaults = 1
INVARIANTS
    TypeOK
    RestoringHasJob
    TrashReaches
SYMMETRY Symmetry
CHECK_DEADLOCK FALSE
