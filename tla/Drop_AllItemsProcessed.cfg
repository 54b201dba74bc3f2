SPECIFICATION Spec
CONSTANTS
    d1 = d1
    d2 = d2
    f1 = f1
    f2 = f2
    d3 = d3
    File = {f1, f2}
    Folder <- Paths
    Root <- RootPath
    Drop = {d1, d2, d3}
    Items <- MCItems
    PathIn <- MCPathIn
    Open <- Shown
INVARIANT AllItemsProcessed
CHECK_DEADLOCK FALSE
