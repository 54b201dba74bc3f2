SPECIFICATION Spec
CONSTANTS
    u1 = u1
    u2 = u2
    e1 = e1
    e2 = e2
    User = {u1, u2}
    Email = {e1, e2}
    Address <- OneEach
    Shareable <- Everyone
    Bucket = {b}
    Group = {"owner", "viewer"}
    Caller = {c1, c2}
    Nobody = Nobody
    InviteId = {i1, i2, i3}
    MaxRequests = 3
    MaxFaults = 0
INVARIANTS
    HasOwner
SYMMETRY Symmetry
CHECK_DEADLOCK FALSE
