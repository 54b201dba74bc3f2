SPECIFICATION FairSpec
CONSTANTS
    Call = {c1, c2, c3}
    Page = Page
    User = {u1, u2}
    Nobody = Nobody
    NoToken = NoToken
    MaxVisits = 3
INVARIANTS
    TypeOK
    SingleFlight
PROPERTIES
    DroppedForCause
    CallEnds
CHECK_DEADLOCK FALSE
