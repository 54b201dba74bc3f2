SPECIFICATION Spec
CONSTANTS
    Call = {c1, c2}
    Page = Page
    User = {u1}
    Nobody = Nobody
    NoToken = NoToken
    MaxVisits = 2
PROPERTIES
    RefreshIsTried
CHECK_DEADLOCK FALSE
