SPECIFICATION FairSpec
CONSTANTS
    Call = {c1, c2, c3}
    User = {u1, u2}
    None = None
CHECK_DEADLOCK FALSE
INVARIANTS
    TypeOK
    OneInFlight
    Covered
PROPERTIES
    Promised
    Returned
