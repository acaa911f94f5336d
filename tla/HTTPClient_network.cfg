SPECIFICATION FairSpec
CONSTANTS
    Request = {r1, r2, r3}
    MaxTries = 2
    MaxSends = 2
CHECK_DEADLOCK FALSE
INVARIANTS
    TypeOK
    Once
    NoneStranded
PROPERTIES
    Ended
