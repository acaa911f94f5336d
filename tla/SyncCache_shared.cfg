SPECIFICATION FairSpec
CONSTANTS
    None = None
    Careful = TRUE
    MaxStream = 2
    MaxChunks = 2
    MaxSyncs = 2
    MaxKills = 1
CONSTRAINT Followed
CHECK_DEADLOCK FALSE
INVARIANTS
    NoGap
    Chained
    KeysKept
PROPERTIES
    Served
