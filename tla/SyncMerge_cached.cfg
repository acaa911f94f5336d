SPECIFICATION Spec
CONSTANTS
    None = None
    Limits = {1, 3}
    MaxLog = 6
CHECK_DEADLOCK FALSE
INVARIANTS
    SameRoom
    NoHole
