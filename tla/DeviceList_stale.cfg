SPECIFICATION Spec
CONSTANTS
    u1 = u1
    User = {u1, u2}
    Operation = {o1, o2, o3}
    None = None
    NoPool = NoPool
    RoomUser = {u1}
    MaxVersion = 2
    MaxRestarts = 1
    Careful = FALSE
SYMMETRY Alike
CHECK_DEADLOCK FALSE
INVARIANTS
    UpToDateIsFresh
