SPECIFICATION Spec
CONSTANTS
    r1 = r1
    r2 = r2
    Room = {r1, r2}
    NoRoom = NoRoom
    ServerLog <- TwoRooms
    Overlap = TRUE
    AtomicRemoval = TRUE
    AtomicReset = TRUE
    MaxCrashes = 1
INVARIANTS
    NothingMissed
