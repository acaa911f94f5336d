SPECIFICATION Spec
CONSTANTS
    r1 = r1
    r2 = r2
    Room = {r1, r2}
    NoRoom = NoRoom
    ServerLog <- InviteLeaveAndRejoin
    Overlap = FALSE
    AtomicRemoval = TRUE
    AtomicReset = TRUE
    MaxCrashes = 2
INVARIANTS
    TypeOK
    NothingMissed
    NoGhost
    Erased
