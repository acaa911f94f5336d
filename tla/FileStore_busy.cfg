SPECIFICATION FairSpec
CONSTANTS
    r1 = r1
    r2 = r2
    Room = {r1}
    NoRoom = NoRoom
    ServerLog <- LeaveOnce
    Overlap = TRUE
    AtomicRemoval = FALSE
    AtomicReset = FALSE
    MaxCrashes = 1
INVARIANTS
    OneBackup
    DurableAtRest
PROPERTIES
    Drains
