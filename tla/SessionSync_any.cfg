SPECIFICATION Spec
CONSTANTS
    Request = {q1, q2, q3}
    None = None
    Careful = FALSE
    Calls = {"start", "pause", "resume", "backgroundSync", "reconnect", "close", "preventPause", "active"}
    MaxStream = 1
    MaxCalls = 3
    MaxErrors = 1
CHECK_DEADLOCK FALSE
INVARIANTS
    TypeOK
    PauseHonoured
PROPERTIES
    OneForOne
    StaysQuiet
