SPECIFICATION FairSpec
CONSTANTS
    Request = {q1, q2, q3}
    None = None
    Careful = TRUE
    Calls = {"start", "pause", "resume", "backgroundSync", "reconnect", "close", "preventPause", "active"}
    MaxStream = 2
    MaxCalls = 3
    MaxErrors = 2
CHECK_DEADLOCK FALSE
INVARIANTS
    OneLoop
    PausedIdle
    Driven
PROPERTIES
    InOrder
    ResumeAnswered
    Recovers
