SPECIFICATION Spec
CONSTANTS
    MaxRequests = 2
    MaxChunks = 0
    MaxWrites = 1
    PauseAt = 1
    ResumeAt = 0
    Habits = {"raises", "ignores_body"}
    Disturbances = {"malformed", "upgrade", "slow_client", "lost", "shutdown"}
INVARIANTS
    ResponsesInOrder
    CloseHonoured
    LoneTimeout
PROPERTIES
    KeepsPromises
\* A closed connection stops.
CHECK_DEADLOCK FALSE
