SPECIFICATION Spec
CONSTANTS
    MaxInbound = 3
    MaxWrites = 1
    MaxPings = 1
    AheadBacklog = 0
    PauseAt = 2
    ResumeAt = 1
    Habits = {"raises", "swallows_cancel"}
    Disturbances = {"violation", "slow_client", "eof", "lost", "keepalive", "shutdown"}
INVARIANTS
    CloseIsLast
    HeldUntilDecided
    CloseToldTruly
    DisconnectLast
    SessionEndsWithTask
PROPERTIES
    GoodbyeAtShutdown
    AnsweredNotDropped
CHECK_DEADLOCK FALSE
