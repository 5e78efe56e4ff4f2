SPECIFICATION FairSpec
CONSTANTS
    MaxInbound = 1
    MaxWrites = 1
    MaxPings = 1
    AheadBacklog = 1
    PauseAt = 1
    ResumeAt = 0
    Habits = {}
    Disturbances = {"ahead", "prologue", "violation", "slow_client", "lost", "keepalive", "late_upgrade"}
INVARIANTS
    ResponseBeforeHandshake
PROPERTIES
    HandshakeAnswered
    PingResolved
    KeepsContract
CHECK_DEADLOCK FALSE
