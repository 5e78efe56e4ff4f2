SPECIFICATION FairSpec
CONSTANTS
    MaxRequests = 2
    MaxChunks = 0
    MaxWrites = 0
    PauseAt = 1
    ResumeAt = 0
    Habits = {"raises", "listens", "swallows_cancel", "abandons"}
    Disturbances = {"slow_client", "lost", "eof"}
INVARIANTS
    DisconnectObserved
PROPERTIES
    TasksReaped
\* A closed connection stops.
CHECK_DEADLOCK FALSE
