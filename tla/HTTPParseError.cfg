SPECIFICATION FairSpec
CONSTANTS
    MaxRequests = 1
    MaxChunks = 1
    MaxWrites = 0
    PauseAt = 2
    ResumeAt = 0
    Habits = {}
    Disturbances = {"malformed"}
PROPERTIES
    ParseErrorCloses
\* A closed connection stops.
CHECK_DEADLOCK FALSE
