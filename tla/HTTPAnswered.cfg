SPECIFICATION FairSpec
CONSTANTS
    MaxRequests = 2
    MaxChunks = 1
    MaxWrites = 0
    PauseAt = 2
    ResumeAt = 0
    Habits = {"listens"}
    Disturbances = {"malformed", "slow_client"}
PROPERTIES
    RequestsAnswered
    ReadingResumes
\* A closed connection stops.
CHECK_DEADLOCK FALSE
