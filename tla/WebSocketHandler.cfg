SPECIFICATION Spec
CONSTANTS
    MaxCalls = 5
    MaxMessages = 2
    Debug = TRUE
INVARIANTS
    ClosedOnce
    ToldTruly
    NeverDangles
PROPERTIES
    KeepsContract
