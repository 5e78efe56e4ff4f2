SPECIFICATION Spec
CONSTANTS
    Scenarios <- MCScenarios
    Habits <- AllHabits
    Cancels = TRUE
INVARIANTS
    RoutedRight
    PlanIsRight
    ScalarsFirst
    ClosedAfterUsers
    ClosedAfterResponse
    AllClosed
    AnsweredOrRaised
