SPECIFICATION Spec
CONSTANTS
    Tasks = {1, 2, 3}
    FanIn = 0
    Unknown = 9
    Plans <- MCPlans
    MaxConcurrency = 2
    MaxAttempts = 2
    MaxBusFailures = 1
PROPERTY NothingStartsAfterwards
CHECK_DEADLOCK FALSE
