SPECIFICATION Spec
CONSTANTS
    Engines = {e1, e2}
    Home = e1
    NumItems = 2
    Concurrency = 1
    MaxAttempts = 1
    Overlap = FALSE
    MaxRuns = 2
    MaxCancels = 0
    MaxCrashes = 1
    MaxFaults = 0
INVARIANT CompletedCoversInput
CHECK_DEADLOCK FALSE
