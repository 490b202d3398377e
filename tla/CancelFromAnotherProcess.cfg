SPECIFICATION Spec
CONSTANTS
    Engines = {e1, e2}
    Home = e1
    NumItems = 2
    Concurrency = 1
    MaxAttempts = 1
    Overlap = FALSE
    MaxRuns = 1
    MaxCancels = 1
    MaxCrashes = 0
    MaxFaults = 0
PROPERTY CancelStopsTheJob
CHECK_DEADLOCK FALSE
