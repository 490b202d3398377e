SPECIFICATION FairSpec
CONSTANTS
    Engines = {e1, e2}
    Home = e1
    NumItems = 2
    Concurrency = 2
    MaxAttempts = 2
    Overlap = FALSE
    MaxRuns = 2
    MaxCancels = 1
    MaxCrashes = 1
    MaxFaults = 1
INVARIANTS
    FinishedMeansSettled
    NoItemInTwoHands
PROPERTIES
    CompletedStays
    EveryRunEnds
CHECK_DEADLOCK FALSE
