SPECIFICATION FairSpec
CONSTANTS
    t1 = t1
    t2 = t2
    Turns = {t1, t2}
    None = None
    Queued = FALSE
    MaxIterations = 2
    MaxCalls = 2
    MaxStops = 1
    MaxPauses = 1
INVARIANTS
    CallsAreAnswered
    ModelKnowsWhatRan
    BudgetKept
    StopReachesTheRun
PROPERTIES
    StopEndsTurn
CHECK_DEADLOCK FALSE
