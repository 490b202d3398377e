SPECIFICATION Spec
CONSTANTS
    m1 = m1
    m2 = m2
    None = None
    Messages = {m1, m2}
    MaxRequests = 2
    Budget <- TwoClicks
    Runtime = "local"
    HarnessEnabled = FALSE
    TimeoutsOn = TRUE
    LocalBus = TRUE
INVARIANT NoOrphanInProgress
