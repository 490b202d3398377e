SPECIFICATION FairSpec
CONSTANTS
    m1 = m1
    m2 = m2
    None = None
    Messages = {m1, m2}
    MaxRequests = 2
    Budget <- StopAndSendFailure
    Runtime = "vendor"
    HarnessEnabled = TRUE
    TimeoutsOn = TRUE
    LocalBus = TRUE
INVARIANT NoLostWakeup
PROPERTY EveryMessageServed
