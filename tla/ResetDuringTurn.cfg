SPECIFICATION Spec
CONSTANTS
    m1 = m1
    m2 = m2
    None = None
    Messages = {m1, m2}
    MaxRequests = 1
    Budget <- OneReset
    Runtime = "local"
    HarnessEnabled = TRUE
    TimeoutsOn = TRUE
    LocalBus = TRUE
PROPERTY ResetSticks
