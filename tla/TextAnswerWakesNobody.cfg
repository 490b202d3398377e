SPECIFICATION FairSpec
CONSTANTS
    m1 = m1
    m2 = m2
    None = None
    Messages = {m1}
    MaxRequests = 1
    Budget <- OneText
    Runtime = "vendor"
    HarnessEnabled = TRUE
    TimeoutsOn = FALSE
    LocalBus = TRUE
PROPERTY AnswerWakesTurn
