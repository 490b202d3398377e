SPECIFICATION FairSpec
CONSTANTS
    a1 = a1
    a2 = a2
    b1 = b1
    c1 = c1
    sa = sa
    sb = sb
    sc = sc
    NoRequest = NoRequest
    Requests <- ThreeSessions
    SessionOf <- MCSessionOf
    Sessions = {sa, sb, sc}
    Limit = 2
INVARIANTS
    TypeOK
    OneTurnPerSession
    SlotsRespected
    NoSlotIdlesWhileTurnWaits
    NotBusyMeansFinished
    ArrivalOrder
PROPERTIES
    ImplementsScheduler
    EveryRequestServed
    PublishersReturn
