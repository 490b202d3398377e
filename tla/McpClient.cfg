SPECIFICATION FairSpec
CONSTANTS
    c1 = c1
    c2 = c2
    Calls = {c1, c2}
    None = None
    MaxRestarts = 1
    MaxCrashes = 2
PROPERTIES
    OnlyRestartsLeaveOrphans
    OnlyInvalidationForgets
    SettlesUnlessForgotten
CHECK_DEADLOCK FALSE
