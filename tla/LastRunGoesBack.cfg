SPECIFICATION Spec
CONSTANTS
    p1 = p1
    p2 = p2
    l1 = l1
    l2 = l2
    Processes = {p1, p2}
    Lanes = {l1, l2}
    MaxAtWork = 2
    NumAutomations = 2
    MaxMinute = 2
    WallMinutes = {"first", "last"}
    Wall <- MCWall
    Schedule <- MCSchedule
    MaxByHand = 1
PROPERTY LastRunAtGrows
CHECK_DEADLOCK FALSE
