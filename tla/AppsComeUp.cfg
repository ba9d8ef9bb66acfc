SPECIFICATION FairSpec
CONSTANTS
    a1 = a1
    a2 = a2
    w1 = w1
    w2 = w2
    Apps = {a1}
    NoWindowApps = {}
    Wakers = {w1}
    WakeBudget = 1
    MaxFaults = 1
    MaxUpsets = 1
    Races = {}
PROPERTY ShownComesUp
CHECK_DEADLOCK FALSE
