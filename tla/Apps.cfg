SPECIFICATION Spec
CONSTANTS
    a1 = a1
    a2 = a2
    w1 = w1
    w2 = w2
    Apps = {a1}
    NoWindowApps = {a1}
    Wakers = {w1, w2}
    WakeBudget = 1
    MaxFaults = 1
    MaxUpsets = 0
    Races = {}
SYMMETRY Interchange
INVARIANT ListenersOnTheBooks
INVARIANT WakesBounded
PROPERTY StopsOnlyTheUnused
CHECK_DEADLOCK FALSE
