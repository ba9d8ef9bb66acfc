SPECIFICATION Spec
CONSTANTS
    m1 = m1
    m2 = m2
    o1 = o1
    s1 = s1
    s2 = s2
    k1 = k1
    k2 = k2
    Messages = {m1}
    Other = o1
    Stops = {s1}
    Taps = {}
    MaxAttempts = 2
    MaxSessions = 2
    MaxCrashes = 1
    MaxForeign = 1
    Oddities = {"ambiguous", "hammerRace", "pressFails", "cancelStalls"}
INVARIANT NoneLost
PROPERTY NeverRevived
CHECK_DEADLOCK FALSE
